------------------------ MODULE MCMasternodePayments ------------------------
EXTENDS MasternodePayments, TLC

CONSTANTS n1, n2, m1, m2, p1, p2

MCSelf == (n1 :> m1) @@ (n2 :> None)
MCLevelOf == (p1 :> 1) @@ (p2 :> 1)
MCPayeesAt == (1 :> {p1, p2}) @@ (2 :> {p2})
MCPayment == (1 :> 9) @@ (2 :> 18)
MCRanked == [h \in Height |-> IF h = 1 THEN {m1, m2} ELSE {m1}]
MCHashOrder ==
    [i \in 1 .. 4 * (MaxTip + Ahead) |->
        [height |-> (i - 1) \div 4 + 1,
         payee |-> <<p1, p2>>[((i - 1) % 4) \div 2 + 1],
         mn |-> <<m1, m2>>[((i - 1) % 2) + 1]]]
MCOutdated == (n1 :> {}) @@ (n2 :> {m2})
=============================================================================
