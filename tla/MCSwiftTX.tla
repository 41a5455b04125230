----------------------------- MODULE MCSwiftTX -----------------------------
(***************************************************************************)
(* Two transactions that share one of two outputs, three masternodes       *)
(* that are ranked differently at two heights, two votes needed.           *)
(***************************************************************************)
EXTENDS SwiftTX, TLC

CONSTANTS t1, t2, o1, o2, m1, m2, m3

MCTx == {t1, t2}
MCOutpoint == {o1, o2}
MCSpends == (t1 :> {o1, o2}) @@ (t2 :> {o2})
MCMasternode == {m1, m2, m3}
MCPeerVotes == {m1, m2}
MCWalletTx == {t2}
MCPlainTx == {t2}
MCRanked == [h \in Height \cup {0} |-> CASE h = 0 -> {} [] h = 1 -> {m1, m2, m3} [] h = 2 -> {m2}]

=============================================================================
