----------------------------- MODULE MCBlockUndo -----------------------------
(* BlockUndo on a chain p1 to p5 with a fork of two blocks after p2 and a   *)
(* block that spends an output again and repeats a transaction of its       *)
(* chain.  Coinbase c1 is spent by two transactions of p3, one of which is  *)
(* also in the fork; p4 has a transaction that spends both outputs of       *)
(* another, and one that spends an output of its own block; f4 spends the   *)
(* coinstake of f3 too early.                                               *)
EXTENDS BlockUndo, TLC

CONSTANTS g, p1, p2, p3, p4, p5, f3, f4, x4,
          c1, c2, c3, c4, c5, s3, k3, pay, join, next, late, again, early

MCTxids == {c1, c2, c3, c4, c5, s3, k3, pay, join, next, late, again, early}

Coinbase == [kind |-> "coinbase", ins |-> <<>>, outs |-> {0}]
Coinstake(o) == [kind |-> "coinstake", ins |-> <<o>>, outs |-> {0, 1}]
Plain(ins, outs) == [kind |-> "plain", ins |-> ins, outs |-> outs]

MCTxWith(ins) ==
    c1 :> [Coinbase EXCEPT !.outs = {0, 1}] @@ c2 :> Coinbase @@ c3 :> Coinbase @@
    c4 :> Coinbase @@ c5 :> Coinbase @@
    s3 :> Coinstake(<<c1, 0>>) @@
    k3 :> Coinstake(<<c1, 0>>) @@
    pay :> Plain(<<<<c1, 1>>>>, {0, 1}) @@
    join :> Plain(<<<<pay, 1>>, <<pay, 0>>>>, {0}) @@
    next :> Plain(<<<<join, 0>>>>, {}) @@
    late :> Plain(ins, {0}) @@
    again :> Plain(<<<<c1, 1>>>>, {0}) @@
    early :> Plain(<<<<k3, 1>>>>, {0})

\* The empty first output of a coinstake is left alone, as wallets do.
MCTx == MCTxWith(<<<<s3, 1>>, <<c2, 0>>>>)

\* Somebody spends it.
MCTxEmptyOutput == MCTxWith(<<<<s3, 0>>, <<s3, 1>>>>)

\* The coinstake of the fork has two inputs, of which the active chain spends the
\* second.
MCTxTwoInputs ==
    [t \in MCTxids |->
        CASE t = c1 -> [Coinbase EXCEPT !.outs = {0, 1, 2}]
          [] t = k3 -> [Coinstake(<<c1, 0>>) EXCEPT !.ins = <<<<c1, 2>>, <<c1, 0>>>>]
          [] OTHER -> MCTx[t]]

MCParent == [b \in Blocks \ {g} |->
    (p1 :> g @@ p2 :> p1 @@ p3 :> p2 @@ p4 :> p3 @@ p5 :> p4 @@
     f3 :> p2 @@ f4 :> f3 @@ x4 :> p3)[b]]

MCTxs == [b \in Blocks |->
    (g :> <<>> @@ p1 :> <<c1>> @@ p2 :> <<c2>> @@ p3 :> <<c3, s3, pay>> @@
     p4 :> <<c4, join, next>> @@ p5 :> <<c5, late>> @@
     f3 :> <<c3, k3, pay>> @@ f4 :> <<c4, join, early>> @@ x4 :> <<c4, again, pay>>)[b]]

\* The fork has three blocks, of which the last has the stake.
MCParentLongFork == [MCParent EXCEPT ![x4] = f4]
MCTxsLongFork ==
    [MCTxs EXCEPT ![f3] = <<c3>>, ![f4] = <<c4>>, ![x4] = <<c5, k3>>]

\* The defaults of AppInit2, which reach below the deepest fork.
Deep == [level |-> 4, depth |-> 9]
MCVerifications == {Deep, [level |-> 4, depth |-> 1]}

\* The default level of verifychain.
MCVerificationsDefault == {[level |-> 3, depth |-> 9]}
=============================================================================
