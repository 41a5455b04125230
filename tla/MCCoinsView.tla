----------------------------- MODULE MCCoinsView -----------------------------
(* CoinsView on three transactions and five blocks: b1 creates t1, b2       *)
(* spends part of t1 and creates t2, b3 spends the rest of t1 and part of   *)
(* t2, and b4 spends everything but the new t3.  A view may go from any     *)
(* block's coins to any other's, forwards as ConnectBlock does, backwards   *)
(* as DisconnectBlock does.                                                 *)
EXTENDS CoinsView, TLC

CONSTANTS t1, t2, t3, full, part, b0, b1, b2, b3, b4

MCCoinsAt ==
    (b0 :> (t1 :> Pruned @@ t2 :> Pruned @@ t3 :> Pruned)) @@
    (b1 :> (t1 :> full @@ t2 :> Pruned @@ t3 :> Pruned)) @@
    (b2 :> (t1 :> part @@ t2 :> full @@ t3 :> Pruned)) @@
    (b3 :> (t1 :> Pruned @@ t2 :> part @@ t3 :> Pruned)) @@
    (b4 :> (t1 :> Pruned @@ t2 :> Pruned @@ t3 :> full))
=============================================================================
