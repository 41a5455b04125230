----------------------------- MODULE MCMempool -----------------------------
(***************************************************************************)
(* The first block g pays g1 and g2.  a spends g1; b spends an output of a;*)
(* c one of a and one of b; e, which is not valid, another one of a.  x is *)
(* a double spend of g1, y of what c spends of a.  s1 is a coinbase, s2 a  *)
(* coinstake that spends g2; d spends g2 too, and what s1 pays once that   *)
(* is mature.  The blocks put them into the chain in several ways.         *)
(***************************************************************************)
EXTENDS Mempool, TLC

CONSTANTS g, a, b, c, d, e, x, y, s1, s2, s3, g1, g2, a1, a2, a3, b1, s11, p1, p2

MCTx == {g, a, b, c, d, e, x, y, s1, s2, s3}
MCReward == {g, s1, s2, s3}
MCOutpoint == {g1, g2, a1, a2, a3, b1, s11}
MCCreator ==
    (g1 :> g) @@ (g2 :> g) @@ (a1 :> a) @@ (a2 :> a) @@ (a3 :> a) @@ (b1 :> b) @@ (s11 :> s1)
MCSpends ==
    (g :> {}) @@ (a :> {g1}) @@ (b :> {a1}) @@ (c :> {a2, b1}) @@ (d :> {g2, s11}) @@
    (e :> {a3}) @@ (y :> {a2}) @@ (x :> {g1}) @@ (s1 :> {}) @@ (s2 :> {g2}) @@ (s3 :> {})
MCGenesisBlock == <<g>>
MCBlocks ==
    {<<s1>>, <<s1, a>>, <<s1, a, b>>, <<s2, x>>, <<s2, b>>, <<s3>>, <<s3, x>>, <<s3, b, c>>, <<s3, d>>}

=============================================================================
