----------------------------- MODULE MCAddrMan -----------------------------
(***************************************************************************)
(* Three addresses and two sources, which choose the bucket.  Two buckets  *)
(* of two places in the new table and one in the tried table: all collide  *)
(* in the first new bucket, a2 and a3 in the second, a1 and a2 among the   *)
(* tried; so a tried address that is evicted may delete a new one.         *)
(***************************************************************************)
EXTENDS AddrMan

CONSTANTS a1, a2, a3, s1, s2

MCNewBucket == [x \in Addr \X Source |-> IF x[2] = s1 THEN 0 ELSE 1]
MCNewPos == [x \in Addr \X NB |-> IF x = <<a1, 1>> THEN 1 ELSE 0]
MCTriedBucket == [a \in Addr |-> 0]
MCTriedPos == [a \in Addr |-> IF a = a3 THEN 1 ELSE 0]

=============================================================================
