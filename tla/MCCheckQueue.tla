---------------------------- MODULE MCCheckQueue ----------------------------
(* CheckQueue with two workers and a block of up to four checks, added in   *)
(* any portions.                                                            *)
EXTENDS CheckQueue

CONSTANTS w1, w2, c1, c2, c3, c4
=============================================================================
