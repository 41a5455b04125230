---------------------------- MODULE MCBlockSync ----------------------------
(***************************************************************************)
(* Two peers that answer and one that does not; a chain longer than one    *)
(* answer to getblocks, so that the node is led on once (hashContinue).    *)
(***************************************************************************)
EXTENDS BlockSync

CONSTANTS p1, p2, p3

=============================================================================
