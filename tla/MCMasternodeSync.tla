-------------------------- MODULE MCMasternodeSync --------------------------
(***************************************************************************)
(* Three peers, one of them too old for the list and the winners.          *)
(***************************************************************************)
EXTENDS MasternodeSync

CONSTANTS p1, p2, p3

MCPeer == {p1, p2, p3}
MCOldPeer == {p3}

=============================================================================
