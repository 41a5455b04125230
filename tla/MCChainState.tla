----------------------------- MODULE MCChainState -----------------------------
(* ChainState on trees of five or six blocks.  MCParent has two branches    *)
(* after the genesis block, so that ties, reorganisations, failed           *)
(* reorganisations and returns happen.  MCForkParent has its fork after the *)
(* first block, so that a failure has descendants on two branches.          *)
EXTENDS ChainState, TLC

CONSTANTS g, a1, a2, b1, b2, b3

\* f on the blocks of this instance only.
On(S, f) == [b \in S |-> f[b]]

MCParent == On(Blocks \ {g}, a1 :> g @@ a2 :> a1 @@ b1 :> g @@ b2 :> b1 @@ b3 :> b2)
MCWork == On(Blocks, g :> 1 @@ a1 :> 2 @@ a2 :> 3 @@ b1 :> 2 @@ b2 :> 3 @@ b3 :> 4)

MCForkParent == On(Blocks \ {g}, a1 :> g @@ a2 :> a1 @@ b1 :> a1 @@ b2 :> b1)
MCForkWork == On(Blocks, g :> 1 @@ a1 :> 2 @@ a2 :> 3 @@ b1 :> 3 @@ b2 :> 4)

\* Loaded blocks of equal work may be ordered either way.
MCOneOrder == {On(Blocks, g :> 1 @@ a1 :> 2 @@ a2 :> 3 @@ b1 :> 4 @@ b2 :> 5 @@ b3 :> 6)}
MCAddressOrders ==
    MCOneOrder \cup
    {On(Blocks, g :> 1 @@ a1 :> 6 @@ a2 :> 5 @@ b1 :> 4 @@ b2 :> 3 @@ b3 :> 2)}
=============================================================================
