------------------------------ MODULE UtxoStore ------------------------------
(***************************************************************************)
(* What the stack of CCoinsView objects promises: a transactional map from *)
(* txid to coins.  One scratch copy at a time may be opened on the map,    *)
(* changed, and either published atomically together with the block it     *)
(* belongs to, or dropped.  The published map is made durable as a whole,  *)
(* and a restart falls back to the last durable map.  There are no caches, *)
(* no flags and no partial writes here.                                    *)
(***************************************************************************)
CONSTANTS
    Txids,      \* transaction ids
    Coins,      \* the states of a CCoins with at least one unspent output
    Pruned,     \* a CCoins without unspent outputs, or no record at all
    Blocks,     \* block hashes
    CoinsAt,    \* CoinsAt[b]: the unspent coins after block b
    Genesis,    \* hash of the genesis block
    NoScratch   \* no scratch copy is open

VARIABLES
    coins,      \* the published map
    best,       \* the block the published map belongs to
    durable,    \* the map on disk
    durableBest,
    scratch     \* the open scratch copy, or NoScratch

storeVars == <<coins, best, durable, durableBest, scratch>>

Maps == [Txids -> Coins \cup {Pruned}]

Init ==
    /\ coins = CoinsAt[Genesis]
    /\ best = Genesis
    /\ durable = CoinsAt[Genesis]
    /\ durableBest = Genesis
    /\ scratch = NoScratch

Begin ==
    /\ scratch = NoScratch
    /\ scratch' = coins
    /\ UNCHANGED <<coins, best, durable, durableBest>>

Change(t, c) ==
    /\ scratch # NoScratch
    /\ scratch' = [scratch EXCEPT ![t] = c]
    /\ UNCHANGED <<coins, best, durable, durableBest>>

Publish(b) ==
    /\ scratch = CoinsAt[b]
    /\ coins' = scratch
    /\ best' = b
    /\ scratch' = NoScratch
    /\ UNCHANGED <<durable, durableBest>>

Drop ==
    /\ scratch' = NoScratch
    /\ UNCHANGED <<coins, best, durable, durableBest>>

Persist ==
    /\ scratch = NoScratch
    /\ durable' = coins
    /\ durableBest' = best
    /\ UNCHANGED <<coins, best, scratch>>

Recover ==
    /\ coins' = durable
    /\ best' = durableBest
    /\ scratch' = NoScratch
    /\ UNCHANGED <<durable, durableBest>>

Next ==
    \/ Begin
    \/ \E t \in Txids, c \in Coins \cup {Pruned} : Change(t, c)
    \/ \E b \in Blocks : Publish(b)
    \/ Drop
    \/ Persist
    \/ Recover

Spec == Init /\ [][Next]_storeVars
=============================================================================
