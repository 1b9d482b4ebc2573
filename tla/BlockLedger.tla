----------------------------- MODULE BlockLedger -----------------------------
(***************************************************************************)
(* What the ledger of a channel promises, without files, indexes, faults   *)
(* or recovery: blocks are stored one after the other in the order of the  *)
(* chain, each with the codes that the blocks before it call for; the      *)
(* state that transactions see is always that of a prefix of the stored    *)
(* blocks and grows by whole blocks; and a peer serves only when that      *)
(* prefix is everything.  A crash may or may not take the block in hand    *)
(* with it, and takes nothing else.  KVLedger implements this              *)
(* specification.                                                          *)
(***************************************************************************)
EXTENDS Naturals, Sequences

CONSTANTS Chains,             \* the chains the ordering service may have cut
          Validate(_, _, _),  \* the codes of a block on top of others
          NoFlags             \* the codes of block 0

VARIABLES chain,              \* block n is chain[n + 1]
          stored,             \* the blocks that will survive a crash
          visible,            \* the blocks in the state database
          up                  \* the ledger is open

vars == <<chain, stored, visible, up>>

Genesis == [num |-> 0, block |-> chain[1], flags |-> NoFlags]

\* The next block of the chain, validated on top of the stored ones.
NextEntry ==
    LET n == Len(stored)
    IN  [num |-> n, block |-> chain[n + 1], flags |-> Validate(stored, n, chain[n + 1])]

Init ==
    /\ chain \in Chains
    /\ stored = <<Genesis>> /\ visible = stored
    /\ up = TRUE

StoreNext ==
    /\ up /\ visible = stored
    /\ Len(stored) < Len(chain)
    /\ stored' = Append(stored, NextEntry)

Store == StoreNext /\ UNCHANGED <<chain, visible, up>>

Apply ==
    /\ Len(visible) < Len(stored)
    /\ visible' = Append(visible, stored[Len(visible) + 1])
    /\ UNCHANGED <<chain, stored, up>>

Crash ==
    /\ up /\ up' = FALSE
    /\ StoreNext \/ stored' = stored
    /\ UNCHANGED <<chain, visible>>

Restart ==
    /\ ~up /\ up' = TRUE
    /\ visible = stored
    /\ UNCHANGED <<chain, stored, visible>>

Next == Store \/ Apply \/ Crash \/ Restart

Spec == Init /\ [][Next]_vars
=============================================================================
