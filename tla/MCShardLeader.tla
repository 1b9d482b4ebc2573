---------------------------- MODULE MCShardLeader ----------------------------
(***************************************************************************)
(* Instances of ShardLeader for TLC.                                       *)
(***************************************************************************)
EXTENDS ShardLeader, TLC

CONSTANTS r1, r2, r3, t1, t2, t3, x, y

\* r2 reads what r1 writes; r3 writes both keys.
AllTxID == (r1 :> t1) @@ (r2 :> t2) @@ (r3 :> t3)
AllReadSet == (r1 :> {}) @@ (r2 :> {x}) @@ (r3 :> {})
AllWriteSet == (r1 :> {x}) @@ (r2 :> {y}) @@ (r3 :> {x, y})

MCTxID == [r \in Requests |-> AllTxID[r]]
MCReadSet == [r \in Requests |-> AllReadSet[r]]
MCWriteSet == [r \in Requests |-> AllWriteSet[r]]
=============================================================================
