---------------------------- MODULE DependencyLog ----------------------------
(***************************************************************************)
(* What a shard promises its endorsers, without batches, channels, raft or *)
(* the hash map: every prepare request is handled at most once, one after  *)
(* the other, and the dependency recorded for it is a function of the      *)
(* requests handled before it.  ShardLeader, which answers from            *)
(* variableMap instead of from the history, implements this specification. *)
(***************************************************************************)
EXTENDS Naturals, Sequences

CONSTANTS Requests,   \* the prepare requests
          TxIDs,      \* transaction IDs
          Keys,       \* the variables requests read and write
          TxID,       \* TxID[r], ReadSet[r], WriteSet[r]: the fields of
          ReadSet,    \* request r; a proposal that a client retries is
          WriteSet,   \* two requests with one TxID
          NoTx        \* the empty dependentTxID ""

VARIABLE handled      \* the requests applied so far, oldest first

Handled == [Request : Requests,
            HasDependency : BOOLEAN, DependentTxID : TxIDs \cup {NoTx}]

WrittenIn(h, k) == \E i \in 1..Len(h) : k \in WriteSet[h[i].Request]

\* Entry i of the history is the last one that wrote key k.
LastWriterAt(h, k, i) ==
    /\ i \in 1..Len(h)
    /\ k \in WriteSet[h[i].Request]
    /\ \A j \in (i + 1)..Len(h) : k \notin WriteSet[h[j].Request]

(***************************************************************************)
(* The keys whose last writer request r may be said to depend on: the keys *)
(* it reads come first, those it writes count only without a read          *)
(* dependency.                                                             *)
(***************************************************************************)
DependencyKeys(h, r) ==
    LET reads == {k \in ReadSet[r] : WrittenIn(h, k)}
    IN  IF reads # {} THEN reads ELSE {k \in WriteSet[r] : WrittenIn(h, k)}

-----------------------------------------------------------------------------
Init == handled = <<>>

Independent(r) ==
    /\ DependencyKeys(handled, r) = {}
    /\ handled' = Append(handled,
            [Request |-> r, HasDependency |-> FALSE, DependentTxID |-> NoTx])

Dependent(r) ==
    \E k \in DependencyKeys(handled, r), i \in 1..Len(handled) :
        /\ LastWriterAt(handled, k, i)
        /\ handled' = Append(handled,
                [Request |-> r, HasDependency |-> TRUE,
                 DependentTxID |-> TxID[handled[i].Request]])

Next == \E r \in Requests :
            /\ \A i \in 1..Len(handled) : handled[i].Request # r
            /\ Independent(r) \/ Dependent(r)

Spec == Init /\ [][Next]_handled
=============================================================================
