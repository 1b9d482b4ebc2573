--------------------------- MODULE TransactionDAG ----------------------------
(***************************************************************************)
(* The dependency graph of one block (core/committer/committer_impl.go):   *)
(* BuildDAGFromBlock adds the block's transactions one by one and          *)
(* CalculateLevels gives each the level at which it will be validated.     *)
(*                                                                         *)
(* CalculateLevels repeats passes over a Go map until a pass changes       *)
(* nothing.  The order of a pass is arbitrary, and a level assigned early  *)
(* in a pass is seen later in the same pass.                               *)
(***************************************************************************)
EXTENDS Integers, Sequences, FiniteSets

CONSTANTS
    TxIDs,          \* the transaction ids that blocks and messages mention
    NoTxID,         \* the empty DependentTxID
    Namespaces,     \* chaincode namespaces
    Collections,    \* names of private data collections
    Keys,
    Blocks          \* the blocks that may arrive

VARIABLES
    block,              \* block.Data
    pos,                \* transactions of block already looked at
    Nodes,              \* dag.Nodes: the ids it has,
    HasDependency,      \* ... and the two other fields of each node
    DependentTxIDs,
    Dependencies,       \* dag.Dependencies, the reverse of DependentTxIDs
    TxIndices,          \* dag.TxIndices, 0 for none
    Levels,             \* dag.Levels, NoLevel for none
    todo,               \* nodes the current pass has yet to visit
    changed,            \* CalculateLevels' flag of that name
    dagPC

graphVars == <<Nodes, HasDependency, DependentTxIDs, Dependencies, TxIndices>>
levelVars == <<Levels, todo, changed>>
dagVars == <<block, pos, graphVars, levelVars, dagPC>>

NoLevel == -1

-----------------------------------------------------------------------------
(* Blocks.  A byte string is what unmarshalling makes of it: Parses says   *)
(* whether envelope, payload, channel header and transaction decode.       *)

KVSet == [Decodes : BOOLEAN, Reads : SUBSET Keys, Writes : SUBSET Keys]

\* A rwset.NsReadWriteSet: the public set and one hashed set per collection.
NsReadWriteSet == [Public : KVSet, Hashed : UNION {[C -> KVSet] : C \in SUBSET Collections}]

\* A TransactionAction.  Kind is the message its payload really holds.
Action == [Kind : {"ChaincodeAction", "ChaincodeActionPayload", "garbage"},
           Response : {"nil", "ok", "failed"},
           HasDependency : BOOLEAN, DependentTxID : TxIDs \cup {NoTxID},
           ResultsDecode : BOOLEAN,
           NsRwset : UNION {[N -> NsReadWriteSet] : N \in SUBSET Namespaces}]

Transaction == [Parses : BOOLEAN, TxID : TxIDs, Actions : Seq(Action)]

ASSUME BlockAssumption == Blocks \subseteq Seq(Transaction) /\ NoTxID \notin TxIDs

\* proto.Unmarshal(action.Payload, chaincodeAction).  Fields 1 and 2 of a
\* ChaincodeActionPayload decode as results and events, and it has no
\* field 3, the response.
UnmarshalAction(a) ==
    IF a.Kind = "ChaincodeActionPayload"
    THEN [a EXCEPT !.Response = "nil", !.HasDependency = FALSE]
    ELSE a

Decodes(a) == a.Kind # "garbage"

\* The actions whose response message says HasDependency=true, in the
\* sense of ParseDependencyInfo.  The loop stops at the first of them.
Carriers(tx) ==
    {i \in 1..Len(tx.Actions) :
        LET a == UnmarshalAction(tx.Actions[i])
        IN  Decodes(a) /\ a.Response # "nil" /\ a.HasDependency}

hasDependency(tx) == Carriers(tx) # {}

\* With no action taken as a carrier, dependentTxID is not used.
dependentTxID(tx) ==
    IF hasDependency(tx)
    THEN tx.Actions[CHOOSE i \in Carriers(tx) : \A j \in Carriers(tx) : i <= j].DependentTxID
    ELSE NoTxID

-----------------------------------------------------------------------------
DAGInit ==
    /\ block \in Blocks
    /\ pos = 0
    /\ Nodes = {}
    /\ HasDependency = [t \in TxIDs |-> FALSE]
    /\ DependentTxIDs = [t \in TxIDs |-> <<>>]
    /\ Dependencies = [t \in TxIDs |-> <<>>]
    /\ TxIndices = [t \in TxIDs |-> 0]
    /\ Levels = [t \in TxIDs |-> NoLevel]
    /\ todo = {}
    /\ changed = FALSE
    /\ dagPC = "build"

\* A transaction that does not decode is skipped.
SkipTransaction ==
    /\ dagPC = "build" /\ pos < Len(block)
    /\ ~block[pos + 1].Parses
    /\ pos' = pos + 1
    /\ UNCHANGED <<block, graphVars, levelVars, dagPC>>

\* Mutant: a transaction whose id is known adds no dependency.
AddTransactionOnce ==
    /\ dagPC = "build" /\ pos < Len(block)
    /\ LET tx == block[pos + 1]
           id == tx.TxID
           dep == dependentTxID(tx)
       IN  /\ tx.Parses
           /\ TxIndices' = [TxIndices EXCEPT ![id] = pos + 1]
           /\ Nodes' = Nodes \cup {id}
           /\ HasDependency' = IF id \in Nodes THEN HasDependency
                               ELSE [HasDependency EXCEPT ![id] = hasDependency(tx)]
           /\ IF dep # NoTxID /\ id \notin Nodes
              THEN /\ DependentTxIDs' = [DependentTxIDs EXCEPT ![id] = Append(@, dep)]
                   /\ Dependencies' = [Dependencies EXCEPT ![dep] = Append(@, id)]
              ELSE UNCHANGED <<DependentTxIDs, Dependencies>>
    /\ pos' = pos + 1
    /\ UNCHANGED <<block, levelVars, dagPC>>

AddTransaction ==
    /\ dagPC = "build" /\ pos < Len(block)
    /\ LET tx == block[pos + 1]
           id == tx.TxID
           dep == dependentTxID(tx)
       IN  /\ tx.Parses
           /\ TxIndices' = [TxIndices EXCEPT ![id] = pos + 1]
           /\ Nodes' = Nodes \cup {id}
           /\ HasDependency' = IF id \in Nodes THEN HasDependency
                               ELSE [HasDependency EXCEPT ![id] = hasDependency(tx)]
           /\ IF dep # NoTxID
              THEN /\ DependentTxIDs' = [DependentTxIDs EXCEPT ![id] = Append(@, dep)]
                   /\ Dependencies' = [Dependencies EXCEPT ![dep] = Append(@, id)]
              ELSE UNCHANGED <<DependentTxIDs, Dependencies>>
    /\ pos' = pos + 1
    /\ UNCHANGED <<block, levelVars, dagPC>>

Root(t) == ~HasDependency[t] \/ DependentTxIDs[t] = <<>>

DependsOn(t) == {DependentTxIDs[t][i] : i \in 1..Len(DependentTxIDs[t])}

StartPass ==
    /\ todo' = Nodes
    /\ changed' = FALSE

\* CalculateLevels up to its first pass.
StartLevels ==
    /\ dagPC = "build" /\ pos = Len(block)
    /\ Levels' = [t \in TxIDs |-> IF t \in Nodes /\ Root(t) THEN 0 ELSE NoLevel]
    /\ StartPass
    /\ dagPC' = "pass"
    /\ UNCHANGED <<block, pos, graphVars>>

\* One iteration of a pass.
Visit(t) ==
    /\ dagPC = "pass" /\ t \in todo
    /\ todo' = todo \ {t}
    /\ IF Levels[t] = NoLevel /\ \A d \in DependsOn(t) : Levels[d] # NoLevel
       THEN /\ \E max \in {NoLevel} \cup {Levels[d] : d \in DependsOn(t)} :
                  /\ \A d \in DependsOn(t) : Levels[d] <= max
                  /\ Levels' = [Levels EXCEPT ![t] = max + 1]
            /\ changed' = TRUE
       ELSE UNCHANGED <<Levels, changed>>
    /\ UNCHANGED <<block, pos, graphVars, dagPC>>

NextPass ==
    /\ dagPC = "pass" /\ todo = {} /\ changed
    /\ StartPass
    /\ UNCHANGED <<block, pos, graphVars, Levels, dagPC>>

\* Mutant: one pass and no more.
EndLevelsEarly ==
    /\ dagPC = "pass" /\ todo = {}
    /\ Levels' = [t \in TxIDs |-> IF t \in Nodes /\ Levels[t] = NoLevel
                                  THEN 0 ELSE Levels[t]]
    /\ dagPC' = "done"
    /\ UNCHANGED <<block, pos, graphVars, todo, changed>>

\* What no pass could place goes to level 0.
EndLevels ==
    /\ dagPC = "pass" /\ todo = {} /\ ~changed
    /\ Levels' = [t \in TxIDs |-> IF t \in Nodes /\ Levels[t] = NoLevel
                                  THEN 0 ELSE Levels[t]]
    /\ dagPC' = "done"
    /\ UNCHANGED <<block, pos, graphVars, todo, changed>>

DAGNext ==
    \/ SkipTransaction \/ AddTransaction
    \/ StartLevels \/ NextPass \/ EndLevels
    \/ \E t \in TxIDs : Visit(t)

DAGSpec == DAGInit /\ [][DAGNext]_dagVars

\* One goroutine runs all of it, and no step waits for anything.
DAGFairSpec == DAGSpec /\ WF_dagVars(DAGNext)

-----------------------------------------------------------------------------
DAGTypeOK ==
    /\ block \in Blocks
    /\ pos \in 0..Len(block)
    /\ Nodes \subseteq TxIDs
    /\ HasDependency \in [TxIDs -> BOOLEAN]
    /\ DependentTxIDs \in [TxIDs -> Seq(TxIDs)]
    /\ Dependencies \in [TxIDs -> Seq(TxIDs)]
    /\ TxIndices \in [TxIDs -> 0..Len(block)]
    /\ Levels \in [TxIDs -> {NoLevel} \cup Nat]
    /\ todo \subseteq Nodes
    /\ changed \in BOOLEAN
    /\ dagPC \in {"build", "pass", "done"}

(* The transactions looked at so far that carry the id t.                  *)
Seen(t) == {i \in 1..pos : block[i].Parses /\ block[i].TxID = t}

(* The graph is the block's: a node for each id that decodes, with the     *)
(* index of its last transaction, the flag of its first and the            *)
(* dependencies of all; the reverse map has the same edges                 *)
(* (BuildDAGFromBlock, AddTransaction).                                    *)
GraphExact ==
    /\ Nodes = {t \in TxIDs : Seen(t) # {}}
    /\ \A t \in Nodes :
          /\ TxIndices[t] \in Seen(t) /\ \A i \in Seen(t) : i <= TxIndices[t]
          /\ \E i \in Seen(t) : /\ \A j \in Seen(t) : i <= j
                                /\ HasDependency[t] = hasDependency(block[i])
    /\ \A t, d \in TxIDs :
          LET edges == {i \in Seen(t) : dependentTxID(block[i]) = d}
          IN  /\ Cardinality({i \in 1..Len(DependentTxIDs[t]) : DependentTxIDs[t][i] = d})
                     = Cardinality(edges)
              /\ Cardinality({i \in 1..Len(Dependencies[d]) : Dependencies[d][i] = t})
                     = Cardinality(edges)

(* A level above 0 is one more than the highest level among the            *)
(* dependencies, all of which are in the block (CalculateLevels: "Higher   *)
(* levels depend on lower levels").                                        *)
Layered ==
    dagPC = "done" =>
        \A t \in Nodes : Levels[t] > 0 =>
            /\ \A d \in DependsOn(t) : d \in Nodes /\ Levels[d] < Levels[t]
            /\ \E d \in DependsOn(t) : Levels[t] = Levels[d] + 1

(* The nodes whose longest chain of dependencies has at most n edges.      *)
Resolved[n \in Nat] ==
    IF n = 0 THEN {t \in Nodes : Root(t)}
    ELSE LET below == Resolved[n - 1]
         IN  below \cup {t \in Nodes : DependsOn(t) \subseteq below}

(* In whatever order the passes visit the map, the level of a transaction  *)
(* is the length of its longest chain of dependencies, and 0 where the     *)
(* chain leaves the block or closes on itself (CalculateLevels).           *)
LevelsExact ==
    dagPC = "done" =>
        \A t \in Nodes :
            LET lengths == {n \in 0..Cardinality(Nodes) : t \in Resolved[n]}
            IN  IF lengths = {} THEN Levels[t] = 0
                ELSE Levels[t] \in lengths /\ \A n \in lengths : Levels[t] <= n

(* What the comment of CalculateLevels says: "Level 0 transactions have no *)
(* dependencies".                                                          *)
Level0Independent ==
    dagPC = "done" => \A t \in Nodes : Levels[t] = 0 => DependsOn(t) = {}
=============================================================================
