----------------------- MODULE LedgerCommitterWorkers ------------------------
(***************************************************************************)
(* Proofs about TransactionDAG; then the inductive invariant of            *)
(* LedgerCommitter, and that building the graph and the goroutines that    *)
(* validate keep it, for every set of blocks of any length and every       *)
(* ConcurrencyLimit.                                                       *)
(***************************************************************************)
EXTENDS LedgerCommitter, TLAPS

(* Every node has the index of a transaction of the block with its id.     *)
Indexed ==
    \A t \in Nodes : /\ TxIndices[t] \in 1..Len(block)
                     /\ block[TxIndices[t]].TxID = t

(* What CalculateLevels has placed so far: only nodes, each above all of   *)
(* its dependencies and just above one of them.                            *)
Placed ==
    /\ dagPC = "build" => \A t \in TxIDs : Levels[t] = NoLevel
    /\ \A t \in TxIDs : Levels[t] # NoLevel => t \in Nodes
    /\ \A t \in TxIDs : Levels[t] > 0 =>
          /\ \A d \in DependsOn(t) : Levels[d] # NoLevel /\ Levels[d] < Levels[t]
          /\ \E d \in DependsOn(t) : Levels[t] = Levels[d] + 1

LEMMA SeqElement ==
    ASSUME NEW S, NEW s \in Seq(S), NEW i \in 1..Len(s)
    PROVE  s[i] \in S
  OBVIOUS

(* What the lemmas use of finite sets and of sets of numbers.  The library *)
(* proves it (see SetFactsHold, in LedgerCommitterProofs); as a hypothesis *)
(* it keeps the library's theorems out of the context of every step.       *)
SetFacts ==
    /\ IsFiniteSet({}) /\ Cardinality({}) = 0
    /\ \A S : IsFiniteSet(S) => Cardinality(S) \in Nat
    /\ \A S, x : IsFiniteSet(S) =>
          /\ IsFiniteSet(S \cup {x})
          /\ x \notin S => Cardinality(S \cup {x}) = Cardinality(S) + 1
    /\ \A S, x : IsFiniteSet(S) /\ x \in S =>
          IsFiniteSet(S \ {x}) /\ Cardinality(S \ {x}) = Cardinality(S) - 1
    /\ \A S \in SUBSET Nat : S # {} => \E i \in S : \A j \in S : i <= j

LEMMA DependencyType ==
    ASSUME SetFacts, NEW tx \in Transaction
    PROVE  dependentTxID(tx) \in TxIDs \cup {NoTxID} /\ hasDependency(tx) \in BOOLEAN
<1>1. CASE hasDependency(tx)
  <2> DEFINE i == CHOOSE i \in Carriers(tx) : \A j \in Carriers(tx) : i <= j
  <2>1. tx.Actions \in Seq(Action) /\ Len(tx.Actions) \in Nat
    BY DEF Transaction
  <2>2. Carriers(tx) \subseteq 1..Len(tx.Actions) /\ Carriers(tx) # {}
    BY Zenon, <1>1 DEF Carriers, hasDependency
  <2>3. i \in Carriers(tx)
    BY <2>1, <2>2 DEF SetFacts
  <2>4. tx.Actions[i] \in Action
    BY Zenon, <2>1, <2>2, <2>3, SeqElement
  <2>5. tx.Actions[i].DependentTxID \in TxIDs \cup {NoTxID}
    BY Zenon, <2>4 DEF Action
  <2> QED
    BY Zenon, <1>1, <2>5 DEF dependentTxID, hasDependency
<1>2. CASE ~hasDependency(tx)
  BY Zenon, <1>2 DEF dependentTxID, hasDependency
<1> QED
  BY Zenon, <1>1, <1>2

LEMMA InitDAG == DAGInit => DAGTypeOK /\ Indexed /\ Placed
<1> SUFFICES ASSUME DAGInit PROVE DAGTypeOK /\ Indexed /\ Placed
  BY Zenon
<1>1. Len(block) \in Nat
  BY BlockAssumption DEF DAGInit
<1>2. changed \in BOOLEAN /\ HasDependency \in [TxIDs -> BOOLEAN]
  BY Zenon DEF DAGInit
<1>3. DAGTypeOK
  BY <1>1, <1>2 DEF DAGInit, DAGTypeOK
<1> QED
  BY <1>3 DEF DAGInit, Indexed, Placed, NoLevel

(* One transaction of BuildDAGFromBlock.                                   *)
LEMMA AddKeeps ==
    ASSUME SetFacts, DAGTypeOK, Indexed, Placed, AddTransaction
    PROVE  DAGTypeOK' /\ Indexed' /\ Placed'
<1> DEFINE tx == block[pos + 1]
           id == tx.TxID
           dep == dependentTxID(tx)
<1>1. block \in Seq(Transaction) /\ Len(block) \in Nat /\ pos + 1 \in 1..Len(block)
  BY BlockAssumption DEF DAGTypeOK, AddTransaction
<1>2. tx \in Transaction
  BY Zenon, <1>1, SeqElement
<1>3. id \in TxIDs /\ dep \in TxIDs \cup {NoTxID} /\ hasDependency(tx) \in BOOLEAN
  BY Zenon, <1>2, DependencyType DEF Transaction
<1>4. /\ TxIndices' = [TxIndices EXCEPT ![id] = pos + 1] /\ Nodes' = Nodes \cup {id}
      /\ pos' = pos + 1 /\ UNCHANGED <<block, Levels, todo, changed, dagPC>>
      /\ dagPC = "build"
  BY Zenon DEF AddTransaction, levelVars
<1>5. HasDependency' \in [TxIDs -> BOOLEAN]
  <2>1. \/ HasDependency' = HasDependency
        \/ HasDependency' = [HasDependency EXCEPT ![id] = hasDependency(tx)]
    BY Zenon DEF AddTransaction
  <2>2. HasDependency \in [TxIDs -> BOOLEAN]
    BY Zenon DEF DAGTypeOK
  <2> HIDE DEF tx
  <2> QED
    BY Zenon, <1>3, <2>1, <2>2
<1>6. DependentTxIDs' \in [TxIDs -> Seq(TxIDs)] /\ Dependencies' \in [TxIDs -> Seq(TxIDs)]
  <2>1. \/ UNCHANGED <<DependentTxIDs, Dependencies>>
        \/ /\ dep # NoTxID
           /\ DependentTxIDs' = [DependentTxIDs EXCEPT ![id] = Append(DependentTxIDs[id], dep)]
           /\ Dependencies' = [Dependencies EXCEPT ![dep] = Append(Dependencies[dep], id)]
    BY Zenon DEF AddTransaction
  <2>2. DependentTxIDs \in [TxIDs -> Seq(TxIDs)] /\ Dependencies \in [TxIDs -> Seq(TxIDs)]
    BY Zenon DEF DAGTypeOK
  <2>3. CASE dep # NoTxID
    <3>1. dep \in TxIDs
      BY Zenon, <1>3, <2>3
    <3> HIDE DEF tx, dep, id
    <3>2. /\ Append(DependentTxIDs[id], dep) \in Seq(TxIDs)
          /\ Append(Dependencies[dep], id) \in Seq(TxIDs)
      BY <1>3, <2>2, <3>1
    <3> QED
      BY Zenon, <2>1, <2>2, <3>2
  <2> QED
    BY Zenon, <2>1, <2>2, <2>3
<1>7. DAGTypeOK'
  <2>1. changed' \in BOOLEAN
    BY Zenon, <1>4 DEF DAGTypeOK
  <2>2. TxIndices' \in [TxIDs -> 0..Len(block')]
    <3> HIDE DEF id
    <3> QED
      BY <1>1, <1>3, <1>4 DEF DAGTypeOK
  <2>3. Nodes' \subseteq TxIDs /\ todo' \subseteq Nodes' /\ pos' \in 0..Len(block')
    BY <1>1, <1>3, <1>4 DEF DAGTypeOK
  <2> QED
    BY Zenon, <1>4, <1>5, <1>6, <2>1, <2>2, <2>3 DEF DAGTypeOK
<1>8. Indexed'
  <2> SUFFICES ASSUME NEW t \in Nodes'
               PROVE  TxIndices'[t] \in 1..Len(block) /\ block[TxIndices'[t]].TxID = t
    BY Zenon, <1>4 DEF Indexed
  <2>1. CASE t = id
    BY Zenon, <1>1, <1>3, <1>4, <2>1 DEF DAGTypeOK
  <2>2. CASE t # id
    BY Zenon, <1>3, <1>4, <2>2 DEF DAGTypeOK, Indexed
  <2> QED
    BY Zenon, <2>1, <2>2
<1>9. Placed'
  BY <1>3, <1>4 DEF Placed, NoLevel
<1> QED
  BY Zenon, <1>7, <1>8, <1>9

LEMMA VisitKeeps ==
    ASSUME DAGTypeOK, Indexed, Placed, NEW t \in TxIDs, Visit(t)
    PROVE  DAGTypeOK' /\ Indexed' /\ Placed'
<1>1. /\ t \in Nodes /\ dagPC = "pass" /\ todo' = todo \ {t}
      /\ UNCHANGED <<block, pos, dagPC, Nodes, TxIndices>>
      /\ UNCHANGED <<HasDependency, DependentTxIDs, Dependencies>>
  BY Zenon DEF Visit, graphVars, DAGTypeOK
<1>2. \A u \in TxIDs : DependsOn(u)' = DependsOn(u)
  BY Zenon, <1>1 DEF DependsOn
<1>3. CASE UNCHANGED <<Levels, changed>>
  BY <1>1, <1>2, <1>3 DEF DAGTypeOK, Indexed, Placed
<1>4. ASSUME Levels[t] = NoLevel, \A d \in DependsOn(t) : Levels[d] # NoLevel,
             NEW max \in {NoLevel} \cup {Levels[d] : d \in DependsOn(t)},
             \A d \in DependsOn(t) : Levels[d] <= max,
             Levels' = [Levels EXCEPT ![t] = max + 1], changed' = TRUE
      PROVE  DAGTypeOK' /\ Indexed' /\ Placed'
  <2>1. DependsOn(t) \subseteq TxIDs /\ t \notin DependsOn(t)
    BY SMTT(30), <1>4, SeqElement DEF DependsOn, DAGTypeOK
  <2>2. max + 1 \in Nat /\ (\A d \in DependsOn(t) : Levels[d] < max + 1)
        /\ (max + 1 > 0 => \E d \in DependsOn(t) : max + 1 = Levels[d] + 1)
    BY SMTT(30), <1>4, <2>1 DEF DAGTypeOK, NoLevel
  <2>3. DAGTypeOK'
    BY Zenon, <1>1, <1>4, <2>2 DEF DAGTypeOK
  <2>4. Indexed'
    BY Zenon, <1>1 DEF Indexed
  <2>5. ASSUME NEW u \in TxIDs, Levels'[u] > 0
        PROVE  /\ \A d \in DependsOn(u) : Levels'[d] # NoLevel /\ Levels'[d] < Levels'[u]
               /\ \E d \in DependsOn(u) : Levels'[u] = Levels'[d] + 1
    <3>1. CASE u = t
      BY Zenon, <1>4, <2>1, <2>2, <2>5, <3>1 DEF DAGTypeOK
    <3>2. CASE u # t
      <4>1. Levels'[u] = Levels[u] /\ Levels[u] > 0
        BY Zenon, <1>4, <2>5, <3>2 DEF DAGTypeOK
      <4>2. t \notin DependsOn(u)
        BY Zenon, <1>4, <4>1 DEF Placed
      <4>3. DependsOn(u) \subseteq TxIDs
        BY SMTT(30), SeqElement DEF DependsOn, DAGTypeOK
      <4> QED
        BY Zenon, <1>4, <4>1, <4>2, <4>3 DEF Placed, DAGTypeOK
    <3> QED
      BY Zenon, <3>1, <3>2
  <2>6. \A u \in TxIDs : Levels'[u] # NoLevel => u \in Nodes
    BY Zenon, <1>1, <1>4 DEF Placed, DAGTypeOK
  <2> QED
    BY Zenon, <1>1, <1>2, <2>3, <2>4, <2>5, <2>6 DEF Placed
<1> QED
  BY Zenon, <1>3, <1>4 DEF Visit

LEMMA DAGUnchanged ==
    ASSUME DAGTypeOK, Indexed, Placed, UNCHANGED dagVars
    PROVE  DAGTypeOK' /\ Indexed' /\ Placed'
<1>1. DAGTypeOK'
  BY Zenon DEF DAGTypeOK, dagVars, graphVars, levelVars
<1> QED
  BY <1>1 DEF Indexed, Placed, DependsOn, dagVars, graphVars, levelVars

LEMMA NextDAG ==
    ASSUME SetFacts, DAGTypeOK, Indexed, Placed, [DAGNext]_dagVars
    PROVE  DAGTypeOK' /\ Indexed' /\ Placed'
<1>1. CASE UNCHANGED dagVars
  BY Zenon, <1>1, DAGUnchanged
<1>2. CASE SkipTransaction
  <2>1. /\ pos' = pos + 1 /\ pos < Len(block) /\ UNCHANGED <<block, levelVars, dagPC>>
        /\ UNCHANGED <<Nodes, HasDependency, DependentTxIDs, Dependencies, TxIndices>>
    BY Zenon, <1>2 DEF SkipTransaction, graphVars
  <2>2. Len(block) \in Nat
    BY BlockAssumption DEF DAGTypeOK
  <2>3. DAGTypeOK'
    BY <2>1, <2>2 DEF DAGTypeOK, levelVars
  <2> QED
    BY <2>1, <2>3 DEF Indexed, Placed, DependsOn, levelVars
<1>3. CASE AddTransaction
  BY Zenon, <1>3, AddKeeps
<1>4. CASE StartLevels
  <2>1. /\ Levels' = [t \in TxIDs |-> IF t \in Nodes /\ Root(t) THEN 0 ELSE NoLevel]
        /\ todo' = Nodes /\ changed' = FALSE /\ dagPC' = "pass"
        /\ UNCHANGED <<block, pos, Nodes, HasDependency, DependentTxIDs, Dependencies, TxIndices>>
    BY Zenon, <1>4 DEF StartLevels, StartPass, graphVars
  <2>2. Levels' \in [TxIDs -> {NoLevel} \cup Nat]
    BY Zenon, <2>1
  <2>3. DAGTypeOK'
    BY Zenon, <2>1, <2>2 DEF DAGTypeOK
  <2>4. \A t \in TxIDs : ~(Levels'[t] > 0) /\ (Levels'[t] # NoLevel => t \in Nodes)
    BY <2>1 DEF NoLevel
  <2> QED
    BY Zenon, <2>1, <2>3, <2>4 DEF Indexed, Placed
<1>5. CASE NextPass
  <2>1. /\ todo' = Nodes /\ changed' = FALSE
        /\ UNCHANGED <<block, pos, dagPC, Levels, Nodes, HasDependency, DependentTxIDs>>
        /\ UNCHANGED <<Dependencies, TxIndices>>
    BY Zenon, <1>5 DEF NextPass, StartPass, graphVars
  <2>2. DAGTypeOK'
    BY Zenon, <2>1 DEF DAGTypeOK
  <2> QED
    BY <2>1, <2>2 DEF Indexed, Placed, DependsOn
<1>6. CASE EndLevels
  <2>1. /\ Levels' = [t \in TxIDs |-> IF t \in Nodes /\ Levels[t] = NoLevel THEN 0 ELSE Levels[t]]
        /\ dagPC' = "done"
        /\ UNCHANGED <<block, pos, todo, changed, Nodes, HasDependency, DependentTxIDs>>
        /\ UNCHANGED <<Dependencies, TxIndices>>
    BY Zenon, <1>6 DEF EndLevels, graphVars
  <2>2. Levels' \in [TxIDs -> {NoLevel} \cup Nat]
    BY Zenon, <2>1 DEF DAGTypeOK
  <2>3. DAGTypeOK'
    BY Zenon, <2>1, <2>2 DEF DAGTypeOK
  <2>4. ASSUME NEW t \in TxIDs, Levels'[t] > 0
        PROVE  /\ \A d \in DependsOn(t) : Levels'[d] # NoLevel /\ Levels'[d] < Levels'[t]
               /\ \E d \in DependsOn(t) : Levels'[t] = Levels'[d] + 1
    <3>1. DependsOn(t) \subseteq TxIDs
      BY SMTT(30), SeqElement DEF DependsOn, DAGTypeOK
    <3>2. Levels[t] > 0 /\ Levels'[t] = Levels[t]
      BY <2>1, <2>4
    <3>3. \A d \in DependsOn(t) : Levels'[d] = Levels[d]
      BY Zenon, <2>1, <3>1, <3>2 DEF Placed
    <3> QED
      BY Zenon, <3>2, <3>3 DEF Placed
  <2>5. \A t \in TxIDs : Levels'[t] # NoLevel => t \in Nodes
    BY Zenon, <2>1 DEF Placed
  <2>6. \A t \in TxIDs : DependsOn(t)' = DependsOn(t)
    BY Zenon, <2>1 DEF DependsOn
  <2> QED
    BY <2>1, <2>3, <2>4, <2>5, <2>6 DEF Indexed, Placed
<1>7. ASSUME NEW t \in TxIDs, Visit(t) PROVE DAGTypeOK' /\ Indexed' /\ Placed'
  BY Zenon, <1>7, VisitKeeps
<1> QED
  BY Zenon, <1>1, <1>2, <1>3, <1>4, <1>5, <1>6, <1>7 DEF DAGNext

-----------------------------------------------------------------------------
(* The invariant of the committer.                                         *)

(* When the graph is complete every node has a level, and nodes are        *)
(* finitely many.                                                          *)
Complete ==
    /\ IsFiniteSet(Nodes)
    /\ dagPC = "done" => \A t \in Nodes : Levels[t] # NoLevel

(* Where the committing goroutine is.                                      *)
Stage ==
    /\ mainPC = "build" =>
          pending = {} /\ \A t \in TxIDs : worker[t] = "none" /\ ~Judged(t)
    /\ mainPC # "build" => dagPC = "done"
    /\ mainPC = "acquire" <=> current # NoTxID
    /\ current \notin pending

(* The levels below the current one are finished, those above are          *)
(* untouched, and of the current one every transaction waits, runs or has  *)
(* been judged.                                                            *)
Finished(t) == Judged(t) /\ worker[t] \in {"none", "done"}
Untouched(t) == ~Judged(t) /\ worker[t] = "none"
Waiting(t) == t \in pending \/ t = current

Order ==
    mainPC # "build" =>
        \A t \in Nodes :
            /\ Levels[t] < level => Finished(t)
            /\ Levels[t] > level => Untouched(t)
            /\ Waiting(t) => Levels[t] = level /\ Untouched(t)
            /\ Levels[t] = level /\ ~Waiting(t) => Judged(t) \/ worker[t] # "none"

Ended ==
    mainPC \in {"flags", "commit", "legacy", "returned", "error"} =>
        \A t \in Nodes : Finished(t)

ParentsValid(t) == Levels[t] > 0 => \A d \in DependsOn(t) : IsValid(d)

Found(t) == IF isValid[t] THEN MayPass(t) ELSE MayFail(t)

(* What a goroutine knows at each of its steps.                            *)
Knows(t) ==
    /\ worker[t] # "none" => t \in Nodes
    /\ worker[t] \in {"validate", "store", "storing", "set"} => ~Judged(t)
    /\ worker[t] \in {"release", "released", "done"} => Judged(t)
    /\ worker[t] # "none" \/ t = current => ParentsValid(t)
    /\ worker[t] \in {"store", "storing", "set"} => Found(t)

Workers == \A t \in TxIDs : Knows(t)

Written ==
    mainPC \in {"commit", "legacy", "returned", "error"} =>
        flags = [i \in 1..Len(block) |->
                    IF \E t \in Nodes : TxIndices[t] = i /\ ~IsValid(t)
                    THEN MVCC_READ_CONFLICT ELSE VALID]

Tokens ==
    /\ IsFiniteSet(Holders)
    /\ IF ConcurrencyLimit > 0 THEN sem = Cardinality(Holders) /\ sem <= ConcurrencyLimit
       ELSE sem = 0

CInv ==
    /\ TypeOK /\ Indexed /\ Placed /\ Complete
    /\ Stage /\ Order /\ Ended /\ Workers /\ Written /\ VerdictsExact /\ Tokens

-----------------------------------------------------------------------------
(* A verdict rests on nothing but the block, its graph and its levels.     *)
LEMMA Frame ==
    ASSUME UNCHANGED dagVars, NEW t
    PROVE  /\ MayPass(t)' = MayPass(t)
           /\ MayFail(t)' = MayFail(t)
           /\ DependsOn(t)' = DependsOn(t)
<1>1. UNCHANGED <<block, TxIndices, Levels, DependentTxIDs>>
  BY Zenon DEF dagVars, graphVars, levelVars
<1>2. DependsOn(t)' = DependsOn(t)
  BY Zenon, <1>1 DEF DependsOn
<1>3. \A u : TxOf(u)' = TxOf(u)
  BY Zenon, <1>1 DEF TxOf
<1> QED
  BY Zenon, <1>1, <1>2, <1>3 DEF MayPass, MayFail, ActionsSucceed

LEMMA Parents ==
    ASSUME CInv, mainPC # "build", NEW t \in Nodes, Levels[t] > 0, Levels[t] <= level
    PROVE  \A d \in DependsOn(t) : d \in Nodes /\ Finished(d)
<1>1. t \in TxIDs /\ DependsOn(t) \subseteq TxIDs
  <2>1. t \in TxIDs /\ DependentTxIDs[t] \in Seq(TxIDs)
    BY Zenon DEF DAGTypeOK, TypeOK, CInv
  <2> QED
    BY Zenon, <2>1, SeqElement DEF DependsOn
<1>2. level \in Nat /\ Levels \in [TxIDs -> {NoLevel} \cup Nat]
  BY Zenon DEF CInv, TypeOK, DAGTypeOK
<1>3. \A d \in DependsOn(t) : d \in Nodes /\ Levels[d] < Levels[t]
  BY Zenon, <1>1 DEF CInv, Placed
<1>4. \A d \in DependsOn(t) : Levels[d] < level
  BY <1>1, <1>2, <1>3 DEF NoLevel
<1> QED
  BY Zenon, <1>3, <1>4 DEF CInv, Order

LEMMA InitCommitter ==
    ASSUME SetFacts, Init
    PROVE  CInv
<1>1. DAGTypeOK /\ Indexed /\ Placed
  BY Zenon, InitDAG DEF Init
<1>2. isValid \in [TxIDs -> BOOLEAN]
  BY Zenon DEF Init
<1>3. TypeOK
  BY Zenon, <1>1, <1>2 DEF Init, TypeOK, None
<1>4. Complete
  BY Zenon DEF Init, DAGInit, Complete, SetFacts
<1>5. Stage /\ Order /\ Ended /\ Written
  BY Zenon DEF Init, Stage, Order, Ended, Written, Judged
<1>6. Workers /\ VerdictsExact
  <2>1. Nodes = {} /\ \A t \in TxIDs : worker[t] = "none" /\ t # current
    BY Zenon, BlockAssumption DEF Init, DAGInit
  <2> QED
    BY Zenon, <2>1 DEF Workers, Knows, VerdictsExact
<1>7. Tokens
  <2>1. Holders = {} /\ sem = 0
    BY Zenon DEF Init, Holders
  <2> QED
    BY <2>1, LimitAssumption DEF Tokens, SetFacts
<1> QED
  BY Zenon, <1>1, <1>3, <1>4, <1>5, <1>6, <1>7 DEF CInv

-----------------------------------------------------------------------------
LEMMA Static ==
    ASSUME CInv, UNCHANGED dagVars
    PROVE  DAGTypeOK' /\ Indexed' /\ Placed' /\ Complete'
<1>2. DAGTypeOK' /\ Indexed' /\ Placed'
  BY Zenon, DAGUnchanged DEF CInv, TypeOK
<1> QED
  BY Zenon, <1>2 DEF CInv, Complete, dagVars, graphVars, levelVars

(* Verdicts stand while none is added.                                     *)
LEMMA VerdictsStand ==
    ASSUME CInv, UNCHANGED dagVars, UNCHANGED ValidationResults
    PROVE  /\ VerdictsExact'
           /\ \A t : (Judged(t)' <=> Judged(t)) /\ (IsValid(t)' <=> IsValid(t))
           /\ \A t : ParentsValid(t)' <=> ParentsValid(t)
<1>1. UNCHANGED <<Nodes, Levels>>
  BY Zenon DEF dagVars, graphVars, levelVars
<1>2. \A t : (Judged(t)' <=> Judged(t)) /\ (IsValid(t)' <=> IsValid(t))
  BY Zenon DEF Judged, IsValid
<1>3. \A t : ParentsValid(t)' <=> ParentsValid(t)
  BY Zenon, <1>1, <1>2, Frame DEF ParentsValid
<1>4. VerdictsExact'
  <2> SUFFICES ASSUME NEW t \in Nodes
               PROVE  (/\ ValidationResults[t] = "valid" => MayPass(t) /\ ParentsValid(t)
                       /\ ValidationResults[t] = "invalid" =>
                             MayFail(t) \/ (Levels[t] > 0 /\ \E d \in DependsOn(t) : ~IsValid(d)))'
    BY Zenon, <1>1 DEF VerdictsExact, ParentsValid
  <2>1. (ValidationResults[t] = "valid")' => (MayPass(t) /\ ParentsValid(t))'
    BY Zenon, <1>3, Frame DEF CInv, VerdictsExact, ParentsValid
  <2>2. (ValidationResults[t] = "invalid")' =>
            (MayFail(t) \/ (Levels[t] > 0 /\ \E d \in DependsOn(t) : ~IsValid(d)))'
    BY Zenon, <1>1, <1>2, Frame DEF CInv, VerdictsExact
  <2> QED
    BY Zenon, <2>1, <2>2
<1> QED
  BY Zenon, <1>2, <1>3, <1>4

(* A verdict that is added changes no other, because those it could have   *)
(* changed are not given yet.                                              *)
LEMMA VerdictAdded ==
    ASSUME CInv, UNCHANGED dagVars, mainPC # "build",
           NEW u \in Nodes, ~Judged(u), Levels[u] = level,
           NEW v \in {"valid", "invalid"},
           ValidationResults' = [ValidationResults EXCEPT ![u] = v],
           v = "valid" => MayPass(u) /\ ParentsValid(u),
           v = "invalid" => MayFail(u) \/ (Levels[u] > 0 /\ \E d \in DependsOn(u) : ~IsValid(d))
    PROVE  /\ VerdictsExact'
           /\ \A t \in TxIDs \ {u} : ValidationResults'[t] = ValidationResults[t]
           /\ ValidationResults'[u] = v
           /\ \A t \in TxIDs : Judged(t) => (IsValid(t)' <=> IsValid(t))
           /\ \A t \in Nodes : (Judged(t) \/ Levels[t] = level) /\ ParentsValid(t)
                                    => ParentsValid(t)'
<1>1. UNCHANGED <<Nodes, Levels>> /\ level \in Nat
  BY Zenon DEF dagVars, graphVars, levelVars, CInv, TypeOK
<1>2. /\ Nodes \subseteq TxIDs /\ Levels \in [TxIDs -> {NoLevel} \cup Nat]
      /\ ValidationResults \in [TxIDs -> {"unset", "valid", "invalid"}]
  BY Zenon DEF CInv, TypeOK, DAGTypeOK
<1>3. /\ \A t \in TxIDs \ {u} : ValidationResults'[t] = ValidationResults[t]
      /\ ValidationResults'[u] = v
  BY Zenon, <1>2
<1>4. \A t \in TxIDs : Judged(t) => (IsValid(t)' <=> IsValid(t))
  BY Zenon, <1>3 DEF Judged, IsValid
<1>5. ASSUME NEW t \in Nodes, Judged(t) \/ Levels[t] = level, Levels[t] > 0
      PROVE  \A d \in DependsOn(t) : IsValid(d)' <=> IsValid(d)
  <2>1. Levels[t] <= level
    <3>1. ~(Levels[t] > level) \/ Levels[t] = level
      BY Zenon, <1>5 DEF CInv, Order, Untouched
    <3>2. Levels[t] \in Int /\ level \in Int
      BY <1>1, <1>2 DEF NoLevel
    <3> QED
      BY SMTT(30), <3>1, <3>2
  <2>2. \A d \in DependsOn(t) : d \in Nodes /\ Finished(d)
    BY Zenon, <1>5, <2>1, Parents
  <2> QED
    BY Zenon, <1>2, <1>4, <2>2 DEF Finished
<1>6. \A t \in Nodes : (Judged(t) \/ Levels[t] = level) /\ ParentsValid(t) => ParentsValid(t)'
  BY Zenon, <1>1, <1>5, Frame DEF ParentsValid
<1>7. VerdictsExact'
  <2> SUFFICES ASSUME NEW t \in Nodes
               PROVE  (/\ ValidationResults[t] = "valid" => MayPass(t) /\ ParentsValid(t)
                       /\ ValidationResults[t] = "invalid" =>
                             MayFail(t) \/ (Levels[t] > 0 /\ \E d \in DependsOn(t) : ~IsValid(d)))'
    BY Zenon, <1>1 DEF VerdictsExact, ParentsValid
  <2>1. CASE t = u
    <3>1. v = "valid" => (MayPass(t) /\ ParentsValid(t))'
      BY Zenon, <1>6, <2>1, Frame
    <3>2. v = "invalid" => (MayFail(t) \/ (Levels[t] > 0 /\ \E d \in DependsOn(t) : ~IsValid(d)))'
      BY Zenon, <1>1, <1>5, <2>1, Frame
    <3> QED
      BY Zenon, <1>3, <2>1, <3>1, <3>2
  <2>2. CASE t # u
    <3>1. ValidationResults'[t] = ValidationResults[t]
      BY Zenon, <1>2, <1>3, <2>2
    <3>2. ASSUME ValidationResults[t] = "valid" PROVE (MayPass(t) /\ ParentsValid(t))'
      <4>1. Judged(t) /\ MayPass(t) /\ ParentsValid(t)
        BY Zenon, <3>2 DEF CInv, VerdictsExact, ParentsValid, Judged
      <4> QED
        BY ZenonT(30), <1>6, <4>1, Frame
    <3>3. ASSUME ValidationResults[t] = "invalid"
          PROVE  (MayFail(t) \/ (Levels[t] > 0 /\ \E d \in DependsOn(t) : ~IsValid(d)))'
      <4>1. Judged(t) /\ (MayFail(t) \/ (Levels[t] > 0 /\ \E d \in DependsOn(t) : ~IsValid(d)))
        BY Zenon, <3>3 DEF CInv, VerdictsExact, Judged
      <4> QED
        BY Zenon, <1>1, <1>5, <4>1, Frame
    <3> QED
      BY Zenon, <3>1, <3>2, <3>3
  <2> QED
    BY Zenon, <2>1, <2>2
<1> QED
  BY Zenon, <1>3, <1>4, <1>6, <1>7

-----------------------------------------------------------------------------
(* A step of the goroutine of t: it belongs to the current level, and the  *)
(* committing goroutine cannot have gone past that level.                  *)
LEMMA AtWork ==
    ASSUME CInv, NEW t \in TxIDs, worker[t] \notin {"none", "done"}
    PROVE  /\ t \in Nodes /\ Levels[t] = level /\ ~Waiting(t) /\ dagPC = "done"
           /\ mainPC \notin {"build", "flags", "commit", "legacy", "returned", "error"}
<1>1. t \in Nodes
  BY Zenon DEF CInv, Workers, Knows
<1>2. mainPC # "build" /\ dagPC = "done"
  BY Zenon DEF CInv, Stage
<1>3. level \in Nat /\ Levels[t] \in {NoLevel} \cup Nat
  BY Zenon DEF CInv, TypeOK, DAGTypeOK
<1>4. ~(Levels[t] < level) /\ ~(Levels[t] > level) /\ ~Waiting(t)
  BY Zenon, <1>1, <1>2 DEF CInv, Order, Finished, Untouched
<1>5. mainPC \notin {"flags", "commit", "legacy", "returned", "error"}
  BY Zenon, <1>1 DEF CInv, Ended, Finished
<1> QED
  BY SMTT(30), <1>1, <1>2, <1>3, <1>4, <1>5 DEF NoLevel

LEMMA WorkerKeeps ==
    ASSUME CInv, NEW t \in TxIDs, NEW from, NEW to, WorkerStep(t, from, to),
           from \notin {"none", "done"}, to # "none",
           to \in {"done"} => Judged(t)',
           \A u \in TxIDs \ {t} : ValidationResults'[u] = ValidationResults[u],
           Judged(t) => Judged(t)'
    PROVE  Stage' /\ Order' /\ Ended' /\ Written'
<1>1. /\ UNCHANGED <<Nodes, Levels, dagPC, mainPC, level, pending, current>>
      /\ worker[t] = from /\ worker' = [worker EXCEPT ![t] = to]
  BY Zenon DEF WorkerStep, dagVars, graphVars, levelVars
<1>2. /\ t \in Nodes /\ Levels[t] = level /\ ~Waiting(t) /\ dagPC = "done"
      /\ mainPC \notin {"build", "flags", "commit", "legacy", "returned", "error"}
  BY Zenon, <1>1, AtWork
<1>3. worker \in [TxIDs -> {"none", "validate", "store", "storing", "set", "release",
                             "released", "done"}] /\ Nodes \subseteq TxIDs /\ level \in Nat
  BY Zenon DEF CInv, TypeOK, DAGTypeOK
<1>4. worker'[t] = to /\ \A u \in TxIDs \ {t} : worker'[u] = worker[u]
  BY Zenon, <1>1, <1>3
<1>5. Stage' /\ Ended' /\ Written'
  BY Zenon, <1>1, <1>2 DEF CInv, Stage, Ended, Written
<1>6. Order'
  <2> SUFFICES ASSUME NEW u \in Nodes
               PROVE  /\ Levels[u] < level => Finished(u)'
                      /\ Levels[u] > level => Untouched(u)'
                      /\ Waiting(u) => Levels[u] = level /\ Untouched(u)'
                      /\ Levels[u] = level /\ ~Waiting(u) => Judged(u)' \/ worker'[u] # "none"
    BY Zenon, <1>1 DEF Order, Waiting
  <2>1. CASE u = t
    BY SMTT(30), <1>2, <1>3, <1>4, <2>1
  <2>2. CASE u # t
    <3>1. worker'[u] = worker[u] /\ (Judged(u)' <=> Judged(u))
      BY Zenon, <1>3, <1>4, <2>2 DEF Judged
    <3> QED
      BY Zenon, <1>2, <3>1 DEF CInv, Order, Finished, Untouched
  <2> QED
    BY Zenon, <2>1, <2>2
<1> QED
  BY Zenon, <1>5, <1>6

(* The steps of a goroutine that give no verdict.                          *)
LEMMA SilentKeeps ==
    ASSUME SetFacts, CInv, NEW t \in TxIDs,
           Validate(t) \/ LockStore(t) \/ UnlockStore(t) \/ Release(t) \/ Done(t)
    PROVE  CInv'
<1> USE DEF CInv
<1>1. /\ UNCHANGED dagVars /\ UNCHANGED <<mainPC, level, pending, current, ValidationResults>>
      /\ UNCHANGED blockVars
  BY Zenon DEF Validate, LockStore, UnlockStore, Release, Done, WorkerStep
<1>2. PICK from \in {"validate", "store", "storing", "release", "released"},
           to \in {"store", "storing", "set", "released", "done"} :
        /\ WorkerStep(t, from, to)
        /\ <<from, to>> \in {<<"validate", "store">>, <<"store", "storing">>,
              <<"storing", "set">>, <<"release", "released">>, <<"released", "done">>}
  BY Zenon DEF Validate, LockStore, UnlockStore, Release, Done
<1>3. /\ worker[t] = from /\ worker' = [worker EXCEPT ![t] = to]
  BY Zenon, <1>2 DEF WorkerStep
<1>4. /\ worker \in [TxIDs -> {"none", "validate", "store", "storing", "set", "release",
                               "released", "done"}]
      /\ isValid \in [TxIDs -> BOOLEAN] /\ Nodes \subseteq TxIDs
  BY Zenon DEF TypeOK, DAGTypeOK
<1>5. worker'[t] = to /\ \A u \in TxIDs \ {t} : worker'[u] = worker[u]
  BY Zenon, <1>3, <1>4
<1>6. t \in Nodes
  BY Zenon, <1>2, <1>3, AtWork
<1>7. /\ VerdictsExact'
      /\ \A u : (Judged(u)' <=> Judged(u)) /\ (IsValid(u)' <=> IsValid(u))
      /\ \A u : ParentsValid(u)' <=> ParentsValid(u)
  BY Zenon, <1>1, VerdictsStand
<1>8. Judged(t) <=> to \in {"released", "done"}
  BY Zenon, <1>2, <1>3 DEF Workers, Knows
<1>9. Stage' /\ Order' /\ Ended' /\ Written'
  <2>1. to \in {"done"} => Judged(t)'
    BY Zenon, <1>7, <1>8
  <2>2. Judged(t) => Judged(t)'
    BY Zenon, <1>7
  <2>3. \A u \in TxIDs \ {t} : ValidationResults'[u] = ValidationResults[u]
    BY Zenon, <1>1
  <2>4. from \notin {"none", "done"} /\ to # "none"
    BY Zenon, <1>2
  <2> QED
    BY ZenonT(30), <1>2, <2>1, <2>2, <2>3, <2>4, WorkerKeeps
<1>10. DAGTypeOK' /\ Indexed' /\ Placed' /\ Complete'
  BY Zenon, <1>1, Static
<1>11. isValid' \in [TxIDs -> BOOLEAN] /\ \A u \in TxIDs \ {t} : isValid'[u] = isValid[u]
  BY Zenon, <1>4 DEF Validate, LockStore, UnlockStore, Release, Done
<1>12. to \in {"store", "storing", "set"} => Found(t)'
  <2>1. CASE Validate(t)
    <3>1. PICK v \in BOOLEAN : /\ IF v THEN MayPass(t) ELSE MayFail(t)
                               /\ isValid' = [isValid EXCEPT ![t] = v]
      BY Zenon, <2>1 DEF Validate
    <3>2. isValid'[t] = v
      BY Zenon, <1>4, <3>1
    <3> QED
      BY ZenonT(30), <1>1, <3>1, <3>2, Frame DEF Found
  <2>2. CASE UNCHANGED isValid /\ worker[t] # "validate"
    <3>1. to \in {"store", "storing", "set"} => Found(t)
      BY Zenon, <1>2, <1>3, <2>2 DEF Workers, Knows
    <3> QED
      BY Zenon, <1>1, <2>2, <3>1, Frame DEF Found
  <2> QED
    BY Zenon, <2>1, <2>2 DEF LockStore, UnlockStore, Release, Done, WorkerStep
<1>13. Workers'
  <2> SUFFICES ASSUME NEW u \in TxIDs PROVE Knows(u)'
    BY Zenon DEF Workers
  <2>1. UNCHANGED <<Nodes, current>>
    BY Zenon, <1>1 DEF dagVars, graphVars
  <2>2. CASE u = t
    <3>1. ParentsValid(t)
      BY Zenon, <1>2, <1>3 DEF Workers, Knows
    <3> QED
      BY Zenon, <1>2, <1>5, <1>6, <1>7, <1>8, <1>12, <2>1, <2>2, <3>1 DEF Knows
  <2>3. CASE u # t
    <3>1. worker'[u] = worker[u] /\ isValid'[u] = isValid[u]
      BY Zenon, <1>5, <1>11, <2>3
    <3>2. Found(u)' <=> Found(u)
      BY ZenonT(30), <1>1, <3>1, Frame DEF Found
    <3> QED
      BY Zenon, <1>7, <2>1, <3>1, <3>2 DEF Workers, Knows
  <2> QED
    BY Zenon, <2>2, <2>3
<1>14. Tokens' /\ sem' \in Nat
  <2>1. CASE Release(t)
    <3>1. Holders' = Holders \ {t} /\ t \in Holders
      BY Zenon, <1>3, <1>4, <1>5, <2>1 DEF Holders, Release, WorkerStep
    <3>2. /\ IsFiniteSet(Holders') /\ Cardinality(Holders') = Cardinality(Holders) - 1
          /\ Cardinality(Holders') \in Nat
      BY Zenon, <3>1 DEF Tokens, SetFacts
    <3> QED
      BY SMTT(30), <2>1, <3>2, LimitAssumption DEF Tokens, Release, TypeOK
  <2>2. CASE UNCHANGED sem /\ worker[t] # "release"
    <3>1. Holders' = Holders
      BY Zenon, <1>2, <1>3, <1>4, <1>5, <2>2 DEF Holders
    <3> QED
      BY Zenon, <2>2, <3>1 DEF Tokens, TypeOK
  <2> QED
    BY Zenon, <2>1, <2>2 DEF Validate, LockStore, UnlockStore, Done, WorkerStep
<1>15. TypeOK'
  <2>1. worker' \in [TxIDs -> {"none", "validate", "store", "storing", "set", "release",
                               "released", "done"}]
    BY Zenon, <1>3, <1>4
  <2>2. storing' \in Nodes \cup {NoTxID}
    BY Zenon, <1>6 DEF Validate, LockStore, UnlockStore, Release, Done, TypeOK
  <2>3. UNCHANGED <<Nodes, block, flags, prior, committed>>
    BY Zenon, <1>1 DEF dagVars, graphVars, blockVars
  <2> QED
    BY Zenon, <1>1, <1>10, <1>11, <1>14, <2>1, <2>2, <2>3 DEF TypeOK
<1> QED
  BY Zenon, <1>7, <1>9, <1>10, <1>13, <1>14, <1>15

LEMMA SetKeeps ==
    ASSUME CInv, NEW t \in TxIDs, SetValidationResult(t)
    PROVE  CInv'
<1> USE DEF CInv
<1> DEFINE v == IF isValid[t] THEN "valid" ELSE "invalid"
<1>1. /\ UNCHANGED dagVars /\ UNCHANGED blockVars
      /\ UNCHANGED <<mainPC, level, pending, current, isValid, storing, sem>>
      /\ worker[t] = "set" /\ worker' = [worker EXCEPT ![t] = "release"]
      /\ ValidationResults' = [ValidationResults EXCEPT ![t] = v]
      /\ WorkerStep(t, "set", "release")
  BY Zenon DEF SetValidationResult, WorkerStep
<1>2. /\ worker \in [TxIDs -> {"none", "validate", "store", "storing", "set", "release",
                               "released", "done"}]
      /\ Nodes \subseteq TxIDs
      /\ ValidationResults \in [TxIDs -> {"unset", "valid", "invalid"}]
  BY Zenon DEF TypeOK, DAGTypeOK
<1>3. worker'[t] = "release" /\ \A u \in TxIDs \ {t} : worker'[u] = worker[u]
  BY Zenon, <1>1, <1>2
<1>4. t \in Nodes /\ Levels[t] = level /\ mainPC # "build"
  BY Zenon, <1>1, AtWork
<1>5. ~Judged(t) /\ ParentsValid(t) /\ Found(t)
  BY Zenon, <1>1 DEF Workers, Knows
<1>6. /\ v \in {"valid", "invalid"}
      /\ v = "valid" => MayPass(t)
      /\ v = "invalid" => MayFail(t)
  BY Zenon, <1>5 DEF Found
<1> HIDE DEF v
<1>7. /\ VerdictsExact'
      /\ \A u \in TxIDs \ {t} : ValidationResults'[u] = ValidationResults[u]
      /\ ValidationResults'[t] = v
      /\ \A u \in TxIDs : Judged(u) => (IsValid(u)' <=> IsValid(u))
      /\ \A u \in Nodes : (Judged(u) \/ Levels[u] = level) /\ ParentsValid(u) => ParentsValid(u)'
  BY ZenonT(30), <1>1, <1>4, <1>5, <1>6, VerdictAdded
<1>8. Judged(t)' /\ \A u \in TxIDs \ {t} : Judged(u)' <=> Judged(u)
  BY Zenon, <1>6, <1>7 DEF Judged
<1>9. Stage' /\ Order' /\ Ended' /\ Written'
  <2>1. "set" \notin {"none", "done"} /\ "release" # "none" /\ "release" \notin {"done"}
    BY Zenon
  <2> QED
    BY ZenonT(30), <1>1, <1>7, <1>8, <2>1, WorkerKeeps
<1>10. DAGTypeOK' /\ Indexed' /\ Placed' /\ Complete'
  BY Zenon, <1>1, Static
<1>11. Workers'
  <2> SUFFICES ASSUME NEW u \in TxIDs PROVE Knows(u)'
    BY Zenon DEF Workers
  <2>1. UNCHANGED <<Nodes, current, isValid>>
    BY Zenon, <1>1 DEF dagVars, graphVars
  <2>2. CASE u = t
    BY Zenon, <1>3, <1>4, <1>5, <1>7, <1>8, <2>1, <2>2 DEF Knows
  <2>3. CASE u # t
    <3>1. worker'[u] = worker[u] /\ (Judged(u)' <=> Judged(u))
      BY Zenon, <1>3, <1>8, <2>3
    <3>2. Found(u)' <=> Found(u)
      BY ZenonT(30), <1>1, <2>1, Frame DEF Found
    <3>3. worker[u] # "none" \/ u = current => u \in Nodes /\ (Judged(u) \/ Levels[u] = level)
      <4>1. CASE worker[u] \in {"none", "done"}
        BY Zenon, <4>1, <1>4, BlockAssumption DEF Workers, Knows, Order, Waiting, TypeOK
      <4>2. CASE worker[u] \notin {"none", "done"}
        BY Zenon, <4>2, AtWork
      <4> QED
        BY Zenon, <4>1, <4>2
    <3>4. worker[u] # "none" \/ u = current => ParentsValid(u)'
      BY Zenon, <1>7, <3>3 DEF Workers, Knows
    <3> QED
      BY Zenon, <2>1, <3>1, <3>2, <3>4 DEF Workers, Knows
  <2> QED
    BY Zenon, <2>2, <2>3
<1>12. Tokens'
  <2>1. Holders' = Holders
    BY Zenon, <1>1, <1>2, <1>3 DEF Holders
  <2> QED
    BY Zenon, <1>1, <2>1 DEF Tokens
<1>13. TypeOK'
  <2>1. worker' \in [TxIDs -> {"none", "validate", "store", "storing", "set", "release",
                               "released", "done"}]
    BY Zenon, <1>1, <1>2
  <2>2. ValidationResults' \in [TxIDs -> {"unset", "valid", "invalid"}]
    BY Zenon, <1>1, <1>2, <1>6
  <2>3. UNCHANGED <<Nodes, block, flags, prior, committed>>
    BY Zenon, <1>1 DEF dagVars, graphVars, blockVars
  <2>4. isValid' \in [TxIDs -> BOOLEAN]
    BY Zenon, <1>1 DEF TypeOK
  <2> QED
    BY Zenon, <1>1, <1>10, <2>1, <2>2, <2>3, <2>4 DEF TypeOK
<1> QED
  BY Zenon, <1>7, <1>9, <1>10, <1>11, <1>12, <1>13

-----------------------------------------------------------------------------
(* The committing goroutine up to level 0.                                 *)
LEMMA BuildKeeps ==
    ASSUME SetFacts, CInv, Build
    PROVE  CInv'
<1> USE DEF CInv
<1>1. mainPC = "build" /\ DAGNext /\ UNCHANGED <<mainPC, workVars, blockVars>>
  BY Zenon DEF Build
<1>2. DAGTypeOK' /\ Indexed' /\ Placed'
  BY Zenon, <1>1, NextDAG DEF TypeOK
<1>3. /\ pending = {} /\ pending' = {} /\ current = NoTxID /\ current' = NoTxID
      /\ \A t \in TxIDs : worker'[t] = "none" /\ ~Judged(t)'
      /\ UNCHANGED <<level, storing, sem, worker, isValid, ValidationResults>>
  BY Zenon, <1>1 DEF Stage, workVars, Judged
<1>4. block' = block /\ (Nodes' = Nodes \/ \E id \in TxIDs : Nodes' = Nodes \cup {id})
  <2>1. CASE AddTransaction
    <3>1. Nodes' = Nodes \cup {block[pos + 1].TxID}
      BY Zenon, <2>1 DEF AddTransaction
    <3> QED
      BY Zenon, <1>2, <2>1, <3>1 DEF AddTransaction, DAGTypeOK
  <2>2. CASE ~AddTransaction
    BY Zenon, <1>1, <2>2 DEF DAGNext, SkipTransaction, StartLevels, NextPass, EndLevels, Visit, graphVars
  <2> QED
    BY Zenon, <2>1, <2>2
<1>5. Complete'
  <2>1. IsFiniteSet(Nodes')
    BY SMTT(30), <1>4 DEF Complete, SetFacts
  <2>2. ASSUME dagPC' = "done" PROVE \A t \in Nodes' : Levels'[t] # NoLevel
    <3>1. EndLevels
      BY ZenonT(30), <1>1, <2>2 DEF DAGNext, SkipTransaction, AddTransaction, StartLevels, NextPass, Visit
    <3> QED
      BY SMTT(30), <3>1 DEF EndLevels, graphVars, TypeOK, DAGTypeOK, NoLevel
  <2> QED
    BY Zenon, <2>1, <2>2 DEF Complete
<1>6. TypeOK'
  <2>1. isValid' \in [TxIDs -> BOOLEAN]
    BY Zenon, <1>3 DEF TypeOK
  <2>2. UNCHANGED <<mainPC, flags, prior, committed>>
    BY Zenon, <1>1 DEF blockVars
  <2> QED
    BY Zenon, <1>2, <1>3, <1>4, <2>1, <2>2 DEF TypeOK
<1>7. Stage' /\ Order' /\ Ended' /\ Written'
  BY Zenon, <1>1, <1>3 DEF Stage, Order, Ended, Written
<1>8. Workers' /\ VerdictsExact'
  BY ZenonT(30), <1>2, <1>3, BlockAssumption DEF Workers, Knows, VerdictsExact, Judged, DAGTypeOK
<1>9. Tokens'
  BY Zenon, <1>3 DEF Tokens, Holders
<1> QED
  BY Zenon, <1>2, <1>5, <1>6, <1>7, <1>8, <1>9

LEMMA StartKeeps ==
    ASSUME CInv, StartProcess
    PROVE  CInv'
<1> USE DEF CInv
<1>1. /\ mainPC = "build" /\ dagPC = "done" /\ level' = 0 /\ pending' = TxsByLevel(0)
      /\ mainPC' = "level" /\ UNCHANGED dagVars /\ UNCHANGED blockVars
      /\ UNCHANGED <<current, worker, isValid, storing, sem, ValidationResults>>
  BY Zenon DEF StartProcess
<1>2. UNCHANGED <<block, Nodes, Levels, dagPC, flags, prior, committed>>
  BY Zenon, <1>1 DEF dagVars, graphVars, levelVars, blockVars
<1>3. /\ current = NoTxID /\ NoTxID \notin Nodes /\ Nodes \subseteq TxIDs
      /\ \A t \in TxIDs : worker[t] = "none" /\ ~Judged(t)
  BY Zenon, <1>1, BlockAssumption DEF Stage, TypeOK, DAGTypeOK
<1>4. DAGTypeOK' /\ Indexed' /\ Placed' /\ Complete'
  BY Zenon, <1>1, Static
<1>5. /\ VerdictsExact'
      /\ \A t : (Judged(t)' <=> Judged(t)) /\ (IsValid(t)' <=> IsValid(t))
      /\ \A t : ParentsValid(t)' <=> ParentsValid(t)
  BY ZenonT(30), <1>1, VerdictsStand
<1>6. \A t \in Nodes : Levels[t] \in Nat
  BY Zenon, <1>1, <1>3 DEF Complete, TypeOK, DAGTypeOK
<1>7. Stage' /\ Ended' /\ Written'
  BY Zenon, <1>1, <1>2, <1>3 DEF Stage, Ended, Written, TxsByLevel
<1>8. Order'
  <2> SUFFICES ASSUME NEW t \in Nodes
               PROVE  /\ ~(Levels[t] < 0)
                      /\ Levels[t] > 0 => Untouched(t)'
                      /\ t \in pending' => Levels[t] = 0 /\ Untouched(t)'
                      /\ Levels[t] = 0 => t \in pending'
    BY Zenon, <1>1, <1>2, <1>3 DEF Order, Waiting
  <2>1. Untouched(t)'
    BY Zenon, <1>1, <1>3, <1>5 DEF Untouched
  <2> QED
    BY SMTT(30), <1>1, <1>6, <2>1 DEF TxsByLevel
<1>9. Workers'
  BY Zenon, <1>1, <1>3, BlockAssumption DEF Workers, Knows
<1>10. Tokens'
  BY Zenon, <1>1 DEF Tokens, Holders
<1>11. TypeOK'
  <2>1. isValid' \in [TxIDs -> BOOLEAN]
    BY Zenon, <1>1 DEF TypeOK
  <2> QED
    BY Zenon, <1>1, <1>2, <1>4, <2>1 DEF TypeOK, TxsByLevel
<1> QED
  BY Zenon, <1>4, <1>5, <1>7, <1>8, <1>9, <1>10, <1>11
=============================================================================
