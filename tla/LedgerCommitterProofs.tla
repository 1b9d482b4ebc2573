------------------------ MODULE LedgerCommitterProofs ------------------------
(***************************************************************************)
(* Proofs about LedgerCommitter: the committing goroutine keeps the        *)
(* invariant of LedgerCommitterWorkers, and what follows from it, for      *)
(* every set of blocks of any length, every ConcurrencyLimit and every     *)
(* interleaving of the goroutines.                                         *)
(***************************************************************************)
EXTENDS LedgerCommitterWorkers

(* The steps that touch neither a verdict nor a goroutine.                 *)
LEMMA QuietKeeps ==
    ASSUME CInv,
           EndWrite \/ ConcurrentMapWrites \/ (\E t \in TxIDs : Take(t)) \/ EndLevel
           \/ WriteFlags \/ Commit \/ CommitFails
    PROVE  CInv'
<1> USE DEF CInv
<1>1. UNCHANGED dagVars /\ UNCHANGED <<worker, isValid, storing, sem, ValidationResults, prior>>
  BY Zenon DEF EndWrite, ConcurrentMapWrites, Take, EndLevel, WriteFlags, Commit, CommitFails,
         workVars, blockVars
<1>2. UNCHANGED <<block, Nodes, Levels, TxIndices, dagPC>>
  BY Zenon, <1>1 DEF dagVars, graphVars, levelVars
<1>3. /\ NoTxID \notin Nodes /\ Nodes \subseteq TxIDs /\ level \in Nat
      /\ Levels \in [TxIDs -> {NoLevel} \cup Nat]
  BY Zenon, BlockAssumption DEF TypeOK, DAGTypeOK
<1>4. DAGTypeOK' /\ Indexed' /\ Placed' /\ Complete'
  BY Zenon, <1>1, Static
<1>5. /\ VerdictsExact'
      /\ \A t : (Judged(t)' <=> Judged(t)) /\ (IsValid(t)' <=> IsValid(t))
      /\ \A t : ParentsValid(t)' <=> ParentsValid(t)
  BY Zenon, <1>1, VerdictsStand
<1>6. \A t : (Found(t)' <=> Found(t)) /\ (Finished(t)' <=> Finished(t))
             /\ (Untouched(t)' <=> Untouched(t))
  <2>1. \A t : (Finished(t)' <=> Finished(t)) /\ (Untouched(t)' <=> Untouched(t))
    BY Zenon, <1>1, <1>5 DEF Finished, Untouched
  <2>2. \A t : Found(t)' <=> Found(t)
    BY Zenon, <1>1, Frame DEF Found
  <2> QED
    BY Zenon, <2>1, <2>2
<1>7. Tokens'
  BY Zenon, <1>1 DEF Tokens, Holders
<1>8. isValid' \in [TxIDs -> BOOLEAN]
  BY Zenon, <1>1 DEF TypeOK
<1>9. CASE EndWrite \/ ConcurrentMapWrites
  <2>1. /\ mainPC = "write" /\ mainPC' \in {"level", "fatal"}
        /\ UNCHANGED <<level, pending, current, flags, committed>>
    BY Zenon, <1>9 DEF EndWrite, ConcurrentMapWrites, workVars, blockVars
  <2>2. Stage' /\ Ended' /\ Written'
    BY Zenon, <2>1, <1>2 DEF Stage, Ended, Written
  <2>3. Order'
    BY Zenon, <2>1, <1>2, <1>1, <1>5, <1>6 DEF Order, Waiting
  <2>4. Workers'
    BY Zenon, <2>1, <1>2, <1>1, <1>5, <1>6 DEF Workers, Knows
  <2>5. TypeOK'
    BY Zenon, <2>1, <1>1, <1>2, <1>4, <1>8 DEF TypeOK
  <2> QED
    BY Zenon, <1>4, <1>5, <1>7, <2>2, <2>3, <2>4, <2>5
<1>10. ASSUME NEW t \in TxIDs, Take(t) PROVE CInv'
  <2>1. /\ mainPC = "level" /\ mainPC' = "acquire" /\ t \in pending /\ ~DependencyInvalid(t)
        /\ pending' = pending \ {t} /\ current' = t
        /\ UNCHANGED <<level, flags, committed>>
    BY Zenon, <1>10 DEF Take, blockVars
  <2>2. t \in Nodes /\ Levels[t] = level /\ Untouched(t) /\ current = NoTxID
    BY Zenon, <2>1 DEF Order, Waiting, Stage, TypeOK
  <2>3. Stage' /\ Ended' /\ Written'
    BY Zenon, <2>1, <2>2, <1>2, <1>3 DEF Stage, Ended, Written
  <2>4. Order'
    BY Zenon, <2>1, <2>2, <1>1, <1>2, <1>3, <1>5, <1>6 DEF Order, Waiting
  <2>5. ParentsValid(t)
    BY Zenon, <2>1, <2>2 DEF ParentsValid, DependencyInvalid
  <2>6. Workers'
    BY Zenon, <2>1, <2>5, <1>2, <1>1, <1>5, <1>6 DEF Workers, Knows
  <2>7. TypeOK'
    BY Zenon, <2>1, <2>2, <1>1, <1>2, <1>4, <1>8 DEF TypeOK
  <2> QED
    BY Zenon, <1>4, <1>5, <1>7, <2>3, <2>4, <2>6, <2>7
<1>11. CASE EndLevel
  <2>1. /\ mainPC = "level" /\ pending = {} /\ Running = {} /\ current = NoTxID
        /\ UNCHANGED <<current, flags, committed>>
    BY Zenon, <1>11 DEF EndLevel, Stage, blockVars
  <2>2. ASSUME NEW t \in Nodes, Levels[t] <= level PROVE Finished(t)
    <3>1. Judged(t) \/ worker[t] # "none"
      BY <2>1, <2>2, <1>3 DEF Order, Waiting, Finished, NoLevel
    <3>2. worker[t] \in {"none", "done"}
      BY Zenon, <2>1, <1>3 DEF Running
    <3> QED
      BY Zenon, <3>1, <3>2, <1>3 DEF Workers, Knows, Finished
  <2>3. CASE \E t \in Nodes : Levels[t] > level
    <3>1. level' = level + 1 /\ pending' = TxsByLevel(level + 1) /\ mainPC' = "level"
      BY Zenon, <2>1, <2>3, <1>11 DEF EndLevel
    <3>2. Stage' /\ Ended' /\ Written'
      BY Zenon, <2>1, <3>1, <1>2, <1>3 DEF Stage, Ended, Written, TxsByLevel
    <3>3. Order'
      <4> SUFFICES ASSUME NEW t \in Nodes
                   PROVE  /\ Levels[t] < level + 1 => Finished(t)
                          /\ Levels[t] > level + 1 => Untouched(t)
                          /\ t \in pending' => Levels[t] = level + 1 /\ Untouched(t)
                          /\ Levels[t] = level + 1 => t \in pending'
        BY Zenon, <2>1, <3>1, <1>2, <1>3, <1>6 DEF Order, Waiting
      <4>1. Levels[t] \in Int /\ level \in Int
        BY SMTT(30), <1>3 DEF NoLevel
      <4>2. Levels[t] > level => Untouched(t)
        BY Zenon, <2>1 DEF Order
      <4> QED
        BY SMTT(30), <2>2, <3>1, <4>1, <4>2 DEF TxsByLevel
    <3>4. Workers'
      BY Zenon, <2>1, <1>2, <1>1, <1>5, <1>6 DEF Workers, Knows
    <3>5. TypeOK'
      BY SMTT(30), <2>1, <3>1, <1>1, <1>2, <1>4, <1>8, <1>3 DEF TypeOK, TxsByLevel
    <3> QED
      BY Zenon, <1>4, <1>5, <1>7, <3>2, <3>3, <3>4, <3>5
  <2>4. CASE ~\E t \in Nodes : Levels[t] > level
    <3>1. mainPC' = "flags" /\ UNCHANGED <<level, pending>>
      BY Zenon, <2>4, <1>11 DEF EndLevel
    <3>2. \A t \in Nodes : Finished(t)
      BY SMTT(30), <2>2, <2>4, <1>3 DEF NoLevel
    <3>3. Stage' /\ Ended' /\ Written'
      BY Zenon, <2>1, <3>1, <3>2, <1>2, <1>6 DEF Stage, Ended, Written
    <3>4. Order'
      BY Zenon, <2>1, <3>1, <1>2, <1>1, <1>5, <1>6 DEF Order, Waiting
    <3>5. Workers'
      BY Zenon, <2>1, <1>2, <1>1, <1>5, <1>6 DEF Workers, Knows
    <3>6. TypeOK'
      BY Zenon, <2>1, <3>1, <1>1, <1>2, <1>4, <1>8 DEF TypeOK
    <3> QED
      BY Zenon, <1>4, <1>5, <1>7, <3>3, <3>4, <3>5, <3>6
  <2> QED
    BY Zenon, <2>3, <2>4
<1>12. CASE WriteFlags \/ Commit \/ CommitFails
  <2>1. /\ mainPC \in {"flags", "commit", "legacy"}
        /\ mainPC' \in {"commit", "legacy", "returned", "error"}
        /\ UNCHANGED <<level, pending, current>>
    BY Zenon, <1>12 DEF WriteFlags, Commit, CommitFails, workVars
  <2>2. Written' /\ (committed' = committed \/ committed' = flags)
    <3>1. \A t : IsValid(t)' = IsValid(t)
      BY Zenon, <1>1 DEF IsValid
    <3>2. CASE WriteFlags
      BY Zenon, <3>1, <3>2, <1>2 DEF WriteFlags, Written
    <3>3. CASE Commit \/ CommitFails
      BY Zenon, <3>1, <3>3, <1>2 DEF Commit, CommitFails, Written, blockVars
    <3> QED
      BY Zenon, <1>12, <3>2, <3>3 DEF WriteFlags
  <2>3. Stage' /\ Ended'
    BY Zenon, <2>1, <1>2, <1>6 DEF Stage, Ended
  <2>4. Order'
    BY ZenonT(30), <2>1, <1>2, <1>1, <1>5, <1>6 DEF Order, Waiting
  <2>5. Workers'
    BY Zenon, <2>1, <1>2, <1>1, <1>5, <1>6 DEF Workers, Knows
  <2>6. flags' \in [1..Len(block) -> {VALID, MVCC_READ_CONFLICT}]
    BY Zenon, <2>1, <2>2, <1>2 DEF Written
  <2>7. committed' = None \/ committed' \in [1..Len(block) -> {VALID, MVCC_READ_CONFLICT}]
    BY Zenon, <1>12, <2>6 DEF WriteFlags, Commit, CommitFails, blockVars, TypeOK
  <2>8. TypeOK'
    BY Zenon, <2>1, <2>6, <2>7, <1>1, <1>2, <1>4, <1>8 DEF TypeOK
  <2> QED
    BY Zenon, <1>4, <1>5, <1>7, <2>2, <2>3, <2>4, <2>5, <2>8
<1> QED
  BY Zenon, <1>9, <1>10, <1>11, <1>12

LEMMA MarkKeeps ==
    ASSUME CInv, NEW t \in TxIDs, MarkInvalid(t)
    PROVE  CInv'
<1> USE DEF CInv
<1>1. /\ mainPC = "level" /\ mainPC' = "write" /\ t \in pending /\ DependencyInvalid(t)
      /\ ValidationResults' = [ValidationResults EXCEPT ![t] = "invalid"]
      /\ pending' = pending \ {t} /\ UNCHANGED dagVars
      /\ UNCHANGED <<level, current, worker, isValid, storing, sem, flags, prior, committed>>
  BY Zenon DEF MarkInvalid, blockVars
<1>2. UNCHANGED <<block, Nodes, Levels, TxIndices, dagPC>>
  BY Zenon, <1>1 DEF dagVars, graphVars, levelVars
<1>3. /\ Nodes \subseteq TxIDs /\ level \in Nat
      /\ ValidationResults \in [TxIDs -> {"unset", "valid", "invalid"}]
  BY Zenon DEF TypeOK, DAGTypeOK
<1>4. t \in Nodes /\ Levels[t] = level /\ Untouched(t) /\ t # current /\ current = NoTxID
  BY Zenon, <1>1, BlockAssumption DEF Order, Waiting, Stage, TypeOK
<1>5. DAGTypeOK' /\ Indexed' /\ Placed' /\ Complete'
  BY Zenon, <1>1, Static
<1>6. Levels[t] > 0 /\ \E d \in DependsOn(t) : ~IsValid(d)
  BY Zenon, <1>1, <1>4 DEF DependencyInvalid
<1>7. /\ VerdictsExact'
      /\ \A u \in TxIDs \ {t} : ValidationResults'[u] = ValidationResults[u]
      /\ ValidationResults'[t] = "invalid"
      /\ \A u \in TxIDs : Judged(u) => (IsValid(u)' <=> IsValid(u))
      /\ \A u \in Nodes : (Judged(u) \/ Levels[u] = level) /\ ParentsValid(u) => ParentsValid(u)'
  <2>1. mainPC # "build" /\ ~Judged(t)
    BY Zenon, <1>1, <1>4 DEF Untouched
  <2>2. "invalid" \in {"valid", "invalid"} /\ "invalid" # "valid"
    BY Zenon
  <2> QED
    BY ZenonT(30), <1>1, <1>4, <1>6, <2>1, <2>2, VerdictAdded
<1>8. Judged(t)' /\ \A u \in TxIDs \ {t} : Judged(u)' <=> Judged(u)
  BY Zenon, <1>7 DEF Judged
<1>9. Stage' /\ Ended' /\ Written'
  BY Zenon, <1>1, <1>2 DEF Stage, Ended, Written
<1>10. Order'
  <2> SUFFICES ASSUME NEW u \in Nodes
               PROVE  /\ Levels[u] < level => Finished(u)'
                      /\ Levels[u] > level => Untouched(u)'
                      /\ Waiting(u)' => Levels[u] = level /\ Untouched(u)'
                      /\ Levels[u] = level /\ ~Waiting(u)' => Judged(u)' \/ worker'[u] # "none"
    BY ZenonT(30), <1>1, <1>2 DEF Order
  <2>1. CASE u = t
    <3>1. ~(Levels[u] < level) /\ ~(Levels[u] > level) /\ ~Waiting(u)'
      BY SMTT(30), <1>1, <1>3, <1>4, <2>1 DEF Waiting
    <3> QED
      BY Zenon, <1>8, <2>1, <3>1
  <2>2. CASE u # t
    <3>1. (Waiting(u)' <=> Waiting(u)) /\ (Judged(u)' <=> Judged(u))
      BY Zenon, <1>1, <1>3, <1>8, <2>2 DEF Waiting
    <3> QED
      BY Zenon, <1>1, <3>1 DEF Order, Finished, Untouched
  <2> QED
    BY Zenon, <2>1, <2>2
<1>11. Workers'
  <2> SUFFICES ASSUME NEW u \in TxIDs PROVE Knows(u)'
    BY Zenon DEF Workers
  <2>1. CASE u = t
    BY Zenon, <1>1, <1>4, <2>1 DEF Knows, Untouched
  <2>2. CASE u # t
    <3>1. Judged(u)' <=> Judged(u)
      BY Zenon, <1>8, <2>2
    <3>2. Found(u)' <=> Found(u)
      BY ZenonT(30), <1>1, Frame DEF Found
    <3>3. worker[u] # "none" \/ u = current => u \in Nodes /\ (Judged(u) \/ Levels[u] = level)
      <4>1. CASE worker[u] \in {"none", "done"}
        BY Zenon, <4>1, <1>4, BlockAssumption DEF Workers, Knows
      <4>2. CASE worker[u] \notin {"none", "done"}
        BY Zenon, <4>2, AtWork
      <4> QED
        BY Zenon, <4>1, <4>2
    <3>4. worker[u] # "none" \/ u = current => ParentsValid(u)'
      BY Zenon, <1>7, <3>3 DEF Workers, Knows
    <3> QED
      BY Zenon, <1>1, <1>2, <3>1, <3>2, <3>4 DEF Workers, Knows
  <2> QED
    BY Zenon, <2>1, <2>2
<1>12. Tokens'
  BY Zenon, <1>1 DEF Tokens, Holders
<1>13. TypeOK'
  <2>1. isValid' \in [TxIDs -> BOOLEAN]
    BY Zenon, <1>1 DEF TypeOK
  <2>2. ValidationResults' \in [TxIDs -> {"unset", "valid", "invalid"}]
    BY Zenon, <1>1, <1>3
  <2> QED
    BY Zenon, <1>1, <1>2, <1>5, <2>1, <2>2 DEF TypeOK
<1> QED
  BY Zenon, <1>5, <1>7, <1>9, <1>10, <1>11, <1>12, <1>13

LEMMA SpawnKeeps ==
    ASSUME SetFacts, CInv, Spawn
    PROVE  CInv'
<1> USE DEF CInv
<1> DEFINE t == current
<1>1. /\ mainPC = "acquire" /\ mainPC' = "level"
      /\ ConcurrencyLimit > 0 => sem < ConcurrencyLimit
      /\ sem' = IF ConcurrencyLimit > 0 THEN sem + 1 ELSE sem
      /\ worker' = [worker EXCEPT ![t] = "validate"] /\ current' = NoTxID
      /\ UNCHANGED dagVars
      /\ UNCHANGED <<level, pending, isValid, storing, ValidationResults, flags, prior, committed>>
  BY Zenon DEF Spawn, blockVars
<1>2. UNCHANGED <<block, Nodes, Levels, TxIndices, dagPC>>
  BY Zenon, <1>1 DEF dagVars, graphVars, levelVars
<1>3. /\ Nodes \subseteq TxIDs /\ NoTxID \notin Nodes /\ level \in Nat
      /\ worker \in [TxIDs -> {"none", "validate", "store", "storing", "set", "release",
                               "released", "done"}]
  BY Zenon, BlockAssumption DEF TypeOK, DAGTypeOK
<1>4. t \in Nodes /\ Levels[t] = level /\ Untouched(t) /\ ParentsValid(t)
  <2>1. t # NoTxID
    BY Zenon, <1>1 DEF Stage
  <2>2. t \in Nodes /\ t \in TxIDs
    BY Zenon, <1>3, <2>1 DEF TypeOK
  <2>3. Levels[t] = level /\ Untouched(t)
    BY Zenon, <1>1, <2>2 DEF Order, Waiting
  <2>4. ParentsValid(t)
    BY Zenon, <2>2 DEF Workers, Knows
  <2> QED
    BY Zenon, <2>2, <2>3, <2>4
<1>5. t \notin pending
  BY Zenon DEF Stage
<1> HIDE DEF t
<1>6. DAGTypeOK' /\ Indexed' /\ Placed' /\ Complete'
  BY Zenon, <1>1, Static
<1>7. /\ VerdictsExact'
      /\ \A u : (Judged(u)' <=> Judged(u)) /\ (IsValid(u)' <=> IsValid(u))
      /\ \A u : ParentsValid(u)' <=> ParentsValid(u)
  BY Zenon, <1>1, VerdictsStand
<1>8. worker'[t] = "validate" /\ \A u \in TxIDs \ {t} : worker'[u] = worker[u]
  BY Zenon, <1>1, <1>3, <1>4
<1>9. Stage' /\ Ended' /\ Written'
  <2>1. NoTxID \notin pending
    BY Zenon, <1>3 DEF TypeOK
  <2>2. Stage'
    BY Zenon, <1>1, <1>2, <2>1 DEF Stage
  <2>3. Ended' /\ Written'
    BY Zenon, <1>1 DEF Ended, Written
  <2> QED
    BY Zenon, <2>2, <2>3
<1>10. Order'
  <2> SUFFICES ASSUME NEW u \in Nodes
               PROVE  /\ Levels[u] < level => Finished(u)'
                      /\ Levels[u] > level => Untouched(u)'
                      /\ Waiting(u)' => Levels[u] = level /\ Untouched(u)'
                      /\ Levels[u] = level /\ ~Waiting(u)' => Judged(u)' \/ worker'[u] # "none"
    BY Zenon, <1>1, <1>2 DEF Order
  <2>1. CASE u = t
    BY SMTT(30), <1>1, <1>3, <1>4, <1>5, <1>8, <2>1 DEF Waiting
  <2>2. CASE u # t
    <3>1. (Waiting(u)' <=> Waiting(u)) /\ (Judged(u)' <=> Judged(u)) /\ worker'[u] = worker[u]
      BY Zenon, <1>1, <1>3, <1>7, <1>8, <2>2 DEF Waiting, t
    <3> QED
      BY Zenon, <1>1, <3>1 DEF Order, Finished, Untouched
  <2> QED
    BY Zenon, <2>1, <2>2
<1>11. Workers'
  <2> SUFFICES ASSUME NEW u \in TxIDs PROVE Knows(u)'
    BY Zenon DEF Workers
  <2>1. CASE u = t
    BY ZenonT(30), <1>2, <1>4, <1>7, <1>8, <2>1 DEF Knows, Untouched
  <2>2. CASE u # t
    <3>1. Found(u)' <=> Found(u)
      BY Zenon, <1>1, Frame DEF Found
    <3>2. worker'[u] = worker[u] /\ u # current'
      BY Zenon, <1>1, <1>8, <2>2, BlockAssumption
    <3> QED
      BY Zenon, <1>2, <1>7, <3>1, <3>2 DEF Workers, Knows
  <2> QED
    BY Zenon, <2>1, <2>2
<1>12. Tokens' /\ sem' \in Nat
  <2>1. Holders' = Holders \cup {t} /\ t \notin Holders
    BY Zenon, <1>3, <1>4, <1>8 DEF Holders, Untouched
  <2>2. /\ IsFiniteSet(Holders') /\ Cardinality(Holders') = Cardinality(Holders) + 1
    BY Zenon, <2>1 DEF Tokens, SetFacts
  <2> QED
    BY SMTT(30), <1>1, <2>2, LimitAssumption DEF Tokens, TypeOK
<1>13. TypeOK'
  <2>1. isValid' \in [TxIDs -> BOOLEAN]
    BY Zenon, <1>1 DEF TypeOK
  <2>2. worker' \in [TxIDs -> {"none", "validate", "store", "storing", "set", "release",
                               "released", "done"}]
    BY ZenonT(30), <1>1, <1>3
  <2> QED
    BY Zenon, <1>1, <1>2, <1>6, <1>12, <2>1, <2>2 DEF TypeOK
<1> QED
  BY Zenon, <1>6, <1>7, <1>9, <1>10, <1>11, <1>12, <1>13

-----------------------------------------------------------------------------
LEMMA NextCommitter ==
    ASSUME SetFacts, CInv, [Next]_vars
    PROVE  CInv'
<1>1. CASE UNCHANGED vars
  <2>1. /\ UNCHANGED dagVars /\ UNCHANGED <<mainPC, level, pending, current, worker, isValid>>
        /\ UNCHANGED <<storing, sem, ValidationResults, flags, prior, committed>>
    BY Zenon, <1>1 DEF vars, workVars, blockVars
  <2>2. UNCHANGED <<block, Nodes, Levels, TxIndices, dagPC>>
    BY Zenon, <2>1 DEF dagVars, graphVars, levelVars
  <2>3. DAGTypeOK' /\ Indexed' /\ Placed' /\ Complete'
    BY Zenon, <2>1, Static
  <2>4. /\ VerdictsExact'
        /\ \A u : (Judged(u)' <=> Judged(u)) /\ (IsValid(u)' <=> IsValid(u))
        /\ \A u : ParentsValid(u)' <=> ParentsValid(u)
    BY Zenon, <2>1, VerdictsStand
  <2>5. \A t : Found(t)' <=> Found(t)
    BY ZenonT(30), <2>1, Frame DEF Found
  <2>6. Stage' /\ Order' /\ Ended' /\ Written'
    BY ZenonT(30), <2>1, <2>2, <2>4 DEF CInv, Stage, Order, Ended, Written, Waiting, Finished, Untouched
  <2>7. Workers' /\ Tokens'
    BY Zenon, <2>1, <2>2, <2>4, <2>5 DEF CInv, Workers, Knows, Tokens, Holders
  <2>8. isValid' \in [TxIDs -> BOOLEAN]
    BY ZenonT(30), <2>1 DEF CInv, TypeOK
  <2>9. TypeOK'
    BY Zenon, <2>1, <2>2, <2>3, <2>8 DEF CInv, TypeOK
  <2> QED
    BY Zenon, <2>3, <2>4, <2>6, <2>7, <2>9 DEF CInv
<1>2. CASE ConcurrentMapWrites
  BY Zenon, <1>2, QuietKeeps
<1>3. ASSUME NEW t \in TxIDs, Worker(t) PROVE CInv'
  BY Zenon, <1>3, SilentKeeps, SetKeeps DEF Worker
<1>4. CASE Main
  BY Zenon, <1>4, BuildKeeps, StartKeeps, QuietKeeps, MarkKeeps, SpawnKeeps DEF Main
<1> QED
  BY Zenon, <1>1, <1>2, <1>3, <1>4 DEF Next

(* While the committing goroutine writes txValidationResults, and when the *)
(* runtime has ended it there, the transaction it writes about is invalid  *)
(* because of an invalid dependency.                                       *)
Beside(t) ==
    /\ Levels[t] = level /\ level > 0 /\ ValidationResults[t] = "invalid"
    /\ \E d \in DependsOn(t) : d \in Nodes /\ ValidationResults[d] = "invalid"

Writing == mainPC \in {"write", "fatal"} => \E t \in Nodes : Beside(t)

LEMMA MarkWrites ==
    ASSUME CInv, NEW t \in TxIDs, MarkInvalid(t)
    PROVE  \E u \in Nodes : Beside(u)'
<1>1. /\ UNCHANGED <<dagVars, level>> /\ mainPC = "level" /\ t \in pending /\ level > 0
      /\ ValidationResults' = [ValidationResults EXCEPT ![t] = "invalid"]
  BY Zenon DEF MarkInvalid, DependencyInvalid
<1>2. UNCHANGED <<Nodes, Levels>> /\ DependsOn(t)' = DependsOn(t)
  BY Zenon, <1>1, Frame DEF dagVars, graphVars, levelVars
<1>3. /\ t \in Nodes /\ Nodes \subseteq TxIDs /\ level \in Nat
      /\ ValidationResults \in [TxIDs -> {"unset", "valid", "invalid"}]
  BY Zenon, <1>1 DEF CInv, TypeOK, DAGTypeOK
<1>4. Levels[t] = level
  BY Zenon, <1>1, <1>3 DEF CInv, Order, Waiting
<1>5. PICK d \in DependsOn(t) : ~IsValid(d)
  BY Zenon DEF MarkInvalid, DependencyInvalid
<1>6. d \in Nodes /\ Judged(d)
  <2>1. Levels[t] > 0 /\ Levels[t] <= level /\ mainPC # "build"
    BY SMTT(30), <1>1, <1>3, <1>4
  <2> QED
    BY Zenon, <1>3, <1>5, <2>1, Parents DEF Finished
<1>7. ValidationResults'[t] = "invalid" /\ ValidationResults'[d] = "invalid"
  BY Zenon, <1>1, <1>3, <1>5, <1>6 DEF IsValid, Judged
<1> QED
  BY Zenon, <1>1, <1>2, <1>3, <1>4, <1>5, <1>6, <1>7 DEF Beside

LEMMA WorkerLeaves ==
    ASSUME CInv, NEW u \in TxIDs, Worker(u), NEW t \in Nodes, Beside(t)
    PROVE  Beside(t)'
<1>1. UNCHANGED <<dagVars, level>>
  BY Zenon DEF Worker, Validate, LockStore, UnlockStore, SetValidationResult, Release, Done, WorkerStep
<1>2. UNCHANGED <<Nodes, Levels>> /\ DependsOn(t)' = DependsOn(t)
  BY Zenon, <1>1, Frame DEF dagVars, graphVars, levelVars
<1>3. Nodes \subseteq TxIDs /\ ValidationResults \in [TxIDs -> {"unset", "valid", "invalid"}]
  BY Zenon DEF CInv, TypeOK, DAGTypeOK
<1>4. \A d \in TxIDs : Judged(d) => ValidationResults'[d] = ValidationResults[d]
  <2>1. CASE SetValidationResult(u)
    <3>1. ~Judged(u)
      BY Zenon, <2>1 DEF SetValidationResult, WorkerStep, CInv, Workers, Knows
    <3> QED
      BY Zenon, <1>3, <2>1, <3>1 DEF SetValidationResult
  <2>2. CASE ~SetValidationResult(u)
    BY Zenon, <2>2 DEF Worker, Validate, LockStore, UnlockStore, Release, Done
  <2> QED
    BY Zenon, <2>1, <2>2
<1> QED
  BY Zenon, <1>1, <1>2, <1>3, <1>4 DEF Beside, Judged

LEMMA NextWrites == CInv /\ Writing /\ [Next]_vars => Writing'
<1> SUFFICES ASSUME CInv, Writing, [Next]_vars PROVE Writing'
  BY Zenon
<1>1. ASSUME mainPC \in {"write", "fatal"}, UNCHANGED <<dagVars, workVars>> PROVE Writing'
  <2>1. PICK t \in Nodes : Beside(t)
    BY Zenon, <1>1 DEF Writing
  <2>2. UNCHANGED <<Nodes, Levels, level, ValidationResults>> /\ DependsOn(t)' = DependsOn(t)
    BY Zenon, <1>1, Frame DEF dagVars, graphVars, levelVars, workVars
  <2> QED
    BY Zenon, <2>1, <2>2 DEF Writing, Beside
<1>2. CASE UNCHANGED vars \/ ConcurrentMapWrites
  <2>1. UNCHANGED <<dagVars, workVars>> /\ (mainPC' = mainPC \/ mainPC = "write")
    BY Zenon, <1>2 DEF vars, ConcurrentMapWrites
  <2> QED
    BY Zenon, <1>1, <2>1 DEF Writing
<1>3. ASSUME NEW u \in TxIDs, Worker(u) PROVE Writing'
  <2>1. UNCHANGED <<mainPC, Nodes>>
    BY Zenon, <1>3 DEF Worker, Validate, LockStore, UnlockStore, SetValidationResult, Release, Done,
                WorkerStep, dagVars, graphVars
  <2> QED
    BY Zenon, <1>3, <2>1, WorkerLeaves DEF Writing
<1>4. ASSUME NEW t \in TxIDs, MarkInvalid(t) PROVE Writing'
  <2>1. UNCHANGED Nodes
    BY Zenon, <1>4 DEF MarkInvalid, dagVars, graphVars
  <2> QED
    BY Zenon, <1>4, <2>1, MarkWrites DEF Writing
<1>5. CASE \/ Build \/ StartProcess \/ EndWrite \/ Spawn \/ EndLevel \/ WriteFlags
           \/ Commit \/ CommitFails \/ \E t \in TxIDs : Take(t)
  <2>1. mainPC' \notin {"write", "fatal"}
    BY Zenon, <1>5 DEF Build, StartProcess, EndWrite, Spawn, EndLevel, WriteFlags, Commit,
                CommitFails, Take
  <2> QED
    BY Zenon, <2>1 DEF Writing
<1> QED
  BY Zenon, <1>2, <1>3, <1>4, <1>5 DEF Next, Main

-----------------------------------------------------------------------------
(* The facts about sets, and the theorems.                                 *)
INSTANCE FiniteSetTheorems

LEMMA SetFactsHold == SetFacts
<1>1. \A S, x : IsFiniteSet(S) =>
         /\ IsFiniteSet(S \cup {x})
         /\ x \notin S => Cardinality(S \cup {x}) = Cardinality(S) + 1
  BY Zenon, FS_AddElement
<1>2. \A S, x : IsFiniteSet(S) /\ x \in S =>
         IsFiniteSet(S \ {x}) /\ Cardinality(S \ {x}) = Cardinality(S) - 1
  BY Zenon, FS_RemoveElement
<1>3. ASSUME NEW S \in SUBSET Nat, S # {} PROVE \E i \in S : \A j \in S : i <= j
  <2>1. PICK i \in S : \A j \in S : ~(<<j, i>> \in OpToRel(<, Nat))
    BY Zenon, <1>3, WFMin, NatLessThanWellFounded
  <2>2. \A j \in S : ~(j < i)
    BY Zenon, <1>3, <2>1 DEF OpToRel
  <2> QED
    BY <1>3, <2>2
<1> QED
  BY Zenon, <1>1, <1>2, <1>3, FS_EmptySet, FS_CardinalityType DEF SetFacts

LEMMA DAGInvariance == DAGSpec => [](DAGTypeOK /\ Indexed /\ Placed)
<1>1. (DAGTypeOK /\ Indexed /\ Placed) /\ [DAGNext]_dagVars => (DAGTypeOK /\ Indexed /\ Placed)'
  BY Zenon, SetFactsHold, NextDAG
<1> QED
  BY InitDAG, <1>1, PTL DEF DAGSpec

(* The graph and the levels keep their types, whatever the block.          *)
THEOREM DAGTypeCorrect == DAGSpec => []DAGTypeOK
  BY DAGInvariance, PTL

(* CalculateLevels, in any map order: a level above 0 is one more than the *)
(* highest level among the dependencies, all of which are in the block.    *)
THEOREM LevelsLayered == DAGSpec => []Layered
<1>1. DAGTypeOK /\ Placed => Layered
  <2> SUFFICES ASSUME DAGTypeOK, Placed, NEW t \in Nodes, Levels[t] > 0
               PROVE  /\ \A d \in DependsOn(t) : d \in Nodes /\ Levels[d] < Levels[t]
                      /\ \E d \in DependsOn(t) : Levels[t] = Levels[d] + 1
    BY Zenon DEF Layered
  <2>1. DependsOn(t) \subseteq TxIDs
    BY SMTT(30), SeqElement DEF DependsOn, DAGTypeOK
  <2> QED
    BY Zenon, <2>1 DEF Placed, DAGTypeOK
<1> QED
  BY <1>1, DAGInvariance, PTL

LEMMA CommitterInvariance == Spec => []CInv
<1>1. Init => CInv
  BY Zenon, SetFactsHold, InitCommitter
<1>2. CInv /\ [Next]_vars => CInv'
  BY Zenon, SetFactsHold, NextCommitter
<1> QED
  BY <1>1, <1>2, PTL DEF Spec

(* The state keeps its types; in particular no token is given back twice.  *)
THEOREM TypeCorrect == Spec => []TypeOK
<1>1. CInv => TypeOK
  BY Zenon DEF CInv
<1> QED
  BY <1>1, CommitterInvariance, PTL

(* processBlockWithDAG waits for a level before it starts the next, so     *)
(* that a transaction is looked at after all that it depends on.           *)
THEOREM ParentsBefore == Spec => []ParentsFirst
<1>1. CInv => ParentsFirst
  <2> SUFFICES ASSUME CInv, NEW t \in Nodes, worker[t] # "none" \/ Judged(t), Levels[t] > 0
               PROVE  \A d \in DependsOn(t) : Judged(d) /\ d \notin Running
    BY Zenon DEF ParentsFirst
  <2>1. mainPC # "build"
    BY Zenon DEF CInv, Stage, TypeOK, DAGTypeOK
  <2>2. Levels[t] <= level
    <3>1. ~(Levels[t] > level)
      BY Zenon, <2>1 DEF CInv, Order, Untouched
    <3>2. Levels[t] \in Int /\ level \in Int
      BY DEF CInv, TypeOK, DAGTypeOK, NoLevel
    <3> QED
      BY SMTT(30), <3>1, <3>2
  <2>3. \A d \in DependsOn(t) : d \in Nodes /\ Finished(d)
    BY ZenonT(30), <2>1, <2>2, Parents
  <2> QED
    BY Zenon, <2>3 DEF Finished, Running
<1> QED
  BY <1>1, CommitterInvariance, PTL

(* Every verdict is the one the transaction, its level and the verdicts of *)
(* its dependencies call for, in every interleaving of the goroutines.     *)
THEOREM VerdictsFollow == Spec => []VerdictsExact
<1>1. CInv => VerdictsExact
  BY Zenon DEF CInv
<1> QED
  BY <1>1, CommitterInvariance, PTL

(* The flags that processBlockWithDAG hands to the ledger say for each     *)
(* transaction of the graph what was found of it.                          *)
THEOREM FlagsFollow == Spec => []FlagsExact
<1>1. CInv => FlagsExact
  <2> SUFFICES ASSUME CInv, mainPC \in {"commit", "legacy", "returned", "error"},
                      NEW t \in Nodes
               PROVE  Judged(t) /\ (flags[TxIndices[t]] = VALID <=> IsValid(t))
    BY Zenon DEF FlagsExact
  <2>1. Judged(t)
    BY Zenon DEF CInv, Ended, Finished
  <2>2. TxIndices[t] \in 1..Len(block)
    BY Zenon DEF CInv, Indexed
  <2>3. \A u \in Nodes : TxIndices[u] = TxIndices[t] => u = t
    BY Zenon DEF CInv, Indexed
  <2>4. flags[TxIndices[t]] = IF ~IsValid(t) THEN MVCC_READ_CONFLICT ELSE VALID
    BY Zenon, <2>2, <2>3 DEF CInv, Written
  <2> QED
    BY Zenon, <2>1, <2>4 DEF VALID, MVCC_READ_CONFLICT
<1> QED
  BY <1>1, CommitterInvariance, PTL

(* The semaphore bounds the goroutines at work by ConcurrencyLimit and is  *)
(* given back as often as it is taken.                                     *)
THEOREM LimitKept == Spec => []WithinLimit
<1>1. Tokens => WithinLimit
  BY Zenon DEF Tokens, WithinLimit
<1>2. CInv => Tokens
  BY Zenon DEF CInv
<1>3. CInv => WithinLimit
  BY Zenon, <1>1, <1>2
<1> QED
  BY <1>3, CommitterInvariance, PTL

(* The map write without the mutex can end the process only beside a       *)
(* transaction above level 0 that an invalid dependency made invalid.      *)
THEOREM FatalOnlyBesideInvalid == Spec => []FatalBesideInvalid
<1>1. Init => Writing
  BY Zenon DEF Init, Writing
<1>2. Writing => FatalBesideInvalid
  BY Zenon DEF Writing, Beside, FatalBesideInvalid
<1> QED
  BY <1>1, <1>2, NextWrites, CommitterInvariance, PTL DEF Spec

(* The committer builds its graph as TransactionDAG says, and what is      *)
(* proved of the graph holds in it.                                        *)
THEOREM CommitterBuildsDAG == Spec => DAGSpec
<1>1. Init => DAGInit
  BY Zenon DEF Init
<1>2. [Next]_vars => [DAGNext]_dagVars
  BY Zenon DEF Next, vars, Main, Worker, Build, StartProcess, EndWrite, Spawn, EndLevel, WriteFlags,
         Commit, CommitFails, MarkInvalid, Take, ConcurrentMapWrites, Validate, LockStore,
         UnlockStore, SetValidationResult, Release, Done, WorkerStep
<1> QED
  BY <1>1, <1>2, PTL DEF Spec, DAGSpec
=============================================================================
