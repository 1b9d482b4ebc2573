--------------------------- MODULE LedgerCommitter ---------------------------
(***************************************************************************)
(* LedgerCommitter.CommitLegacy (core/committer/committer_impl.go) for one *)
(* block: build the graph (TransactionDAG), validate the transactions      *)
(* level by level with one goroutine each, write the flags of the block    *)
(* and hand it to the ledger, falling back to legacyCommit on an error.    *)
(*                                                                         *)
(* The committing goroutine writes txValidationResults without the mutex   *)
(* that the workers take for it.  Two writes at once are a fatal error of  *)
(* the Go runtime when it notices them, and harmless when it does not,     *)
(* because nothing reads that map.                                         *)
(***************************************************************************)
EXTENDS TransactionDAG

CONSTANTS
    ConcurrencyLimit,   \* LedgerCommitter.ConcurrencyLimit; none if <= 0
    PriorCodes          \* validation codes blocks arrive with

ASSUME LimitAssumption == ConcurrencyLimit \in Int

VARIABLES
    flags,              \* the TRANSACTIONS_FILTER metadata of the block
    prior,              \* what it was when the block arrived (history)
    mainPC,
    level,              \* loop variable of processBlockWithDAG
    pending,            \* transactions of the level not yet ranged over
    current,            \* the one waiting for the semaphore
    worker,             \* where the goroutine of each transaction is
    isValid,            \* its local of that name
    storing,            \* the worker inside mutex, NoTxID for none
    sem,                \* tokens in the semaphore
    ValidationResults,  \* dag.ValidationResults, "unset" for none
    committed           \* the flags the ledger has for the block, or None

workVars == <<level, pending, current, worker, isValid, storing, sem, ValidationResults>>
blockVars == <<flags, prior, committed>>
vars == <<dagVars, mainPC, workVars, blockVars>>

None == <<>>
VALID == "VALID"
MVCC_READ_CONFLICT == "MVCC_READ_CONFLICT"

-----------------------------------------------------------------------------
(* Read-write sets.                                                        *)

\* extractRWSet fails on an action or a result set that does not decode.
Extracts(tx) ==
    \A i \in 1..Len(tx.Actions) : Decodes(tx.Actions[i]) /\ tx.Actions[i].ResultsDecode

\* Of two actions with the same namespace the first counts.
extractRWSet(tx) ==
    LET of(ns) == {i \in 1..Len(tx.Actions) : ns \in DOMAIN tx.Actions[i].NsRwset}
        first(ns) == CHOOSE i \in of(ns) : \A j \in of(ns) : i <= j
    IN  [ns \in {n \in Namespaces : of(n) # {}} |-> tx.Actions[first(ns)].NsRwset[ns]]

\* hasConflictInKVRWSet both ways round and hasWriteWriteConflict, or their
\* hashed counterparts.
Overlap(s1, s2) ==
    \/ s1.Reads \cap s2.Writes # {}
    \/ s2.Reads \cap s1.Writes # {}
    \/ s1.Writes \cap s2.Writes # {}

ConflictIn(n1, n2) ==
    \/ Overlap(n1.Public, n2.Public)
    \/ \E c \in DOMAIN n1.Hashed \cap DOMAIN n2.Hashed :
          /\ n1.Hashed[c].Decodes /\ n2.Hashed[c].Decodes
          /\ Overlap(n1.Hashed[c], n2.Hashed[c])

\* What checkRWSetConflicts may return.  It ranges over a map: a namespace
\* whose public set does not decode ends it with false, one with a conflict
\* ends it with true, whichever comes first.
checkRWSetConflicts(tx1, tx2) ==
    IF ~Extracts(tx1) \/ ~Extracts(tx2) THEN {FALSE}
    ELSE LET rw1 == extractRWSet(tx1)
             rw2 == extractRWSet(tx2)
             both == DOMAIN rw1 \cap DOMAIN rw2
             broken == {n \in both : ~rw1[n].Public.Decodes \/ ~rw2[n].Public.Decodes}
             conflicts == {n \in both \ broken : ConflictIn(rw1[n], rw2[n])}
         IN  {b \in BOOLEAN : IF b THEN conflicts # {} ELSE broken # {} \/ conflicts = {}}

\* The transaction a node stands for: the last one of that id.
TxOf(t) == block[TxIndices[t]]

\* Every action decodes and has a response with status 200.
ActionsSucceed(tx) ==
    \A i \in 1..Len(tx.Actions) :
        LET a == UnmarshalAction(tx.Actions[i])
        IN  Decodes(a) /\ a.Response = "ok"

\* What a worker may find: at level 0 the read-write sets are not compared.
MayPass(t) ==
    /\ ActionsSucceed(TxOf(t))
    /\ Levels[t] > 0 =>
          \A d \in DependsOn(t) : FALSE \in checkRWSetConflicts(TxOf(t), TxOf(d))

MayFail(t) ==
    \/ ~ActionsSucceed(TxOf(t))
    \/ Levels[t] > 0 /\ \E d \in DependsOn(t) : TRUE \in checkRWSetConflicts(TxOf(t), TxOf(d))

-----------------------------------------------------------------------------
Init ==
    /\ DAGInit
    /\ flags \in [1..Len(block) -> PriorCodes]
    /\ prior = flags
    /\ mainPC = "build"
    /\ level = 0 /\ pending = {} /\ current = NoTxID
    /\ worker = [t \in TxIDs |-> "none"]
    /\ isValid = [t \in TxIDs |-> FALSE]
    /\ storing = NoTxID
    /\ sem = 0
    /\ ValidationResults = [t \in TxIDs |-> "unset"]
    /\ committed = None

\* BuildDAGFromBlock.
Build ==
    /\ mainPC = "build"
    /\ DAGNext
    /\ UNCHANGED <<mainPC, workVars, blockVars>>

TxsByLevel(l) == {t \in Nodes : Levels[t] = l}

IsValid(t) == ValidationResults[t] = "valid"

\* processBlockWithDAG up to its loop: level 0 exists if there is a node.
StartProcess ==
    /\ mainPC = "build" /\ dagPC = "done"
    /\ level' = 0 /\ pending' = TxsByLevel(0)
    /\ mainPC' = "level"
    /\ UNCHANGED <<dagVars, current, worker, isValid, storing, sem, ValidationResults, blockVars>>

\* Mutant: the dependencies of level 1 are not looked at.
DependencyInvalidLate(t) == level > 1 /\ \E d \in DependsOn(t) : ~IsValid(d)

\* Mutant: level 0 is no exception.
DependencyInvalidAlways(t) == \E d \in DependsOn(t) : ~IsValid(d)

\* A transaction with an invalid dependency is invalid; only above level 0.
DependencyInvalid(t) == level > 0 /\ \E d \in DependsOn(t) : ~IsValid(d)

MarkInvalid(t) ==
    /\ mainPC = "level" /\ t \in pending
    /\ DependencyInvalid(t)
    /\ ValidationResults' = [ValidationResults EXCEPT ![t] = "invalid"]
    /\ pending' = pending \ {t}
    /\ mainPC' = "write"
    /\ UNCHANGED <<dagVars, level, current, worker, isValid, storing, sem, blockVars>>

\* The unsynchronised write to txValidationResults ends.
EndWrite ==
    /\ mainPC = "write"
    /\ mainPC' = "level"
    /\ UNCHANGED <<dagVars, workVars, blockVars>>

\* The runtime notices two writers of txValidationResults.
ConcurrentMapWrites ==
    /\ mainPC = "write" /\ storing # NoTxID
    /\ mainPC' = "fatal"
    /\ UNCHANGED <<dagVars, workVars, blockVars>>

Take(t) ==
    /\ mainPC = "level" /\ t \in pending
    /\ ~DependencyInvalid(t)
    /\ pending' = pending \ {t}
    /\ current' = t
    /\ mainPC' = "acquire"
    /\ UNCHANGED <<dagVars, level, worker, isValid, storing, sem, ValidationResults, blockVars>>

\* Acquire the semaphore, if there is one, and start the goroutine.
Spawn ==
    /\ mainPC = "acquire"
    /\ ConcurrencyLimit > 0 => sem < ConcurrencyLimit
    /\ sem' = IF ConcurrencyLimit > 0 THEN sem + 1 ELSE sem
    /\ worker' = [worker EXCEPT ![current] = "validate"]
    /\ current' = NoTxID
    /\ mainPC' = "level"
    /\ UNCHANGED <<dagVars, level, pending, isValid, storing, ValidationResults, blockVars>>

Running == {t \in TxIDs : worker[t] \notin {"none", "done"}}

\* Mutant: no wg.Wait.
EndLevelNoWait ==
    /\ mainPC = "level" /\ pending = {}
    /\ IF \E t \in Nodes : Levels[t] > level
       THEN level' = level + 1 /\ pending' = TxsByLevel(level + 1) /\ mainPC' = mainPC
       ELSE mainPC' = "flags" /\ UNCHANGED <<level, pending>>
    /\ UNCHANGED <<dagVars, current, worker, isValid, storing, sem, ValidationResults, blockVars>>

\* wg.Wait returns: on to the next level, or to the flags.
EndLevel ==
    /\ mainPC = "level" /\ pending = {}
    /\ Running = {}
    /\ IF \E t \in Nodes : Levels[t] > level
       THEN level' = level + 1 /\ pending' = TxsByLevel(level + 1) /\ mainPC' = mainPC
       ELSE mainPC' = "flags" /\ UNCHANGED <<level, pending>>
    /\ UNCHANGED <<dagVars, current, worker, isValid, storing, sem, ValidationResults, blockVars>>

-----------------------------------------------------------------------------
(* The goroutine of transaction t.                                         *)

WorkerStep(t, from, to) ==
    /\ mainPC # "fatal"
    /\ worker[t] = from
    /\ worker' = [worker EXCEPT ![t] = to]
    /\ UNCHANGED <<dagVars, mainPC, level, pending, current, blockVars>>

\* The checks.  TxOf(t) decoded when the graph was built, so the worker's
\* own decoding of it does not fail.
Validate(t) ==
    /\ WorkerStep(t, "validate", "store")
    /\ \E v \in BOOLEAN :
          /\ IF v THEN MayPass(t) ELSE MayFail(t)
          /\ isValid' = [isValid EXCEPT ![t] = v]
    /\ UNCHANGED <<storing, sem, ValidationResults>>

\* txValidationResults[id] = isValid, under mutex.
LockStore(t) ==
    /\ storing = NoTxID
    /\ WorkerStep(t, "store", "storing")
    /\ storing' = t
    /\ UNCHANGED <<isValid, sem, ValidationResults>>

\* Mutant: an invalid result leaves without the unlock.
UnlockStoreValid(t) ==
    /\ WorkerStep(t, "storing", "set")
    /\ storing' = IF isValid[t] THEN NoTxID ELSE storing
    /\ UNCHANGED <<isValid, sem, ValidationResults>>

UnlockStore(t) ==
    /\ WorkerStep(t, "storing", "set")
    /\ storing' = NoTxID
    /\ UNCHANGED <<isValid, sem, ValidationResults>>

\* Mutant: only a valid result is recorded.
SetValidResult(t) ==
    /\ WorkerStep(t, "set", "release")
    /\ ValidationResults' =
          [ValidationResults EXCEPT ![t] = IF isValid[t] THEN "valid" ELSE @]
    /\ UNCHANGED <<isValid, storing, sem>>

SetValidationResult(t) ==
    /\ WorkerStep(t, "set", "release")
    /\ ValidationResults' =
          [ValidationResults EXCEPT ![t] = IF isValid[t] THEN "valid" ELSE "invalid"]
    /\ UNCHANGED <<isValid, storing, sem>>

\* The deferred calls: release the semaphore, then wg.Done.
Release(t) ==
    /\ WorkerStep(t, "release", "released")
    /\ sem' = IF ConcurrencyLimit > 0 THEN sem - 1 ELSE sem
    /\ UNCHANGED <<isValid, storing, ValidationResults>>

Done(t) ==
    /\ WorkerStep(t, "released", "done")
    /\ UNCHANGED <<isValid, storing, sem, ValidationResults>>

-----------------------------------------------------------------------------

\* The flags start as VALID again; what is not valid in the graph gets one
\* code.
WriteFlags ==
    /\ mainPC = "flags"
    /\ flags' = [i \in 1..Len(block) |->
                    IF \E t \in Nodes : TxIndices[t] = i /\ ~IsValid(t)
                    THEN MVCC_READ_CONFLICT ELSE VALID]
    /\ mainPC' = "commit"
    /\ UNCHANGED <<dagVars, workVars, prior, committed>>

\* PeerLedgerSupport.CommitLegacy succeeds, in processBlockWithDAG or in
\* legacyCommit.
Commit ==
    /\ mainPC \in {"commit", "legacy"}
    /\ committed' = flags
    /\ mainPC' = "returned"
    /\ UNCHANGED <<dagVars, workVars, flags, prior>>

\* It fails: the first time legacyCommit tries again, the second time the
\* error is returned.
CommitFails ==
    /\ mainPC \in {"commit", "legacy"}
    /\ mainPC' = IF mainPC = "commit" THEN "legacy" ELSE "error"
    /\ UNCHANGED <<dagVars, workVars, blockVars>>

Worker(t) ==
    \/ Validate(t) \/ LockStore(t) \/ UnlockStore(t)
    \/ SetValidationResult(t) \/ Release(t) \/ Done(t)

Main ==
    \/ Build \/ StartProcess \/ EndWrite \/ Spawn \/ EndLevel \/ WriteFlags
    \/ Commit \/ CommitFails
    \/ \E t \in TxIDs : MarkInvalid(t) \/ Take(t)

Next == Main \/ ConcurrentMapWrites \/ \E t \in TxIDs : Worker(t)

Spec == Init /\ [][Next]_vars

\* The Go scheduler runs every goroutine that can run.
FairSpec == Spec /\ WF_vars(Main) /\ \A t \in TxIDs : WF_vars(Worker(t))

-----------------------------------------------------------------------------
TypeOK ==
    /\ DAGTypeOK
    /\ prior \in [1..Len(block) -> PriorCodes]
    /\ flags \in [1..Len(block) -> PriorCodes \cup {VALID, MVCC_READ_CONFLICT}]
    /\ committed = None \/ committed \in [1..Len(block) -> {VALID, MVCC_READ_CONFLICT}]
    /\ mainPC \in {"build", "level", "write", "acquire", "flags", "commit", "legacy",
                   "returned", "error", "fatal"}
    /\ level \in Nat
    /\ pending \subseteq Nodes
    /\ current \in Nodes \cup {NoTxID}
    /\ worker \in [TxIDs -> {"none", "validate", "store", "storing", "set", "release",
                             "released", "done"}]
    /\ isValid \in [TxIDs -> BOOLEAN]
    /\ storing \in Nodes \cup {NoTxID}
    /\ sem \in Nat
    /\ ValidationResults \in [TxIDs -> {"unset", "valid", "invalid"}]

Judged(t) == ValidationResults[t] # "unset"

(* Before a transaction above level 0 is looked at, the goroutines of all  *)
(* its dependencies have ended and left a verdict (processBlockWithDAG     *)
(* waits for a level to complete before it starts the next).               *)
ParentsFirst ==
    \A t \in Nodes :
        (worker[t] # "none" \/ Judged(t)) /\ Levels[t] > 0 =>
            \A d \in DependsOn(t) : Judged(d) /\ d \notin Running

(* However the goroutines interleave, a verdict is the one the             *)
(* transaction, its level and the verdicts of its dependencies call for    *)
(* (processBlockWithDAG).                                                  *)
VerdictsExact ==
    \A t \in Nodes :
        /\ ValidationResults[t] = "valid" =>
              MayPass(t) /\ (Levels[t] > 0 => \A d \in DependsOn(t) : IsValid(d))
        /\ ValidationResults[t] = "invalid" =>
              MayFail(t) \/ (Levels[t] > 0 /\ \E d \in DependsOn(t) : ~IsValid(d))

(* When the flags are written every transaction of the graph has been      *)
(* judged, and its flag says what the verdict says (processBlockWithDAG).  *)
FlagsExact ==
    mainPC \in {"commit", "legacy", "returned", "error"} =>
        \A t \in Nodes : /\ Judged(t)
                         /\ flags[TxIndices[t]] = VALID <=> IsValid(t)

Holders == {t \in TxIDs : worker[t] \notin {"none", "released", "done"}}

(* At most ConcurrencyLimit goroutines hold a token, and no token is lost  *)
(* (the semaphore of processBlockWithDAG).                                 *)
WithinLimit ==
    ConcurrencyLimit > 0 =>
        /\ sem <= ConcurrencyLimit
        /\ sem = Cardinality(Holders)

(* The unsynchronised map write can end the process only above level 0,    *)
(* beside a transaction that is invalid because of an invalid dependency:  *)
(* a block in which no dependency fails is safe from it, and so are cycles *)
(* and dependencies outside the block (processBlockWithDAG, line 451).     *)
FatalBesideInvalid ==
    mainPC = "fatal" =>
        \E t \in Nodes : /\ Levels[t] = level /\ level > 0
                         /\ ValidationResults[t] = "invalid"
                         /\ \E d \in DependsOn(t) : ValidationResults[d] = "invalid"

-----------------------------------------------------------------------------
(* What the documents say.                                                 *)

(* PDP_Fabric_Analysis.md: "Dependent transactions are strictly delayed    *)
(* until parents are resolved, avoiding race conditions."  No two          *)
(* goroutines write txValidationResults at once.                           *)
NoRace == mainPC # "fatal"

(* PDP_Fabric_Analysis.md: "The architecture does not skip any of Fabric's *)
(* standard validation checks".  A transaction that the validation before  *)
(* CommitLegacy has rejected is not committed as valid.                    *)
PriorVerdictsKept ==
    committed # None =>
        \A i \in 1..Len(block) : prior[i] # VALID => committed[i] # VALID

(* PDP_Fabric_Analysis.md: "If a parent transaction fails validation, it   *)
(* is rejected smoothly without causing cascading failures to its          *)
(* dependents."                                                            *)
NoCascade == \A t \in Nodes : ValidationResults[t] = "invalid" => MayFail(t)

(* PDP_Fabric_Analysis.md: "ensuring an identical ledger state across all  *)
(* peers regardless of threading".  No other peer can find invalid what    *)
(* this one found valid.                                                   *)
Deterministic == \A t \in Nodes : IsValid(t) => ~MayFail(t)

(* flow.md, steps 22 to 28: a transaction that a client assembles from     *)
(* successful endorsements, and that depends on nothing, is committed.     *)
ClientTransaction(tx) ==
    /\ tx.Parses
    /\ \A i \in 1..Len(tx.Actions) : /\ tx.Actions[i].Kind = "ChaincodeActionPayload"
                                     /\ tx.Actions[i].Response = "ok"
                                     /\ ~tx.Actions[i].HasDependency

ClientTransactionsValid ==
    committed # None =>
        \A i \in 1..Len(block) :
            ClientTransaction(block[i]) /\ prior[i] = VALID => committed[i] = VALID
=============================================================================
