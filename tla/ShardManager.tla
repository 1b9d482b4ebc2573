---------------------------- MODULE ShardManager ----------------------------
(***************************************************************************)
(* The endorser's table of shards (core/endorser/sharding/shard_manager.go)*)
(* and the RWMutex around it.  Handlers call GetOrCreateShard while the    *)
(* metrics are read and while the endorser shuts down.  A handler makes at *)
(* most one shard, so a shard is named by the handler that made it; those  *)
(* that NewShardManager makes are named by their contract.                 *)
(***************************************************************************)
EXTENDS Naturals

CONSTANTS Callers,     \* handlers that call GetOrCreateShard
          Contracts, Wants,
          Configured,  \* contracts whose shard NewShardManager starts
          MayShutdown, \* whether Shutdown is called
          Stopper, Meter, None, Failed

ASSUME CallerAssumption ==
    /\ Wants \in [Callers -> Contracts]
    /\ Configured \subseteq Contracts /\ Callers \cap Contracts = {}
    /\ MayShutdown \in BOOLEAN
    /\ Stopper \notin Callers /\ Meter \notin Callers
    /\ None \notin Callers \cup Contracts \cup {Stopper, Meter, Failed}
    /\ Failed \notin Callers \cup Contracts

Shards == Callers \cup Contracts

VARIABLES
    shards,           \* sm.shards
    running,          \* shards whose goroutines run
    readers, writer,  \* shardsLock: holders of RLock; who holds Lock, or is the
                      \* one caller of it that waits for the readers
    pc, result,       \* where a handler is, and what its call returned
    stopPC, toStop,   \* the same for Shutdown; the shards its loop has left
    meterPC

lockVars == <<readers, writer>>
callVars == <<pc, result>>
stopVars == <<stopPC, toStop>>
vars == <<shards, running, lockVars, callVars, stopVars, meterPC>>

(* Every variable keeps its type.                                          *)
TypeOK ==
    /\ shards \in [Contracts -> Shards \cup {None}]
    /\ running \subseteq Shards
    /\ readers \subseteq Callers \cup {Meter}
    /\ writer \in Callers \cup {Stopper, None}
    /\ pc \in [Callers -> {"idle", "rlock", "lookup", "missed", "lock", "check", "new", "store",
                           "done"}]
    /\ result \in [Callers -> Shards \cup {None, Failed}]
    /\ stopPC \in {"idle", "call", "lock", "stop", "done"} /\ toStop \subseteq Shards
    /\ meterPC \in {"idle", "read"}

Init ==
    /\ shards = [c \in Contracts |-> IF c \in Configured THEN c ELSE None]
    /\ running = Configured
    /\ readers = {} /\ writer = None
    /\ pc = [p \in Callers |-> "idle"] /\ result = [p \in Callers |-> None]
    /\ stopPC = "idle" /\ toStop = {} /\ meterPC = "idle"

-----------------------------------------------------------------------------
(* sync.RWMutex.  Lock first keeps out other callers of it and new         *)
(* readers, and then waits for the readers that are there.                 *)

RLock(p) == writer = None /\ readers' = readers \cup {p} /\ UNCHANGED writer

RUnlock(p) == readers' = readers \ {p} /\ UNCHANGED writer

Announce(p) == writer = None /\ writer' = p /\ UNCHANGED readers

Lock(p) == writer = p /\ readers = {} /\ UNCHANGED lockVars

Unlock == writer' = None /\ UNCHANGED readers

-----------------------------------------------------------------------------
(* GetOrCreateShard                                                        *)
Goto(p, from, to) == pc[p] = from /\ pc' = [pc EXCEPT ![p] = to]

Return(p, from, s) == Goto(p, from, "done") /\ result' = [result EXCEPT ![p] = s]

Call(p) ==
    /\ Goto(p, "idle", "rlock")
    /\ UNCHANGED <<shards, running, lockVars, result, stopVars, meterPC>>

GetRLock(p) ==
    /\ Goto(p, "rlock", "lookup") /\ RLock(p)
    /\ UNCHANGED <<shards, running, result, stopVars, meterPC>>

Lookup(p) ==
    /\ IF shards[Wants[p]] # None
       THEN Return(p, "lookup", shards[Wants[p]])
       ELSE Goto(p, "lookup", "missed") /\ UNCHANGED result
    /\ RUnlock(p)
    /\ UNCHANGED <<shards, running, stopVars, meterPC>>

WantLock(p) ==
    /\ Goto(p, "missed", "lock") /\ Announce(p)
    /\ UNCHANGED <<shards, running, result, stopVars, meterPC>>

GetLock(p) ==
    /\ Goto(p, "lock", "check") /\ Lock(p)
    /\ UNCHANGED <<shards, running, result, stopVars, meterPC>>

\* Mutant: no second look at the table.
CheckOnce(p) ==
    /\ Goto(p, "check", "new")
    /\ UNCHANGED <<result, shards, running, lockVars, stopVars, meterPC>>

\* The double check under the lock.
Check(p) ==
    /\ IF shards[Wants[p]] # None
       THEN Return(p, "check", shards[Wants[p]]) /\ Unlock
       ELSE Goto(p, "check", "new") /\ UNCHANGED <<result, lockVars>>
    /\ UNCHANGED <<shards, running, stopVars, meterPC>>

(* NewShardLeader starts the goroutines of the shard, or returns an error. *)
NewShardLeader(p) ==
    /\ Goto(p, "new", "store")
    /\ running' = running \cup {p}
    /\ UNCHANGED <<shards, result, lockVars, stopVars, meterPC>>

\* Mutant: the error path does not unlock.
NewFailsLocked(p) ==
    /\ Return(p, "new", Failed)
    /\ UNCHANGED <<shards, running, lockVars, stopVars, meterPC>>

NewFails(p) ==
    /\ Return(p, "new", Failed) /\ Unlock
    /\ UNCHANGED <<shards, running, stopVars, meterPC>>

Store(p) ==
    /\ Return(p, "store", p) /\ Unlock
    /\ shards' = [shards EXCEPT ![Wants[p]] = p]
    /\ UNCHANGED <<running, stopVars, meterPC>>

(* Shutdown, called once by Endorser.Shutdown.                             *)
Shutdown ==
    /\ MayShutdown /\ stopPC = "idle" /\ stopPC' = "call"
    /\ UNCHANGED <<shards, running, lockVars, callVars, toStop, meterPC>>

ShutdownWantsLock ==
    /\ stopPC = "call" /\ stopPC' = "lock" /\ Announce(Stopper)
    /\ UNCHANGED <<shards, running, callVars, toStop, meterPC>>

ShutdownLocked ==
    /\ stopPC = "lock" /\ stopPC' = "stop" /\ Lock(Stopper)
    /\ toStop' = {shards[c] : c \in Contracts} \ {None}
    /\ UNCHANGED <<shards, running, callVars, meterPC>>

StopShard(s) ==
    /\ stopPC = "stop" /\ s \in toStop
    /\ running' = running \ {s} /\ toStop' = toStop \ {s}
    /\ UNCHANGED <<shards, lockVars, callVars, stopPC, meterPC>>

ShutdownEnds ==
    /\ stopPC = "stop" /\ toStop = {} /\ stopPC' = "done" /\ Unlock
    /\ UNCHANGED <<shards, running, callVars, toStop, meterPC>>

(* GetShardMetrics, again and again.                                       *)
ReadMetrics ==
    /\ meterPC = "idle" /\ meterPC' = "read" /\ RLock(Meter)
    /\ UNCHANGED <<shards, running, callVars, stopVars>>

MetricsRead ==
    /\ meterPC = "read" /\ meterPC' = "idle" /\ RUnlock(Meter)
    /\ UNCHANGED <<shards, running, callVars, stopVars>>

-----------------------------------------------------------------------------
CallerNext(p) ==
    \/ GetRLock(p) \/ Lookup(p) \/ WantLock(p) \/ GetLock(p) \/ Check(p)
    \/ NewShardLeader(p) \/ NewFails(p) \/ Store(p)

StopperNext ==
    \/ ShutdownWantsLock \/ ShutdownLocked \/ ShutdownEnds
    \/ \E s \in Shards : StopShard(s)

Next ==
    \/ \E p \in Callers : Call(p) \/ CallerNext(p)
    \/ Shutdown \/ StopperNext
    \/ ReadMetrics \/ MetricsRead

Spec == Init /\ [][Next]_vars

(* Every goroutine that can go on does; calls are made or not.             *)
TableGoroutines ==
    /\ \A p \in Callers : WF_vars(CallerNext(p))
    /\ WF_vars(StopperNext) /\ WF_vars(MetricsRead)

FairSpec == Spec /\ TableGoroutines

-----------------------------------------------------------------------------
(* Two handlers of a contract get the same shard, however their calls      *)
(* interleave between RUnlock and Lock, and no shard runs that the table   *)
(* does not hold, unless its maker is about to store it: one that were     *)
(* overwritten would never be stopped.                                     *)
OneShard ==
    /\ \A p, q \in Callers :
          Wants[p] = Wants[q] /\ result[p] \in Shards /\ result[q] \in Shards =>
              result[p] = result[q]
    /\ \A s \in running :
          (s \in Callers /\ pc[s] = "store") \/ \E c \in Contracts : shards[c] = s

(* Liveness: a call of GetOrCreateShard returns, with a shard or an error, *)
(* wherever it has to wait for the lock, and so does Shutdown, although    *)
(* the metrics are read all the time.                                      *)
CallsReturn ==
    /\ \A p \in Callers : (pc[p] # "idle") ~> (pc[p] = "done")
    /\ (stopPC # "idle") ~> (stopPC = "done")

(* When Shutdown has returned no shard runs.                               *)
ShutdownStopsAll == stopPC = "done" => running = {}
=============================================================================
