----------------------- MODULE EndorserServicesProofs -----------------------
(***************************************************************************)
(* What an endorser has beside its handlers.  For any number of handlers   *)
(* and contracts, the double check of GetOrCreateShard makes one shard per *)
(* contract.  For any period of the health check, and any timeout of the   *)
(* dial and of the open breaker that are no longer, the health that is     *)
(* reported is out of date for two periods and a dial at the most; and for *)
(* any number of transactions, the cleaner removes expired entries only.   *)
(***************************************************************************)
EXTENDS ShardManager, EndorserBackground, TLAPS

(* The write lock is held, or waited for, by the one who is between Lock   *)
(* and Unlock.                                                             *)
Exclusive ==
    /\ \A p \in Callers : pc[p] \in {"lock", "check", "new", "store"} <=> writer = p
    /\ stopPC \in {"lock", "stop"} <=> writer = Stopper

(* Past the double check the contract has no shard.                        *)
Absent == \A p \in Callers : pc[p] \in {"new", "store"} => shards[Wants[p]] = None

(* A call has returned the shard that the table holds.                     *)
Returned == \A p \in Callers : result[p] \in Shards => result[p] = shards[Wants[p]]

(* A running shard is in the table or about to be stored.                  *)
Tabled ==
    \A s \in running :
        (s \in Callers /\ pc[s] = "store") \/ \E c \in Contracts : shards[c] = s

MInv == TypeOK /\ Exclusive /\ Absent /\ Returned /\ Tabled

LEMMA InitManager == Init => MInv
  BY CallerAssumption DEF Init, MInv, TypeOK, Exclusive, Absent, Returned, Tabled, Shards

LEMMA NextManager == MInv /\ [Next]_vars => MInv'
<1> SUFFICES ASSUME MInv, [Next]_vars PROVE MInv'
  OBVIOUS
<1> USE CallerAssumption
<1> USE DEF MInv, TypeOK, Exclusive, Absent, Returned, Tabled, Goto, Return,
            Shards, lockVars, callVars, stopVars
<1>1. ASSUME NEW p \in Callers, Call(p) PROVE MInv'
  BY <1>1 DEF Call
<1>2. ASSUME NEW p \in Callers, Lookup(p) PROVE MInv'
  BY <1>2 DEF Lookup, RUnlock
<1>3. ASSUME NEW p \in Callers, WantLock(p) PROVE MInv'
  BY <1>3 DEF WantLock, Announce
<1>4. ASSUME NEW p \in Callers, GetLock(p) PROVE MInv'
  BY <1>4 DEF GetLock, Lock
<1>5. ASSUME NEW p \in Callers, Check(p) PROVE MInv'
  BY <1>5 DEF Check, Unlock
<1>6. ASSUME NEW p \in Callers, NewShardLeader(p) PROVE MInv'
  BY <1>6 DEF NewShardLeader
<1>7. ASSUME NEW p \in Callers, NewFails(p) PROVE MInv'
  BY <1>7 DEF NewFails, Unlock
<1>8. ASSUME NEW p \in Callers, Store(p) PROVE MInv'
  BY <1>8 DEF Store, Unlock
<1>9. ASSUME Shutdown PROVE MInv'
  BY <1>9 DEF Shutdown
<1>10. ASSUME ShutdownLocked PROVE MInv'
  BY <1>10 DEF ShutdownLocked, Lock
<1>11. ASSUME NEW s \in Shards, StopShard(s) PROVE MInv'
  BY <1>11 DEF StopShard
<1>12. ASSUME ShutdownEnds PROVE MInv'
  BY <1>12 DEF ShutdownEnds, Unlock
<1>13. ASSUME ReadMetrics \/ MetricsRead PROVE MInv'
  BY <1>13 DEF ReadMetrics, MetricsRead, RLock, RUnlock
<1>14. ASSUME NEW p \in Callers, GetRLock(p) PROVE MInv'
  BY <1>14 DEF GetRLock, RLock
<1>15. ASSUME ShutdownWantsLock PROVE MInv'
  BY <1>15 DEF ShutdownWantsLock, Announce
<1>16. ASSUME UNCHANGED vars PROVE MInv'
  BY <1>16 DEF vars
<1> HIDE DEF MInv
<1> QED
  BY Zenon, <1>1, <1>2, <1>3, <1>4, <1>5, <1>6, <1>7, <1>8, <1>9, <1>10, <1>11, <1>12,
     <1>13, <1>14, <1>15, <1>16 DEF Next, CallerNext, StopperNext

LEMMA ManagerInvariance == Spec => []MInv
  BY InitManager, NextManager, PTL DEF Spec

(* Every variable of the table and its lock keeps its type.                *)
THEOREM ManagerTypeCorrect == Spec => []TypeOK
<1>1. MInv => TypeOK
  BY DEF MInv
<1> QED
  BY <1>1, ManagerInvariance, PTL

(* Handlers of one contract share one shard, and every running shard is in *)
(* the table or about to be stored there (GetOrCreateShard).               *)
THEOREM OneShardPerContract == Spec => []OneShard
<1>1. MInv => OneShard
  <2> SUFFICES ASSUME MInv PROVE OneShard
    OBVIOUS
  <2>1. ASSUME NEW p \in Callers, NEW q \in Callers, Wants[p] = Wants[q],
               result[p] \in Shards, result[q] \in Shards
        PROVE  result[p] = result[q]
    BY <2>1 DEF MInv, Returned
  <2>2. Tabled
    BY DEF MInv
  <2> QED
    BY <2>1, <2>2 DEF OneShard, Tabled
<1> QED
  BY <1>1, ManagerInvariance, PTL

-----------------------------------------------------------------------------
(* The health check.                                                       *)

BackgroundTypeOK ==
    /\ stopping \in {"no", "waiting", "done"}
    /\ toTick \in 1..Period /\ tick \in BOOLEAN
    /\ checker \in {"select", "dial", "ended"} /\ dialFor \in 0..DialTimeout
    /\ reachable \in BOOLEAN /\ since \in 0..Old
    /\ lastLeaderCheck \in 0..Old /\ leaderCheckError \in BOOLEAN
    /\ breaker \in {"closed", "open", "halfOpen"} /\ lastFailure \in 0..Old
    /\ healthy \in BOOLEAN

(* Without Shutdown the checker is there.  A dial begins with a tick of    *)
(* the ticker, at a time when the last check is no longer trusted; and a   *)
(* breaker opens when a dial has failed, so that within a period of it the *)
(* age of the last failure is known from the ticker.                       *)
OnTheTick ==
    /\ stopping = "no" => checker # "ended"
    /\ tick => toTick = Period
    /\ checker = "select" => dialFor = 0
    /\ checker = "dial" =>
          /\ lastLeaderCheck >= Period
          /\ dialFor = IF tick THEN Period ELSE Period - toTick
    /\ breaker = "open" /\ lastFailure < Period =>
          lastFailure + DialTimeout \in {Period - toTick, 2 * Period - toTick}

(* What is reported is the result of the last check.  A check that is      *)
(* trusted has not failed, and was made while the leader could be reached; *)
(* a failure is not older than the return of the leader by a dial.         *)
Reported ==
    /\ healthy <=> ~leaderCheckError
    /\ leaderCheckError => lastLeaderCheck >= Period
    /\ ~reachable => lastLeaderCheck >= since
    /\ reachable /\ breaker = "open" => since < lastFailure + DialTimeout

(* The time since the tick at which the check began that is reported.      *)
Elapsed ==
    (IF tick THEN Period ELSE Period - toTick) + (IF checker = "dial" THEN Period ELSE 0)

(* What is reported was so less than a period before that tick.            *)
Noticed == checker = "ended" \/ (healthy <=> reachable) \/ since < Period + Elapsed

HInv == BackgroundTypeOK /\ OnTheTick /\ Reported /\ Noticed

LEMMA InitHealth == NewEndorser => HInv
<1> SUFFICES ASSUME NewEndorser PROVE HInv
  OBVIOUS
<1>1. /\ stopping = "no" /\ toTick = Period /\ ~tick /\ tick \in BOOLEAN /\ checker = "select"
      /\ dialFor = 0 /\ reachable \in BOOLEAN /\ since = 0 /\ lastLeaderCheck = Old
      /\ ~leaderCheckError /\ leaderCheckError \in BOOLEAN /\ breaker = "closed"
      /\ lastFailure = Old /\ healthy /\ healthy \in BOOLEAN
  BY Zenon DEF NewEndorser
<1> QED
  BY <1>1, BackgroundAssumption, TimesAssumption
     DEF HInv, BackgroundTypeOK, OnTheTick, Reported, Noticed, Elapsed, Old, Notice

LEMMA NextHealth == HInv /\ [BackgroundNext]_backgroundVars => HInv'
<1> SUFFICES ASSUME HInv, [BackgroundNext]_backgroundVars PROVE HInv'
  OBVIOUS
<1> USE BackgroundAssumption, TimesAssumption
<1> USE DEF HInv, BackgroundTypeOK, OnTheTick, Reported, Noticed, Elapsed, Old, Notice
<1>1. ASSUME TimePasses PROVE HInv'
  <2>1. /\ ~tick /\ (tick' <=> toTick = 1 /\ checker # "ended") /\ tick' \in BOOLEAN
        /\ ~(checker = "dial" /\ dialFor = DialTimeout)
        /\ toTick' = IF toTick = 1 THEN Period ELSE toTick - 1
        /\ dialFor' = IF checker = "dial" THEN dialFor + 1 ELSE dialFor
        /\ since' = Later(since)
        /\ lastLeaderCheck' = Later(lastLeaderCheck) /\ lastFailure' = Later(lastFailure)
        /\ UNCHANGED <<stopping, reachable, checker, leaderCheckError, breaker, healthy>>
    BY Zenon, <1>1 DEF TimePasses
  <2>2. BackgroundTypeOK'
    BY <2>1 DEF Later
  <2>3. OnTheTick'
    BY <2>1 DEF Later
  <2>4. Reported'
    BY <2>1 DEF Later
  <2>5. Noticed'
    BY <2>1 DEF Later
  <2> QED
    BY Zenon, <2>2, <2>3, <2>4, <2>5
<1>2. ASSUME LeaderChanges PROVE HInv'
  <2>1. /\ reachable' \in BOOLEAN /\ since' = 0
        /\ UNCHANGED <<stopping, toTick, tick, checker, dialFor, lastLeaderCheck,
                       leaderCheckError, breaker, lastFailure, healthy>>
    BY Zenon, <1>2 DEF LeaderChanges, healthVars, breakerVars
  <2> QED
    BY <2>1
<1>3. ASSUME HealthCheck PROVE HInv'
  <2>1. /\ tick /\ ~tick' /\ tick' \in BOOLEAN /\ checker = "select"
        /\ Trusted \/ (lastLeaderCheck >= Period /\ Rejected) \/ Dials
        /\ UNCHANGED <<stopping, toTick, reachable, since>>
    BY Zenon, <1>3 DEF HealthCheck, timeVars
  <2>2. CASE Trusted
    <3>1. /\ lastLeaderCheck < Period /\ (healthy' <=> ~leaderCheckError)
          /\ healthy' \in BOOLEAN /\ leaderCheckError' = leaderCheckError
          /\ checker' = "select" /\ dialFor' = 0
          /\ UNCHANGED <<lastLeaderCheck, breaker, lastFailure>>
      BY Zenon, <2>2 DEF Trusted, Report, breakerVars
    <3>2. ~leaderCheckError
      BY <3>1
    <3>3. healthy' /\ ~leaderCheckError'
      BY Zenon, <3>1, <3>2
    <3>4. BackgroundTypeOK' /\ OnTheTick'
      BY <2>1, <3>1
    <3>5. Reported'
      BY <2>1, <3>1, <3>3
    <3>6. Noticed'
      <4>1. ~reachable => since < Period
        BY <3>1
      <4> QED
        BY <2>1, <3>1, <3>3, <4>1
    <3> QED
      BY Zenon, <3>4, <3>5, <3>6
  <2>3. CASE lastLeaderCheck >= Period /\ Rejected
    <3>1. /\ breaker = "open" /\ lastFailure < OpenTimeout /\ ~healthy'
          /\ healthy' \in BOOLEAN /\ leaderCheckError' /\ leaderCheckError' \in BOOLEAN
          /\ checker' = "select" /\ dialFor' = 0
          /\ UNCHANGED <<lastLeaderCheck, breaker, lastFailure>>
      BY Zenon, <2>3 DEF Rejected, Report, breakerVars
    <3>2. BackgroundTypeOK' /\ OnTheTick'
      BY <2>1, <3>1
    <3>3. Reported'
      BY <2>1, <2>3, <3>1
    <3>4. Noticed'
      <4>1. reachable => since < Period
        BY <2>1, <3>1
      <4> QED
        BY <2>1, <3>1, <4>1
    <3> QED
      BY Zenon, <3>2, <3>3, <3>4
  <2>4. CASE Dials
    <3>1. /\ lastLeaderCheck >= Period /\ checker' = "dial"
          /\ breaker' = IF breaker = "open" THEN "halfOpen" ELSE breaker
          /\ UNCHANGED <<dialFor, lastLeaderCheck, leaderCheckError, lastFailure, healthy>>
      BY Zenon, <2>4 DEF Dials
    <3>2. BackgroundTypeOK' /\ OnTheTick'
      BY <2>1, <3>1
    <3>3. Reported'
      BY <2>1, <3>1
    <3>4. Noticed'
      BY <2>1, <3>1
    <3> QED
      BY Zenon, <3>2, <3>3, <3>4
  <2> QED
    BY Zenon, <2>1, <2>2, <2>3, <2>4
<1>4. ASSUME DialSucceeds PROVE HInv'
  <2>1. /\ checker = "dial" /\ reachable /\ lastLeaderCheck' = 0 /\ breaker' = "closed"
        /\ healthy' /\ healthy' \in BOOLEAN /\ ~leaderCheckError'
        /\ leaderCheckError' \in BOOLEAN /\ checker' = "select" /\ dialFor' = 0
        /\ UNCHANGED <<stopping, toTick, reachable, since, tick, lastFailure>>
    BY Zenon, <1>4 DEF DialSucceeds, Report, timeVars
  <2> QED
    BY <2>1
<1>5. ASSUME DialFails PROVE HInv'
  <2>1. /\ checker = "dial" /\ dialFor = DialTimeout
        /\ ~(reachable /\ since >= DialTimeout)
        /\ ~healthy' /\ healthy' \in BOOLEAN /\ leaderCheckError'
        /\ leaderCheckError' \in BOOLEAN /\ checker' = "select" /\ dialFor' = 0
        /\ UNCHANGED <<stopping, toTick, reachable, since, tick, lastLeaderCheck>>
        /\ \/ breaker' = "open" /\ lastFailure' = 0
           \/ UNCHANGED <<breaker, lastFailure>>
    BY Zenon, <1>5 DEF DialFails, Report, timeVars
  <2>2. BackgroundTypeOK' /\ OnTheTick'
    BY <2>1
  <2>3. Reported'
    BY <2>1
  <2>4. Noticed'
    BY <2>1
  <2> QED
    BY Zenon, <2>2, <2>3, <2>4
<1>6. ASSUME CheckerEnds PROVE HInv'
  <2>1. /\ stopping # "no" /\ checker' = "ended"
        /\ UNCHANGED <<stopping, toTick, reachable, since, tick, dialFor, lastLeaderCheck,
                       leaderCheckError, breaker, lastFailure, healthy>>
    BY Zenon, <1>6 DEF CheckerEnds, timeVars, breakerVars
  <2> QED
    BY <2>1
<1>7. ASSUME UNCHANGED <<timeVars, healthVars>>, stopping' = stopping \/ stopping' # "no",
             stopping' \in {"no", "waiting", "done"}
      PROVE  HInv'
  <2>1. UNCHANGED <<toTick, reachable, since, tick, checker, dialFor, lastLeaderCheck,
                    leaderCheckError, breaker, lastFailure, healthy>>
    BY Zenon, <1>7 DEF timeVars, healthVars, breakerVars
  <2> QED
    BY <1>7, <2>1
<1> HIDE DEF HInv
<1>8. ASSUME Stop \/ Waited PROVE HInv'
  BY Zenon, <1>7, <1>8 DEF Stop, Waited
<1>9. ASSUME \/ SendTx \/ Processor \/ ProcessorEnds \/ Cleaner \/ CleanerEnds
             \/ \E tx \in variableMap : Expire(tx)
      PROVE  HInv'
  BY Zenon, <1>7, <1>9 DEF HInv, SendTx, Processor, ProcessTx, Respond, ProcessorEnds, Cleaner, Collect,
     Remove, CleanerEnds, Expire
<1>10. ASSUME UNCHANGED backgroundVars PROVE HInv'
  BY <1>7, <1>10 DEF HInv, backgroundVars
<1> QED
  BY Zenon, <1>1, <1>2, <1>3, <1>4, <1>5, <1>6, <1>8, <1>9, <1>10 DEF BackgroundNext, Checker

(* Neither a check that is trusted nor an open breaker hides the loss or   *)
(* the return of the leader for longer than two periods and a dial         *)
(* (performHealthCheck, checkLeaderConnectivity, Execute), whatever the    *)
(* periods are and whatever the leader did before.                         *)
THEOREM HealthIsCurrent == BackgroundSpec => []HealthCurrent
<1>1. HInv => HealthCurrent
  BY BackgroundAssumption, TimesAssumption
     DEF HInv, BackgroundTypeOK, OnTheTick, Noticed, Elapsed, HealthCurrent, Notice
<1> QED
  BY <1>1, InitHealth, NextHealth, PTL DEF BackgroundSpec

-----------------------------------------------------------------------------
(* The cleaner: what it has collected is expired until it removes it.      *)
Collected == toRemove \subseteq expired /\ lost = {}

LEMMA NextCollected == Collected /\ [BackgroundNext]_backgroundVars => Collected'
<1> SUFFICES ASSUME Collected, [BackgroundNext]_backgroundVars PROVE Collected'
  OBVIOUS
<1> USE DEF Collected
<1>1. ASSUME ProcessTx PROVE Collected'
  BY <1>1 DEF ProcessTx, processTransaction
<1>2. ASSUME NEW tx \in variableMap, Expire(tx) PROVE Collected'
  BY <1>2 DEF Expire
<1>3. ASSUME Cleaner PROVE Collected'
  BY <1>3 DEF Cleaner, Collect, Remove
<1>4. ASSUME UNCHANGED <<toRemove, expired, lost>> PROVE Collected'
  BY <1>4
<1> HIDE DEF Collected
<1>5. ASSUME TimePasses \/ LeaderChanges \/ Checker PROVE Collected'
  BY Zenon, <1>4, <1>5 DEF TimePasses, LeaderChanges, Checker, HealthCheck, DialSucceeds, DialFails,
     CheckerEnds, leaderVars
<1>6. ASSUME SendTx \/ Respond \/ ProcessorEnds \/ CleanerEnds PROVE Collected'
  BY <1>4, <1>6 DEF SendTx, Respond, ProcessorEnds, CleanerEnds
<1>7. ASSUME Stop \/ Waited \/ UNCHANGED backgroundVars PROVE Collected'
  BY <1>4, <1>7 DEF Stop, Waited, backgroundVars, leaderVars
<1> QED
  BY Zenon, <1>1, <1>2, <1>3, <1>5, <1>6, <1>7 DEF BackgroundNext, Processor

(* Between the RLock under which cleanupExpiredDependencies looks and the  *)
(* Lock under which it removes, no entry gets a new time of expiry.        *)
THEOREM CleanerRemovesExpired == BackgroundSpec => []OnlyExpiredRemoved
<1>1. NewEndorser => Collected
  BY DEF NewEndorser, Collected
<1>2. Collected => OnlyExpiredRemoved
  BY DEF Collected, OnlyExpiredRemoved
<1> QED
  BY <1>1, <1>2, NextCollected, PTL DEF BackgroundSpec
=============================================================================
