------------------------- MODULE EndorserBackground -------------------------
(***************************************************************************)
(* The goroutines that NewEndorser starts beside the handlers, and the     *)
(* Shutdown that waits for them.                                           *)
(*                                                                         *)
(* An endorser in the normal role checks every 30 seconds whether it can   *)
(* reach its leader, through a circuit breaker (endorser.go,               *)
(* circuit_breaker.go); time is counted in units of the dial's timeout.    *)
(* One in the leader role answers the transactions of TxChannel on         *)
(* ResponseChannel and removes expired entries of VariableMap              *)
(* (transaction_processor.go).                                             *)
(***************************************************************************)
EXTENDS Naturals, FiniteSets

CONSTANTS
    Period,         \* of the health check; also how long a check is trusted
    OpenTimeout,    \* how long an open breaker rejects
    DialTimeout,
    Threshold,      \* failures that open the breaker
    Capacity,       \* of ResponseChannel
    MaxTxs          \* bound on the transactions sent to TxChannel

ASSUME BackgroundAssumption ==
    /\ {Period, OpenTimeout, DialTimeout, Threshold} \subseteq Nat \ {0}
    /\ {Capacity, MaxTxs} \subseteq Nat

\* Both no longer than the period: 30 seconds (circuit_breaker.go) and 5, of 30.
ASSUME TimesAssumption == OpenTimeout <= Period /\ DialTimeout <= Period

VARIABLES
    role, stopping,                     \* of the endorser; Shutdown
    \* the health check
    toTick, tick,                       \* ticker: time left, whether it has fired
    checker, dialFor,                   \* where the goroutine is; how long it dials
    reachable, since,                   \* the leader, and for how long it is so
    lastLeaderCheck, leaderCheckError,  \* ages stop counting at Old
    breaker, failures, lastFailure,
    healthy,
    \* the leader's goroutines
    sent, txChannel, responses, processor,
    variableMap, expired,               \* its keys; those whose time is over
    cleaner, toRemove, lost             \* lost: keys removed before their time

timeVars == <<toTick, reachable, since>>
breakerVars == <<breaker, failures, lastFailure>>
healthVars == <<tick, checker, dialFor, lastLeaderCheck, leaderCheckError, breakerVars, healthy>>
leaderVars == <<sent, txChannel, responses, processor, variableMap, expired,
                cleaner, toRemove, lost>>
backgroundVars == <<role, stopping, timeVars, healthVars, leaderVars>>

\* Loss and return of the leader are noticed within this time: the rest of a
\* trusted check or of an open breaker, another period, and a dial.
Notice == 2 * Period + DialTimeout

Old == Notice + 1

Later(age) == IF age < Old THEN age + 1 ELSE Old

NewEndorser ==
    /\ role \in {"normal", "leader"} /\ stopping = "no"
    /\ toTick = Period /\ tick = FALSE /\ checker = "select" /\ dialFor = 0
    /\ reachable \in BOOLEAN /\ since = 0
    /\ lastLeaderCheck = Old /\ leaderCheckError = FALSE
    /\ breaker = "closed" /\ failures = 0 /\ lastFailure = Old
    /\ healthy = TRUE
    /\ sent = 0 /\ txChannel = 0 /\ responses = 0
    /\ processor = IF role = "leader" THEN "select" ELSE "ended"
    /\ variableMap = {} /\ expired = {}
    /\ cleaner = processor /\ toRemove = {} /\ lost = {}

-----------------------------------------------------------------------------
(* Time, which waits for a goroutine that is to act now, and the leader.   *)

TimePasses ==
    /\ role = "normal" /\ ~tick
    /\ ~(checker = "dial" /\ dialFor = DialTimeout)
    /\ ~(checker = "select" /\ stopping # "no")
    /\ toTick' = IF toTick = 1 THEN Period ELSE toTick - 1
    /\ tick' = (toTick = 1 /\ checker # "ended")
    /\ dialFor' = IF checker = "dial" THEN dialFor + 1 ELSE dialFor
    /\ since' = Later(since)
    /\ lastLeaderCheck' = Later(lastLeaderCheck) /\ lastFailure' = Later(lastFailure)
    /\ UNCHANGED <<role, stopping, reachable, checker, leaderCheckError, breaker, failures,
                   healthy, leaderVars>>

LeaderChanges ==
    /\ role = "normal"
    /\ reachable' = ~reachable /\ since' = 0
    /\ UNCHANGED <<role, stopping, toTick, healthVars, leaderVars>>

-----------------------------------------------------------------------------
(* performHealthCheck, checkLeaderConnectivity, CircuitBreaker.Execute     *)

\* The end of performHealthCheck.
Report(error) ==
    /\ healthy' = ~error /\ leaderCheckError' = error
    /\ checker' = "select" /\ dialFor' = 0

\* Mutant of Rejected: the age of the last failure is not looked at.
RejectedForGood ==
    /\ breaker = "open"
    /\ Report(TRUE)
    /\ UNCHANGED <<lastLeaderCheck, breakerVars>>

Rejected ==
    /\ breaker = "open" /\ lastFailure < OpenTimeout
    /\ Report(TRUE)
    /\ UNCHANGED <<lastLeaderCheck, breakerVars>>

Trusted ==
    /\ lastLeaderCheck < Period
    /\ Report(leaderCheckError)
    /\ UNCHANGED <<lastLeaderCheck, breakerVars>>

Dials ==
    /\ lastLeaderCheck >= Period
    /\ ~(breaker = "open" /\ lastFailure < OpenTimeout)
    /\ breaker' = IF breaker = "open" THEN "halfOpen" ELSE breaker
    /\ checker' = "dial"
    /\ UNCHANGED <<dialFor, lastLeaderCheck, leaderCheckError, failures, lastFailure, healthy>>

HealthCheck ==
    /\ tick /\ tick' = FALSE /\ checker = "select"
    /\ Trusted \/ (lastLeaderCheck >= Period /\ Rejected) \/ Dials
    /\ UNCHANGED <<role, stopping, timeVars, leaderVars>>

DialSucceeds ==
    /\ checker = "dial" /\ reachable
    /\ lastLeaderCheck' = 0 /\ failures' = 0 /\ breaker' = "closed"
    /\ Report(FALSE)
    /\ UNCHANGED <<role, stopping, timeVars, tick, lastFailure, leaderVars>>

\* Unless the leader was there all the time.  failures is only compared with
\* the threshold.
DialFails ==
    LET opens == breaker = "halfOpen" \/ failures + 1 >= Threshold IN
    /\ checker = "dial" /\ dialFor = DialTimeout
    /\ ~(reachable /\ since >= DialTimeout)
    /\ failures' = IF failures < Threshold THEN failures + 1 ELSE failures
    /\ breaker' = IF opens THEN "open" ELSE breaker
    /\ lastFailure' = IF opens THEN 0 ELSE lastFailure
    /\ Report(TRUE)
    /\ UNCHANGED <<role, stopping, timeVars, tick, lastLeaderCheck, leaderVars>>

-----------------------------------------------------------------------------
(* processTransactions and processTransaction                              *)

SendTx ==
    /\ role = "leader" /\ sent < MaxTxs
    /\ sent' = sent + 1 /\ txChannel' = txChannel + 1
    /\ UNCHANGED <<role, stopping, timeVars, healthVars, responses, processor, variableMap,
                   expired, cleaner, toRemove, lost>>

\* Mutant of processTransaction: entries are kept under a key that recurs.
StoredByKey(tx) ==
    /\ variableMap' = variableMap \cup {0} /\ expired' = expired \ {0}
    /\ processor' = "send"

\* A new entry, with a key of its own (a UUID) and a new time of expiry.
processTransaction(tx) ==
    /\ variableMap' = variableMap \cup {tx}
    /\ processor' = "send" /\ UNCHANGED expired

ProcessTx ==
    /\ processor = "select" /\ txChannel > 0 /\ txChannel' = txChannel - 1
    /\ \/ processTransaction(sent - txChannel + 1)
       \/ UNCHANGED <<processor, variableMap, expired>>      \* it does not parse
    /\ UNCHANGED <<role, stopping, timeVars, healthVars, sent, responses, cleaner, toRemove, lost>>

Respond ==
    /\ processor = "send" /\ responses < Capacity
    /\ responses' = responses + 1 /\ processor' = "select"
    /\ UNCHANGED <<role, stopping, timeVars, healthVars, sent, txChannel, variableMap, expired,
                   cleaner, toRemove, lost>>

(* cleanupExpiredDependencies: the keys under RLock, the removal under Lock *)

Expire(tx) ==
    /\ tx \in variableMap \ expired /\ expired' = expired \cup {tx}
    /\ UNCHANGED <<role, stopping, timeVars, healthVars, sent, txChannel, responses, processor,
                   variableMap, cleaner, toRemove, lost>>

Collect ==
    /\ cleaner = "select" /\ expired # {}
    /\ toRemove' = expired /\ cleaner' = "remove"
    /\ UNCHANGED <<role, stopping, timeVars, healthVars, sent, txChannel, responses, processor,
                   variableMap, expired, lost>>

Remove ==
    /\ cleaner = "remove" /\ cleaner' = "select"
    /\ variableMap' = variableMap \ toRemove /\ expired' = expired \ toRemove
    /\ lost' = lost \cup (toRemove \ expired) /\ toRemove' = {}
    /\ UNCHANGED <<role, stopping, timeVars, healthVars, sent, txChannel, responses, processor>>

-----------------------------------------------------------------------------
(* Shutdown: close stopChan, wait; ShardManager.Shutdown has its own module. *)

Stop ==
    /\ stopping = "no" /\ stopping' = "waiting"
    /\ UNCHANGED <<role, timeVars, healthVars, leaderVars>>

CheckerEnds ==
    /\ stopping # "no" /\ checker = "select" /\ checker' = "ended"
    /\ UNCHANGED <<role, stopping, timeVars, tick, dialFor, lastLeaderCheck, leaderCheckError,
                   breakerVars, healthy, leaderVars>>

ProcessorEnds ==
    /\ stopping # "no" /\ processor = "select" /\ processor' = "ended"
    /\ UNCHANGED <<role, stopping, timeVars, healthVars, sent, txChannel, responses, variableMap,
                   expired, cleaner, toRemove, lost>>

\* Mutant of CleanerEnds: stopChan is sent one value where it should be closed,
\* and the processor may have received it.
StopSentOnce ==
    /\ stopping # "no" /\ processor # "ended" /\ cleaner = "select" /\ cleaner' = "ended"
    /\ UNCHANGED <<role, stopping, timeVars, healthVars, sent, txChannel, responses, processor,
                   variableMap, expired, toRemove, lost>>

CleanerEnds ==
    /\ stopping # "no" /\ cleaner = "select" /\ cleaner' = "ended"
    /\ UNCHANGED <<role, stopping, timeVars, healthVars, sent, txChannel, responses, processor,
                   variableMap, expired, toRemove, lost>>

Waited ==
    /\ stopping = "waiting" /\ {checker, processor, cleaner} = {"ended"}
    /\ stopping' = "done"
    /\ UNCHANGED <<role, timeVars, healthVars, leaderVars>>

-----------------------------------------------------------------------------
Checker == HealthCheck \/ DialSucceeds \/ DialFails \/ CheckerEnds
Processor == ProcessTx \/ Respond
Cleaner == Collect \/ Remove

BackgroundNext ==
    \/ TimePasses \/ LeaderChanges \/ Checker
    \/ SendTx \/ Processor \/ ProcessorEnds
    \/ Cleaner \/ CleanerEnds \/ \E tx \in variableMap : Expire(tx)
    \/ Stop \/ Waited

BackgroundSpec == NewEndorser /\ [][BackgroundNext]_backgroundVars

\* Goroutines that can go on do, and time passes; the ticker of the cleaner
\* fires at most every minute, so that it sees stopChan closed in between.
Goroutines ==
    /\ WF_backgroundVars(Checker \/ TimePasses)
    /\ WF_backgroundVars(Processor) /\ WF_backgroundVars(Remove)
    /\ WF_backgroundVars(ProcessorEnds) /\ WF_backgroundVars(CleanerEnds)
    /\ WF_backgroundVars(Waited)

BackgroundFairSpec == BackgroundSpec /\ Goroutines

-----------------------------------------------------------------------------
(* Properties.                                                             *)

\* A normal endorser that has not reached its leader for two periods and a
\* dial says so, and one whose leader has been there that long is healthy,
\* whatever the leader did before: neither a check that is trusted nor an
\* open breaker hides it for longer (performHealthCheck,
\* checkLeaderConnectivity, Execute).
HealthCurrent ==
    role = "normal" /\ stopping = "no" /\ since > Notice => healthy = reachable

\* cleanupExpiredDependencies looks under RLock and removes under Lock: what
\* it removes is still the entry it saw expired.
OnlyExpiredRemoved == lost = {}

\* Shutdown returns from waiting for the goroutines, wherever each of them is
\* when stopChan is closed; the exception is a processor that waits to send on
\* a ResponseChannel that is full, which nothing in the repository empties.
ShutdownReturns ==
    (stopping = "waiting") ~>
        (stopping = "done" \/ (processor = "send" /\ responses = Capacity))
=============================================================================
