------------------------------ MODULE Endorser ------------------------------
(***************************************************************************)
(* The endorser's handlers (core/endorser): ProcessProposal runs once per  *)
(* proposal, in a goroutine of its own, and all the handlers of a contract *)
(* share the one ShardLeader that GetOrCreateShard returns.  A proposal is *)
(* named by the prepare request its handler makes.                         *)
(*                                                                         *)
(* The module extends the shard with its callers: every call a handler     *)
(* makes is the ShardLeader action of that name.  What simulation does     *)
(* inside the ledger is abstracted to its outcome.                         *)
(***************************************************************************)
EXTENDS ShardLeader

CONSTANTS
    Results,          \* the read-write sets each simulation produces
    WithoutSimulator, \* no channel, or qscc or cscc: acquireTxSimulator is false
    ResultsOnce,      \* a simulator gives its results once, as the ledger's does
    HasShardManager,  \* e.ShardManager is not nil
    NoProof, NoMessage

(* A namespace (or a collection of one) in the simulation results.         *)
NsRwset == [SysCC : BOOLEAN, Decodes : BOOLEAN,
            Reads : SUBSET Keys, Writes : SUBSET Keys]

\* The keys a proposal's simulation touches and the handler looks at.
extractTransactionDependencies(r) ==
    UNION {ns.Reads \cup ns.Writes :
              ns \in {n \in Results[r] : ~n.SysCC /\ n.Decodes}}

(* The prepare request puts every key in WriteSet and leaves ReadSet empty.*)
(* A peer starts its shards without a transport.                           *)
ASSUME EndorserAssumption ==
    /\ Results \in [Requests -> SUBSET NsRwset]
    /\ WithoutSimulator \subseteq Requests
    /\ ResultsOnce \in BOOLEAN /\ HasShardManager \in BOOLEAN
    /\ \A r \in Requests : ReadSet[r] = {} /\ WriteSet[r] = extractTransactionDependencies(r)
    /\ MayAbort = Requests /\ ~HasTransport
    /\ NoProof \notin Proof /\ IsFiniteSet(Requests)

VARIABLES
    hPC,       \* where the handler of a proposal is
    status,    \* the chaincode's response status: "ok" or, from 400 on, "threshold"
    got,       \* the proof a handler has received
    message,   \* the dependency information in res.Message
    payload,   \* the dependency information in the payload the plugin signed
    panicked   \* a handler has panicked, which ends the process

handlerVars == <<hPC, status, got, message, payload, panicked>>
evars == <<vars, handlerVars>>

Message == [HasDependency : BOOLEAN, DependentTxID : TxIDs \cup {NoTx},
            ShardCommitIndex : Nat, ProofTerm : Nat]

Ended == {"endorsed", "refused", "failed"}

(* Every variable keeps its type, and a handler that goes on to endorse    *)
(* holds a proof, which it dereferences (endorser.go lines 420 and 470).   *)
ETypeOK ==
    /\ hPC \in [Requests -> {"idle", "simulate", "results", "shard", "submit", "wait",
                             "abort", "endorse", "message"} \cup Ended]
    /\ status \in [Requests -> {"ok", "threshold"}]
    /\ got \in [Requests -> Proof \cup {NoProof}]
    /\ message \in [Requests -> Message \cup {NoMessage}]
    /\ payload \in [Requests -> Message \cup {NoMessage}]
    /\ panicked \in BOOLEAN
    /\ \A r \in Requests : hPC[r] \in {"endorse", "message", "endorsed"} => got[r] # NoProof

EInit ==
    /\ Init
    /\ hPC = [r \in Requests |-> "idle"]
    /\ status = [r \in Requests |-> "ok"]
    /\ got = [r \in Requests |-> NoProof]
    /\ message = [r \in Requests |-> NoMessage]
    /\ payload = [r \in Requests |-> NoMessage]
    /\ panicked = FALSE

-----------------------------------------------------------------------------
Goto(r, from, to) == hPC[r] = from /\ hPC' = [hPC EXCEPT ![r] = to]

(* ProcessProposal: unpacking, the channel lookup and preProcess.          *)
Reject(r) ==
    /\ Goto(r, "idle", "failed")
    /\ UNCHANGED <<vars, status, got, message, payload, panicked>>

Receive(r) ==
    /\ Goto(r, "idle", "simulate")
    /\ UNCHANGED <<vars, status, got, message, payload, panicked>>

(* The simulator, the chaincode's definition, simulateProposal: an error,  *)
(* a response of status 500 or more, or results.                           *)
SimulateFails(r) ==
    /\ Goto(r, "simulate", "failed")
    /\ UNCHANGED <<vars, status, got, message, payload, panicked>>

ChaincodeFails(r) ==
    /\ Goto(r, "simulate", "refused")
    /\ UNCHANGED <<vars, status, got, message, payload, panicked>>

Simulate(r) ==
    /\ Goto(r, "simulate", "results")
    /\ \E s \in {"ok", "threshold"} : status' = [status EXCEPT ![r] = s]
    /\ UNCHANGED <<vars, got, message, payload, panicked>>

(* The second GetTxSimulationResults: simulateProposal made the first.     *)
GetResults(r) ==
    /\ r \notin WithoutSimulator
    /\ Goto(r, "results", IF ResultsOnce THEN "failed" ELSE "shard")
    /\ UNCHANGED <<vars, status, got, message, payload, panicked>>

(* GetOrCreateShard: the shard, or the error of NewShardLeader.            *)
GetShard(r) ==
    /\ HasShardManager
    /\ Goto(r, "shard", "submit") \/ Goto(r, "shard", "failed")
    /\ UNCHANGED <<vars, status, got, message, payload, panicked>>

\* Where a handler calls a method of a nil simulator or a nil shard manager.
NilAt(r) == (IF r \in WithoutSimulator THEN {"results"} ELSE {})
            \cup (IF HasShardManager THEN {} ELSE {"shard"})

Panic(r) ==
    /\ hPC[r] \in NilAt(r)
    /\ panicked' = TRUE
    /\ UNCHANGED <<vars, hPC, status, got, message, payload>>

(* The first select: proposeC takes the request, or DefaultPrepareTimeout. *)
SubmitPrepare(r) ==
    /\ Goto(r, "submit", "wait")
    /\ Submit(r)
    /\ UNCHANGED <<status, got, message, payload, panicked>>

SubmitTimeout(r) ==
    /\ Goto(r, "submit", "failed")
    /\ UNCHANGED <<vars, status, got, message, payload, panicked>>

\* A proof's ShardID and Signature are what signProof made of its other fields.
verifyProof(proof) == proof # NoProof /\ proof.TxID # NoTx

\* Mutant: the proof stays on commitC for the other handlers.
ReceiveProofPeek(r) ==
    /\ commitC # <<>> /\ UNCHANGED vars
    /\ got' = [got EXCEPT ![r] = Head(commitC)]
    /\ Goto(r, "wait", IF verifyProof(Head(commitC)) THEN "endorse" ELSE "abort")
    /\ UNCHANGED <<status, message, payload, panicked>>

\* Mutant: a proof of another transaction is thrown away.
ReceiveProofOwn(r) ==
    /\ TakeProof
    /\ IF Head(commitC).TxID = TxID[r]
       THEN got' = [got EXCEPT ![r] = Head(commitC)] /\ Goto(r, "wait", "endorse")
       ELSE hPC[r] = "wait" /\ UNCHANGED <<got, hPC>>
    /\ UNCHANGED <<status, message, payload, panicked>>

(* The second select: the head of commitC, whosever it is, or the timeout. *)
ReceiveProof(r) ==
    /\ TakeProof
    /\ got' = [got EXCEPT ![r] = Head(commitC)]
    /\ Goto(r, "wait", IF verifyProof(Head(commitC)) THEN "endorse" ELSE "abort")
    /\ UNCHANGED <<status, message, payload, panicked>>

\* Mutant: the wait has no deadline.
WaitTimeoutNever(r) == FALSE /\ UNCHANGED evars /\ r \in Requests

WaitTimeout(r) ==
    /\ Goto(r, "wait", "abort")
    /\ UNCHANGED <<vars, status, got, message, payload, panicked>>

\* HandleAbort; its error is ignored.
Abort(r) ==
    /\ Goto(r, "abort", "failed")
    /\ HandleAbort(r)
    /\ UNCHANGED <<status, got, message, payload, panicked>>

(* The switch on the status, EndorseWithPlugin and the response.  The      *)
(* payload holds res as it was before res.Message is extended.             *)
RefuseThreshold(r) ==
    /\ status[r] = "threshold"
    /\ Goto(r, "endorse", "refused")
    /\ UNCHANGED <<vars, status, got, message, payload, panicked>>

EndorseFails(r) ==
    /\ status[r] = "ok"
    /\ Goto(r, "endorse", "failed")
    /\ UNCHANGED <<vars, status, got, message, payload, panicked>>

Endorse(r) ==
    /\ status[r] = "ok"
    /\ Goto(r, "endorse", "message")
    /\ payload' = [payload EXCEPT ![r] = message[r]]
    /\ UNCHANGED <<vars, status, got, message, panicked>>

Respond(r) ==
    /\ Goto(r, "message", "endorsed")
    /\ message' = [message EXCEPT ![r] =
          [HasDependency |-> got[r].CommitIndex > 1, DependentTxID |-> NoTx,
           ShardCommitIndex |-> got[r].CommitIndex, ProofTerm |-> got[r].Term]]
    /\ UNCHANGED <<vars, status, got, payload, panicked>>

\* Endorser.Shutdown, by way of ShardManager.Shutdown; no handler is waited for.
Shutdown == Stop /\ UNCHANGED handlerVars

-----------------------------------------------------------------------------
HandlerNext(r) ==
    \/ SimulateFails(r) \/ ChaincodeFails(r) \/ Simulate(r)
    \/ GetResults(r) \/ GetShard(r) \/ Panic(r)
    \/ SubmitPrepare(r) \/ SubmitTimeout(r)
    \/ ReceiveProof(r) \/ WaitTimeout(r) \/ Abort(r)
    \/ RefuseThreshold(r) \/ EndorseFails(r) \/ Endorse(r) \/ Respond(r)

ENext ==
    /\ ~panicked
    /\ \/ \E r \in Requests : Reject(r) \/ Receive(r) \/ HandlerNext(r)
       \/ Shutdown
       \/ InternalNext /\ UNCHANGED handlerVars

ESpec == EInit /\ [][ENext]_evars

(* A handler that can go on does; the shard is as fair as in ShardLeader.  *)
EFairSpec == ESpec /\ Fairness /\ \A r \in Requests : WF_evars(HandlerNext(r))

-----------------------------------------------------------------------------
(* Properties                                                              *)

Holders == {r \in Requests : got[r] # NoProof}

(* Whoever receives a proof, and whenever: what a handler holds is the     *)
(* proof of a committed and applied batch.  The shard goes on applying     *)
(* entries and moving commitIndex while the handler endorses.              *)
HeldEvidence == \A r \in Holders : Evidence(got[r])

DistinctTxIDs == \A r, s \in Requests : TxID[r] = TxID[s] => r = s

(* A prepared transaction endorses at most one proposal: no two handlers   *)
(* hold the same transaction's proof, and none that is held is still on    *)
(* commitC.                                                                *)
OneProofEach ==
    DistinctTxIDs =>
        \A r \in Holders :
            /\ \A s \in Holders \ {r} : got[s].TxID # got[r].TxID
            /\ \A i \in 1..Len(commitC) : commitC[i].TxID # got[r].TxID

(* Proofs are neither made nor lost between the shard and its handlers: as *)
(* long as commitC has room, each applied request's proof is on commitC or *)
(* with one handler, also when handlers time out and leave theirs behind.  *)
ProofsConserved ==
    CommitCap >= Cardinality(Requests) =>
        Cardinality(Holders) + Len(commitC) = Len(handled)

(* Liveness: a handler that has started ends, in an endorsement, a refusal *)
(* or an error; DefaultPrepareTimeout bounds its two waits.                *)
HandlersEnd == \A r \in Requests : (hPC[r] # "idle") ~> (hPC[r] \in Ended)

(* Liveness: once the shard knows a leader, every handler that has started *)
(* ends, also when its proof was dropped or taken by another handler, and  *)
(* when the shard is shut down under it.                                   *)
LedHandlersEnd ==
    \A r \in Requests : (hPC[r] # "idle" /\ lead # 0) ~> (hPC[r] \in Ended)

(* A handler goes on with the proof of its own transaction.                *)
OwnProof ==
    \A r \in Requests : hPC[r] \in {"endorse", "message", "endorsed"} => got[r].TxID = TxID[r]

(* The endorsed response says HasDependency=false of a transaction in      *)
(* which the shard found no dependency.                                    *)
IndependentFlagged ==
    \A r \in Requests : \A i \in 1..Len(handled) :
        hPC[r] = "endorsed" /\ handled[i].Request = r /\ ~handled[i].HasDependency =>
            ~message[r].HasDependency

(* The endorsed response of a dependent transaction names the transaction  *)
(* the shard found.                                                        *)
DependencyNamed ==
    \A r \in Requests : \A i \in 1..Len(handled) :
        hPC[r] = "endorsed" /\ handled[i].Request = r /\ handled[i].HasDependency =>
            message[r].DependentTxID = handled[i].DependentTxID

(* The dependency information of a response is part of what is signed.     *)
DependencySigned == \A r \in Requests : hPC[r] = "endorsed" => payload[r] = message[r]

\* The keys the simulation of r writes.
Written(r) == UNION {ns.Writes : ns \in {n \in Results[r] : ~n.SysCC /\ n.Decodes}}

(* A dependency is on a transaction that wrote one of the keys.            *)
DependsOnWrites ==
    \A i \in 1..Len(handled) :
        handled[i].HasDependency =>
            \E j \in 1..(i - 1) :
                /\ TxID[handled[j].Request] = handled[i].DependentTxID
                /\ Written(handled[j].Request)
                      \cap extractTransactionDependencies(handled[i].Request) # {}

(* A proposal whose simulation succeeded gets to its contract's shard.     *)
SimulatedPrepared ==
    [][\A r \in Requests :
          hPC[r] = "results" /\ hPC'[r] # "results" => hPC'[r] = "shard"]_evars

(* No proposal ends the process.                                           *)
NoPanic == ~panicked
=============================================================================
