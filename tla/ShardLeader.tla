----------------------------- MODULE ShardLeader -----------------------------
(***************************************************************************)
(* One replica of a contract shard (core/endorser/sharding): the goroutine *)
(* runRaft, the goroutine runBatcher, the channels between them and their  *)
(* callers, and the raft.Node they drive.  Callers submit prepare requests *)
(* on proposeC and take proofs from commitC; any caller may take any proof.*)
(*                                                                         *)
(* The raft node is modelled by what ShardLeader sees of it: its leader,   *)
(* its term, the proposals it has accepted (inflight) and the committed    *)
(* log it delivers through Ready.  Peers are 1..NumPeers; this replica is  *)
(* Self.  Entries proposed at other replicas appear in the log as well.    *)
(***************************************************************************)
EXTENDS Integers, Sequences, FiniteSets

CONSTANTS Requests, TxIDs, Keys, TxID, ReadSet, WriteSet, NoTx,
          MaxBatchSize,   \* maxBatchSize
          ProposeCap,     \* capacity of proposeC
          CommitCap,      \* capacity of commitC
          MessagesCap,    \* capacity of messagesC
          NumPeers,       \* len(config.ReplicaNodes)
          Self,           \* config.ReplicaID
          HasTransport,   \* something drains messagesC and calls Step
          MaxTerm,        \* bound on elections
          MayAbort,       \* requests whose caller may give up (HandleAbort)
          MayStop,        \* whether Stop may be called
          MayExpire       \* whether DefaultExpiryDuration may pass

ASSUME RequestAssumption ==
    /\ TxID \in [Requests -> TxIDs]
    /\ ReadSet \in [Requests -> SUBSET Keys]
    /\ WriteSet \in [Requests -> SUBSET Keys]
    /\ NoTx \notin TxIDs

ASSUME ConfigAssumption ==
    /\ MaxBatchSize \in Nat \ {0}
    /\ ProposeCap \in Nat \ {0} /\ CommitCap \in Nat \ {0}
    /\ MessagesCap \in Nat \ {0}
    /\ NumPeers \in Nat \ {0} /\ Self \in 1..NumPeers
    /\ HasTransport \in BOOLEAN
    /\ MaxTerm \in Nat /\ MayAbort \subseteq Requests
    /\ MayStop \in BOOLEAN /\ MayExpire \in BOOLEAN

VARIABLES
    submitted,     \* requests that were put on proposeC here or elsewhere
    aborted,       \* requests for which HandleAbort returned
    proposeC, commitC, messagesC,         \* channels (messagesC: its length)
    batchQueue, variableMap, commitIndex, \* fields of ShardLeader
    expired,       \* keys of variableMap whose ExpiryTime has passed
    raftPC,        \* where runRaft is
    raftBatch,     \* the batch runRaft holds between the swap and Propose
    readyTo,       \* last committed entry of the Ready being processed
    applied,       \* last entry whose processing is complete
    reqPos,        \* requests of entry applied+1 already applied
    batcherPC, batcherBatch,              \* the same for runBatcher
    stopC,         \* stopC is closed
    nodeStopped,   \* node.Stop has been executed
    lead, term, role, outbox,             \* the raft node: Status().Lead, ...
    inflight,      \* proposals the node accepted, not committed
    log,           \* committed entries
    handled        \* history: requests applied, with the dependency found

chanVars  == <<proposeC, commitC, messagesC>>
mapVars   == <<variableMap, expired, handled>>
raftVars  == <<raftPC, raftBatch, readyTo, applied, reqPos, commitIndex>>
batchVars == <<batcherPC, batcherBatch>>
stopVars  == <<stopC, nodeStopped>>
nodeVars  == <<lead, term, role, outbox, inflight, log>>
vars == <<submitted, aborted, chanVars, batchQueue, mapVars, raftVars, batchVars,
          stopVars, nodeVars>>

(***************************************************************************)
(* An entry of the raft log.  "conf" entries come from StartNode, "empty"  *)
(* ones from a new leader; the Data of a "batch" is a marshalled           *)
(* PrepareRequestBatch, that of an "abort" a marshalled AbortEntry.        *)
(***************************************************************************)
Proposal == [Kind : {"batch", "abort"}, Requests : Seq(Requests)]
Entry == [Term : Nat, Kind : {"conf", "empty", "batch", "abort"},
          Requests : Seq(Requests)]

Proof == [TxID : TxIDs, CommitIndex : Nat, Term : Nat, LeaderID : Nat]

\* The zero value of a key that variableMap does not hold is NoInfo.
NoInfo == [DependentTxID |-> NoTx, HasDependency |-> FALSE]
Info == [DependentTxID : TxIDs \cup {NoTx}, HasDependency : BOOLEAN]
Known == {k \in Keys : variableMap[k].DependentTxID # NoTx}

Handled == [Request : Requests,
            HasDependency : BOOLEAN, DependentTxID : TxIDs \cup {NoTx}]

TypeQueues ==
    /\ submitted \subseteq Requests /\ aborted \subseteq Requests
    /\ proposeC \in Seq(Requests) /\ Len(proposeC) <= ProposeCap
    /\ batchQueue \in Seq(Requests)
    /\ raftBatch \in Seq(Requests) /\ batcherBatch \in Seq(Requests)

TypeResults ==
    /\ commitC \in Seq(Proof) /\ Len(commitC) <= CommitCap
    /\ variableMap \in [Keys -> Info]
    /\ expired \subseteq Keys
    /\ handled \in Seq(Handled)

TypeControl ==
    /\ raftPC \in {"select", "send", "ready", "entry", "flush", "propose", "done"}
    /\ batcherPC \in {"select", "propose", "done"}
    /\ readyTo \in Nat /\ applied \in Nat /\ reqPos \in Nat /\ commitIndex \in Nat
    /\ messagesC \in 0..MessagesCap

TypeFlags == stopC \in BOOLEAN /\ nodeStopped \in BOOLEAN /\ outbox \in BOOLEAN

TypeNode ==
    /\ lead \in 0..NumPeers /\ term \in Nat
    /\ role \in {"follower", "candidate", "leader"}
    /\ inflight \subseteq Proposal
    /\ log \in Seq(Entry) /\ Len(log) >= NumPeers

(* Every variable keeps its type and every channel its capacity.           *)
TypeOK == TypeQueues /\ TypeResults /\ TypeControl /\ TypeFlags /\ TypeNode

-----------------------------------------------------------------------------
(* NewShardLeader: raft.StartNode bootstraps the log with one committed    *)
(* configuration entry of term 1 for each peer.                            *)
Init ==
    /\ submitted = {} /\ aborted = {}
    /\ proposeC = <<>> /\ commitC = <<>> /\ messagesC = 0
    /\ batchQueue = <<>> /\ commitIndex = 0
    /\ variableMap = [k \in Keys |-> NoInfo] /\ expired = {}
    /\ raftPC = "select" /\ raftBatch = <<>>
    /\ readyTo = 0 /\ applied = 0 /\ reqPos = 0
    /\ batcherPC = "select" /\ batcherBatch = <<>>
    /\ stopC = FALSE /\ nodeStopped = FALSE
    /\ lead = 0 /\ term = 1 /\ role = "follower" /\ outbox = FALSE
    /\ inflight = {}
    /\ log = [i \in 1..NumPeers |->
                 [Term |-> 1, Kind |-> "conf", Requests |-> <<>>]]
    /\ handled = <<>>

-----------------------------------------------------------------------------
(* The raft node (external library, as ShardLeader uses it).               *)

LastTerm == log[Len(log)].Term

(* node.Propose: the node goroutine accepts a proposal only while it knows *)
(* a leader; otherwise the caller blocks, as its context never ends.       *)
Accept(p) ==
    /\ ~nodeStopped /\ lead # 0
    /\ inflight' = inflight \cup {p}
    /\ outbox' = IF NumPeers > 1 THEN TRUE ELSE outbox
    /\ UNCHANGED <<lead, term, role, log, stopVars>>

\* Propose on a stopped node returns ErrStopped.
Refuse == nodeStopped /\ UNCHANGED <<nodeVars, stopVars>>

(* node.Tick: an election timeout makes a campaign, which a single node    *)
(* wins on the spot; a leader's heartbeat timeout makes messages.          *)
Campaign ==
    /\ lead # Self /\ applied >= NumPeers /\ term < MaxTerm
    /\ term' = term + 1
    /\ IF NumPeers = 1
       THEN lead' = Self /\ role' = "leader" /\ UNCHANGED outbox
       ELSE lead' = 0 /\ role' = "candidate" /\ outbox' = TRUE
    /\ UNCHANGED <<inflight, log>>

Heartbeat ==
    /\ lead = Self /\ NumPeers > 1 /\ outbox' = TRUE
    /\ UNCHANGED <<lead, term, role, inflight, log>>

rest == <<submitted, aborted, chanVars, batchQueue, mapVars, raftVars,
          batchVars, stopVars>>

(* ShardLeader.Step, called by the transport with a peer's message: a vote *)
(* of a later term, a heartbeat of a leader, the votes that win a campaign *)
(* whose requests runRaft has handed to messagesC.                         *)
PeersTalk == HasTransport /\ NumPeers > 1 /\ ~nodeStopped

PeerCampaign ==
    /\ PeersTalk /\ term < MaxTerm
    /\ term' = term + 1 /\ lead' = 0 /\ role' = "follower" /\ outbox' = TRUE
    /\ UNCHANGED <<inflight, log, rest>>

PeerLeads(l) ==
    /\ PeersTalk /\ l # Self
    /\ \/ lead = 0 /\ term > 1 /\ UNCHANGED term
       \/ term < MaxTerm /\ term' = term + 1
    /\ lead' = l /\ role' = "follower" /\ outbox' = TRUE
    /\ UNCHANGED <<inflight, log, rest>>

WinElection ==
    /\ PeersTalk /\ role = "candidate" /\ ~outbox /\ raftPC # "send"
    /\ lead' = Self /\ role' = "leader" /\ outbox' = TRUE
    /\ UNCHANGED <<term, inflight, log, rest>>

(* A leader first commits an empty entry of its term, then accepted        *)
(* proposals in any order (peers receive forwarded proposals from one      *)
(* goroutine per message).  A group of several peers also commits what is  *)
(* proposed elsewhere, and loses a proposal whose message or leader fails. *)
Extend(kind, reqs, t) ==
    log' = Append(log, [Term |-> t, Kind |-> kind, Requests |-> reqs])

CommitEmpty ==
    /\ ~nodeStopped /\ lead # 0 /\ LastTerm < term
    /\ Extend("empty", <<>>, term)
    /\ UNCHANGED <<lead, term, role, outbox, inflight, rest>>

CommitProposal(p) ==
    /\ ~nodeStopped /\ lead # 0 /\ LastTerm > 1 /\ p \in inflight
    /\ Extend(p.Kind, p.Requests, LastTerm)
    /\ inflight' = inflight \ {p}
    /\ UNCHANGED <<lead, term, role, outbox, rest>>

CommitRemote(r) ==
    /\ PeersTalk /\ lead # 0 /\ LastTerm > 1 /\ r \notin submitted
    /\ Extend("batch", <<r>>, LastTerm)
    /\ submitted' = submitted \cup {r}
    /\ UNCHANGED <<lead, term, role, outbox, inflight, aborted, chanVars,
                   batchQueue, mapVars, raftVars, batchVars, stopVars>>

LoseProposal(p) ==
    /\ NumPeers > 1 /\ p \in inflight
    /\ inflight' = inflight \ {p}
    /\ UNCHANGED <<lead, term, role, outbox, log, rest>>

-----------------------------------------------------------------------------
(* Callers: the endorser, cmd/shard-server and cmd/experiment.             *)

Submit(r) ==
    /\ r \notin submitted /\ Len(proposeC) < ProposeCap
    /\ submitted' = submitted \cup {r}
    /\ proposeC' = Append(proposeC, r)
    /\ UNCHANGED <<aborted, commitC, messagesC, batchQueue, mapVars, raftVars,
                   batchVars, stopVars, nodeVars>>

TakeProof ==
    /\ commitC # <<>> /\ commitC' = Tail(commitC)
    /\ UNCHANGED <<submitted, aborted, proposeC, messagesC, batchQueue,
                   mapVars, raftVars, batchVars, stopVars, nodeVars>>

HandleAbort(r) ==
    /\ r \in MayAbort /\ r \in submitted \ aborted
    /\ Accept([Kind |-> "abort", Requests |-> <<r>>]) \/ Refuse
    /\ aborted' = aborted \cup {r}
    /\ UNCHANGED <<submitted, chanVars, batchQueue, mapVars, raftVars, batchVars>>

(* Stop closes stopC and then stops the node.                              *)
Stop ==
    /\ MayStop /\ ~stopC /\ stopC' = TRUE
    /\ UNCHANGED <<submitted, aborted, chanVars, batchQueue, mapVars, raftVars,
                   batchVars, nodeStopped, nodeVars>>

\* Mutant: the node is stopped only when runRaft has ended.
StopNodeLast ==
    /\ stopC /\ ~nodeStopped /\ raftPC = "done" /\ nodeStopped' = TRUE
    /\ UNCHANGED <<submitted, aborted, chanVars, batchQueue, mapVars, raftVars,
                   batchVars, stopC, nodeVars>>

StopNode ==
    /\ stopC /\ ~nodeStopped /\ nodeStopped' = TRUE
    /\ UNCHANGED <<submitted, aborted, chanVars, batchQueue, mapVars, raftVars,
                   batchVars, stopC, nodeVars>>

(* The transport's consumeMessages takes from messagesC.                   *)
ConsumeMessages ==
    /\ HasTransport /\ messagesC > 0 /\ messagesC' = messagesC - 1
    /\ UNCHANGED <<submitted, aborted, proposeC, commitC, batchQueue, mapVars,
                   raftVars, batchVars, stopVars, nodeVars>>

\* DefaultExpiryDuration passes while runRaft waits: no known key is written.
ExpiryPasses ==
    /\ MayExpire /\ raftPC = "select" /\ expired # Known /\ expired' = Known
    /\ UNCHANGED <<submitted, aborted, chanVars, batchQueue, variableMap, handled,
                   raftVars, batchVars, stopVars, nodeVars>>

-----------------------------------------------------------------------------
(* applyEntry: dependency lookup and update.                               *)

\* Mutant: the second loop, over the keys the request writes, is left out.
FoundKeysReadsOnly(r) == ReadSet[r] \cap Known

\* The keys of which the range loops of checkDependencies may meet one first.
FoundKeys(r) ==
    LET reads == ReadSet[r] \cap Known
    IN  IF reads # {} THEN reads ELSE WriteSet[r] \cap Known

\* The possible results (hasDependency, dependentTxID).
checkDependencies(r) ==
    IF FoundKeys(r) = {}
    THEN {NoInfo}
    ELSE {[DependentTxID |-> variableMap[k].DependentTxID,
           HasDependency |-> TRUE] : k \in FoundKeys(r)}

\* Mutant: a key that is already known keeps its first writer.
updateFirstWriter(r, hasDep) ==
    /\ variableMap' = [k \in Keys |->
          IF k \in WriteSet[r] /\ variableMap[k] = NoInfo
          THEN [DependentTxID |-> TxID[r], HasDependency |-> hasDep]
          ELSE variableMap[k]]
    /\ expired' = expired \ WriteSet[r]

updateDependencyMap(r, hasDep) ==
    /\ variableMap' = [k \in Keys |->
          IF k \in WriteSet[r]
          THEN [DependentTxID |-> TxID[r], HasDependency |-> hasDep]
          ELSE variableMap[k]]
    /\ expired' = expired \ WriteSet[r]

\* Mutant: the newest proof overtakes the queued ones.
SendProofFirst(proof) ==
    commitC' = IF Len(commitC) < CommitCap THEN <<proof>> \o commitC ELSE commitC

\* The non-blocking send of a proof: a full commitC drops it.
SendProof(proof) ==
    commitC' = IF Len(commitC) < CommitCap THEN Append(commitC, proof) ELSE commitC

\* The Requests that Unmarshal finds in an entry: an AbortEntry has none.
Unmarshal(e) == IF e.Kind = "batch" THEN e.Requests ELSE <<>>

-----------------------------------------------------------------------------
(* runRaft                                                                 *)

RaftTick ==
    /\ raftPC = "select" /\ ~nodeStopped
    /\ Campaign \/ Heartbeat
    /\ UNCHANGED rest

RaftReady ==
    /\ raftPC = "select" /\ ~nodeStopped
    /\ \E k \in applied..Len(log) :
          /\ outbox \/ k > applied
          /\ readyTo' = k
    /\ raftPC' = IF outbox THEN "send" ELSE "ready"
    /\ outbox' = FALSE
    /\ UNCHANGED <<submitted, aborted, chanVars, batchQueue, mapVars, raftBatch,
                   applied, reqPos, commitIndex, batchVars, stopVars,
                   lead, term, role, inflight, log>>

RaftSend ==
    /\ raftPC = "send"
    /\ \/ messagesC < MessagesCap /\ messagesC' = messagesC + 1 /\ raftPC' = "ready"
       \/ stopC /\ raftPC' = "done" /\ UNCHANGED messagesC
    /\ UNCHANGED <<submitted, aborted, proposeC, commitC, batchQueue, mapVars,
                   raftBatch, readyTo, applied, reqPos, commitIndex,
                   batchVars, stopVars, nodeVars>>

unchangedByApply == <<submitted, aborted, proposeC, messagesC, batchQueue,
                      raftBatch, readyTo, batchVars, stopVars, nodeVars>>

SkipEntry ==
    /\ raftPC = "ready" /\ applied < readyTo
    /\ log[applied + 1].Kind \in {"conf", "empty"}
    /\ applied' = applied + 1
    /\ UNCHANGED <<raftPC, reqPos, commitIndex, commitC, mapVars, unchangedByApply>>

\* Mutant: entries are numbered from 0.
ApplyEntryOffByOne ==
    /\ raftPC = "ready" /\ applied < readyTo
    /\ log[applied + 1].Kind \in {"batch", "abort"}
    /\ commitIndex' = applied
    /\ raftPC' = "entry" /\ reqPos' = 0
    /\ UNCHANGED <<applied, commitC, mapVars, unchangedByApply>>

ApplyEntry ==
    /\ raftPC = "ready" /\ applied < readyTo
    /\ log[applied + 1].Kind \in {"batch", "abort"}
    /\ commitIndex' = applied + 1
    /\ raftPC' = "entry" /\ reqPos' = 0
    /\ UNCHANGED <<applied, commitC, mapVars, unchangedByApply>>

\* Mutant: the proof carries the node's term, not the entry's.
ApplyRequestNodeTerm ==
    LET r == Unmarshal(log[applied + 1])[reqPos + 1]
    IN  /\ raftPC = "entry" /\ reqPos < Len(Unmarshal(log[applied + 1]))
        /\ \E dep \in checkDependencies(r) :
              /\ updateDependencyMap(r, dep.HasDependency)
              /\ handled' = Append(handled,
                    [Request |-> r, HasDependency |-> dep.HasDependency,
                     DependentTxID |-> dep.DependentTxID])
        /\ SendProof([TxID |-> TxID[r], CommitIndex |-> commitIndex, Term |-> term,
                      LeaderID |-> IF nodeStopped THEN 0 ELSE lead])
        /\ reqPos' = reqPos + 1
        /\ UNCHANGED <<raftPC, applied, commitIndex, unchangedByApply>>

ApplyRequest ==
    LET e == log[applied + 1]
        r == Unmarshal(e)[reqPos + 1]
    IN  /\ raftPC = "entry" /\ reqPos < Len(Unmarshal(e))
        /\ \E dep \in checkDependencies(r) :
              /\ updateDependencyMap(r, dep.HasDependency)
              /\ handled' = Append(handled,
                    [Request |-> r, HasDependency |-> dep.HasDependency,
                     DependentTxID |-> dep.DependentTxID])
        /\ SendProof([TxID |-> TxID[r], CommitIndex |-> commitIndex, Term |-> e.Term,
                      LeaderID |-> IF nodeStopped THEN 0 ELSE lead])
        /\ reqPos' = reqPos + 1
        /\ UNCHANGED <<raftPC, applied, commitIndex, unchangedByApply>>

\* Mutant: only the first request of a batch is applied.
EndEntryEarly ==
    /\ raftPC = "entry" /\ (reqPos = 1 \/ reqPos = Len(Unmarshal(log[applied + 1])))
    /\ applied' = applied + 1 /\ reqPos' = 0 /\ raftPC' = "ready"
    /\ UNCHANGED <<commitIndex, commitC, mapVars, unchangedByApply>>

EndEntry ==
    /\ raftPC = "entry" /\ reqPos = Len(Unmarshal(log[applied + 1]))
    /\ applied' = applied + 1 /\ reqPos' = 0 /\ raftPC' = "ready"
    /\ UNCHANGED <<commitIndex, commitC, mapVars, unchangedByApply>>

Advance ==
    /\ raftPC = "ready" /\ applied = readyTo
    /\ raftPC' = "select"
    /\ UNCHANGED <<applied, reqPos, commitIndex, commitC, mapVars, unchangedByApply>>

ReceiveRequest ==
    /\ raftPC = "select" /\ proposeC # <<>>
    /\ proposeC' = Tail(proposeC)
    /\ batchQueue' = Append(batchQueue, Head(proposeC))
    /\ raftPC' = IF Len(batchQueue') >= MaxBatchSize THEN "flush" ELSE "select"
    /\ UNCHANGED <<submitted, aborted, commitC, messagesC, mapVars, raftBatch,
                   readyTo, applied, reqPos, commitIndex, batchVars, stopVars,
                   nodeVars>>

unchangedByFlush == <<submitted, aborted, chanVars, mapVars, readyTo, applied,
                      reqPos, commitIndex>>

\* Mutant: the queue is not replaced by an empty one.
RaftFlushKeeps ==
    /\ raftPC = "flush"
    /\ raftPC' = IF batchQueue = <<>> THEN "select" ELSE "propose"
    /\ raftBatch' = batchQueue
    /\ UNCHANGED <<unchangedByFlush, batchQueue, batchVars, stopVars, nodeVars>>

\* flushBatch under batchLock; runBatcher may have emptied the queue first.
RaftFlush ==
    /\ raftPC = "flush"
    /\ raftPC' = IF batchQueue = <<>> THEN "select" ELSE "propose"
    /\ raftBatch' = batchQueue /\ batchQueue' = <<>>
    /\ UNCHANGED <<unchangedByFlush, batchVars, stopVars, nodeVars>>

\* flushBatch after batchLock: an error of Propose is logged, the batch is gone.
RaftPropose ==
    /\ raftPC = "propose"
    /\ Accept([Kind |-> "batch", Requests |-> raftBatch]) \/ Refuse
    /\ raftPC' = "select" /\ raftBatch' = <<>>
    /\ UNCHANGED <<unchangedByFlush, batchQueue, batchVars>>

RaftStop ==
    /\ raftPC = "select" /\ stopC
    /\ nodeStopped' = TRUE /\ raftPC' = "done"
    /\ UNCHANGED <<unchangedByFlush, batchQueue, raftBatch, batchVars, stopC,
                   nodeVars>>

(* runBatcher                                                              *)

\* Mutant: the timer flushes full batches only.
BatcherTickFull ==
    /\ batcherPC = "select" /\ Len(batchQueue) >= MaxBatchSize
    /\ batcherPC' = "propose"
    /\ batcherBatch' = batchQueue /\ batchQueue' = <<>>
    /\ UNCHANGED <<unchangedByFlush, raftPC, raftBatch, stopVars, nodeVars>>

BatcherTick ==
    /\ batcherPC = "select" /\ batchQueue # <<>>
    /\ batcherPC' = "propose"
    /\ batcherBatch' = batchQueue /\ batchQueue' = <<>>
    /\ UNCHANGED <<unchangedByFlush, raftPC, raftBatch, stopVars, nodeVars>>

\* Mutant: Propose gets a deadline, and a batch that misses it is dropped.
BatcherProposeDrops ==
    /\ batcherPC = "propose"
    /\ \/ Accept([Kind |-> "batch", Requests |-> batcherBatch])
       \/ UNCHANGED <<nodeVars, stopVars>>
    /\ batcherPC' = "select" /\ batcherBatch' = <<>>
    /\ UNCHANGED <<unchangedByFlush, batchQueue, raftPC, raftBatch>>

BatcherPropose ==
    /\ batcherPC = "propose"
    /\ Accept([Kind |-> "batch", Requests |-> batcherBatch]) \/ Refuse
    /\ batcherPC' = "select" /\ batcherBatch' = <<>>
    /\ UNCHANGED <<unchangedByFlush, batchQueue, raftPC, raftBatch>>

BatcherStop ==
    /\ batcherPC = "select" /\ stopC /\ batcherPC' = "done"
    /\ UNCHANGED <<unchangedByFlush, batchQueue, raftPC, raftBatch, batcherBatch,
                   stopVars, nodeVars>>

-----------------------------------------------------------------------------
NodeNext ==
    \/ PeerCampaign \/ WinElection \/ CommitEmpty
    \/ \E l \in 1..NumPeers : PeerLeads(l)
    \/ \E p \in inflight : CommitProposal(p) \/ LoseProposal(p)
    \/ \E r \in Requests : CommitRemote(r)

CallerNext ==
    \/ \E r \in Requests : Submit(r) \/ HandleAbort(r)
    \/ TakeProof \/ Stop

\* What runs without callers: the goroutines, time, the rest of Stop.
InternalNext ==
    \/ NodeNext
    \/ RaftTick \/ RaftReady \/ RaftSend \/ SkipEntry \/ ApplyEntry
    \/ ApplyRequest \/ EndEntry \/ Advance \/ ReceiveRequest
    \/ RaftFlush \/ RaftPropose \/ RaftStop
    \/ BatcherTick \/ BatcherPropose \/ BatcherStop
    \/ StopNode \/ ConsumeMessages \/ ExpiryPasses

Next == CallerNext \/ InternalNext

Spec == Init /\ [][Next]_vars

(***************************************************************************)
(* Fairness of one node group.  A goroutine that can run runs; a select    *)
(* chooses at random among its ready cases, so a case that is ready again  *)
(* and again is taken (strong fairness); a node with a leader commits.     *)
(***************************************************************************)
Fairness ==
    /\ SF_vars(RaftTick) /\ SF_vars(RaftReady) /\ SF_vars(ReceiveRequest)
    /\ SF_vars(RaftStop) /\ SF_vars(BatcherTick) /\ SF_vars(BatcherStop)
    /\ WF_vars(RaftSend) /\ WF_vars(SkipEntry) /\ WF_vars(ApplyEntry)
    /\ WF_vars(ApplyRequest) /\ WF_vars(EndEntry) /\ WF_vars(Advance)
    /\ WF_vars(RaftFlush) /\ WF_vars(RaftPropose) /\ WF_vars(BatcherPropose)
    /\ WF_vars(StopNode) /\ WF_vars(ConsumeMessages) /\ WF_vars(CommitEmpty)
    /\ WF_vars(\E p \in inflight : CommitProposal(p))

FairSpec == Spec /\ Fairness

-----------------------------------------------------------------------------
(* Properties                                                              *)

Elems(s) == {s[i] : i \in 1..Len(s)}
HandledRequests == {handled[i].Request : i \in 1..Len(handled)}

\* The requests in batches that are in flight, and in committed batches.
BatchesIn(P) == {p \in P : p.Kind = "batch"}
InFlight == UNION {Elems(p.Requests) : p \in BatchesIn(inflight)}
InLog == UNION {Elems(Unmarshal(log[i])) : i \in 1..Len(log)}

(* Safety of the dependency map (applyEntry, updateDependencyMap):         *)
(* variableMap is an exact index of the applied log.  A key is in it iff   *)
(* an applied request wrote the key, and its entry is the one of the last  *)
(* such request, whatever batches the requests travelled in.               *)
LastWriter ==
    \A k \in Keys :
        IF variableMap[k] = NoInfo
        THEN \A i \in 1..Len(handled) : k \notin WriteSet[handled[i].Request]
        ELSE \E i \in 1..Len(handled) :
                /\ k \in WriteSet[handled[i].Request]
                /\ variableMap[k] =
                      [DependentTxID |-> TxID[handled[i].Request],
                       HasDependency |-> handled[i].HasDependency]
                /\ \A j \in (i + 1)..Len(handled) :
                      k \notin WriteSet[handled[j].Request]

(* Two goroutines flush one batchQueue (lines 167 and 185), and Propose is *)
(* outside batchLock: still no request is proposed, committed or applied   *)
(* twice.                                                                  *)
HandledOnce ==
    \A i, j \in 1..Len(handled) :
        handled[i].Request = handled[j].Request => i = j

(* A request accepted on proposeC of a single-node shard is not lost while *)
(* the node runs: it is queued, held by a flushing goroutine, in flight or *)
(* in the log.                                                             *)
NothingLost ==
    NumPeers = 1 /\ ~nodeStopped =>
        submitted \subseteq
            Elems(proposeC) \cup Elems(batchQueue) \cup Elems(raftBatch)
                \cup Elems(batcherBatch) \cup InFlight \cup InLog

\* The requests of completed entries, and of the entry that is being applied.
Whole == UNION {Elems(Unmarshal(log[i])) : i \in 1..applied}
Part == {r \in Requests : raftPC = "entry" /\
            \E i \in 1..reqPos : r = Unmarshal(log[applied + 1])[i]}

(* What has been applied is exactly what the log holds up to the entry     *)
(* being applied: no request of a committed batch is skipped, and none is  *)
(* applied that the log does not hold.                                     *)
AppliedExactly == HandledRequests = Whole \cup Part

\* The entry at the proof's CommitIndex is a batch of its Term with its request.
Evidence(proof) ==
    /\ proof.CommitIndex \in 1..Len(log)
    /\ log[proof.CommitIndex].Kind = "batch"
    /\ log[proof.CommitIndex].Term = proof.Term
    /\ \E r \in Elems(log[proof.CommitIndex].Requests) :
          r \in HandledRequests /\ TxID[r] = proof.TxID

(* A proof is evidence: the entry at its CommitIndex is a committed batch  *)
(* of its Term that holds the proof's transaction, and the request has     *)
(* been applied.  applyEntry takes the index from the shared field         *)
(* commitIndex.                                                            *)
ProofCommitted == \A i \in 1..Len(commitC) : Evidence(commitC[i])

(* Proofs leave in log order, and never one of an entry that runRaft has   *)
(* not reached, although a full commitC drops some of them (line 272).     *)
ProofsInLogOrder ==
    /\ \A i, j \in 1..Len(commitC) :
          i <= j => commitC[i].CommitIndex <= commitC[j].CommitIndex
    /\ \A i \in 1..Len(commitC) : commitC[i].CommitIndex <= applied + 1

(* The shard implements its promise: the dependencies it records are those *)
(* of the history of handled requests (DependencyLog).                     *)
Promise == INSTANCE DependencyLog
ImplementsPromise == Promise!Spec

(* After DefaultExpiryDuration a key of variableMap is forgotten: no       *)
(* request is said to depend on the last writer of an expired key only.    *)
ExpiredForgotten ==
    [][Len(handled') > Len(handled) =>
          LET h == handled'[Len(handled')]
          IN  h.HasDependency =>
                 \E k \in (ReadSet[h.Request] \cup WriteSet[h.Request]) \ expired :
                    variableMap[k].DependentTxID = h.DependentTxID]_vars

(* Liveness: what is submitted is flushed, by size or by the timer, and    *)
(* the batch is committed, unless the shard is stopped.                    *)
FlushedAndCommitted == \A r \in Requests : r \in submitted ~> (r \in InLog \/ stopC)

(* Liveness: in a single-node shard with a leader, a request accepted on   *)
(* proposeC is eventually applied, unless the shard is stopped.            *)
LeaderHandlesAll ==
    \A r \in Requests :
        (r \in submitted /\ lead # 0) ~> (r \in HandledRequests \/ stopC)

(* Liveness: after Stop both goroutines end, wherever they were: applying  *)
(* a Ready, blocked on messagesC or blocked in Propose.                    *)
StopEnds == stopC ~> (raftPC = "done" /\ batcherPC = "done")
=============================================================================
