# Verification of the sharded endorser, the DAG committer and what they stand on

The repository is a fork of Hyperledger Fabric 2.5. It adds two mechanisms to the
peer:

- **dependency tracking during endorsement** (`core/endorser`): every contract has
  a *shard*, a Raft-replicated log of prepare requests, which records for each
  transaction the last writer of the keys it touches;
- **parallel commit** (`core/committer`): the dependencies that endorsement wrote
  into the transactions of a block form a graph, and the committer validates the
  block level by level, the transactions of a level in parallel.

Both rely on Fabric's own machinery: the ordering service that cuts the blocks, the
state transfer that brings them to a peer, and the ledger that stores them.

This directory models these parts, from `src/`, in TLA+. TLC checks the models on
small instances; TLAPS proves the most important invariants for every instance.
`PROJECT.json` is the index: components, runs, the source lines each definition
translates, findings, hazards and theorems.

## 1. The system

| Component | Source | State | Operations | Module |
|---|---|---|---|---|
| Shard replica | `core/endorser/sharding/shard_leader.go`, `types.go` | `proposeC`, `commitC`, `messagesC`, `batchQueue`, `variableMap`, `commitIndex`, the program counters of `runRaft` and `runBatcher`, `stopC` | submit, batch, flush, propose, apply, send proof, abort, step, stop | `ShardLeader` |
| What a shard promises | – | history of handled requests | handle one request | `DependencyLog` |
| Endorser handlers | `core/endorser/endorser.go`, `chaincode.go`, `utils.go` | one program counter, response and proof per proposal | the return paths of `ProcessProposal` | `Endorser` |
| Shard table | `sharding/shard_manager.go` | `shards`, `shardsLock` | `GetOrCreateShard`, `Shutdown`, `GetShardMetrics` | `ShardManager` |
| Goroutines of an endorser | `endorser.go`, `circuit_breaker.go`, `transaction_processor.go` | breaker, last check, health, `VariableMap`, two channels | health check, `Execute`, process, clean up, `Shutdown` | `EndorserBackground` |
| Transaction graph | `core/committer/committer_impl.go` | `Nodes`, `Dependencies`, `TxIndices`, `Levels` | `BuildDAGFromBlock`, `CalculateLevels` | `TransactionDAG` |
| DAG committer | `core/committer/committer_impl.go` | level, workers, semaphore, mutex, verdicts, block flags | `CommitLegacy`, `processBlockWithDAG`, workers | `LedgerCommitter` |
| Ledger | `core/ledger/kvledger/kv_ledger.go`, `common/ledger/blkstorage`, `core/ledger/pvtdatastorage`, `txmgmt/txmgr`, `history` | block file, its info, index, private data height, state and history database; in memory height, commit hash and the "ahead" flag | the writes of a commit, errors, crash, the steps of a start | `KVLedger` |
| What a ledger promises | – | stored and visible blocks | store, apply, crash, restart | `BlockLedger` |
| MVCC validation | `txmgmt/validation` | – (operators) | `validateAndPrepareBatch` | `MVCCValidation` |
| Snapshots | `kvledger/snapshot_mgmt.go`, `snapshot.go` | requests, directories, the events goroutine, the generating goroutine | the events, generation, restart | `SnapshotManager` |
| State transfer | `gossip/state` | payload buffer, `deliverPayloads`, `antiEntropy`, answers in flight | push, pop, deliver, ask, time out, answer | `GossipState` |
| Ordering service | `orderer/consensus/etcdraft`, `orderer/common/blockcutter`, `multichannel/blockwriter.go` | `Chain` and the variables of its `run` loop, ledgers and the blocks not yet on disk; terms, logs and leaders of raft | order, propose, apply, write, catch up, abdicate, crash | `RaftChain` |
| Raft library | vendored `etcd/raft` | – | – | external parts of `ShardLeader` and `RaftChain` |

How they interact: a handler simulates a proposal, asks the shard table for the
shard of the contract, puts a prepare request on the shard's `proposeC`, and waits
for a proof on its `commitC`; all handlers of a contract share these two channels.
`runRaft` moves requests into `batchQueue`; `runRaft` (a full batch) or
`runBatcher` (the timer) proposes the batch; `runRaft` applies what Raft commits,
updates the dependency map and sends one proof per request. The client sends the
endorsed transaction to an ordering node. Its leader cuts blocks and proposes them to
raft; every node writes what raft commits. Blocks reach a peer by gossip and by
asking other peers, wait in the payload buffer until they are next, and are
committed one at a time: the DAG committer reads the dependencies back from the
response messages and sets the flags, then the ledger validates reads and stores
the block, and an event goroutine decides whether a snapshot is due.

What makes this hard: two goroutines flush one queue and call a blocking `Propose`
outside the lock; channels drop (`commitC`), block (`messagesC`, `propC`) or are
drained (`readyChan`); handlers time out while their request goes on; Go maps are
iterated in random order; workers and their spawner share maps; a block is stored by
five writes with a crash possible between any two, and a failed commit is tried
again on a ledger that has already changed in memory; blocks are numbered when they
are created and written when raft commits them, over changes of leader that the run
loop learns of late.

## 2. Modules

### DependencyLog and ShardLeader

`DependencyLog` is the abstract specification: requests are handled at most once,
one after the other, and the recorded dependency is a function of the requests
handled before, reads before writes. It has neither batches nor a map.

`ShardLeader` is one replica. `raftPC` is the place of `runRaft` in its `select`
("select"), in the send to `messagesC` ("send"), between entries of a `Ready`
("ready"), inside `applyEntry` ("entry"), and in `flushBatch` under the lock
("flush") and in `Propose` ("propose"); `batcherPC` is the same for `runBatcher`.
`runBatcher` takes the batch from the queue in one step because it holds
`batchLock` for the whole of it; `Propose` is a step of its own because it is
outside the lock. Requests are abstract values with a transaction id, a read set
and a write set. A key of `variableMap` without an entry is `NoInfo`.

The Raft node is modelled by what the replica sees of it. `Accept` blocks while no
leader is known, as `Propose` with a context that never ends does, and `Refuse` is
its error on a stopped node. A single node elects itself after a campaign; in a
group, messages of peers make leaders come and go, entries of other replicas are
committed and proposals are lost or reordered. What Raft guarantees is assumed: the
log only grows, and entries are delivered in order. `StartNode` puts one
configuration entry per peer into the log, and a new leader an empty one, so no
batch ever has index 1.

Constants stand for the configuration: `NumPeers`, `MaxBatchSize`, channel
capacities, `HasTransport` (only `cmd/shard-server` and `cmd/experiment` start one).
`MaxTerm` bounds elections.

### Endorser

Extends `ShardLeader` with the handlers. Every call of a handler on its shard *is*
the `ShardLeader` action (`Submit`, `TakeProof`, `HandleAbort`, `Stop`), conjoined
with the handler's own step, so that the composition adds no behaviour of the shard.
`hPC[r]` follows `ProcessProposal`: simulate, the second
`GetTxSimulationResults`, the shard lookup, the two `select`s with their timeouts,
abort, the status switch, the plugin, and the extension of `res.Message`. Simulation
is abstracted to its outcome and its read-write sets; a set of a system chaincode
and one that does not decode are skipped, as in `extractTransactionDependencies`.
An assumption states what the handler puts into a request: all keys in `WriteSet`,
none in `ReadSet`.

### ShardManager and EndorserBackground

`ShardManager` is the table of shards under its `RWMutex`. `writer` is the one that
holds the write lock or that waits for the readers to leave; while there is one, new
readers and other writers wait. The steps of `GetOrCreateShard` are separated where
another goroutine can get in: before `RLock`, between `RUnlock` and `Lock`, and, since
`NewShardLeader` starts goroutines, before the shard is stored. A call that waits for
either lock has begun, so `CallsReturn` is about these waits too.

`EndorserBackground` has the goroutines that `NewEndorser` starts. Time is counted in
units of five seconds (the dial timeout is one, the ticker of the health check and
the open time of the breaker are six); `TimePasses` waits for a goroutine that has
to act now, and ages stop counting once nothing compares them any more. A health
check is trusted, rejected by the open breaker, or dials, and a dial ends at any
time up to its timeout, with success only if the leader can be reached. The
processor of a leader and the cleaner share `VariableMap`: the cleaner collects
expired keys in one step (under `RLock`) and removes them in another (under `Lock`).
The processor stores an entry under a fresh UUID and looks dependencies up by the
keys a transaction reads, so it never finds one; the model has the map it really
builds.

### TransactionDAG and LedgerCommitter

`TransactionDAG` builds the graph one transaction at a time and computes levels in
passes; `Visit(t)` is one iteration over the map, in any order. Byte strings are
modelled by what unmarshalling makes of them: whether an envelope decodes, which
message an action payload holds, whether the response is nil, ok or failed, and
which dependency `ParseDependencyInfo` finds in its message.

`LedgerCommitter` extends it: the committing goroutine ("main") ranges over a level,
marks transactions with invalid parents, takes the semaphore and starts workers; a
worker validates, stores its result under the mutex, sets the verdict, releases the
semaphore and calls `wg.Done`. The unsynchronised write of the committing goroutine
to `txValidationResults` has a begin and an end, and a worker inside the mutex at
that time may make the runtime stop the process: both outcomes are modelled.
`checkRWSetConflicts` is the set of results that some order of its map can give.

### BlockLedger, KVLedger and MVCCValidation

`BlockLedger` is what the ledger promises: blocks are stored in the order of the
chain, each with the codes that the blocks before it call for; the state grows by
whole blocks and is complete whenever the ledger is open; a crash takes at most the
block in hand.

`KVLedger` has one action per write that reaches a disk. `pc` follows
`kvLedger.CommitLegacy` ("start", "prepare", "pvt", "append", "info", "index",
"state", "history", "done") and then `newKVLedger` after a crash ("down" up to
"recover"; "broken" would be a ledger that cannot be opened). `file` is the sequence
of appended blocks, a torn one among them; `info` is what the index database says of
the file, `infoSynced` the last value that a crash certainly leaves (the save in
`addBlock` is not synced); `index[n + 1]` is the place of block n. `size` and
`height` are the block manager's copies in memory. A block carries its validation
codes and the chained commit hash, which is a sequence of the blocks it covers.
`Faults` names the writes that can return an error; after an error the committer
calls `CommitLegacy` once more (`LedgerCommitter.CommitLegacy` falls back to
`legacyCommit`), and after a second one `deliverPayloads` panics. "indexAhead" is the
failure of an index write in the commit of a block whose private data was stored
before the last start: only then the second attempt gets past the private data
store.

`MVCCValidation` defines `validateAndPrepareBatch` and what it calls as operators on
the blocks applied so far: point reads, and range queries over the combined iterator
of the database and the updates of the block. It is the `Validate` of `KVLedger`, and
`SerialCodes` is the reference it is checked against: execute one transaction after
the other and compare what each reads.

### SnapshotManager and GossipState

Both extend `KVLedger` and refine some of its steps: a commit asks the events
goroutine before it starts and tells it when it is done (`CommitBlocked`,
`CommitProceeds`, `CommitDone`), and `Begin`, the hand-over of a block, is the pop of
the payload buffer. The channels of the events goroutine are unbuffered and the
sender waits for the answer, so an event and its effect are one step.
`generateSnapshot` is three: the name from the height, the export, the rename. The
deletion of a request may fail in the database, at the end of a snapshot, where the
error is only logged, or when a request is cancelled: the request stays, or it is gone and
`smallestRequestBlockNum` is the 0 that `smallestRequest` returns with its error.
`orphaned` records such a failure, and a crash between the rename and the deletion.

In `GossipState` a payload is its number: blocks are decoded and verified before they
are queued, so none is dropped when it is popped. `deliverPayloads` waits, runs, or has
returned: a `VSCCExecutionFailureError` of the validation, before the ledger is
touched, ends it for good (`DeliverAborts`), while any other error that is left after
the second attempt is a panic (`Down`). `ae` is the place of the anti-entropy
goroutine with the range and the tries left; answers are counted by whether their
nonce is the current one (`fresh`, `stale`). The other peers have the first
`peerHeight` blocks, one of them perhaps fewer, and may fail to read a block that is
`Unreadable`, at most `MaxOmissions` times.

### RaftChain

Several chains over one raft. Raft is external and has what the chain depends on:
terms, logs, elections by a quorum with logs that are not newer, replication that
cuts off conflicting entries, commitment of entries of the current term, an empty
entry of each new leader, and leadership transfers during which it refuses proposals.
`ch[n]` holds the variables of `Chain` and of `run`: whether it leads, `justElected`,
`blockInflight`, `configInflight`, whether `submitC` is taken, the block creator, the
pending batch, the queue of blocks, its proposing goroutine, `appliedIndex`. The run
loop learns of a new leader in `ApplySoft`, later than raft. A node that is behind
may take the committed log from a snapshot (`CatchUp`), and is then in the term of its
last entry. `WriteBlock` leaves a block to a goroutine and returns, and waits for the
one before it: `writing` has the nodes whose last block may not be on disk yet, and such
a block may be lost with the process (only a crash, and a node that pulls the block, can
tell when the goroutine has ended, so its end is no step of its own); a config block is written before `writeConfigBlock`
returns. A block is its number, an identity in place of its hash, and that of its
predecessor.

## 3. Model checking

Passing runs. Where two parts share no state they share a run: a variable `chosen`
is set in the initial state and decides which part a behaviour is about.

| Run | Instance | Shows |
|---|---|---|
| `shard_single` | fair, 1 node, 2 requests on one key, abort, expiry, Stop, `proposeC` and `commitC` of 1 | `LastWriter`: the map is an exact index of the applied log. `HandledOnce`, `NothingLost`: the two flushing goroutines neither repeat nor lose a request. `ImplementsPromise`: refinement of `DependencyLog`. `LeaderHandlesAll`: with a leader every request is applied. `StopEnds`: `Stop` ends both goroutines wherever they are |
| `shard_group` | 2 peers, 3 terms, remote entries, lost proposals | `AppliedExactly`: what is applied is exactly the log. `ProofCommitted`, `ProofsInLogOrder`: proofs are evidence of committed entries and leave in log order. `NothingLost` is a promise a group cannot give |
| `endorser_handlers` | 2 handlers and one without a simulator | `HeldEvidence`, `OneProofEach`, `ProofsConserved`: what a handler holds is evidence, no proof serves two handlers or vanishes |
| `endorser_live` | fair, 2 handlers and a `commitC` of 1; or 1 handler and Shutdown at any time | `LedHandlersEnd`: with a leader every handler ends, though proofs are dropped or taken by the other, or the shard is stopped |
| `endorser_services` | fair, 3 handlers, 3 contracts (one configured), metrics, Shutdown; or the goroutines of a normal endorser or of a leader with a `ResponseChannel` of 2 | `OneShard`: one shard per contract, none outside the table. `CallsReturn`. `HealthCurrent`: the health that is reported is never older than two periods and a dial, in spite of trusted checks and the breaker. `OnlyExpiredRemoved`. `ShutdownReturns`, unless the processor waits on a full `ResponseChannel` |
| `committer` | the graph of every block of 4 distinct transactions with any dependencies, of 3 with repeated ids, and of malformed ones; or, fair, the commit of listed blocks of up to 4 transactions (families, pairs, odd and wide ones) with at most 2 goroutines | `GraphExact`; `LevelsExact`: levels are longest dependency chains in every map order. `ParentsFirst`, `VerdictsExact`, `FlagsExact`: however the goroutines interleave, verdicts and flags are those the block calls for. `FatalBesideInvalid`: the unsynchronised map write can end the process only beside a transaction with an invalid dependency. `CommitsEnd`: no block makes the levels or the commit hang |
| `peer_ledger` | fair; chains of 3 blocks with reads, deletes, range queries and a rejected transaction, 2 failing writes, 2 crashes; or 2 calls of snapshot clients, a failing write, a failing deletion of a request and 2 crashes; or 5 blocks by gossip, a crash, a failing validation, lost, late and partial answers, a buffer of 1 | `ImplementsLedger`: refinement of `BlockLedger`. `ServesWhole`: whoever reads finds index, state and history in step with the file. `PvtDataFirst`. `HashesSurvive`: the commit hash chain survives crashes. `Serializable`: the codes are those of a serial execution. `SnapshotExact`, `NoneMissed`: a snapshot is of exactly its block, no request is passed over (unless its deletion, or that of another, failed or was cut off by a crash). `RightBlock`: the block that is committed is the next one. `NotifiedOfNext`: no block waits unnoticed. `CommitsAll`, `CatchesUpWithPeers`: once faults, crashes and omissions are used up, every block is committed and the peer draws level (unless `deliverPayloads` has returned) |
| `raft_chain` | 2 orderers that may lead and a voter, 3 blocks and 2 disturbances or 1 and 3 (elections, crashes that may lose a block in writing, transfers), 1 block in flight; `RaftChainLeaders.cfg` has 2 blocks and 3 disturbances, takes longer and passes too | `LedgersAgree`: one hash chain on all nodes. `NoGap`: the panic of `writeBlock` is not reached. `InflightExact`: the leader's count is exact. `ConfigAlone`: nothing is ordered behind a config block that is not written |

**Bounds.** They are chosen so that each mechanism occurs: batches of one and two
(`MaxBatchSize` 2), full channels (capacities 1 to 3), an election and a re-election;
blocks of four transactions, which have cycles, forks and chains; a crash during
the recovery from a crash (`MaxCrashes` 2) and a failing second attempt
(`MaxFaults` 2); a deletion that fails while another request waits (`MaxDeleteFaults` 1,
`MaxRequests` 2); a gap of more than one batch in the state transfer (`MaxHeight` 6,
`StateBatchSize` 2); a leader that loses blocks and leads again (`Bounds`).

`CHECK_DEADLOCK FALSE` is set throughout because every one of these systems may
stop: a block is committed once, callers come to an end, `Stop` is final, a chain is
used up.

For each property of each passing run `PROJECT.json` names a *mutant*, a definition
beside the original with a plausible slip in it, under which the property fails.

**Fairness.** A goroutine that can run is run (weak fairness). A `select` chooses at
random among its ready cases, so a case that is ready again and again is taken
(strong fairness on the cases of `runRaft` and `runBatcher`). A node with a leader
commits. In `ShardManager`, `Lock` and `RLock` end for the reason `sync.RWMutex`
gives: a waiting writer keeps new readers out. Timeouts of handlers are steps that
are always enabled, so that fairness makes the handler leave a wait, by its proof or
by its timeout. In `EndorserBackground` time passes; the cleaner's ticker is not fair
and fires at most once before `stopChan` is looked at, since it needs a minute. A
crashed peer is started again. In the state transfer, requests that are sent again
and again are at some time answered in full by a peer that has the blocks (strong
fairness of `ReceiveAll`): without it the network may lose everything and nothing
can be promised. No fairness is assumed of callers, failures, crashes, gossip or the
messages of peers.

### Where code and documents disagree

Each of the configurations below checks a sentence of a document, comment or test,
and TLC finds a behaviour of the code that contradicts it. The first four are runs
of `PROJECT.json`, which quotes the sentences.

| Configuration | Property | Behaviour |
|---|---|---|
| `EndorserEarlyBatch` (run `endorser_early_batch`) | `HandlersEnd` | a batch that fills before the first election blocks `runRaft` in `Propose`; nobody ticks the node any more, and the handlers block for ever in `HandleAbort` |
| `EndorserOtherProof` (run `endorser_other_proof`) | `OwnProof` | a handler goes on with another transaction's proof |
| `CommitterPrior` (run `committer_prior`) | `PriorVerdictsKept` | flags of earlier validation are overwritten, and a rejected transaction is committed as valid |
| `LedgerRetry` (run `ledger_retry`) | `SameHashes` | a commit that fails has already advanced the commit hash in memory; when the committer commits the block again, it is stored with a hash no other peer has, and all later blocks with it |

The others are kept as witnesses of what the comments of the models say
(with several properties, `-continue` shows all).

| Configuration | Property | Behaviour, and what it contradicts |
|---|---|---|
| `ShardLeaderDefault` | `FlushedAndCommitted` | the default shard is one of three replicas without a transport: it never has a leader, and `messagesC` fills up (flow.md:581-586) |
| `EndorserDefault` | `HandlersEnd` | so a handler with that shard blocks in `HandleAbort` (flow.md:907) |
| `ShardLeaderExpiry` | `ExpiredForgotten` | the expiry time of a key is stored and never read (flow.md:781) |
| `EndorserMessage` | `IndependentFlagged`, `DependencyNamed`, `DependencySigned` | the dependency flag is `CommitIndex > 1`, true of every batch (PDP_Fabric_Analysis.md:17); `DependentTxID` is always empty (flow.md:640); the response is extended after it was signed (PDP_Fabric_Analysis.md:18) |
| `EndorserReaders` | `DependsOnWrites` | read keys are recorded as written, so readers depend on readers (whatIhaveDo.md:157) |
| `EndorserResults` | `SimulatedPrepared` | the ledger's simulator refuses the second `GetTxSimulationResults` (flow.md:562-578) |
| `EndorserNoChannel` | `NoPanic` | a proposal without a simulator panics (comment at endorser.go:295-297) |
| `EndorserNoManager` | `NoPanic` | so does an endorser without a shard manager, as `start.go` builds it (flow.md:850) |
| `ShardManagerShutdown` | `ShutdownStopsAll` | a handler adds a shard after `Shutdown` (comment at shard_manager.go:126) |
| `DAGLevel0` | `Level0Independent` | cycles and dependencies outside the block are at level 0 (comment at committer_impl.go:94) |
| `CommitterRace` | `NoRace`, `NoCascade` | the committing goroutine and a worker write one map at once (PDP_Fabric_Analysis.md:51); an invalid parent makes its dependents invalid (PDP_Fabric_Analysis.md:28) |
| `CommitterUndecodable` | `Deterministic` | the conflict check depends on map order (PDP_Fabric_Analysis.md:50) |
| `CommitterClient` | `ClientTransactionsValid` | action payloads are decoded as the wrong message (flow.md:646-662) |
| `LedgerTwice` | `StoredOnce` | an index write that fails while the private data is ahead: the second attempt appends the block again |
| `SnapshotOrphan` | `StoredUntilGenerated` | after a crash between the renaming of a snapshot and the deletion of its request the request stays for ever (comment at snapshot_mgmt.go:62-63) |
| `GossipGap` | `CatchesUpWithPeers` | a block that no peer sends, in the middle of a range: the later ones fill the buffer, `antiEntropy` waits in `addPayload` for room that only the missing block could make |
| `RaftConfig` | `ConfigInflightExact`, `NeverFull` | a leader that loses its config block keeps `configInflight`, and elected again never serves (comment of the field in chain.go); `propose` meets a full queue within the limit of blocks in flight (its panic is called a programming error) |

`EndorserResults` and `EndorserNoManager` mean that the handler of a peer built
from this repository does not get as far as the shard; the other endorser
configurations model what the code after these two lines is written for: a simulator
that answers twice, as the fake one in `core/endorser/fake` does, and an endorser
made by `NewEndorser`.

## 4. Proofs

TLAPS checks the following for every value of the constants.

| Module | Theorems |
|---|---|
| `ShardLeaderPlacement` | `TypeCorrect`, and the lemmas on where a request can be |
| `EndorserProofs` | of the shard: `DependenciesExact`, `AppliedOnce`, `NoneLost`, `LogApplied`, `ProofsAreEvidence`, `ProofsOrdered`, `Refinement`; of the handlers: `HandlersUseShard`, `HandlersTypeCorrect`, `HeldProofsAreEvidence`, `ProofsServeOnce`, `ProofsAccounted` |
| `EndorserServicesProofs` | of the shard table: `ManagerTypeCorrect`, `OneShardPerContract`; of the background goroutines: `HealthIsCurrent`, `CleanerRemovesExpired` |
| `LedgerCommitterWorkers` | lemmas: how the graph grows, and what the steps of the workers keep |
| `LedgerCommitterProofs` | `DAGTypeCorrect`, `LevelsLayered`, `TypeCorrect`, `ParentsBefore`, `VerdictsFollow`, `FlagsFollow`, `LimitKept`, `FatalOnlyBesideInvalid`, `CommitterBuildsDAG` |
| `KVLedgerProofs` | `LedgerInvariant`, `LedgerServesWhole`, `LedgerPvtDataFirst`, `LedgerImplements`, `LedgerHashesSurvive` |
| `PeerLedgerProofs` | of the state transfer: `RightBlockDelivered`, `NoWakeUpLost`; of snapshots: `SnapshotsAreExact`, `NoRequestMissed` |
| `RaftChainProofs` | `LedgersNeverDisagree`, `NoBlockSkipped`, `InflightIsExact`, `ConfigBlockAlone` |

**Assumptions.** The constants have their types, capacities are positive, `NoTx`,
`NoProof` and `NoTxID` are not real values, finitely many proposals arrive, and the
ordering nodes are finitely many. `TimesAssumption` says that the dial and the open
breaker last no longer than a period of the health check; the code has 5, 30 and 30
seconds. The theorems about the ledger, `RightBlockDelivered` and the two about
snapshots assume `"indexAhead" \notin Faults`: the write of the block index does not
fail while the private data store is ahead. `LedgerTwice` shows what happens
without it. `LedgerHashesSurvive` and `NoWakeUpLost` do not need it.

**Shard.** The six places a request can be in (`proposeC`, `batchQueue`, the batches
of the two flushing goroutines, in flight to the log, the log) are disjoint, and none
holds a request twice (`Placement`). That is what the queues
alone do not say, and what makes "applied once" and "none lost" inductive. Positions
of proofs and `commitIndex` are tied to the entry being applied; `LastWriter` then
gives the refinement of `DependencyLog`.

**Endorser.** A step of a handler is a step of the shard or leaves it alone
(`HandlersUseShard`), so the shard's invariants hold under the handlers. Proofs that
are held and proofs that are queued have different positions, and are counted.

**Shard manager.** The write lock is held by the one between `Lock` and `Unlock`
(`Exclusive`); past the double check the contract has no shard (`Absent`); a running
shard is in the table or about to be stored (`Tabled`); what a call returned is what
the table holds (`Returned`).

**Health check and cleaner.** A dial begins with a tick and only when the last check
is no longer trusted, and within a period of a failure the age of that failure can be
read off the ticker (`OnTheTick`). A trusted check was made while the leader could be
reached, and a leader that is back while the breaker is open came back after the
dial that failed had begun (`Reported`). So what is reported was true less than a
period before the tick at which the check behind it began (`Noticed`). What the cleaner
has collected stays expired until it is removed (`Collected`).

**Committer.** The levels of the transactions that are placed are final; transactions
of lower levels than the current one are finished and those of higher levels
untouched (`Order`); what a worker has passed it has found (`Workers`); the tokens in
use are as many as the workers that hold one (`Tokens`). The verdict of a
transaction then depends on parents that are decided.

**Ledger.** The invariant (`LInv`) relates the block file, its index, the private
data, the state, the history and the checkpoint of the file (`info`) at every point
of a commit, of a crash and of a start. Its hard case is a block that is in the file
while its index entry is not: the second attempt cannot get past the private data
store, so the process ends and the next start repairs the index. `ScanFindsWhole`
says that the scan of the file at a start finds exactly the whole entries. For the
commit hash, the copy in memory is the hash in the last block except while a block
is on its way or a call is repeated (`LastHash`), and the block on its way carries the
hash that continues the chain (`Chained`).

**State transfer and snapshots.** The payload buffer is at the block that the ledger
expects, or one past the block in hand (`BufferInv`), which is why popping the next
payload is handing over the right block. A generating goroutine exists only while
no block is being written, for the last block (`WorkerInv`); the events goroutine
knows whether a block is being written and which was the last (`StatusInv`); a
request is for a later block, or for the last one and then being served, or about to
be served by the start (`RequestsInv`). The request to come next is the smallest one
(`Tracked`), until a deletion fails: `NoneMissed` and `NoRequestMissed` leave out what
follows a failing deletion, or a crash between a rename and its deletion. The code makes
no promise for these (snapshot_mgmt.go:150 logs that "the pending snapshot requests (if
any) may not be processed"), and `SnapshotOrphan` shows the second. During a start "the last block" is that of the
file, not of the databases, which catch up.

**Ordering.** The invariant (`RInv`) has three layers. Raft (`RaftInv`): logs that
agree on the term of an entry agree up to it, a term has one leader and that leader
has every entry of the term, a term that exists was reached by a quorum, and the
committed log is a prefix of the logs of a quorum and of every log that ends in a
later term. Chains (`ChainsInv`): the blocks in every log, committed or not, are
chained by number and predecessor. Nodes (`NodeInv`): the ledger is the chain of the
committed log as far as it is applied (`AppliedInv`), and without its last block it is
that of an earlier index (`LedgerLoses`), from which a restarted node goes on; the counter of blocks in flight
is the distance from the ledger to the block creator (`RunInv`); and the queue of a
leader continues its own log, with nothing behind a config block (`QueueInv`). The
layers need each other: a log stays chained because a new leader orders only when
all it had in its log is applied, so that its creator starts at the end of its log;
and that the applied entries are in its log is Raft's leader completeness. The
proof is for any number of nodes. It needs of the external raft that a node counts
for the commitment of an entry only once it is in the leader's term, as the
acknowledgement of an append implies, and that a node that installs a snapshot is in
the term of the entry it ends with.

Three facts about finite sets and numbers are hypotheses of the lemmas that use them
(`SetFacts`, `Least`, `Majorities`), so that the library's theorems stay out of the
context of the other steps; each is proved from the library before the theorems
(`SetFactsHold`, `LeastHolds`, `MajoritiesMeet`).

**Only model-checked.** Liveness (`LeaderHandlesAll`, `StopEnds`, `LedHandlersEnd`,
`CallsReturn`, `ShutdownReturns`, `CommitsEnd`, `CommitsAll`, `CatchesUpWithPeers`),
which is out of the prover's reach; `GraphExact`, `LevelsExact` and `Serializable`,
which compare with a recursive reference and need induction over data; and the
disagreements of section 3. Every other property of the passing runs is a theorem.

## 5. Not modelled, and why

- *Replicas of a shard as a group.* `ShardLeader` is one replica with everything the
  others may do to it. Agreement among them is that of the raft library, except that
  `MemoryStorage` forgets votes and log at a restart. `LeaderID` in a proof is never read.
- *Ledger.* Rolling of block files and `constructBlockfilesInfo`; bootstrapping from
  a snapshot; purge, expiry and reconciliation of private data; hashed collections
  and `rangeQueryHashValidator`; preloading from CouchDB; a disabled history.
- *Snapshots.* Errors of the database when a request is added (nothing has changed
  then) and in `newSnapshotRequestBookkeeper` and `regenrateMissedSnapshot` (the ledger
  does not open then).
- *State transfer.* The blocking `AddPayload` of the deliver client, private data
  messages, and `Stop`. `deliverPayloads` drops a payload that does not decode and goes
  on with the next number (state.go:549-568). For a block this cannot happen, since
  `handleStateResponse` and the gossip channel verify it first. The private data of an
  answer is not verified: it is taken to be what `handleStateRequest` of a peer has
  marshalled. A payload dropped there would leave the ledger one block behind the
  buffer, and `RightBlock` would not hold.
- *Ordering.* Changes of membership, eviction, a crash during `catchUp`, and the taking
  of raft snapshots. `cancelProp` only cancels a context: a proposer that has taken a
  block from its channel may still propose it, which the model, where it stops at once,
  does not have. A config block that has `ConsensusType` metadata is stored with the raft
  index of the block before it (chain.go:1304-1309 replaces the metadata by the copy
  that `ComputeMembershipChanges` made), where the model has its own: after a restart
  such a node gets the entry once more, and `writeBlock` skips it by its number.
- *What Fabric brings along*: validation of proposals and endorsement plugins, ACL,
  MSP, BCCSP, lifecycle, chaincode runtime, discovery, gossip membership and the rest
  of the orderer. Where their outcome matters it is a nondeterministic choice.
- *Commands, load generators and metrics servers*: input and output without state
  that a property could be about.
- *Time* is abstract except in `EndorserBackground`, which counts periods. The
  strings `namespace:collection:key` are taken as distinct keys.
