-------------------------- MODULE PeerLedgerProofs --------------------------
(***************************************************************************)
(* What holds on top of the ledger: snapshots hold exactly the blocks they *)
(* are named after and no request for one is passed over, and the state    *)
(* transfer hands the ledger the block it expects.                         *)
(***************************************************************************)
EXTENDS KVLedgerProofs, SnapshotManager, GossipState

USE DEF Starting

-----------------------------------------------------------------------------
(* The state transfer.  The payloads buffer is at the block that the       *)
(* ledger expects, or behind the one it is committing, or deliverPayloads  *)
(* has returned and hands nothing over.                                    *)
BufferInv ==
    /\ pc = "idle" => next = height \/ delivering = "returned"
    /\ pc \notin Starting /\ pc # "idle" => next = num + 1
    /\ delivering = "returned" => pc = "idle"

GInv == LInv /\ BufferInv

(* While the ledger starts, every step but the last leaves it starting.    *)
Opens == SyncInfo \/ Truncate \/ SyncIndex \/ OpenLedger \/ RecommitState \/ RecommitHistory

LEMMA OpensStarts == ASSUME Opens PROVE pc \in Starting /\ pc' \in Starting
<1>1. SyncInfo \/ Truncate \/ SyncIndex => pc \in Starting /\ pc' \in Starting
  BY Zenon DEF SyncInfo, Truncate, SyncIndex, StartStep
<1>2. OpenLedger \/ RecommitState \/ RecommitHistory => pc \in Starting /\ pc' \in Starting
  BY Zenon DEF OpenLedger, RecommitState, RecommitHistory, StartStep
<1> QED
  BY Zenon, <1>1, <1>2 DEF Opens

LEMMA OpenedStarts == ASSUME Opened PROVE pc \in Starting
  BY Zenon DEF Opened, StartStep

(* A payload that comes leaves the next one as it is.                      *)
LEMMA PushNext == \A n : Push(n) => next' = next
  BY Zenon DEF Push, bufferVars

(* A block is handed over only when the ledger expects it.                 *)
LEMMA DeliverKeeps ==
    ASSUME GInv, Deliver
    PROVE  BufferInv' /\ (Begin(height) \/ UNCHANGED vars)
<1>1. pc = "idle" /\ delivering = "runs"
  BY Zenon DEF Deliver
<1>2. next = height
  BY Zenon, <1>1 DEF GInv, BufferInv
<1>3. CASE next \in buf
  <2>1. Pop /\ Begin(next)
    BY Zenon, <1>3 DEF Deliver
  <2>2. pc' = "start" /\ num' = next /\ next' = next + 1
    BY Zenon, <2>1 DEF Pop, Begin, CommitStep
  <2>3. delivering' = "runs"
    BY Zenon, <1>1, <1>3 DEF Deliver
  <2>4. BufferInv'
    BY Zenon, <2>2, <2>3 DEF BufferInv
  <2> QED
    BY Zenon, <1>2, <2>1, <2>4
<1>4. CASE next \notin buf
  <2>1. UNCHANGED <<vars, bufferVars>> /\ delivering' = "waits"
    BY Zenon, <1>4 DEF Deliver
  <2>2. UNCHANGED <<pc, num, height, next>>
    BY Zenon, <2>1 DEF vars, memVars, blockVars, bufferVars
  <2>3. BufferInv'
    BY Zenon, <1>2, <1>1, <2>1, <2>2 DEF BufferInv
  <2> QED
    BY Zenon, <2>1, <2>3
<1> QED
  BY Zenon, <1>3, <1>4

(* The last payload is popped and not handed over.                         *)
LEMMA AbortKeeps == ASSUME DeliverAborts PROVE BufferInv'
<1>1. pc = "idle" /\ delivering' = "returned" /\ UNCHANGED vars
  BY Zenon DEF DeliverAborts
<1>2. pc' = "idle"
  BY Zenon, <1>1 DEF vars
<1> QED
  BY Zenon, <1>1, <1>2 DEF BufferInv

(* A step inside a commit.                                                 *)
LEMMA InsideKeeps ==
    ASSUME BufferInv, Restart, pc \notin Starting, pc # "idle",
           pc' = "down" \/ (pc' \notin Starting /\ pc' # "idle" /\ num' = num)
    PROVE  BufferInv'
<1>1. CASE pc' = "down"
  BY Zenon, <1>1 DEF Restart, BufferInv
<1>2. CASE pc' # "down"
  <2>1. next' = next /\ delivering' = delivering
    BY Zenon, <1>2 DEF Restart, gossipVars, bufferVars
  <2> QED
    BY Zenon, <1>2, <2>1 DEF BufferInv
<1> QED
  BY Zenon, <1>1, <1>2

LEMMA ErrorInside == Error => pc' = "down" \/ (pc' = "start" /\ num' = num)
  BY Zenon DEF Error, Down

LEMMA LedgerStepsKeep == ASSUME GInv, LedgerSteps PROVE BufferInv'
<1>1. Restart /\ BufferInv
  BY Zenon DEF LedgerSteps, GInv
<1>2. CASE Finish
  <2>1. pc = "done" /\ pc' = "idle" /\ height' = height
    BY Zenon, <1>2 DEF Finish, CommitStep, memVars
  <2>2. num = height - 1 /\ height \in Nat
    BY <2>1, SureIs DEF GInv, LInv, Serving, SureFacts
  <2>3. next' = next /\ delivering' = delivering
    BY Zenon, <1>1, <2>1 DEF Restart, gossipVars, bufferVars
  <2>4. next = num + 1
    BY Zenon, <1>1, <2>1 DEF BufferInv
  <2>5. next' = height'
    BY <2>1, <2>2, <2>3, <2>4
  <2> QED
    BY Zenon, <1>1, <2>1, <2>5 DEF BufferInv
<1>3. CASE StorePvtData \/ AppendBlock
  <2>1. /\ pc \in {"pvt", "append"}
        /\ Error \/ (pc' \in {"append", "info"} /\ num' = num)
    BY Zenon, <1>3 DEF StorePvtData, AppendBlock, memVars, blockVars
  <2>2. pc' = "down" \/ (pc' \in {"append", "info", "start"} /\ num' = num)
    BY Zenon, <2>1, ErrorInside
  <2>3. pc \notin Starting /\ pc # "idle"
    BY Zenon, <2>1
  <2>4. pc' = "down" \/ (pc' \notin Starting /\ pc' # "idle" /\ num' = num)
    BY Zenon, <2>2
  <2> QED
    BY Zenon, <1>1, <2>3, <2>4, InsideKeeps
<1>4. CASE Proceed \/ Prepare \/ SaveInfo \/ IndexBlock \/ CommitState \/ CommitHistory
  <2>1. /\ pc \in {"start", "prepare", "info", "index", "state", "history"}
        /\ pc' \in {"prepare", "pvt", "index", "state", "history", "done"}
    BY Zenon, <1>4 DEF Proceed, Prepare, SaveInfo, IndexBlock, CommitState, CommitHistory, CommitStep
  <2>2. num' = num
    BY Zenon, <1>4 DEF Proceed, Prepare, SaveInfo, IndexBlock, CommitState, CommitHistory, memVars,
       blockVars
  <2>3. pc \notin Starting /\ pc # "idle" /\ pc' \notin Starting /\ pc' # "idle"
    BY Zenon, <2>1
  <2> QED
    BY Zenon, <1>1, <2>2, <2>3, InsideKeeps
<1> QED
  BY Zenon, <1>2, <1>3, <1>4 DEF LedgerSteps

LEMMA LedgerFailsKeeps == ASSUME GInv, LedgerFails PROVE BufferInv'
<1>1. Restart /\ BufferInv
  BY Zenon DEF LedgerFails, GInv
<1>2. CASE Crash
  BY Zenon, <1>1, <1>2 DEF Crash, Down, Restart, BufferInv
<1>3. CASE WriteFails
  <2>1. Error /\ pc \in {"prepare", "pvt", "append", "info", "index"}
    BY Zenon, <1>3 DEF WriteFails, PrepareFails, StorePvtDataFails, AppendBlockFails, SaveInfoFails,
       IndexBlockFails
  <2>2. pc \notin Starting /\ pc # "idle"
    BY Zenon, <2>1
  <2>3. pc' = "down" \/ (pc' \notin Starting /\ pc' # "idle" /\ num' = num)
    BY Zenon, <2>1, ErrorInside
  <2> QED
    BY Zenon, <1>1, <2>2, <2>3, InsideKeeps
<1> QED
  BY Zenon, <1>2, <1>3 DEF LedgerFails

LEMMA LedgerOpensKeeps == ASSUME GInv, LedgerOpens \/ StateProviderStarts PROVE BufferInv'
<1>1. CASE LedgerOpens
  <2>1. pc' \in Starting
    BY Zenon, <1>1, OpensStarts DEF LedgerOpens, Opens
  <2>2. pc' # "idle"
    BY Zenon, <2>1
  <2>3. delivering' # "returned"
    <3>1. pc # "idle" /\ delivering' = delivering
      BY Zenon, <1>1, OpensStarts DEF LedgerOpens, Opens, gossipVars
    <3> QED
      BY Zenon, <3>1 DEF GInv, BufferInv
  <2> QED
    BY Zenon, <2>1, <2>2, <2>3 DEF BufferInv
<1>2. CASE StateProviderStarts
  <2>1. pc' = "idle"
    BY Zenon, <1>2, OpenedWhole DEF StateProviderStarts, GInv
  <2>2. next' = height /\ height' = height
    BY Zenon, <1>2 DEF StateProviderStarts, Opened
  <2> QED
    BY Zenon, <2>1, <2>2 DEF BufferInv
<1> QED
  BY Zenon, <1>1, <1>2

LEMMA NextGInv == ASSUME "indexAhead" \notin Faults, GInv, [GNext]_gvars PROVE GInv'
<1>0. LInv /\ BufferInv
  BY Zenon DEF GInv
<1>1. UNCHANGED vars => LInv' /\ UNCHANGED <<pc, num, height>>
  BY Zenon, <1>0, UnchangedKeeps DEF vars, memVars, blockVars, ledgerVars
<1>2. Next => LInv'
  BY Zenon, <1>0, NextKeeps
<1>3. CASE Ready \/ AntiEntropy \/ SendRequest \/ Timeout \/ ReceiveStale \/ Receive \/ PeersAdvance
           \/ UNCHANGED gvars
  <2>1. UNCHANGED vars /\ next' = next
    BY Zenon, <1>3 DEF Ready, AntiEntropy, SendRequest, Timeout, ReceiveStale, Receive, ReceiveFrom,
       PeersAdvance, gvars, gossipVars, bufferVars
  <2>2. delivering' = delivering \/ (delivering = "waits" /\ delivering' = "runs")
    BY Zenon, <1>3 DEF Ready, AntiEntropy, SendRequest, Timeout, ReceiveStale, Receive, ReceiveFrom,
       PeersAdvance, gvars, gossipVars
  <2> QED
    BY Zenon, <1>0, <1>1, <2>1, <2>2 DEF GInv, BufferInv
<1>4. CASE HandleResponse \/ \E n \in 1..(Len(chain) - 1) : Gossip(n)
  <2>1. UNCHANGED vars /\ next' = next /\ delivering' = delivering
    BY Zenon, <1>4, PushNext DEF HandleResponse, Gossip
  <2> QED
    BY Zenon, <1>0, <1>1, <2>1 DEF GInv, BufferInv
<1>5. CASE Deliver
  BY Zenon, <1>1, <1>2, <1>5, DeliverKeeps DEF GInv, Next, Commit
<1>6. CASE DeliverAborts
  BY Zenon, <1>1, <1>6, AbortKeeps DEF GInv, DeliverAborts
<1>7. CASE LedgerSteps \/ LedgerFails \/ LedgerOpens \/ StateProviderStarts
  <2>1. Next
    BY Zenon, <1>7 DEF LedgerSteps, LedgerFails, LedgerOpens, StateProviderStarts, Next, Commit, Start
  <2> QED
    BY Zenon, <1>2, <1>7, <2>1, LedgerStepsKeep, LedgerFailsKeeps, LedgerOpensKeeps DEF GInv
<1> QED
  BY Zenon, <1>3, <1>4, <1>5, <1>7, <1>6 DEF GNext, Transfer

LEMMA InitGInv == ASSUME GInit PROVE GInv
<1>1. Init /\ next = height /\ delivering = "waits"
  BY Zenon DEF GInit
<1>2. pc = "idle"
  BY Zenon, <1>1 DEF Init
<1>3. BufferInv
  BY Zenon, <1>1, <1>2 DEF BufferInv
<1> QED
  BY Zenon, <1>1, <1>3, InitLInv DEF GInv

(* The state transfer hands the ledger the block it expects (Pop, Push,    *)
(* NewPayloadsBuffer), for any chain, any order of arrival, buffer and     *)
(* batch size, and any crashes and failed writes but that of the index     *)
(* while the private data store is ahead.                                  *)
THEOREM RightBlockDelivered ==
    ASSUME "indexAhead" \notin Faults PROVE GSpec => []RightBlock
<1>1. GInit => GInv
  BY Zenon, InitGInv
<1>2. GInv /\ [GNext]_gvars => GInv'
  BY Zenon, NextGInv
<1>3. GInv => RightBlock
  BY Zenon DEF GInv, LInv, Serving, RightBlock
<1> QED
  BY <1>1, <1>2, <1>3, PTL DEF GSpec

(* For the wake-ups it is enough that the buffer is empty until the state  *)
(* provider starts, whatever the ledger is like.                           *)
Wakes == (pc \in Starting => buf = {}) /\ NotifiedOfNext

LEMMA WakesStay ==
    ASSUME Wakes, UNCHANGED <<next, buf>>, UNCHANGED <<ready, delivering>> \/ delivering' = "runs",
           pc' \in Starting => pc \in Starting
    PROVE  Wakes'
  BY Zenon DEF Wakes, NotifiedOfNext

LEMMA WakesEmpty == ASSUME buf' = {} PROVE Wakes'
  BY Zenon DEF Wakes, NotifiedOfNext

LEMMA WakesLedger == ASSUME Wakes, LedgerSteps \/ LedgerFails PROVE Wakes'
<1>1. Restart
  BY Zenon DEF LedgerSteps, LedgerFails
<1>2. CASE pc' = "down"
  BY Zenon, <1>1, <1>2, WakesEmpty DEF Restart
<1>3. CASE pc' # "down"
  <2>1. UNCHANGED <<next, buf, ready, delivering>>
    BY Zenon, <1>1, <1>3 DEF Restart, gossipVars, bufferVars
  <2>2. Error => pc' = "start"
    BY Zenon, <1>3, ErrorInside
  <2>3. pc' \in {"start", "prepare", "pvt", "append", "info", "index", "state", "history", "done", "idle"}
    <3>1. CASE LedgerSteps
      BY Zenon, <2>2, <3>1 DEF LedgerSteps, Proceed, Prepare, StorePvtData, AppendBlock, SaveInfo,
         IndexBlock, CommitState, CommitHistory, Finish, CommitStep
    <3>2. CASE LedgerFails
      BY Zenon, <1>3, <2>2, <3>2 DEF LedgerFails, Crash, Down, WriteFails, PrepareFails,
         StorePvtDataFails, AppendBlockFails, SaveInfoFails, IndexBlockFails
    <3> QED
      BY Zenon, <3>1, <3>2
  <2>4. pc' \notin Starting
    BY Zenon, <2>3
  <2> QED
    BY Zenon, <2>1, <2>4, WakesStay
<1> QED
  BY Zenon, <1>2, <1>3

LEMMA NextWakes == ASSUME Wakes, [GNext]_gvars PROVE Wakes'
<1>1. UNCHANGED vars => pc' = pc
  BY Zenon DEF vars
<1>2. CASE Ready \/ AntiEntropy \/ SendRequest \/ Timeout \/ ReceiveStale \/ Receive \/ PeersAdvance
           \/ UNCHANGED gvars
  <2>1. UNCHANGED vars /\ UNCHANGED <<next, buf>> /\ (UNCHANGED <<ready, delivering>> \/ delivering' = "runs")
    BY Zenon, <1>2 DEF Ready, AntiEntropy, SendRequest, Timeout, ReceiveStale, Receive, ReceiveFrom,
       PeersAdvance, gvars, gossipVars, bufferVars
  <2> QED
    BY Zenon, <1>1, <2>1, WakesStay
<1>3. CASE HandleResponse \/ \E n \in 1..(Len(chain) - 1) : Gossip(n)
  <2>1. PICK n : Push(n) /\ Unlocked /\ UNCHANGED <<vars, delivering>>
    BY Zenon, <1>3 DEF HandleResponse, Gossip
  <2>2. pc \notin Starting
    BY Zenon, <2>1 DEF Unlocked
  <2>3. CASE UNCHANGED bufferVars
    BY Zenon, <1>1, <2>1, <2>3, WakesStay DEF bufferVars
  <2>4. CASE buf' = buf \cup {n} /\ ready' = (ready \/ n = next) /\ next' = next
    <3>1. NotifiedOfNext'
      BY Zenon, <1>1, <2>1, <2>4 DEF Wakes, NotifiedOfNext
    <3> QED
      BY Zenon, <1>1, <2>1, <2>2, <3>1 DEF Wakes
  <2> QED
    BY Zenon, <2>1, <2>3, <2>4 DEF Push
<1>4. CASE Deliver
  <2>1. CASE next \in buf
    <3>1. pc' = "start" /\ delivering' = "runs"
      BY Zenon, <1>4, <2>1 DEF Deliver, Begin, CommitStep
    <3> QED
      BY Zenon, <3>1 DEF Wakes, NotifiedOfNext
  <2>2. CASE next \notin buf
    <3>1. UNCHANGED <<vars, next, buf>>
      BY Zenon, <1>4, <2>2 DEF Deliver, bufferVars
    <3> QED
      BY Zenon, <1>1, <2>2, <3>1 DEF Wakes, NotifiedOfNext
  <2> QED
    BY Zenon, <2>1, <2>2
<1>5. CASE LedgerOpens \/ StateProviderStarts
  <2>1. buf' = buf
    <3>1. LedgerOpens => buf' = buf
      BY Zenon DEF LedgerOpens, gossipVars, bufferVars
    <3>2. StateProviderStarts => buf' = buf
      BY Zenon DEF StateProviderStarts
    <3> QED
      BY Zenon, <1>5, <3>1, <3>2
  <2>2. pc \in Starting
    BY Zenon, <1>5, OpensStarts, OpenedStarts DEF LedgerOpens, StateProviderStarts, Opens
  <2> QED
    BY Zenon, <2>1, <2>2, WakesEmpty DEF Wakes
<1>6. CASE DeliverAborts
  <2>1. pc' = "idle" /\ delivering' = "returned"
    BY Zenon, <1>1, <1>6 DEF DeliverAborts
  <2> QED
    BY Zenon, <2>1 DEF Wakes, NotifiedOfNext
<1> QED
  BY Zenon, <1>2, <1>3, <1>4, <1>5, <1>6, WakesLedger DEF GNext, Transfer

(* deliverPayloads never waits for a notification while the next block is  *)
(* in the buffer and none is in the channel (Push, Pop, drainReadChannel), *)
(* whatever fails.                                                         *)
THEOREM NoWakeUpLost == GSpec => []NotifiedOfNext
<1>1. GInit => Wakes
  BY Zenon DEF GInit, Wakes, NotifiedOfNext
<1>2. Wakes /\ [GNext]_gvars => Wakes'
  BY Zenon, NextWakes
<1>3. Wakes => NotifiedOfNext
  BY Zenon DEF Wakes
<1> QED
  BY <1>1, <1>2, <1>3, PTL DEF GSpec

-----------------------------------------------------------------------------
(* The invariant of SnapshotManager.                                       *)

(* A snapshot is generated only while no block is being written, for the   *)
(* last block, and of what the ledger holds then.                          *)
WorkerInv ==
    /\ worker = NoWorker \/ worker.pc \in {"begin", "export", "rename", "end"}
    /\ snapshotInProgress <=> worker # NoWorker
    /\ worker # NoWorker => Early /\ worker.request = lastCommitted /\ lastCommitted \in requests
    /\ worker.pc = "export" => worker.dir = height - 1
    /\ worker.pc = "rename" =>
          worker.snapshot = [dir |-> height - 1, state |-> state, last |-> height - 1,
                             hash |-> commitHash]
    /\ worker.pc \in {"begin", "export", "rename"} => ~snapshotExists(lastCommitted)

(* The events goroutine knows whether a block is being written, and which  *)
(* was the last one.                                                       *)
StatusInv ==
    /\ committerStatus = "idle" => Early \/ pc \in Starting
    /\ committerStatus = "blocked" => pc = "start" /\ attempt = 1 /\ worker # NoWorker
    /\ pc \notin Starting => lastCommitted = Last

IsSmallest(x, of, none) ==
    IF of = {} THEN x = none ELSE x \in of /\ \A n \in of : x <= n

(* The bookkeeper knows the smallest request, unless a delete has failed   *)
(* to find it.                                                             *)
Tracked == IsSmallest(smallest, requests, MaxUint64) \/ (orphaned /\ smallest = 0)

(* No request is for a block before the last one; one for the last block   *)
(* is being served, or will be after the start.                            *)
Pending(n) ==
    n >= Sure /\ (n = Sure => IF pc \in Starting THEN ~snapshotExists(n) ELSE worker # NoWorker)

RequestsInv ==
    /\ requests \subseteq 0..Len(chain)
    /\ pc \notin Starting => Tracked
    /\ orphaned \/ \A n \in requests : Pending(n)

Right(s) ==
    /\ s.dir \in 0..Sure /\ s.last = s.dir
    /\ IsSeq(s.state) /\ Len(s.state) = s.dir + 1
    /\ \A i \in 1..(s.dir + 1) : s.state[i] = Contents(file[i])
    /\ s.hash = file[s.dir + 1].hash

SnapshotsInv == \A s \in snapshots : Right(s)

SInv ==
    /\ LInv /\ LastHash
    /\ WorkerInv /\ StatusInv /\ RequestsInv /\ SnapshotsInv

-----------------------------------------------------------------------------
(* The smallest of the requests.                                           *)

\* Every nonempty set of numbers has a least one.
Least == \A S \in SUBSET Nat : S # {} => \E n \in S : \A m \in S : n <= m

LEMMA SmallestOf ==
    ASSUME Least, NEW S \in SUBSET Nat PROVE IsSmallest(smallestRequest(S), S, MaxUint64)
<1>1. CASE S = {}
  BY Zenon, <1>1 DEF IsSmallest, smallestRequest
<1>2. CASE S # {}
  <2>1. \E n \in S : \A m \in S : n <= m
    BY Zenon, <1>2 DEF Least
  <2>2. Min(S) \in S /\ \A m \in S : Min(S) <= m
    BY Zenon, <2>1 DEF Min
  <2> QED
    BY Zenon, <1>2, <2>2 DEF IsSmallest, smallestRequest
<1> QED
  BY Zenon, <1>1, <1>2

(* A request more.                                                         *)
LEMMA SmallestAdds ==
    ASSUME NEW m \in Nat, NEW S \in SUBSET (0..m), NEW x, IsSmallest(x, S, m + 1), NEW r \in 0..m
    PROVE  IsSmallest(IF r < x THEN r ELSE x, S \cup {r}, m + 1)
<1> DEFINE y == IF r < x THEN r ELSE x
<1>1. S \cup {r} # {} /\ \A n \in S : n \in Nat
  OBVIOUS
<1>2. y \in S \cup {r} /\ y <= r /\ \A n \in S : y <= n
  <2>1. CASE S = {}
    <3>1. x = m + 1
      BY Zenon, <2>1 DEF IsSmallest
    <3> QED
      BY <2>1, <3>1
  <2>2. CASE S # {}
    <3>1. x \in S /\ \A n \in S : x <= n
      BY Zenon, <2>2 DEF IsSmallest
    <3> QED
      BY <1>1, <3>1
  <2> QED
    BY Zenon, <2>1, <2>2
<1> QED
  BY Zenon, <1>1, <1>2 DEF IsSmallest

(* The bookkeeper's delete keeps track of it.                              *)
LEMMA DeleteKeeps ==
    ASSUME Least, NEW n, requests \subseteq 0..Len(chain), Len(chain) \in Nat,
           Tracked, delete(n), UNCHANGED <<chain, orphaned>>
    PROVE  requests' = requests \ {n} /\ Tracked'
<1>0. MaxUint64' = MaxUint64
  BY Zenon DEF MaxUint64
<1>1. CASE n \notin requests
  <2>1. requests' = requests /\ smallest' = smallest
    BY Zenon, <1>1 DEF delete
  <2> QED
    BY Zenon, <1>0, <1>1, <2>1 DEF Tracked
<1>2. CASE n \in requests
  <2>0. requests' = requests \ {n}
    BY Zenon, <1>2 DEF delete
  <2>1. requests' = requests \ {n} /\ requests' \in SUBSET Nat
    <3>1. \A m \in 0..Len(chain) : m \in Nat
      OBVIOUS
    <3> QED
      BY Zenon, <2>0, <3>1
  <2>2. CASE smallest = n
    <3>1. smallest' = smallestRequest(requests')
      BY Zenon, <1>2, <2>2 DEF delete
    <3> QED
      BY Zenon, <1>0, <2>1, <3>1, SmallestOf DEF Tracked
  <2>3. CASE smallest # n
    <3>1. smallest' = smallest
      BY Zenon, <1>2, <2>3 DEF delete
    <3>2. CASE IsSmallest(smallest, requests, MaxUint64)
      <4>1. smallest \in requests /\ \A m \in requests : smallest <= m
        BY Zenon, <1>2, <3>2 DEF IsSmallest
      <4>2. smallest \in requests' /\ \A m \in requests' : smallest <= m
        BY Zenon, <2>0, <2>3, <4>1
      <4>3. requests' # {}
        BY Zenon, <4>2
      <4> QED
        BY Zenon, <2>1, <3>1, <4>2, <4>3 DEF IsSmallest, Tracked
    <3>3. CASE orphaned /\ smallest = 0
      BY Zenon, <2>1, <3>1, <3>3 DEF Tracked
    <3> QED
      BY Zenon, <3>2, <3>3 DEF Tracked
  <2> QED
    BY Zenon, <2>2, <2>3
<1> QED
  BY Zenon, <1>1, <1>2

(* A delete that fails may leave the request, or lose track.               *)
LEMMA DeleteFailsKeeps ==
    ASSUME NEW n, Tracked, DeleteFails, nextLost(n) \/ UNCHANGED <<requests, smallest>>, chain' = chain
    PROVE  Tracked' /\ orphaned' /\ requests' \subseteq requests
<1>1. orphaned' /\ MaxUint64' = MaxUint64
  BY Zenon DEF DeleteFails, MaxUint64
<1>2. CASE nextLost(n)
  BY Zenon, <1>1, <1>2 DEF nextLost, Tracked
<1>3. CASE UNCHANGED <<requests, smallest>>
  BY Zenon, <1>1, <1>3 DEF Tracked
<1> QED
  BY Zenon, <1>2, <1>3

-----------------------------------------------------------------------------
(* The ledger below.                                                       *)

(* Every step is one of the ledger, or leaves it alone but for the record  *)
(* of a failed write.                                                      *)
LEMMA SnapshotSteps ==
    ASSUME [SNext]_svars PROVE Next \/ UNCHANGED <<ledgerVars, hash, commitHash>>
<1> DEFINE Idle == UNCHANGED <<ledgerVars, hash, commitHash>>
<1>1. UNCHANGED vars => Idle
  BY Zenon DEF vars, memVars, blockVars, ledgerVars
<1>2. CASE CommitBlocked \/ NameSnapshot \/ Export \/ Rename \/ UNCHANGED svars
  BY Zenon, <1>1, <1>2 DEF CommitBlocked, NameSnapshot, Export, Rename, svars
<1>3. CASE CommitProceeds \/ CommitDone \/ LedgerCommits
  BY Zenon, <1>3 DEF CommitProceeds, CommitDone, LedgerCommits, Next, Commit
<1>4. CASE GenerateFails
  BY Zenon, <1>4 DEF GenerateFails, memVars, blockVars, ledgerVars
<1>5. CASE SnapshotDone
  BY Zenon, <1>1, <1>5 DEF SnapshotDone, Next, Commit
<1>6. CASE LedgerEnds \/ LedgerStarts \/ SnapshotMgrStarts
  BY Zenon, <1>6 DEF LedgerEnds, LedgerStarts, SnapshotMgrStarts, Next, Start
<1>7. CASE \E n \in 0..Len(chain) : SubmitSnapshotRequest(n) \/ CancelSnapshotRequest(n)
  BY Zenon, <1>1, <1>7 DEF SubmitSnapshotRequest, CancelSnapshotRequest
<1> QED
  BY Zenon, <1>2, <1>3, <1>4, <1>5, <1>6, <1>7 DEF SNext, Committing, Generate

LEMMA LedgerKept ==
    ASSUME "indexAhead" \notin Faults, LInv, LastHash,
           Next \/ UNCHANGED <<ledgerVars, hash, commitHash>>
    PROVE  LInv' /\ LastHash'
<1>1. CASE Next
  <2>1. LInv'
    BY Zenon, <1>1, NextKeeps
  <2> QED
    BY Zenon, <1>1, <2>1, CommitLastHash, StartLastHash, EndLastHash DEF Next
<1>2. CASE UNCHANGED <<ledgerVars, hash, commitHash>>
  <2>1. LInv'
    BY Zenon, <1>2, UnchangedKeeps
  <2>2. UNCHANGED <<file, pc, attempt, height, hash, commitHash>>
    BY Zenon, <1>2 DEF ledgerVars, diskVars, fileVars
  <2> QED
    BY Zenon, <2>1, <2>2 DEF LastHash
<1> QED
  BY Zenon, <1>1, <1>2

(* A snapshot stays right while the entries it was made from do.           *)
LEMMA RightStays ==
    ASSUME NEW s, Right(s), Sure \in Nat, Sure' \in Nat, Sure <= Sure',
           \A i \in 1..(Sure + 1) : file'[i] = file[i]
    PROVE  Right(s)'
<1>1. s.dir \in 0..Sure /\ s.dir \in 0..Sure' /\ s.last = s.dir /\ IsSeq(s.state) /\ Len(s.state) = s.dir + 1
  BY DEF Right
<1>2. s.hash = file'[s.dir + 1].hash
  BY <1>1 DEF Right
<1>3. \A i \in 1..(s.dir + 1) : s.state[i] = Contents(file'[i])
  BY <1>1 DEF Right
<1> QED
  BY Zenon, <1>1, <1>2, <1>3 DEF Right, Contents

(* In every step that takes no new one.                                    *)
LEMMA SnapshotsStay ==
    ASSUME SnapshotsInv, snapshots' = snapshots, Sure \in Nat, Sure' \in Nat, Sure <= Sure',
           \A i \in 1..(Sure + 1) : file'[i] = file[i]
    PROVE  SnapshotsInv'
  BY Zenon, RightStays DEF SnapshotsInv

-----------------------------------------------------------------------------
(* Steps that leave the ledger alone.                                      *)

Still == UNCHANGED <<chain, file, pc, height, attempt, state, commitHash>>

LEMMA StillFrame ==
    ASSUME Still
    PROVE  /\ Sure' = Sure /\ Last' = Last /\ MaxUint64' = MaxUint64 /\ (Early' <=> Early)
           /\ \A i \in 1..(Sure + 1) : file'[i] = file[i]
<1>1. Whole' = Whole
  BY Zenon DEF Still, Whole, Torn
<1>2. Sure' = Sure /\ Last' = Last /\ MaxUint64' = MaxUint64
  BY Zenon, <1>1 DEF Still, Sure, Last, MaxUint64
<1>3. Early' <=> Early
  BY Zenon DEF Still, Early
<1> QED
  BY Zenon, <1>2, <1>3 DEF Still

LEMMA UnchangedStill == UNCHANGED vars => Still
  BY Zenon DEF vars, Still, diskVars, fileVars, memVars, blockVars

(* What they keep when they take no request and no snapshot.               *)
LEMMA StillKeeps ==
    ASSUME SInv, Still, UNCHANGED <<requests, snapshots, smallest, lastCommitted, orphaned>>,
           worker # NoWorker => worker' # NoWorker
    PROVE  RequestsInv' /\ SnapshotsInv'
<1>1. /\ Sure' = Sure /\ MaxUint64' = MaxUint64
      /\ \A i \in 1..(Sure + 1) : file'[i] = file[i]
  BY Zenon, StillFrame
<1>2. Sure \in Nat /\ Sure' \in Nat /\ Sure <= Sure'
  BY <1>1, SureIs DEF SInv, SureFacts
<1>3. SnapshotsInv'
  BY Zenon, <1>1, <1>2, SnapshotsStay DEF SInv
<1>4. RequestsInv'
  BY Zenon, <1>1 DEF SInv, RequestsInv, Tracked, Pending, Still, snapshotExists
<1> QED
  BY Zenon, <1>3, <1>4

Kept == WorkerInv' /\ StatusInv' /\ RequestsInv' /\ SnapshotsInv'

LEMMA BlockedKeeps == ASSUME SInv, CommitBlocked PROVE Kept
<1>1. /\ Still /\ UNCHANGED <<requests, snapshots, smallest, snapshotInProgress, lastCommitted, worker,
                              orphaned>>
      /\ pc = "start" /\ snapshotInProgress /\ committerStatus' = "blocked"
  BY Zenon, UnchangedStill DEF CommitBlocked
<1>2. RequestsInv' /\ SnapshotsInv'
  BY Zenon, <1>1, StillKeeps
<1>3. Last' = Last /\ (Early' <=> Early)
  BY Zenon, <1>1, StillFrame
<1>4. worker # NoWorker /\ Early /\ attempt = 1
  BY Zenon, <1>1 DEF SInv, WorkerInv, Early
<1>5. WorkerInv'
  BY Zenon, <1>1, <1>3 DEF SInv, WorkerInv, Still, snapshotExists
<1>6. StatusInv'
  BY Zenon, <1>1, <1>3, <1>4 DEF SInv, StatusInv, Still
<1> QED
  BY Zenon, <1>2, <1>5, <1>6 DEF Kept

(* Nothing moves.                                                          *)
LEMMA StutterKeeps ==
    ASSUME SInv, Still,
           UNCHANGED <<requests, snapshots, smallest, committerStatus, snapshotInProgress, lastCommitted,
                       worker, orphaned>>
    PROVE  Kept
<1>1. Last' = Last /\ (Early' <=> Early)
  BY Zenon, StillFrame
<1>2. WorkerInv'
  BY Zenon, <1>1 DEF SInv, WorkerInv, Still, snapshotExists
<1>3. StatusInv'
  BY Zenon, <1>1 DEF SInv, StatusInv, Still
<1> QED
  BY Zenon, <1>2, <1>3, StillKeeps DEF Kept

(* The goroutine that generates a snapshot moves on.                       *)
LEMMA WorkerKeeps == ASSUME SInv, NameSnapshot \/ Export \/ GenerateFails PROVE Kept
<1>1. /\ Still /\ UNCHANGED <<requests, snapshots, smallest, committerStatus, snapshotInProgress,
                              lastCommitted, orphaned>>
  BY Zenon, UnchangedStill DEF NameSnapshot, Export, GenerateFails, Still, diskVars, fileVars, memVars,
     blockVars
<1>2. worker.pc \in {"begin", "export", "rename"} /\ worker # NoWorker
  BY DEF NameSnapshot, Export, GenerateFails, NoWorker
<1>3. Last' = Last /\ (Early' <=> Early)
  BY Zenon, <1>1, StillFrame
<1>4. snapshotInProgress /\ Early /\ worker.request = lastCommitted /\ lastCommitted \in requests
  BY Zenon, <1>2 DEF SInv, WorkerInv
<1>5. ~snapshotExists(lastCommitted)
  BY Zenon, <1>2 DEF SInv, WorkerInv
<1>6. /\ worker'.pc \in {"export", "rename", "end"} /\ worker'.request = worker.request
      /\ worker'.pc = "export" => worker'.dir = height - 1
      /\ worker'.pc = "rename" =>
            worker'.snapshot = [dir |-> height - 1, state |-> state, last |-> height - 1,
                                hash |-> commitHash]
  <2>1. CASE NameSnapshot
    BY Zenon, <2>1 DEF NameSnapshot
  <2>2. CASE Export
    BY Zenon, <2>2 DEF Export, SInv, WorkerInv
  <2>3. CASE GenerateFails
    BY Zenon, <2>3 DEF GenerateFails
  <2> QED
    BY Zenon, <2>1, <2>2, <2>3
<1>7. worker' # NoWorker
  BY <1>6 DEF NoWorker
<1>8. WorkerInv'
  BY Zenon, <1>1, <1>3, <1>4, <1>5, <1>6, <1>7 DEF WorkerInv, Still, snapshotExists
<1>9. StatusInv'
  BY Zenon, <1>1, <1>3, <1>7 DEF SInv, StatusInv, Still
<1> QED
  BY Zenon, <1>1, <1>7, <1>8, <1>9, StillKeeps DEF Kept

(* The snapshot is there, and it is right.                                 *)
LEMMA RenameKeeps == ASSUME SInv, Rename PROVE Kept
<1>1. /\ Still /\ UNCHANGED <<requests, smallest, committerStatus, snapshotInProgress,
                              lastCommitted, orphaned>>
      /\ worker.pc = "rename" /\ worker' = [pc |-> "end", request |-> worker.request]
      /\ snapshots' = snapshots \cup {worker.snapshot}
  BY Zenon, UnchangedStill DEF Rename
<1>2. worker # NoWorker /\ worker' # NoWorker /\ worker'.pc = "end" /\ worker'.request = worker.request
  BY <1>1 DEF NoWorker
<1>3. /\ Sure' = Sure /\ Last' = Last /\ MaxUint64' = MaxUint64 /\ (Early' <=> Early)
      /\ \A i \in 1..(Sure + 1) : file'[i] = file[i]
  BY Zenon, <1>1, StillFrame
<1>4. /\ snapshotInProgress /\ Early /\ worker.request = lastCommitted /\ lastCommitted \in requests
      /\ worker.snapshot = [dir |-> height - 1, state |-> state, last |-> height - 1,
                            hash |-> commitHash]
  BY Zenon, <1>1, <1>2 DEF SInv, WorkerInv
<1>5. /\ pc \notin Starting /\ height = Last + 1 /\ Whole = height /\ Len(state) = height
      /\ commitHash = file[height].hash
  BY Zenon, <1>4, EarlyIs DEF SInv
<1>6. Sure = Last /\ Last \in Nat /\ height \in Nat /\ height - 1 = Last
  BY <1>5, SureIs DEF SInv, SureFacts, Sure
<1>7. Right(worker.snapshot)
  <2>1. IsSeq(state) /\ \A i \in 1..height : state[i] = Contents(file[i])
    BY Zenon, <1>5 DEF SInv, LInv, Sequential, Copies
  <2>2. /\ worker.snapshot.dir = Last /\ worker.snapshot.last = Last /\ worker.snapshot.state = state
        /\ worker.snapshot.hash = file[Last + 1].hash
    BY <1>4, <1>5, <1>6
  <2> QED
    BY <1>5, <1>6, <2>1, <2>2 DEF Right
<1>8. \A s \in snapshots' : Right(s)
  BY Zenon, <1>1, <1>7 DEF SInv, SnapshotsInv
<1>9. SnapshotsInv'
  <2>1. Sure' \in Nat /\ Sure <= Sure'
    BY <1>3, <1>6
  <2> QED
    BY Zenon, <1>3, <1>6, <1>8, <2>1, RightStays DEF SnapshotsInv
<1>10. RequestsInv'
  BY Zenon, <1>1, <1>2, <1>3, <1>5 DEF SInv, RequestsInv, Tracked, Pending, Still
<1>11. WorkerInv'
  BY Zenon, <1>1, <1>2, <1>3, <1>4 DEF WorkerInv, Still
<1>12. StatusInv'
  BY Zenon, <1>1, <1>2, <1>3 DEF SInv, StatusInv, Still
<1> QED
  BY Zenon, <1>9, <1>10, <1>11, <1>12 DEF Kept

(* The end of a snapshot, which a commit may be waiting for.               *)
LEMMA SnapshotDoneKeeps == ASSUME Least, SInv, SnapshotDone PROVE Kept
<1>1. /\ worker.pc = "end"
      /\ \/ delete(worker.request) /\ orphaned' = orphaned
         \/ DeleteFails /\ (nextLost(worker.request) \/ UNCHANGED <<requests, smallest>>)
      /\ UNCHANGED <<snapshots, lastCommitted>>
      /\ ~snapshotInProgress' /\ worker' = NoWorker
  BY Zenon DEF SnapshotDone
<1>2. worker # NoWorker /\ NoWorker.pc = "none"
  BY <1>1 DEF NoWorker
<1>3. Early /\ worker.request = lastCommitted
  BY Zenon, <1>2 DEF SInv, WorkerInv
<1>4. /\ UNCHANGED <<chain, file, height>> /\ pc \in {"idle", "start"} /\ pc' \in {"idle", "start", "prepare"}
      /\ committerStatus' # "blocked"
      /\ committerStatus' = "idle" => pc' = pc /\ attempt' = attempt
  <2>1. CASE committerStatus = "blocked"
    BY Zenon, <2>1 DEF SnapshotDone, Proceed, CommitStep, diskVars, fileVars, memVars
  <2>2. CASE committerStatus # "blocked"
    <3>1. UNCHANGED <<committerStatus, vars>>
      BY Zenon, <2>2 DEF SnapshotDone
    <3>2. Still
      BY Zenon, <3>1, UnchangedStill
    <3> QED
      BY Zenon, <1>3, <2>2, <3>1, <3>2 DEF Early, Still
  <2> QED
    BY Zenon, <2>1, <2>2
<1>5. Sure = Last /\ Sure' = Sure /\ Last' = Last /\ lastCommitted = Last /\ MaxUint64' = MaxUint64
  BY Zenon, <1>4 DEF Sure, Last, MaxUint64, SInv, StatusInv
<1>6. Sure \in Nat /\ Len(chain) \in Nat
  BY Zenon, SureIs, Lengths DEF SInv, SureFacts, Counts
<1>7. requests \subseteq 0..Len(chain) /\ Tracked
  BY Zenon, <1>4 DEF SInv, RequestsInv
<1>8. /\ Tracked' /\ requests' \subseteq requests
      /\ orphaned' \/ (orphaned' = orphaned /\ requests' = requests \ {lastCommitted})
  <2>1. CASE delete(worker.request) /\ orphaned' = orphaned
    BY Zenon, <1>3, <1>4, <1>6, <1>7, <2>1, DeleteKeeps
  <2>2. CASE DeleteFails /\ (nextLost(worker.request) \/ UNCHANGED <<requests, smallest>>)
    BY Zenon, <1>4, <1>7, <2>2, DeleteFailsKeeps
  <2> QED
    BY Zenon, <1>1, <2>1, <2>2
<1>9. RequestsInv'
  <2>1. requests' \subseteq 0..Len(chain')
    BY Zenon, <1>4, <1>7, <1>8
  <2>2. pc \notin Starting /\ pc' \notin Starting
    BY Zenon, <1>4
  <2>3. ASSUME ~orphaned', NEW n \in requests' PROVE Pending(n)'
    <3>1. ~orphaned /\ n \in requests /\ n # Sure
      BY <1>5, <1>8, <2>3
    <3>2. Pending(n)
      BY Zenon, <3>1 DEF SInv, RequestsInv
    <3> QED
      BY Zenon, <1>5, <2>2, <3>1, <3>2 DEF Pending
  <2> QED
    BY Zenon, <1>8, <2>1, <2>3 DEF RequestsInv
<1>10. SnapshotsInv'
  <2>1. Sure' \in Nat /\ Sure <= Sure'
    BY <1>5, <1>6
  <2> QED
    BY Zenon, <1>1, <1>4, <1>6, <2>1, SnapshotsStay DEF SInv
<1>11. WorkerInv'
  BY Zenon, <1>1, <1>2 DEF WorkerInv
<1>12. StatusInv'
  BY Zenon, <1>1, <1>3, <1>4, <1>5 DEF StatusInv, Early
<1> QED
  BY Zenon, <1>9, <1>10, <1>11, <1>12 DEF Kept

-----------------------------------------------------------------------------
(* The clients.                                                            *)

LEMMA SubmitKeeps ==
    ASSUME SInv, NEW n \in 0..Len(chain), SubmitSnapshotRequest(n) PROVE Kept
<1> DEFINE r == Requested(n)
<1>1. /\ pc \notin Starting /\ r >= leastAcceptable /\ (r = lastCommitted => ~snapshotExists(r))
      /\ r \notin requests /\ requests' = requests \cup {r}
      /\ smallest' = IF r < smallest THEN r ELSE smallest
      /\ IF committerStatus = "idle" /\ r = lastCommitted
         THEN snapshotInProgress' = TRUE /\ worker' = [pc |-> "begin", request |-> r]
         ELSE UNCHANGED <<snapshotInProgress, worker>>
      /\ Still /\ UNCHANGED <<snapshots, committerStatus, lastCommitted, orphaned>>
  BY Zenon, UnchangedStill DEF SubmitSnapshotRequest, Client, Generating
<1>2. /\ Sure' = Sure /\ Last' = Last /\ MaxUint64' = MaxUint64 /\ (Early' <=> Early)
      /\ \A i \in 1..(Sure + 1) : file'[i] = file[i]
  BY Zenon, <1>1, StillFrame
<1>3. Sure \in Nat /\ Sure < Len(chain) /\ Len(chain) \in Nat
  BY Zenon, SureIs, Lengths DEF SInv, SureFacts, Counts
<1>4. lastCommitted = Sure
  BY Zenon, <1>1 DEF SInv, StatusInv, Sure
<1>5. /\ r \in 0..Len(chain) /\ r >= Sure
      /\ committerStatus = "idle" \/ r > Sure
  BY <1>1, <1>3, <1>4 DEF Requested, leastAcceptable
<1> HIDE DEF r
<1>6. requests \subseteq 0..Len(chain) /\ Tracked
  BY Zenon, <1>1 DEF SInv, RequestsInv
<1>7. requests' \subseteq 0..Len(chain) /\ Tracked'
  <2>1. requests' \subseteq 0..Len(chain)
    BY Zenon, <1>1, <1>5, <1>6
  <2>2. smallest' = IF r < smallest THEN r ELSE smallest
    BY Zenon, <1>1
  <2>3. CASE IsSmallest(smallest, requests, MaxUint64)
    <3>1. IsSmallest(smallest', requests \cup {r}, Len(chain) + 1)
      BY Zenon, <1>3, <1>5, <1>6, <2>2, <2>3, SmallestAdds DEF MaxUint64
    <3> QED
      BY Zenon, <1>1, <1>2, <2>1, <3>1 DEF Tracked, MaxUint64
  <2>4. CASE orphaned /\ smallest = 0
    <3>1. smallest' = 0
      BY <1>5, <2>2, <2>4
    <3> QED
      BY Zenon, <1>1, <2>1, <2>4, <3>1 DEF Tracked
  <2> QED
    BY Zenon, <1>6, <2>3, <2>4 DEF Tracked
<1>8. (worker # NoWorker => worker' # NoWorker) /\ (worker' # NoWorker \/ r > Sure)
  BY <1>1, <1>3, <1>4, <1>5 DEF NoWorker
<1>9. RequestsInv'
  <2>1. chain' = chain /\ pc' = pc
    BY Zenon, <1>1 DEF Still
  <2>2. ASSUME ~orphaned', NEW k \in requests' PROVE Pending(k)'
    <3>1. CASE k = r
      BY <1>1, <1>2, <1>3, <1>5, <1>8, <2>1, <3>1 DEF Pending
    <3>2. CASE k \in requests
      BY Zenon, <1>1, <1>2, <1>8, <2>1, <2>2, <3>2 DEF SInv, RequestsInv, Pending
    <3> QED
      BY Zenon, <1>1, <3>1, <3>2
  <2> QED
    BY Zenon, <1>7, <2>1, <2>2 DEF RequestsInv
<1>10. SnapshotsInv'
  <2>1. Sure' \in Nat /\ Sure <= Sure'
    BY <1>2, <1>3
  <2> QED
    BY Zenon, <1>1, <1>2, <1>3, <2>1, SnapshotsStay DEF SInv
<1>11. WorkerInv' /\ StatusInv'
  <2>1. CASE committerStatus = "idle" /\ r = lastCommitted
    <3>1. /\ snapshotInProgress' /\ worker'.pc = "begin" /\ worker'.request = lastCommitted
          /\ worker' # NoWorker
      BY <1>1, <2>1 DEF NoWorker
    <3>2. Early /\ ~snapshotExists(lastCommitted)
      BY Zenon, <1>1, <2>1 DEF SInv, StatusInv
    <3>3. WorkerInv'
      BY Zenon, <1>1, <1>2, <2>1, <3>1, <3>2 DEF WorkerInv, Still, snapshotExists
    <3>4. StatusInv'
      BY Zenon, <1>1, <1>2, <3>1 DEF SInv, StatusInv, Still
    <3> QED
      BY Zenon, <3>3, <3>4
  <2>2. CASE ~(committerStatus = "idle" /\ r = lastCommitted)
    <3>1. UNCHANGED <<snapshotInProgress, worker>>
      BY Zenon, <1>1, <2>2
    <3>2. WorkerInv'
      BY Zenon, <1>1, <1>2, <3>1 DEF SInv, WorkerInv, Still, snapshotExists
    <3>3. StatusInv'
      BY Zenon, <1>1, <1>2, <3>1 DEF SInv, StatusInv, Still
    <3> QED
      BY Zenon, <3>2, <3>3
  <2> QED
    BY Zenon, <2>1, <2>2
<1> QED
  BY Zenon, <1>9, <1>10, <1>11 DEF Kept

LEMMA CancelKeeps ==
    ASSUME Least, SInv, NEW n, CancelSnapshotRequest(n) PROVE Kept
<1>1. /\ pc \notin Starting /\ ~(snapshotInProgress /\ n = lastCommitted)
      /\ (delete(n) /\ orphaned' = orphaned) \/ (DeleteFails /\ nextLost(n))
      /\ Still /\ UNCHANGED <<snapshots, committerStatus, snapshotInProgress, lastCommitted, worker>>
  BY Zenon, UnchangedStill DEF CancelSnapshotRequest, Client
<1>2. /\ Sure' = Sure /\ Last' = Last /\ MaxUint64' = MaxUint64 /\ (Early' <=> Early)
      /\ \A i \in 1..(Sure + 1) : file'[i] = file[i]
  BY Zenon, <1>1, StillFrame
<1>3. Sure \in Nat /\ Len(chain) \in Nat /\ chain' = chain
  BY Zenon, <1>1, SureIs, Lengths DEF SInv, SureFacts, Counts, Still
<1>4. requests \subseteq 0..Len(chain) /\ Tracked
  BY Zenon, <1>1 DEF SInv, RequestsInv
<1>5. requests' = requests \ {n} /\ Tracked' /\ (orphaned' \/ orphaned' = orphaned)
  <2>1. CASE delete(n) /\ orphaned' = orphaned
    BY Zenon, <1>3, <1>4, <2>1, DeleteKeeps
  <2>2. CASE DeleteFails /\ nextLost(n)
    <3>1. requests' = requests \ {n}
      BY Zenon, <2>2 DEF nextLost
    <3> QED
      BY Zenon, <1>3, <1>4, <2>2, <3>1, DeleteFailsKeeps
  <2> QED
    BY Zenon, <1>1, <2>1, <2>2
<1>6. RequestsInv'
  <2>1. requests' \subseteq 0..Len(chain') /\ pc' = pc
    BY Zenon, <1>1, <1>3, <1>4, <1>5 DEF Still
  <2>2. ASSUME ~orphaned', NEW k \in requests' PROVE Pending(k)'
    <3>1. ~orphaned /\ k \in requests
      BY <1>5, <2>2
    <3>2. Pending(k)
      BY Zenon, <3>1 DEF SInv, RequestsInv
    <3> QED
      BY Zenon, <1>1, <1>2, <2>1, <3>2 DEF Pending
  <2> QED
    BY Zenon, <1>5, <2>1, <2>2 DEF RequestsInv
<1>7. SnapshotsInv'
  <2>1. Sure' \in Nat /\ Sure <= Sure'
    BY <1>2, <1>3
  <2> QED
    BY Zenon, <1>1, <1>2, <1>3, <2>1, SnapshotsStay DEF SInv
<1>8. WorkerInv'
  BY Zenon, <1>1, <1>2, <1>5 DEF SInv, WorkerInv, Still, snapshotExists
<1>9. StatusInv'
  BY Zenon, <1>1, <1>2 DEF SInv, StatusInv, Still
<1> QED
  BY Zenon, <1>6, <1>7, <1>8, <1>9 DEF Kept

-----------------------------------------------------------------------------
(* The steps of the ledger.                                                *)

(* A step of a commit that the events goroutine does not hear of.          *)
LEMMA CommitsKeep ==
    ASSUME SInv, LInv', Moves, pc \notin Starting, pc' \notin Starting,
           UNCHANGED <<requests, snapshots, eventVars, orphaned>>,
           Early => Early' /\ UNCHANGED <<height, state, commitHash>>,
           pc # "start" \/ ~Early
    PROVE  Kept
<1>1. UNCHANGED <<requests, snapshots, smallest, committerStatus, snapshotInProgress, lastCommitted,
                  worker, orphaned>>
  BY Zenon DEF eventVars
<1>2. Sure' = Sure /\ chain' = chain /\ \A i \in 1..(Sure + 1) : file'[i] = file[i]
  BY Zenon DEF Moves
<1>3. Last' = Last /\ MaxUint64' = MaxUint64
  BY Zenon, <1>2 DEF Sure, MaxUint64
<1>4. Sure \in Nat /\ Sure' \in Nat /\ Sure <= Sure'
  BY <1>2, SureIs DEF SInv, SureFacts
<1>5. SnapshotsInv'
  BY Zenon, <1>1, <1>2, <1>4, SnapshotsStay DEF SInv
<1>6. RequestsInv'
  <2>1. ASSUME NEW n, Pending(n) PROVE Pending(n)'
    BY Zenon, <1>1, <1>2, <2>1 DEF Pending
  <2>2. requests \subseteq 0..Len(chain) /\ Tracked
    BY Zenon DEF SInv, RequestsInv
  <2>3. orphaned \/ \A n \in requests : Pending(n)'
    BY Zenon, <2>1 DEF SInv, RequestsInv
  <2>4. Tracked'
    BY <1>1, <1>3, <2>2 DEF Tracked
  <2>5. orphaned' \/ \A n \in requests' : Pending(n)'
    BY <1>1, <2>3
  <2>6. requests' \subseteq 0..Len(chain')
    BY Zenon, <1>1, <1>2, <2>2
  <2> QED
    BY Zenon, <2>4, <2>5, <2>6 DEF RequestsInv
<1>7. WorkerInv'
  <2>1. CASE worker = NoWorker
    <3>1. worker.pc = "none"
      BY Zenon, <2>1 DEF NoWorker
    <3> QED
      BY Zenon, <1>1, <2>1, <3>1 DEF SInv, WorkerInv
  <2>2. CASE worker # NoWorker
    <3>1. Early
      BY Zenon, <2>2 DEF SInv, WorkerInv
    <3> QED
      BY Zenon, <1>1, <2>2, <3>1 DEF SInv, WorkerInv, snapshotExists
  <2> QED
    BY Zenon, <2>1, <2>2
<1>8. StatusInv'
  BY Zenon, <1>1, <1>3 DEF SInv, StatusInv, Early
<1> QED
  BY Zenon, <1>5, <1>6, <1>7, <1>8 DEF Kept

(* The end of the process: the requests stay, and one for a block that has *)
(* been reached has no snapshot.                                           *)
LEMMA EndsKeep ==
    ASSUME SInv, LInv', Moves, pc' = "down", Forget, UNCHANGED <<requests, snapshots>>
    PROVE  Kept
<1>1. /\ ~snapshotInProgress' /\ worker' = NoWorker /\ committerStatus' = "idle"
      /\ orphaned' <=> (orphaned \/ (worker.pc = "end" /\ snapshotExists(worker.request)))
  BY Zenon DEF Forget
<1>2. /\ Sure' = Sure \/ (pc \notin Starting /\ ~Early /\ Sure' = Sure + 1)
      /\ chain' = chain /\ \A i \in 1..(Sure + 1) : file'[i] = file[i]
  BY Zenon DEF Moves
<1>3. Sure \in Nat /\ Sure' \in Nat /\ Sure <= Sure'
  BY <1>2, SureIs DEF SInv, SureFacts
<1>4. SnapshotsInv'
  BY Zenon, <1>2, <1>3, SnapshotsStay DEF SInv
<1>5. WorkerInv'
  BY Zenon, <1>1 DEF WorkerInv, NoWorker
<1>6. StatusInv'
  BY Zenon, <1>1 DEF StatusInv
<1>7. ASSUME NEW n, n > Sure PROVE ~snapshotExists(n)
  BY <1>3, <1>7 DEF SInv, SnapshotsInv, Right, snapshotExists
<1>8. ASSUME ~orphaned', NEW n \in requests PROVE n >= Sure' /\ (n = Sure' => ~snapshotExists(n))
  <2>1. /\ n \in Nat /\ n >= Sure
        /\ n = Sure => IF pc \in Starting THEN ~snapshotExists(n) ELSE worker # NoWorker
    <3>1. requests \subseteq 0..Len(chain) /\ Len(chain) \in Nat
      BY Zenon, Lengths DEF SInv, RequestsInv, Counts
    <3>2. Pending(n)
      BY Zenon, <1>1, <1>8 DEF SInv, RequestsInv
    <3> QED
      BY <3>1, <3>2 DEF Pending
  <2>2. CASE n > Sure
    BY <1>2, <1>3, <1>7, <2>1, <2>2
  <2>3. CASE n = Sure /\ pc \in Starting
    BY Zenon, <1>2, <1>3, <2>1, <2>3
  <2>4. CASE n = Sure /\ pc \notin Starting
    <3>1. worker # NoWorker
      BY Zenon, <2>1, <2>4
    <3>2. Early /\ worker.request = lastCommitted /\ lastCommitted = n
      BY Zenon, <2>4, <3>1 DEF SInv, WorkerInv, StatusInv, Sure
    <3>3. ~snapshotExists(n)
      BY Zenon, <1>1, <1>8, <3>1, <3>2 DEF SInv, WorkerInv
    <3> QED
      BY Zenon, <1>2, <1>3, <2>4, <3>2, <3>3
  <2> QED
    BY <1>3, <2>1, <2>2, <2>3, <2>4
<1>9. RequestsInv'
  BY Zenon, <1>2, <1>8 DEF SInv, RequestsInv, Pending, snapshotExists
<1> QED
  BY Zenon, <1>4, <1>5, <1>6, <1>9 DEF Kept

LEMMA LedgerCommitsKeeps == ASSUME SInv, LInv', LedgerCommits PROVE Kept
<1>1. UNCHANGED <<requests, snapshots>> /\ Forget
  BY Zenon DEF LedgerCommits
<1>2. Commit /\ pc \in {"idle", "prepare", "pvt", "append", "info", "index", "state", "history"}
  BY Zenon DEF LedgerCommits, Commit, Begin, Prepare, StorePvtData, AppendBlock, SaveInfo, IndexBlock,
     CommitState, CommitHistory, CommitStep
<1>3. Moves
  BY Zenon, <1>2, CommitMoves DEF SInv, Finish, CommitStep
<1>4. CASE pc' = "down"
  BY Zenon, <1>1, <1>3, <1>4, EndsKeep
<1>5. CASE pc' # "down"
  <2>1. UNCHANGED <<requests, snapshots, eventVars, orphaned>>
    BY Zenon, <1>1, <1>5 DEF Forget
  <2>2. pc' \notin Starting
    <3>1. Error => pc' = "start"
      BY Zenon, <1>5 DEF Error, Down
    <3>2. CASE StorePvtData \/ AppendBlock
      <4>1. pc' \in {"append", "info", "start"}
        BY Zenon, <3>1, <3>2 DEF StorePvtData, AppendBlock
      <4> QED
        BY Zenon, <4>1
    <3>3. CASE ~(StorePvtData \/ AppendBlock)
      <4>1. pc' \in {"start", "pvt", "index", "state", "history", "done"}
        BY Zenon, <3>3 DEF LedgerCommits, Begin, Prepare, SaveInfo, IndexBlock, CommitState,
           CommitHistory, CommitStep
      <4> QED
        BY Zenon, <4>1
    <3> QED
      BY Zenon, <3>2, <3>3
  <2>3. Early => Early' /\ UNCHANGED <<height, state, commitHash>>
    <3> SUFFICES ASSUME Early PROVE Early' /\ UNCHANGED <<height, state, commitHash>>
      BY Zenon
    <3>1. Begin(height)
      BY Zenon, <1>2 DEF LedgerCommits, Early, Prepare, StorePvtData, AppendBlock, SaveInfo, IndexBlock,
         CommitState, CommitHistory, CommitStep
    <3> QED
      BY Zenon, <3>1 DEF Begin, CommitStep, Early, diskVars
  <2> QED
    BY Zenon, <1>2, <1>3, <2>1, <2>2, <2>3, CommitsKeep
<1> QED
  BY Zenon, <1>4, <1>5

LEMMA LedgerEndsKeeps == ASSUME SInv, LInv', LedgerEnds PROVE Kept
<1>1. UNCHANGED <<requests, snapshots>> /\ Forget
  BY Zenon DEF LedgerEnds
<1>2. Moves
  BY Zenon, CrashMoves, FailureMoves DEF LedgerEnds, SInv
<1>3. CASE pc' = "down"
  BY Zenon, <1>1, <1>2, <1>3, EndsKeep
<1>4. CASE pc' # "down"
  <2>1. UNCHANGED <<requests, snapshots, eventVars, orphaned>>
    BY Zenon, <1>1, <1>4 DEF Forget
  <2>2. WriteFails
    BY Zenon, <1>4 DEF LedgerEnds, Crash, Down
  <2>3. Error /\ pc \in {"prepare", "pvt", "append", "info", "index"}
    BY Zenon, <2>2 DEF WriteFails, PrepareFails, StorePvtDataFails, AppendBlockFails, SaveInfoFails,
       IndexBlockFails
  <2>4. pc' = "start"
    BY Zenon, <1>4, <2>3 DEF Error, Down
  <2>5. ~Early
    BY Zenon, <2>3 DEF Early
  <2>6. pc \notin Starting /\ pc' \notin Starting
    BY Zenon, <2>3, <2>4
  <2> QED
    BY Zenon, <1>2, <2>1, <2>5, <2>6, CommitsKeep
<1> QED
  BY Zenon, <1>3, <1>4

(* The ledger opens.                                                       *)
LEMMA LedgerStartsKeeps == ASSUME SInv, LInv', LedgerStarts PROVE Kept
<1>1. UNCHANGED <<requests, snapshots, smallest, committerStatus, snapshotInProgress, lastCommitted,
                  worker, orphaned>>
  <2>1. UNCHANGED snapVars
    BY Zenon DEF LedgerStarts
  <2> QED
    BY Zenon, <2>1 DEF snapVars, eventVars
<1>2. Start /\ pc \in Starting /\ pc' \in Starting
  <2>1. Opens /\ Start
    BY Zenon DEF LedgerStarts, Opens, Start
  <2> QED
    BY Zenon, <2>1, OpensStarts
<1>3. Sure' = Sure /\ chain' = chain /\ \A i \in 1..(Sure + 1) : file'[i] = file[i]
  BY Zenon, <1>2, StartMoves DEF SInv, Moves
<1>4. Sure \in Nat /\ Sure' \in Nat /\ Sure <= Sure'
  BY <1>3, SureIs DEF SInv, SureFacts
<1>5. SnapshotsInv'
  BY Zenon, <1>1, <1>3, <1>4, SnapshotsStay DEF SInv
<1>6. RequestsInv'
  <2>1. RequestsInv
    BY Zenon DEF SInv
  <2>2. \A n : snapshotExists(n)' <=> snapshotExists(n)
    BY Zenon, <1>1 DEF snapshotExists
  <2>3. \A n : Pending(n) => Pending(n)'
    BY Zenon, <1>1, <1>2, <1>3, <2>2 DEF Pending
  <2> QED
    BY Zenon, <1>1, <1>2, <1>3, <2>1, <2>3 DEF RequestsInv
<1>7. worker = NoWorker /\ worker.pc = "none" /\ committerStatus # "blocked"
  <2>1. ~Early /\ pc # "start"
    BY Zenon, <1>2 DEF Early
  <2>2. worker = NoWorker /\ committerStatus # "blocked"
    BY Zenon, <2>1 DEF SInv, WorkerInv, StatusInv
  <2>3. NoWorker.pc = "none"
    BY Zenon DEF NoWorker
  <2> QED
    BY Zenon, <2>2, <2>3
<1>8. WorkerInv'
  BY Zenon, <1>1, <1>7 DEF SInv, WorkerInv
<1>9. StatusInv'
  BY Zenon, <1>1, <1>2, <1>7 DEF StatusInv
<1> QED
  BY Zenon, <1>5, <1>6, <1>8, <1>9 DEF Kept

(* The snapshot manager starts: a request for the last block is served.    *)
LEMMA MgrStartsKeeps == ASSUME Least, SInv, LInv', SnapshotMgrStarts PROVE Kept
<1>1. pc = "recover" /\ pc' = "idle" /\ height = Whole
  BY Zenon, OpenedWhole DEF SnapshotMgrStarts, SInv
<1>2. UNCHANGED <<chain, file, height, requests, snapshots, orphaned>>
  BY Zenon DEF SnapshotMgrStarts, Opened, StartStep, diskVars, fileVars
<1>3. Sure = height - 1 /\ Sure' = height - 1 /\ Last' = height - 1 /\ Early'
  BY Zenon, <1>1, <1>2 DEF Sure, Last, Early
<1>4. Sure \in Nat /\ Sure' \in Nat /\ Sure <= Sure' /\ Sure < Len(chain) /\ Len(chain) \in Nat
  BY <1>3, SureIs, Lengths DEF SInv, SureFacts, Counts
<1>5. worker = NoWorker /\ ~snapshotInProgress
  BY Zenon, <1>1 DEF SInv, WorkerInv, Early
<1>6. /\ lastCommitted' = height - 1 /\ committerStatus' = "idle"
      /\ smallest' = smallestRequest(requests)
  BY Zenon DEF SnapshotMgrStarts
<1>7. requests \subseteq 0..Len(chain) /\ IsSmallest(smallest', requests, MaxUint64)
  <2>1. requests \subseteq 0..Len(chain)
    BY Zenon DEF SInv, RequestsInv
  <2>2. requests \in SUBSET Nat
    BY <1>4, <2>1
  <2> QED
    BY Zenon, <1>6, <2>1, <2>2, SmallestOf
<1>8. \/ /\ snapshotInProgress' /\ worker' = [pc |-> "begin", request |-> height - 1]
         /\ smallest' = height - 1 /\ ~snapshotExists(height - 1)
      \/ /\ ~snapshotInProgress' /\ worker' = NoWorker
         /\ smallest' # height - 1 \/ snapshotExists(height - 1)
  BY Zenon, <1>1, <1>5 DEF SnapshotMgrStarts, Generating
<1>9. SnapshotsInv'
  BY Zenon, <1>2, <1>4, SnapshotsStay DEF SInv
<1>10. StatusInv'
  BY Zenon, <1>3, <1>6 DEF StatusInv
<1>11. WorkerInv'
  <2>1. CASE worker' = NoWorker
    BY Zenon, <1>8, <2>1 DEF WorkerInv, NoWorker
  <2>2. CASE worker' # NoWorker
    <3>1. /\ snapshotInProgress' /\ worker'.pc = "begin" /\ worker'.request = height - 1
          /\ smallest' = height - 1 /\ ~snapshotExists(height - 1)
      BY <1>8, <2>2
    <3>2. height - 1 \in requests
      BY <1>3, <1>4, <1>7, <3>1 DEF IsSmallest, MaxUint64
    <3> QED
      BY Zenon, <1>2, <1>3, <1>6, <2>2, <3>1, <3>2 DEF WorkerInv, snapshotExists
  <2> QED
    BY Zenon, <2>1, <2>2
<1>12. RequestsInv'
  <2>1. IsSmallest(smallest', requests', MaxUint64')
    BY Zenon, <1>2, <1>7 DEF MaxUint64
  <2>2. ASSUME ~orphaned', NEW n \in requests PROVE n >= Sure' /\ (n = Sure' => worker' # NoWorker)
    <3>1. Pending(n)
      BY Zenon, <1>2, <2>2 DEF SInv, RequestsInv
    <3>2. n >= Sure /\ (n = Sure => ~snapshotExists(n))
      BY Zenon, <1>1, <3>1 DEF Pending
    <3>3. CASE n = Sure
      <4>1. smallest' \in requests /\ smallest' <= n
        BY Zenon, <1>7 DEF IsSmallest
      <4>2. smallest' >= Sure
        BY Zenon, <1>2, <2>2, <4>1 DEF SInv, RequestsInv, Pending
      <4>3. smallest' \in Nat
        BY <1>4, <1>7, <4>1
      <4>4. smallest' = n
        BY <1>4, <3>3, <4>1, <4>2, <4>3
      <4> QED
        BY <1>3, <1>4, <1>8, <3>2, <3>3, <4>4 DEF NoWorker
    <3> QED
      BY Zenon, <1>3, <3>2, <3>3
  <2> QED
    BY Zenon, <1>1, <1>2, <1>7, <2>1, <2>2 DEF RequestsInv, Tracked, Pending
<1> QED
  BY Zenon, <1>9, <1>10, <1>11, <1>12 DEF Kept

LEMMA ProceedsKeeps == ASSUME SInv, LInv', CommitProceeds PROVE Kept
<1>1. /\ ~snapshotInProgress /\ Proceed /\ committerStatus' = "inProcess"
      /\ UNCHANGED <<requests, snapshots, smallest, snapshotInProgress, lastCommitted, worker, orphaned>>
  BY Zenon DEF CommitProceeds
<1>2. pc = "start" /\ pc' = "prepare" /\ UNCHANGED <<chain, file, height>>
  BY Zenon, <1>1 DEF Proceed, CommitStep, diskVars, fileVars, memVars
<1>3. Sure' = Sure /\ Last' = Last /\ MaxUint64' = MaxUint64
  BY Zenon, <1>2 DEF Sure, Last, MaxUint64
<1>4. Sure \in Nat /\ Sure' \in Nat /\ Sure <= Sure'
  BY <1>3, SureIs DEF SInv, SureFacts
<1>5. worker = NoWorker /\ worker.pc = "none"
  BY <1>1 DEF SInv, WorkerInv, NoWorker
<1>6. SnapshotsInv'
  BY Zenon, <1>1, <1>2, <1>4, SnapshotsStay DEF SInv
<1>7. RequestsInv'
  <2>1. requests \subseteq 0..Len(chain) /\ Tracked
    BY Zenon, <1>2 DEF SInv, RequestsInv
  <2>2. orphaned \/ \A n \in requests : n >= Sure /\ (n = Sure => worker # NoWorker)
    BY Zenon, <1>2 DEF SInv, RequestsInv, Pending
  <2> QED
    BY Zenon, <1>1, <1>2, <1>3, <2>1, <2>2 DEF RequestsInv, Tracked, Pending
<1>8. WorkerInv'
  BY Zenon, <1>1, <1>5 DEF SInv, WorkerInv
<1>9. StatusInv'
  BY Zenon, <1>1, <1>2, <1>3 DEF SInv, StatusInv
<1> QED
  BY Zenon, <1>6, <1>7, <1>8, <1>9 DEF Kept

(* CommitDone: the block is the last one now, and a request for it is      *)
(* served at once.                                                         *)
LEMMA CommitDoneKeeps == ASSUME SInv, LInv', CommitDone PROVE Kept
<1>1. /\ UNCHANGED <<chain, file>> /\ pc \notin Starting /\ pc' = "idle"
      /\ Sure' = Sure + 1 /\ num = Sure + 1
  BY Zenon, FinishMoves DEF SInv, CommitDone
<1>2. pc = "done" /\ lastCommitted' = num /\ committerStatus' = "idle"
      /\ UNCHANGED <<requests, snapshots, smallest, orphaned>>
  BY Zenon DEF CommitDone, commitDone, Finish, CommitStep
<1>3. Sure' = Last' /\ Early' /\ ~Early /\ MaxUint64' = MaxUint64
  BY Zenon, <1>1, <1>2 DEF Sure, Early, MaxUint64
<1>4. Sure \in Nat /\ Sure' \in Nat /\ Sure <= Sure' /\ Sure' < Len(chain) /\ Len(chain) \in Nat
  <2>1. Sure \in Nat /\ Len(chain) \in Nat
    BY Zenon, SureIs, Lengths DEF SInv, SureFacts, Counts
  <2>2. Sure' < Len(chain)'
    BY Zenon, SureNext DEF SureFacts
  <2> QED
    BY <1>1, <2>1, <2>2
<1>5. worker = NoWorker /\ ~snapshotInProgress
  BY Zenon, <1>3 DEF SInv, WorkerInv
<1>6. \/ /\ smallest = num /\ snapshotInProgress' /\ worker' = [pc |-> "begin", request |-> num]
      \/ smallest # num /\ ~snapshotInProgress' /\ worker' = NoWorker
  BY Zenon, <1>5 DEF CommitDone, commitDone, Generating
<1>7. requests \subseteq 0..Len(chain) /\ Tracked
  BY Zenon, <1>1 DEF SInv, RequestsInv
<1>8. SnapshotsInv'
  BY Zenon, <1>1, <1>2, <1>4, SnapshotsStay DEF SInv
<1>9. StatusInv'
  BY Zenon, <1>1, <1>2, <1>3 DEF StatusInv
<1>10. WorkerInv'
  <2>1. CASE worker' = NoWorker
    BY Zenon, <1>6, <2>1 DEF WorkerInv, NoWorker
  <2>2. CASE worker' # NoWorker
    <3>1. snapshotInProgress' /\ worker'.pc = "begin" /\ worker'.request = num /\ smallest = num
      BY <1>6, <2>2
    <3>2. num \in requests
      <4>1. smallest # 0
        BY <1>1, <1>4, <3>1
      <4>2. IsSmallest(smallest, requests, MaxUint64)
        BY Zenon, <1>7, <4>1 DEF Tracked
      <4> QED
        BY <1>1, <1>4, <3>1, <4>2 DEF IsSmallest, MaxUint64
    <3>3. \A s \in snapshots : s.dir \in 0..Sure
      BY Zenon DEF SInv, SnapshotsInv, Right
    <3>4. ~snapshotExists(num)
      BY <1>1, <1>4, <3>3 DEF snapshotExists
    <3> QED
      BY Zenon, <1>2, <1>3, <2>2, <3>1, <3>2, <3>4 DEF WorkerInv, snapshotExists
  <2> QED
    BY Zenon, <2>1, <2>2
<1>11. RequestsInv'
  <2>1. ASSUME ~orphaned', NEW n \in requests PROVE n >= Sure' /\ (n = Sure' => worker' # NoWorker)
    <3>1. \A k \in requests : k >= Sure /\ k # Sure
      BY Zenon, <1>1, <1>2, <1>5, <2>1 DEF SInv, RequestsInv, Pending
    <3>2. smallest \in requests /\ smallest <= n
      BY Zenon, <1>2, <1>7, <2>1 DEF Tracked, IsSmallest
    <3>3. smallest \in Nat /\ n \in Nat
      BY <1>4, <1>7, <3>2
    <3>4. n >= Sure + 1 /\ smallest >= Sure + 1
      BY <1>4, <3>1, <3>2, <3>3
    <3> QED
      BY <1>1, <1>4, <1>6, <3>2, <3>3, <3>4 DEF NoWorker
  <2> QED
    BY Zenon, <1>1, <1>2, <1>3, <1>7, <2>1 DEF RequestsInv, Tracked, Pending
<1> QED
  BY Zenon, <1>8, <1>9, <1>10, <1>11 DEF Kept

-----------------------------------------------------------------------------
(* The invariant holds, and what follows from it.                          *)

LEMMA NextSInv ==
    ASSUME Least, "indexAhead" \notin Faults, SInv, [SNext]_svars PROVE SInv'
<1>1. LInv' /\ LastHash'
  BY Zenon, SnapshotSteps, LedgerKept DEF SInv
<1>2. CASE UNCHANGED svars
  <2>1. Still /\ UNCHANGED <<requests, snapshots, smallest, committerStatus, snapshotInProgress,
                             lastCommitted, worker, orphaned>>
    BY Zenon, <1>2, UnchangedStill DEF svars, snapVars, eventVars
  <2> QED
    BY Zenon, <1>1, <2>1, StutterKeeps DEF SInv, Kept
<1>3. CASE SNext
  <2>1. ASSUME CommitBlocked \/ CommitProceeds \/ CommitDone \/ LedgerCommits PROVE Kept
    BY Zenon, <1>1, <2>1, BlockedKeeps, ProceedsKeeps, CommitDoneKeeps, LedgerCommitsKeeps
  <2>2. ASSUME NameSnapshot \/ Export \/ GenerateFails \/ Rename \/ SnapshotDone PROVE Kept
    BY Zenon, <1>1, <2>2, WorkerKeeps, RenameKeeps, SnapshotDoneKeeps
  <2>3. ASSUME LedgerEnds \/ LedgerStarts \/ SnapshotMgrStarts PROVE Kept
    BY Zenon, <1>1, <2>3, LedgerEndsKeeps, LedgerStartsKeeps, MgrStartsKeeps
  <2>4. ASSUME \E n \in 0..Len(chain) : SubmitSnapshotRequest(n) \/ CancelSnapshotRequest(n) PROVE Kept
    BY Zenon, <1>1, <2>4, SubmitKeeps, CancelKeeps
  <2>5. Kept
    BY Zenon, <1>3, <2>1, <2>2, <2>3, <2>4 DEF SNext, Committing, Generate
  <2> QED
    BY Zenon, <1>1, <2>5 DEF SInv, Kept
<1> QED
  BY Zenon, <1>2, <1>3

LEMMA InitSInv == ASSUME SInit PROVE SInv
<1>1. /\ Init /\ requests = {} /\ snapshots = {} /\ smallest = MaxUint64 /\ committerStatus = "idle"
      /\ snapshotInProgress = FALSE /\ lastCommitted = 0 /\ worker = NoWorker
  BY Zenon DEF SInit
<1>2. pc = "idle" /\ height = 1
  BY Zenon, <1>1 DEF Init
<1>3. LInv /\ LastHash
  <2>1. ~failed
    BY Zenon, <1>1 DEF Init
  <2> QED
    BY Zenon, <1>1, <2>1, InitLInv, InitHashes DEF HashInv
<1>4. WorkerInv
  BY Zenon, <1>1 DEF WorkerInv, NoWorker
<1>5. StatusInv
  BY <1>1, <1>2 DEF StatusInv, Early, Last
<1>6. RequestsInv /\ SnapshotsInv
  BY Zenon, <1>1 DEF RequestsInv, SnapshotsInv, Tracked, IsSmallest
<1> QED
  BY Zenon, <1>3, <1>4, <1>5, <1>6 DEF SInv

LEMMA SnapshotFollows == SInv => SnapshotExact
<1> SUFFICES ASSUME SInv, NEW s \in snapshots
             PROVE  /\ s.last = s.dir /\ Len(s.state) = s.dir + 1
                    /\ s.state = SubSeq(Stored, 1, s.dir + 1)
                    /\ s.hash = file[s.dir + 1].hash
  BY Zenon DEF SnapshotExact
<1>1. Right(s)
  BY Zenon DEF SInv, SnapshotsInv
<1>2. Sure \in Nat /\ Sure + 1 <= StoredLen /\ StoredFacts
  BY Zenon, SureIs, StoredIs DEF SInv, SureFacts
<1>3. s.dir + 1 \in 0..StoredLen
  BY <1>1, <1>2 DEF Right, StoredFacts
<1>4. Len(Stored) = StoredLen /\ IsSeq(Stored)
  BY Zenon, <1>2 DEF StoredFacts
<1> DEFINE t == SubSeq(Stored, 1, s.dir + 1)
<1>5. IsSeq(t) /\ Len(t) = s.dir + 1 /\ \A i \in 1..(s.dir + 1) : t[i] = Stored[i]
  BY Zenon, <1>3, <1>4, PrefixOf
<1>6. \A i \in 1..(s.dir + 1) : Stored[i] = Contents(file[i])
  BY <1>2, <1>3 DEF StoredFacts
<1>7. s.state = t
  <2>1. /\ IsSeq(s.state) /\ Len(s.state) = s.dir + 1
        /\ \A i \in 1..(s.dir + 1) : s.state[i] = Contents(file[i])
    BY Zenon, <1>1 DEF Right
  <2> QED
    BY Zenon, <1>5, <1>6, <2>1, SameElements
<1> QED
  BY Zenon, <1>1, <1>7 DEF Right

LEMMA NoneMissedFollows == SInv => NoneMissed
<1> SUFFICES ASSUME SInv, pc = "idle", ~orphaned, NEW n \in requests
             PROVE  n > lastCommitted \/ worker # NoWorker
  BY Zenon DEF NoneMissed
<1>1. Pending(n) /\ requests \subseteq 0..Len(chain) /\ lastCommitted = Last
  BY Zenon DEF SInv, RequestsInv, StatusInv
<1>2. n >= Sure /\ (n = Sure => worker # NoWorker) /\ lastCommitted = Sure
  BY Zenon, <1>1 DEF Pending, Sure
<1>3. Sure \in Nat /\ n \in Nat
  BY <1>1, SureIs, Lengths DEF SInv, SureFacts, Counts
<1> QED
  BY <1>2, <1>3

INSTANCE WellFoundedInduction

LEMMA LeastHolds == Least
<1> SUFFICES ASSUME NEW S \in SUBSET Nat, S # {} PROVE \E n \in S : \A m \in S : n <= m
  BY Zenon DEF Least
<1> DEFINE R == OpToRel(<, Nat)
<1>1. IsWellFoundedOn(R, Nat)
  BY Zenon, NatLessThanWellFounded
<1> HIDE DEF R
<1>2. PICK n \in S : \A m \in S : ~(<<m, n>> \in R)
  BY Zenon, <1>1, WFMin
<1>3. ASSUME NEW m \in S PROVE n <= m
  <2>1. ~(<<m, n>> \in {p \in Nat \X Nat : p[1] < p[2]})
    BY Zenon, <1>2 DEF R, OpToRel
  <2> QED
    BY <2>1
<1> QED
  BY Zenon, <1>3

(* A snapshot named after block n holds the state of exactly the blocks up *)
(* to n and the commit hash of block n (processSnapshotMgmtEvents,         *)
(* generateSnapshot), for any chain, any number of requests and crashes    *)
(* and any failed writes but that of the index while the private data      *)
(* store is ahead.                                                         *)
THEOREM SnapshotsAreExact ==
    ASSUME "indexAhead" \notin Faults PROVE SSpec => []SnapshotExact
<1>1. SInit => SInv
  BY Zenon, InitSInv
<1>2. SInv /\ [SNext]_svars => SInv'
  BY Zenon, LeastHolds, NextSInv
<1> QED
  BY <1>1, <1>2, SnapshotFollows, PTL DEF SSpec

(* No request is passed over (commitDone, regenrateMissedSnapshot), with   *)
(* the two exceptions that NoneMissed names: a crash between the renaming  *)
(* of a snapshot and the deletion of its request, and a delete of the      *)
(* bookkeeper that failed.  For the same constants, and whatever           *)
(* generations fail and whatever crashes come at other times.              *)
THEOREM NoRequestMissed ==
    ASSUME "indexAhead" \notin Faults PROVE SSpec => []NoneMissed
<1>1. SInit => SInv
  BY Zenon, InitSInv
<1>2. SInv /\ [SNext]_svars => SInv'
  BY Zenon, LeastHolds, NextSInv
<1> QED
  BY <1>1, <1>2, NoneMissedFollows, PTL DEF SSpec
=============================================================================
