--------------------------- MODULE SnapshotManager ---------------------------
(***************************************************************************)
(* Snapshots of a channel (core/ledger/kvledger/snapshot_mgmt.go), on top  *)
(* of the ledger they are taken of.  One goroutine takes events one by     *)
(* one: a commit asks it whether it may proceed and tells it when it is    *)
(* done, clients submit and cancel requests, and the goroutine that        *)
(* generates a snapshot reports its end.  The requests are in a database   *)
(* and survive a crash, as does a snapshot once its directory is renamed.  *)
(* An event and its effect on the ledger are one step: the channels are    *)
(* unbuffered and the sender waits for the answer.                         *)
(***************************************************************************)
EXTENDS KVLedger, FiniteSetsExt

CONSTANTS
    MaxRequests,            \* bounds the calls of clients
    MaxDeleteFaults         \* bounds the deletes of the bookkeeper that fail

VARIABLES
    requests,               \* on disk: the block numbers of the bookkeeper
    snapshots,              \* on disk: the directories
    smallest,               \* smallestRequestBlockNum
    committerStatus, snapshotInProgress, lastCommitted,
    worker,                 \* the goroutine that generates a snapshot
    orphaned,               \* history: a crash has come after the renaming of
                            \* a directory and before its request was deleted,
                            \* or a delete has failed
    clients, deleteFaults   \* the calls and the failing deletes to come

eventVars == <<smallest, committerStatus, snapshotInProgress, lastCommitted, worker>>
snapVars == <<requests, snapshots, eventVars, orphaned, clients, deleteFaults>>
svars == <<vars, snapVars>>

\* defaultSmallestBlockNumber, greater than any block number.
MaxUint64 == Len(chain) + 1

smallestRequest(of) == IF of = {} THEN MaxUint64 ELSE Min(of)

NoWorker == [pc |-> "none"]

snapshotExists(n) == \E s \in snapshots : s.dir = n

SInit ==
    /\ Init
    /\ requests = {} /\ snapshots = {}
    /\ smallest = MaxUint64 /\ committerStatus = "idle"
    /\ snapshotInProgress = FALSE /\ lastCommitted = 0
    /\ worker = NoWorker /\ orphaned = FALSE
    /\ clients \in 0..MaxRequests /\ deleteFaults \in 0..MaxDeleteFaults

-----------------------------------------------------------------------------
(* The events of a commit.                                                 *)

\* commitStart while a snapshot is generated: the commit waits.
CommitBlocked ==
    /\ pc = "start" /\ committerStatus # "blocked" /\ snapshotInProgress
    /\ committerStatus' = "blocked"
    /\ UNCHANGED <<vars, requests, snapshots, smallest, snapshotInProgress,
                   lastCommitted, worker, orphaned, clients, deleteFaults>>

\* Mutant: a commit proceeds while a snapshot is generated.
CommitNotHeld ==
    /\ committerStatus # "blocked"
    /\ Proceed
    /\ committerStatus' = "inProcess"
    /\ UNCHANGED <<requests, snapshots, smallest, snapshotInProgress,
                   lastCommitted, worker, orphaned, clients, deleteFaults>>

\* commitStart otherwise.
CommitProceeds ==
    /\ committerStatus # "blocked" /\ ~snapshotInProgress
    /\ Proceed
    /\ committerStatus' = "inProcess"
    /\ UNCHANGED <<requests, snapshots, smallest, snapshotInProgress,
                   lastCommitted, worker, orphaned, clients, deleteFaults>>

\* The goroutine started for request n.
Generating(n) == worker' = [pc |-> "begin", request |-> n]

commitDone(n) ==
    /\ lastCommitted' = n /\ committerStatus' = "idle"
    /\ IF n = smallest
       THEN snapshotInProgress' = TRUE /\ Generating(n)
       ELSE UNCHANGED <<snapshotInProgress, worker>>

CommitDone ==
    /\ Finish
    /\ commitDone(num)
    /\ UNCHANGED <<requests, snapshots, smallest, orphaned, clients, deleteFaults>>

-----------------------------------------------------------------------------
(* generateSnapshot: the directory is named, the data exported and the     *)
(* metadata written at different times.                                    *)

NameSnapshot ==
    /\ worker.pc = "begin" /\ height > 0
    /\ worker' = [pc |-> "export", request |-> worker.request, dir |-> height - 1]
    /\ UNCHANGED <<vars, requests, snapshots, smallest, committerStatus,
                   snapshotInProgress, lastCommitted, orphaned, clients, deleteFaults>>

Export ==
    /\ worker.pc = "export"
    /\ worker' = [pc |-> "rename", request |-> worker.request,
                  snapshot |-> [dir |-> worker.dir, state |-> state,
                                last |-> height - 1, hash |-> commitHash]]
    /\ UNCHANGED <<vars, requests, snapshots, smallest, committerStatus,
                   snapshotInProgress, lastCommitted, orphaned, clients, deleteFaults>>

Rename ==
    /\ worker.pc = "rename"
    /\ snapshots' = snapshots \cup {worker.snapshot}
    /\ worker' = [pc |-> "end", request |-> worker.request]
    /\ UNCHANGED <<vars, requests, smallest, committerStatus, snapshotInProgress,
                   lastCommitted, orphaned, clients, deleteFaults>>

\* An error on the way; the temporary directory is removed.
GenerateFails ==
    /\ worker.pc \in {"begin", "export", "rename"} /\ Fails("snapshot")
    /\ worker' = [pc |-> "end", request |-> worker.request]
    /\ UNCHANGED <<chain, diskVars, pc, memVars, requests, snapshots, smallest,
                   committerStatus, snapshotInProgress, lastCommitted, orphaned, clients, deleteFaults>>

\* The bookkeeper's delete.
delete(n) ==
    IF n \in requests
    THEN /\ requests' = requests \ {n}
         /\ smallest' = IF smallest = n THEN smallestRequest(requests') ELSE smallest
    ELSE UNCHANGED <<requests, smallest>>

\* An error of the database in delete: the request stays, or it is gone and the
\* search for the smallest of the others fails, which returns 0 with the error.
DeleteFails == deleteFaults > 0 /\ deleteFaults' = deleteFaults - 1 /\ orphaned' = TRUE

nextLost(n) == n \in requests /\ smallest = n /\ requests' = requests \ {n} /\ smallest' = 0

\* Mutant: the commit that waits is not told.
CommitNotTold ==
    /\ worker.pc = "end"
    /\ delete(worker.request)
    /\ snapshotInProgress' = FALSE
    /\ worker' = NoWorker
    /\ UNCHANGED <<vars, snapshots, committerStatus, lastCommitted, orphaned, clients, deleteFaults>>

SnapshotDone ==
    /\ worker.pc = "end"
    /\ \/ delete(worker.request) /\ UNCHANGED <<orphaned, deleteFaults>>
       \/ DeleteFails /\ (nextLost(worker.request) \/ UNCHANGED <<requests, smallest>>)
    /\ IF committerStatus = "blocked"
       THEN committerStatus' = "inProcess" /\ Proceed
       ELSE UNCHANGED <<committerStatus, vars>>
    /\ snapshotInProgress' = FALSE
    /\ worker' = NoWorker
    /\ UNCHANGED <<snapshots, lastCommitted, clients>>

-----------------------------------------------------------------------------
(* The clients.                                                            *)

Client ==
    /\ pc \notin Starting
    /\ clients > 0 /\ clients' = clients - 1

leastAcceptable == IF committerStatus = "idle" THEN lastCommitted ELSE lastCommitted + 1

\* Submitting 0 asks for the last block.
Requested(n) == IF n = 0 THEN leastAcceptable ELSE n

SubmitSnapshotRequest(n) ==
    LET r == Requested(n) IN
    /\ Client
    /\ r >= leastAcceptable
    /\ r = lastCommitted => ~snapshotExists(r)
    /\ r \notin requests
    /\ requests' = requests \cup {r}
    /\ smallest' = IF r < smallest THEN r ELSE smallest
    /\ IF committerStatus = "idle" /\ r = lastCommitted
       THEN snapshotInProgress' = TRUE /\ Generating(r)
       ELSE UNCHANGED <<snapshotInProgress, worker>>
    /\ UNCHANGED <<vars, snapshots, committerStatus, lastCommitted, orphaned, deleteFaults>>

\* A delete that fails and leaves the request changes nothing.
CancelSnapshotRequest(n) ==
    /\ Client
    /\ n \in requests
    /\ ~(snapshotInProgress /\ n = lastCommitted)
    /\ \/ delete(n) /\ UNCHANGED <<orphaned, deleteFaults>>
       \/ DeleteFails /\ nextLost(n)
    /\ UNCHANGED <<vars, snapshots, committerStatus, snapshotInProgress,
                   lastCommitted, worker>>

-----------------------------------------------------------------------------
(* The end of the process and the start.                                   *)

\* What the events goroutine holds is gone with the process.
Forget ==
    IF pc' = "down"
    THEN /\ smallest' = MaxUint64 /\ committerStatus' = "idle"
         /\ snapshotInProgress' = FALSE /\ lastCommitted' = 0 /\ worker' = NoWorker
         /\ orphaned' = (orphaned \/ (worker.pc = "end" /\ snapshotExists(worker.request)))
    ELSE UNCHANGED <<eventVars, orphaned>>

LedgerEnds ==
    /\ Crash \/ WriteFails
    /\ Forget
    /\ UNCHANGED <<requests, snapshots, clients, deleteFaults>>

LedgerStarts ==
    /\ SyncInfo \/ Truncate \/ SyncIndex \/ OpenLedger \/ RecommitState \/ RecommitHistory
    /\ UNCHANGED snapVars

\* Mutant: a request of the last block is not looked at.
NotRegenerated ==
    /\ Opened
    /\ smallest' = smallestRequest(requests)
    /\ lastCommitted' = height - 1 /\ committerStatus' = "idle"
    /\ UNCHANGED <<requests, snapshots, snapshotInProgress, worker, orphaned, clients, deleteFaults>>

\* initSnapshotMgr: regenrateMissedSnapshot sends commitDone for a request
\* of the last block that has no snapshot.
SnapshotMgrStarts ==
    /\ Opened
    /\ smallest' = smallestRequest(requests)
    /\ lastCommitted' = height - 1 /\ committerStatus' = "idle"
    /\ IF pc' = "idle" /\ smallest' = height - 1 /\ ~snapshotExists(height - 1)
       THEN snapshotInProgress' = TRUE /\ Generating(height - 1)
       ELSE UNCHANGED <<snapshotInProgress, worker>>
    /\ UNCHANGED <<requests, snapshots, orphaned, clients, deleteFaults>>

\* The steps of a commit that do not concern the events goroutine.
LedgerCommits ==
    /\ Begin(height) \/ Prepare \/ StorePvtData \/ AppendBlock \/ SaveInfo \/ IndexBlock
          \/ CommitState \/ CommitHistory
    /\ Forget
    /\ UNCHANGED <<requests, snapshots, clients, deleteFaults>>

-----------------------------------------------------------------------------
Committing == CommitBlocked \/ CommitProceeds \/ CommitDone \/ LedgerCommits

Generate == NameSnapshot \/ Export \/ Rename \/ SnapshotDone

SNext ==
    \/ Committing \/ Generate \/ GenerateFails
    \/ LedgerEnds \/ LedgerStarts \/ SnapshotMgrStarts
    \/ \E n \in 0..Len(chain) : SubmitSnapshotRequest(n) \/ CancelSnapshotRequest(n)

SSpec == SInit /\ [][SNext]_svars

SFairSpec ==
    /\ SSpec
    /\ WF_svars(Committing) /\ WF_svars(Generate)
    /\ WF_svars(LedgerStarts \/ SnapshotMgrStarts)

-----------------------------------------------------------------------------
(* A snapshot named after block n holds the state of exactly the blocks up *)
(* to n and the commit hash of block n, whatever is committed, requested   *)
(* or cancelled while it is generated, and there is one at most            *)
(* (processSnapshotMgmtEvents, generateSnapshot).                          *)
SnapshotExact ==
    \A s \in snapshots :
        /\ s.last = s.dir /\ Len(s.state) = s.dir + 1
        /\ s.state = SubSeq(Stored, 1, s.dir + 1)
        /\ s.hash = file[s.dir + 1].hash

(* No request is passed over: when no commit is in hand, every pending one *)
(* is for a block to come or is being served, whatever generations failed  *)
(* and whatever crashes came (commitDone, regenrateMissedSnapshot).  There *)
(* are two exceptions, which orphaned records: a crash that has come       *)
(* between the renaming of a snapshot and the deletion of its request, and *)
(* a delete that has failed, after which, as snapshotDone logs, "the       *)
(* pending snapshot requests (if any) may not be processed".               *)
NoneMissed ==
    (pc = "idle" /\ ~orphaned) =>
        \A n \in requests : n > lastCommitted \/ worker # NoWorker

\* Every block is committed, and no snapshot is being generated.
AtRest == pc = "idle" /\ height = Len(chain) /\ worker = NoWorker

(* SubmitSnapshotRequest: "The request will be stored in the ledger until  *)
(* the ledger commits the given block number and the snapshot generation   *)
(* is completed."                                                          *)
StoredUntilGenerated ==
    \A n \in Numbers :
        (n \in requests /\ height > n /\ pc = "idle") ~> n \notin requests
=============================================================================
