------------------------------ MODULE KVLedger ------------------------------
(***************************************************************************)
(* The ledger of one channel on a peer (core/ledger/kvledger), with the    *)
(* block files it appends to (common/ledger/blkstorage), and the callers   *)
(* above it: the committer, which calls CommitLegacy a second time when    *)
(* the first call fails (core/committer), and the state transfer, which    *)
(* ends the process when the second fails too (gossip/state).              *)
(*                                                                         *)
(* A block goes to the private data store, to the block file, to the       *)
(* record of how far the file is good (blockfilesInfo), to the block       *)
(* index, to the state database and to the history database, one after the *)
(* other.  Each write can fail and the process can end between any two;    *)
(* opening the ledger has to bring the six together again.                 *)
(*                                                                         *)
(* Block number n is chain[n + 1]; block 0 is there from the beginning.    *)
(* The block files are one sequence and an offset is a position in it.     *)
(***************************************************************************)
EXTENDS Integers, Sequences

CONSTANTS
    Blocks,
    Chains,             \* the chains the ordering service may have cut
    Validate(_, _, _),  \* the codes ValidateAndPrepare gives a block, by the
                        \* blocks of the state database and its number
    NoFlags,            \* the codes of block 0
    Faults,             \* the writes that may fail, see Fails
    MaxFaults,          \* bounds the failures
    MaxCrashes          \* bounds the crashes

ASSUME BoundAssumption == MaxFaults \in Nat /\ MaxCrashes \in Nat

ASSUME ChainAssumption == \A c \in Chains : c \in Seq(Blocks) /\ c # <<>>

VARIABLES
    chain,              \* the blocks, chosen once
    \* on disk
    file,               \* the entries of the block files
    info,               \* blockfilesInfo: size and last block number
    infoSynced,         \* the last value of info that was synced
    index,              \* index[n + 1]: where in the file block n is
    pvtHeight,          \* of the private data store
    state,              \* the blocks in the state database, oldest first
    history,            \* the blocks in the history database
    \* in memory
    pc,                 \* where the committing goroutine, or the start, is
    num, attempt,       \* the block being committed, and which call it is
    flags, hash,        \* its codes and its commit hash
    commitHash,         \* l.commitHash: what has been hashed into it
    ahead,              \* isPvtstoreAheadOfBlkstore
    height,             \* bcInfo.Height
    size,               \* latestFileSize of the manager's blockfilesInfo
    failed,             \* history: some write has failed
    faults, crashes     \* bounds: the failures and crashes still to come

fileVars == <<file, info, infoSynced, index>>
diskVars == <<fileVars, pvtHeight, state, history>>
blockVars == <<num, attempt, flags, hash>>
memVars == <<blockVars, commitHash, ahead, height, size>>
boundVars == <<failed, faults, crashes>>
vars == <<chain, diskVars, pc, memVars, boundVars>>

\* What is left of an entry whose append a crash cut off.
Torn == [num |-> -1]

\* The block numbers.
Numbers == UNION {0..Len(c) : c \in Chains}

Contents(e) == [num |-> e.num, block |-> e.block, flags |-> e.flags]

Genesis == [num |-> 0, block |-> chain[1], flags |-> NoFlags]

Init ==
    /\ chain \in Chains
    /\ file = <<[num |-> 0, block |-> chain[1], flags |-> NoFlags, hash |-> <<>>]>>
    /\ info = [size |-> 1, last |-> 0] /\ infoSynced = info
    /\ index = <<1>>
    /\ pvtHeight = 1
    /\ state = <<Genesis>> /\ history = state
    /\ pc = "idle"
    /\ num = 0 /\ attempt = 0 /\ flags = <<>> /\ hash = <<>>
    /\ commitHash = <<>> /\ ahead = FALSE /\ height = 1 /\ size = 1
    /\ failed = FALSE /\ faults \in 0..MaxFaults /\ crashes \in 0..MaxCrashes

-----------------------------------------------------------------------------
(* The end of the process.                                                 *)

\* What was only in memory is gone, and so may be the unsynced info.
Down ==
    /\ pc' = "down"
    /\ num' = 0 /\ attempt' = 0 /\ flags' = <<>> /\ hash' = <<>>
    /\ commitHash' = <<>> /\ ahead' = FALSE /\ height' = 0 /\ size' = 0
    /\ info' \in {info, infoSynced} /\ infoSynced' = info'

\* A call of CommitLegacy returns an error: legacyCommit calls it again, and
\* after the second error the process panics.
Error ==
    IF attempt = 1
    THEN /\ pc' = "start" /\ attempt' = 2
         /\ UNCHANGED <<num, flags, hash, commitHash, ahead, height, size, info, infoSynced>>
    ELSE Down

\* The write f fails.
Fails(f) ==
    /\ f \in Faults
    /\ faults > 0 /\ faults' = faults - 1 /\ failed' = TRUE
    /\ UNCHANGED crashes

-----------------------------------------------------------------------------
(* CommitLegacy.                                                           *)

CommitStep(from, to) ==
    /\ pc = from /\ pc' = to
    /\ UNCHANGED <<chain, boundVars>>

\* The state transfer hands over block n of the chain.
Begin(n) ==
    /\ CommitStep("idle", "start")
    /\ n < Len(chain)
    /\ num' = n /\ attempt' = 1 /\ flags' = <<>> /\ hash' = <<>>
    /\ UNCHANGED <<diskVars, commitHash, ahead, height, size>>

\* commitProceed.
Proceed ==
    /\ CommitStep("start", "prepare")
    /\ UNCHANGED <<diskVars, memVars>>

\* ValidateAndPrepare and addBlockCommitHash, which has its effect on
\* l.commitHash whether or not the block is stored in the end.
Prepare ==
    /\ CommitStep("prepare", "pvt")
    /\ flags' = Validate(state, num, chain[num + 1])
    /\ commitHash' = IF num = 1 \/ commitHash # <<>>
                     THEN Append(commitHash, [num |-> num, flags |-> flags'])
                     ELSE commitHash
    /\ hash' = commitHash'
    /\ UNCHANGED <<diskVars, num, attempt, ahead, height, size>>

PrepareFails ==
    /\ pc = "prepare" /\ Fails("validate")
    /\ Error
    /\ UNCHANGED <<chain, file, index, pvtHeight, state, history>>

\* pvtdataStore.Commit, left out while the store is ahead; it takes only
\* the block it expects.
StorePvtData ==
    /\ pc = "pvt"
    /\ IF ahead \/ pvtHeight = num
       THEN /\ pvtHeight' = IF ahead THEN pvtHeight ELSE num + 1
            /\ pc' = "append"
            /\ UNCHANGED <<memVars, info, infoSynced>>
       ELSE Error /\ UNCHANGED pvtHeight
    /\ UNCHANGED <<chain, file, index, state, history, boundVars>>

StorePvtDataFails ==
    /\ pc = "pvt" /\ ~ahead /\ Fails("pvt")
    /\ Error
    /\ UNCHANGED <<chain, file, index, pvtHeight, state, history>>

\* addBlock up to the synced append.
AppendBlock ==
    /\ pc = "append"
    /\ IF num = height
       THEN /\ file' = Append(file, [num |-> num, block |-> chain[num + 1],
                                     flags |-> flags, hash |-> hash])
            /\ pc' = "info"
            /\ UNCHANGED <<memVars, info, infoSynced>>
       ELSE Error /\ UNCHANGED file
    /\ UNCHANGED <<chain, index, pvtHeight, state, history, boundVars>>

\* The append fails and its bytes are truncated.
AppendBlockFails ==
    /\ pc = "append" /\ Fails("append")
    /\ Error
    /\ UNCHANGED <<chain, file, index, pvtHeight, state, history>>

\* saveBlkfilesInfo, not synced.
SaveInfo ==
    /\ CommitStep("info", "index")
    /\ info' = [size |-> size + 1, last |-> num]
    /\ UNCHANGED <<file, infoSynced, index, pvtHeight, state, history, memVars>>

\* It fails and the block is truncated.
SaveInfoFails ==
    /\ pc = "info" /\ Fails("info")
    /\ Error
    /\ file' = SubSeq(file, 1, size)
    /\ UNCHANGED <<chain, index, pvtHeight, state, history>>

\* Mutant: the private data store counts as ahead until the next start.
StaysAhead ==
    /\ CommitStep("index", "state")
    /\ index' = Append(index, size + 1)
    /\ infoSynced' = info
    /\ size' = size + 1
    /\ height' = height + 1
    /\ UNCHANGED <<file, info, pvtHeight, state, history, blockVars, commitHash, ahead>>

\* indexBlock syncs the database of the index, which holds info as well.
\* Then the manager's copies and isPvtstoreAheadOfBlkstore are updated.
IndexBlock ==
    /\ CommitStep("index", "state")
    /\ index' = IF num + 1 <= Len(index) THEN [index EXCEPT ![num + 1] = size + 1]
                                         ELSE Append(index, size + 1)
    /\ infoSynced' = info
    /\ size' = size + 1
    /\ height' = height + 1
    /\ ahead' = (ahead /\ pvtHeight # num + 1)
    /\ UNCHANGED <<file, info, pvtHeight, state, history, blockVars, commitHash>>

\* It fails, and the block stays in the file.
IndexBlockFails ==
    /\ pc = "index" /\ Fails(IF ahead THEN "indexAhead" ELSE "index")
    /\ Error
    /\ UNCHANGED <<chain, file, index, pvtHeight, state, history>>

\* txmgr.Commit.
CommitState ==
    /\ CommitStep("state", "history")
    /\ state' = Append(state, [num |-> num, block |-> chain[num + 1], flags |-> flags])
    /\ UNCHANGED <<fileVars, pvtHeight, history, memVars>>

\* historyDB.Commit.
CommitHistory ==
    /\ CommitStep("history", "done")
    /\ history' = Append(history, [num |-> num, block |-> chain[num + 1], flags |-> flags])
    /\ UNCHANGED <<fileVars, pvtHeight, state, memVars>>

\* commitDone.
Finish ==
    /\ CommitStep("done", "idle")
    /\ UNCHANGED <<diskVars, memVars>>

-----------------------------------------------------------------------------
(* A crash, and the panic after a failed write of a database.              *)

Crash ==
    /\ pc \notin {"down", "broken"}
    /\ crashes > 0 /\ crashes' = crashes - 1
    /\ Down
    /\ file' \in IF pc = "append" THEN {file, Append(file, Torn)} ELSE {file}
    /\ UNCHANGED <<chain, index, pvtHeight, state, history, failed, faults>>

-----------------------------------------------------------------------------
(* newBlockfileMgr and newKVLedger.                                        *)

\* scanForLastCompleteBlock: the position of the last complete entry when
\* reading from behind position p.
EndOfScan(p) ==
    CHOOSE q \in p..Len(file) :
        /\ \A r \in (p + 1)..q : file[r] # Torn
        /\ q < Len(file) => file[q + 1] = Torn

StartStep(from, to) ==
    /\ pc = from /\ pc' = to
    /\ UNCHANGED <<chain, blockVars, boundVars>>

\* Mutant: the blocks behind the known size are not looked for.
InfoTrusted ==
    /\ StartStep("down", "truncate")
    /\ UNCHANGED <<diskVars, commitHash, ahead, height, size>>

\* syncBlockfilesInfoFromFS: every complete entry behind the known size is
\* one more block.
SyncInfo ==
    /\ StartStep("down", "truncate")
    /\ info' = LET end == EndOfScan(info.size)
               IN  [size |-> end, last |-> info.last + (end - info.size)]
    /\ infoSynced' = info'
    /\ UNCHANGED <<file, index, pvtHeight, state, history, commitHash, ahead, height, size>>

\* Mutant: what is left of a cut off append stays in the file.
TornTailKept ==
    /\ StartStep("truncate", "reindex")
    /\ size' = info.size
    /\ UNCHANGED <<file, info, infoSynced, index, pvtHeight, state, history, commitHash, ahead, height>>

\* truncateFile.
Truncate ==
    /\ StartStep("truncate", "reindex")
    /\ file' = SubSeq(file, 1, info.size)
    /\ size' = info.size
    /\ UNCHANGED <<info, infoSynced, index, pvtHeight, state, history, commitHash, ahead, height>>

\* syncIndex reads on behind the last block indexed; the number of a block
\* is that of its header.
Unindexed == (index[Len(index)] + 1)..Len(file)

SyncedIndex ==
    LET at(n) == {p \in Unindexed : file[p].num = n}
        last(n) == CHOOSE p \in at(n) : \A q \in at(n) : q <= p
        top == IF at(Len(index)) = {} THEN Len(index) ELSE Len(index) + 1
    IN  [i \in 1..top |-> IF at(i - 1) = {} THEN index[i] ELSE last(i - 1)]

\* syncIndex, then the height: the last block is looked up by its number,
\* and a number that is not in the index is a panic at every start.
SyncIndex ==
    /\ pc = "reindex"
    /\ index' = IF Len(index) = info.last + 1 THEN index ELSE SyncedIndex
    /\ IF info.last + 1 <= Len(index')
       THEN pc' = "open" /\ height' = info.last + 1
       ELSE pc' = "broken" /\ UNCHANGED height
    /\ UNCHANGED <<chain, file, info, infoSynced, pvtHeight, state, history,
                   blockVars, commitHash, ahead, size, boundVars>>

\* RetrieveBlockByNumber.
BlockAt(n) == file[index[n + 1]]

\* Mutant: the commit hash starts anew with the process.
HashStartsAnew ==
    /\ StartStep("open", "recover")
    /\ ahead' = (pvtHeight > height)
    /\ UNCHANGED <<diskVars, commitHash, height, size>>

\* lastPersistedCommitHash and isPvtDataStoreAheadOfBlockStore.
OpenLedger ==
    /\ StartStep("open", "recover")
    /\ commitHash' = BlockAt(height - 1).hash
    /\ ahead' = (pvtHeight > height)
    /\ UNCHANGED <<diskVars, height, size>>

\* ShouldRecover: the block after the savepoint.
NextRequired(db) == db[Len(db)].num + 1

\* syncStateAndHistoryDBWithBlockstore.  The database that lags gets the
\* block; when both lag as far, either does, and the other follows.
RecommitState ==
    /\ StartStep("recover", "recover")
    /\ NextRequired(history) <= height
    /\ NextRequired(state) < height /\ NextRequired(state) <= NextRequired(history)
    /\ state' = Append(state, Contents(BlockAt(NextRequired(state))))
    /\ UNCHANGED <<fileVars, pvtHeight, history, commitHash, ahead, height, size>>

RecommitHistory ==
    /\ StartStep("recover", "recover")
    /\ NextRequired(state) <= height
    /\ NextRequired(history) < height /\ NextRequired(history) <= NextRequired(state)
    /\ history' = Append(history, Contents(BlockAt(NextRequired(history))))
    /\ UNCHANGED <<fileVars, pvtHeight, state, commitHash, ahead, height, size>>

\* The start ends; a database ahead of the blocks makes it fail for good.
Opened ==
    LET whole == NextRequired(state) = height /\ NextRequired(history) = height
        beyond == NextRequired(state) > height \/ NextRequired(history) > height
    IN
    /\ whole \/ beyond
    /\ StartStep("recover", IF whole THEN "idle" ELSE "broken")
    /\ UNCHANGED <<diskVars, commitHash, ahead, height, size>>

-----------------------------------------------------------------------------
Commit ==
    \/ Begin(height) \/ Proceed \/ Prepare \/ StorePvtData \/ AppendBlock \/ SaveInfo
    \/ IndexBlock \/ CommitState \/ CommitHistory \/ Finish

Start ==
    \/ SyncInfo \/ Truncate \/ SyncIndex \/ OpenLedger
    \/ RecommitState \/ RecommitHistory \/ Opened

WriteFails ==
    \/ PrepareFails \/ StorePvtDataFails \/ AppendBlockFails \/ SaveInfoFails
    \/ IndexBlockFails

Next == Commit \/ Start \/ WriteFails \/ Crash

Spec == Init /\ [][Next]_vars

\* The process runs, and is started again when it has ended.
FairSpec == Spec /\ WF_vars(Commit) /\ WF_vars(Start)

-----------------------------------------------------------------------------
\* No commit holds blockAPIsRWLock.
Unlocked == pc \in {"idle", "start", "prepare", "done"}

Starting == {"down", "truncate", "reindex", "open", "recover", "broken"}

(* The state transfer can read blocks by number, and transactions are      *)
(* simulated, whenever no commit holds blockAPIsRWLock: then block n is    *)
(* where the index says, and state and history database hold exactly the   *)
(* blocks below the height, with the codes stored in the file              *)
(* (kvLedger.commit, recoverDBs).                                          *)
ServesWhole ==
    Unlocked =>
        /\ Len(state) = height /\ history = state
        /\ \A n \in 0..(height - 1) :
              /\ BlockAt(n).num = n /\ BlockAt(n).block = chain[n + 1]
              /\ state[n + 1] = Contents(BlockAt(n))

\* The blocks that survive a crash: what the info covers, or after a crash
\* whatever a scan of the file will find.
Stored ==
    [i \in 1..(IF pc \in Starting THEN EndOfScan(0) ELSE info.size) |-> Contents(file[i])]

(* Whatever fails and whenever the process ends, the ledger keeps the      *)
(* promise of BlockLedger (kvLedger.commit, newKVLedger, addBlock,         *)
(* newBlockfileMgr).                                                       *)
Ledger == INSTANCE BlockLedger WITH
    Chains <- Chains, Validate <- Validate, NoFlags <- NoFlags,
    chain <- chain, stored <- Stored, visible <- state, up <- pc \notin Starting

ImplementsLedger == Ledger!Spec

(* The private data store is never behind the blocks: a block that a start *)
(* finds in the file has its private data (commitToPvtAndBlockStore).      *)
PvtDataFirst == pvtHeight \in {Len(Stored), Len(Stored) + 1}

(* As long as no write has failed, the commit hash in a block is the       *)
(* chained hash of the blocks up to it, however often the process has      *)
(* ended in between (addBlockCommitHash, lastPersistedCommitHash).         *)
HashUpTo(n) == [i \in 1..n |-> [num |-> i, flags |-> file[i + 1].flags]]

HashesAgree == \A i \in 1..Len(Stored) : file[i].hash = HashUpTo(i - 1)

HashesSurvive == ~failed => HashesAgree

(* peer_ledger_snapshot.md says of the metadata files of a snapshot, one   *)
(* of which holds the commit hash of the last block (addBlockCommitHash),  *)
(* that they are "expected to be same across snapshots of a channel for a  *)
(* particular height": peers that store the same blocks with the same      *)
(* codes store them with the same commit hashes, whatever failed on the    *)
(* way.                                                                    *)
SameHashes == HashesAgree

(* RetrieveBlockByNumber "returns the block at a given blockchain height"; *)
(* no block is in the file twice.                                          *)
StoredOnce == \A i, j \in 1..Len(file) : i # j => file[i].num # file[j].num
=============================================================================
