----------------------------- MODULE GossipState -----------------------------
(***************************************************************************)
(* The state transfer of a channel (gossip/state), on top of the ledger it *)
(* commits to.  Blocks come in any order, from gossip and from the         *)
(* anti-entropy goroutine, which asks other peers for what is missing;     *)
(* they wait in the payloads buffer until they are next, and one goroutine *)
(* pops them and commits them.  A payload is its block number: blocks are  *)
(* decoded and verified before they are queued, and deliverPayloads, which *)
(* decodes them again with their private data, finds none that it drops.   *)
(*                                                                         *)
(* The other peers have the first peerHeight blocks of the chain, each of  *)
(* them perhaps fewer.  Responses can be late or never come: fresh counts  *)
(* the requests in flight that carry the nonce of the current range, and   *)
(* stale says that a response with an older one may still come.            *)
(***************************************************************************)
EXTENDS KVLedger, FiniteSetsExt

CONSTANTS
    StateBlockBufferSize,
    StateBatchSize,
    StateMaxRetries,
    Unreadable,         \* the blocks that a peer may fail to read
    MaxOmissions        \* bounds how often one does

ASSUME StateAssumption ==
    /\ StateBlockBufferSize \in Nat \ {0} /\ StateBatchSize \in Nat
    /\ StateMaxRetries \in Nat /\ Unreadable \subseteq Nat /\ MaxOmissions \in Nat

VARIABLES
    next, buf, ready,       \* PayloadsBufferImpl; ready: readyChan is full
    delivering,             \* deliverPayloads waits for a notification, runs
                            \* behind one, or has returned
    ae,                     \* the anti-entropy goroutine
    fresh, stale,           \* the responses that may come
    peerHeight,             \* maxAvailableLedgerHeight
    omissions               \* bounds the blocks left out

bufferVars == <<next, buf, ready>>
netVars == <<fresh, stale, peerHeight, omissions>>
gossipVars == <<bufferVars, delivering, ae, netVars>>
gvars == <<vars, gossipVars>>

Asleep == [pc |-> "sleep"]

GInit ==
    /\ Init
    /\ next = height /\ buf = {} /\ ready = FALSE /\ delivering = "waits"
    /\ ae = Asleep /\ fresh = 0 /\ stale = FALSE
    /\ peerHeight = 1 /\ omissions = MaxOmissions

-----------------------------------------------------------------------------
(* The payloads buffer.                                                    *)

\* Mutant: a notification is sent only for the first payload.
PushNotifiesFirst(n) ==
    IF n < next \/ n \in buf
    THEN UNCHANGED bufferVars
    ELSE /\ buf' = buf \cup {n}
         /\ ready' = (ready \/ (n = next /\ buf = {}))
         /\ UNCHANGED next

Push(n) ==
    IF n < next \/ n \in buf
    THEN UNCHANGED bufferVars
    ELSE /\ buf' = buf \cup {n}
         /\ ready' = (ready \/ n = next)
         /\ UNCHANGED next

\* Pop of a payload that is there; drainReadChannel.
Pop ==
    /\ next \in buf
    /\ buf' = buf \ {next}
    /\ next' = next + 1
    /\ ready' = (ready /\ buf' # {})

-----------------------------------------------------------------------------
(* Blocks from gossip.  LedgerHeight waits for a commit to end.            *)

PeersAdvance ==
    /\ peerHeight < Len(chain) /\ peerHeight' = peerHeight + 1
    /\ UNCHANGED <<vars, bufferVars, delivering, ae, fresh, stale, omissions>>

\* addPayload, not blocking: SeqNum - height is unsigned, so that a block
\* below the height is refused like one too far above it.
Gossip(n) ==
    /\ Unlocked /\ n < peerHeight
    /\ n >= height /\ n - height < StateBlockBufferSize
    /\ Push(n)
    /\ UNCHANGED <<vars, delivering, ae, netVars>>

-----------------------------------------------------------------------------
(* deliverPayloads and commitBlock.                                        *)

Ready ==
    /\ delivering = "waits" /\ ready
    /\ delivering' = "runs" /\ ready' = FALSE
    /\ UNCHANGED <<vars, next, buf, ae, netVars>>

Deliver ==
    /\ delivering = "runs" /\ pc = "idle"
    /\ IF next \in buf THEN Pop /\ Begin(next) /\ UNCHANGED delivering
                       ELSE delivering' = "waits" /\ UNCHANGED <<vars, bufferVars>>
    /\ UNCHANGED <<ae, netVars>>

\* The validation of the block ends with a VSCCExecutionFailureError, before
\* the ledger is called: the goroutine returns, and the process goes on.
DeliverAborts ==
    /\ delivering = "runs" /\ pc = "idle"
    /\ Pop /\ delivering' = "returned"
    /\ UNCHANGED <<vars, ae, netVars>>

-----------------------------------------------------------------------------
(* antiEntropy and requestBlocksInRange.                                   *)

\* A new range has a new nonce.
NewNonce == fresh' = 0 /\ stale' = (stale \/ fresh > 0)

\* The state of the goroutine before the first request for a range.
requestBlocksInRange(prev, end) ==
    [pc |-> "ask", prev |-> prev, end |-> end, tries |-> 0,
     next |-> Min({end, prev + StateBatchSize})]

\* Mutant: the height of the others is taken for their last block's number.
LastBlockNotAsked ==
    /\ Unlocked /\ ae = Asleep
    /\ height < peerHeight - 1
    /\ ae' = requestBlocksInRange(height, peerHeight - 2)
    /\ NewNonce
    /\ UNCHANGED <<vars, bufferVars, delivering, peerHeight, omissions>>

AntiEntropy ==
    /\ Unlocked /\ ae = Asleep
    /\ height < peerHeight
    /\ ae' = requestBlocksInRange(height, peerHeight - 1)
    /\ NewNonce
    /\ UNCHANGED <<vars, bufferVars, delivering, peerHeight, omissions>>

\* A peer that has the last block of the range, or has just not got it yet,
\* is always there: ae.next < peerHeight.
SendRequest ==
    /\ ae.pc = "ask"
    /\ IF ae.tries > StateMaxRetries
       THEN ae' = Asleep /\ UNCHANGED fresh
       ELSE /\ ae' = [ae EXCEPT !.pc = "await", !.tries = @ + 1]
            /\ fresh' = fresh + 1
    /\ UNCHANGED <<vars, bufferVars, delivering, stale, peerHeight, omissions>>

\* StateResponseTimeout.
Timeout ==
    /\ ae.pc = "await"
    /\ ae' = [ae EXCEPT !.pc = "ask"]
    /\ UNCHANGED <<vars, bufferVars, delivering, netVars>>

\* A response with another nonce uses up the try.
ReceiveStale ==
    /\ ae.pc = "await" /\ stale
    /\ stale' \in BOOLEAN
    /\ ae' = [ae EXCEPT !.pc = "ask"]
    /\ UNCHANGED <<vars, bufferVars, delivering, fresh, peerHeight, omissions>>

\* What a peer of height h answers; a block it cannot read is left out.
handleStateRequest(start, end, h, unread) ==
    {n \in start..Min({h, end}) : n < h /\ n \notin unread}

ReceiveFrom(h, unread) ==
    LET payloads == handleStateRequest(ae.prev, ae.next, h, unread) IN
    /\ ae.pc = "await" /\ fresh > 0 /\ h >= ae.next
    /\ fresh' = fresh - 1
    /\ Cardinality(unread) <= omissions /\ omissions' = omissions - Cardinality(unread)
    /\ ae' = IF payloads = {} THEN [ae EXCEPT !.pc = "ask"]
             ELSE [pc |-> "add", end |-> ae.end, todo |-> payloads, index |-> Max(payloads)]
    /\ UNCHANGED <<vars, bufferVars, delivering, stale, peerHeight>>

Receive ==
    \E h \in 1..peerHeight, unread \in SUBSET Unreadable : ReceiveFrom(h, unread)

\* handleStateResponse: addPayload of one payload after the other, blocking
\* while the buffer is too full; then the next range.
HandleResponse ==
    /\ ae.pc = "add" /\ Unlocked
    /\ Cardinality(buf) <= StateBlockBufferSize * 2
    /\ Push(Min(ae.todo))
    /\ LET rest == ae.todo \ {Min(ae.todo)} IN
       IF rest # {} THEN ae' = [ae EXCEPT !.todo = rest] /\ UNCHANGED <<fresh, stale>>
       ELSE IF ae.index + 1 <= ae.end THEN ae' = requestBlocksInRange(ae.index + 1, ae.end) /\ NewNonce
       ELSE ae' = Asleep /\ UNCHANGED <<fresh, stale>>
    /\ UNCHANGED <<vars, delivering, peerHeight, omissions>>

-----------------------------------------------------------------------------
(* The process ends and starts again; the buffer begins at the height.     *)

Restart ==
    IF pc' = "down"
    THEN /\ next' = 0 /\ buf' = {} /\ ready' = FALSE /\ delivering' = "waits"
         /\ ae' = Asleep /\ NewNonce
         /\ UNCHANGED <<peerHeight, omissions>>
    ELSE UNCHANGED gossipVars

LedgerSteps ==
    /\ \/ Proceed \/ Prepare \/ StorePvtData \/ AppendBlock \/ SaveInfo \/ IndexBlock
       \/ CommitState \/ CommitHistory \/ Finish
    /\ Restart

LedgerFails == (Crash \/ WriteFails) /\ Restart

LedgerOpens ==
    /\ SyncInfo \/ Truncate \/ SyncIndex \/ OpenLedger \/ RecommitState \/ RecommitHistory
    /\ UNCHANGED gossipVars

\* Mutant: the buffer starts behind the private data store.
StartsBehindPvtData ==
    /\ Opened
    /\ next' = pvtHeight
    /\ UNCHANGED <<buf, ready, delivering, ae, netVars>>

\* NewGossipStateProvider.
StateProviderStarts ==
    /\ Opened
    /\ next' = height
    /\ UNCHANGED <<buf, ready, delivering, ae, netVars>>

-----------------------------------------------------------------------------
Transfer == AntiEntropy \/ SendRequest \/ Timeout \/ HandleResponse

GNext ==
    \/ Ready \/ Deliver \/ DeliverAborts \/ LedgerSteps \/ LedgerFails
    \/ LedgerOpens \/ StateProviderStarts
    \/ Transfer \/ ReceiveStale \/ Receive \/ PeersAdvance
    \/ \E n \in 1..(Len(chain) - 1) : Gossip(n)

GSpec == GInit /\ [][GNext]_gvars

\* A peer that has all the blocks answers in time.
ReceiveAll == ReceiveFrom(peerHeight, {})

\* The goroutines run, and when peers are asked again and again, such a peer
\* is among them.
GFairSpec ==
    /\ GSpec
    /\ WF_gvars(Ready \/ Deliver) /\ WF_gvars(LedgerSteps)
    /\ WF_gvars(LedgerOpens \/ StateProviderStarts)
    /\ WF_gvars(Transfer)
    /\ SF_gvars(ReceiveAll)

-----------------------------------------------------------------------------
(* The ledger is handed the block it expects, never one before or after    *)
(* it, in whatever order blocks arrive, whenever the process starts again  *)
(* and also when a validation could not be executed (Pop, Push,            *)
(* deliverPayloads, NewPayloadsBuffer).                                    *)
RightBlock == pc \in {"start", "prepare", "pvt", "append"} => num = height

(* No wake-up is lost: when deliverPayloads waits and the next block is in *)
(* the buffer, the channel it waits on holds a notification (Push, Pop,    *)
(* drainReadChannel).                                                      *)
NotifiedOfNext == (next \in buf /\ delivering = "waits") => ready

\* Every block that the other peers have is in the ledger.
CaughtUp == height = peerHeight
=============================================================================
