------------------------------ MODULE RaftChain ------------------------------
(***************************************************************************)
(* The chain of an ordering service node (orderer/consensus/etcdraft):     *)
(* the run loop that orders messages into blocks while it leads, proposes  *)
(* the blocks to raft, and writes the blocks that raft has committed.      *)
(*                                                                         *)
(* Raft itself is a library.  It is modelled by what the chain relies on:  *)
(* terms, logs, elections by a quorum of logs that are not newer,          *)
(* replication and commitment, with a new leader starting its term with an *)
(* empty entry.  The run loop learns of a new leader later than raft, and  *)
(* node.run sends what raft has to say, votes included, only after the run *)
(* loop has taken what raft has found.                                     *)
(*                                                                         *)
(* A block is its number, an identity in place of its hash, that of the    *)
(* block before it, and whether it is a config block.  Changes of the set  *)
(* of nodes are not modelled, nor that a config block that may have one    *)
(* keeps the index of the block before; a cancelled proposer stops at once.*)
(***************************************************************************)
EXTENDS Naturals, Sequences, FiniteSets

CONSTANTS
    Nodes,
    Electable,          \* the nodes whose chain is followed; the others vote
    MaxInflightBlocks,
    Bounds              \* bounds on the blocks created, and on the elections,
                        \* crashes and transfers together

ASSUME RaftAssumption ==
    /\ Electable \subseteq Nodes /\ IsFiniteSet(Nodes)
    /\ MaxInflightBlocks \in Nat \ {0} /\ Bounds \subseteq Nat \X Nat

VARIABLES
    \* raft
    term, log,          \* of each node
    leaders,            \* the nodes that lead, for all that their raft knows
    committed,          \* the committed log
    transferring,       \* the leaders that are passing on the leadership
    \* the chain of a node
    ch,                 \* the variables of run and of Chain
    ledger,             \* the blocks written, each with its raft index
    writing,            \* the nodes whose last block may not be on disk yet
    \* history and bounds
    panics, made, bound

raftVars == <<term, log, leaders, committed, transferring>>
boundVars == <<made, bound>>
vars == <<raftVars, ch, ledger, writing, panics, boundVars>>

None == [num |-> 0, id |-> 0, prev |-> 0, config |-> FALSE]
Genesis == [block |-> None, index |-> 0]

NoOp(t) == [term |-> t, block |-> None]

lastBlock(n) == ledger[n][Len(ledger[n])].block

\* NewChain and the start of run; appliedIndex is in the last block.
NewChain(index) ==
    [leads |-> FALSE, justElected |-> FALSE, configInflight |-> FALSE,
     blockInflight |-> 0, accepting |-> TRUE, bc |-> None, pending |-> FALSE,
     propC |-> <<>>, proposer |-> "none",
     delivered |-> 0, appliedIndex |-> index]

Init ==
    /\ term = [n \in Nodes |-> 0] /\ log = [n \in Nodes |-> <<>>]
    /\ leaders = {} /\ committed = <<>>
    /\ transferring = {}
    /\ ch = [n \in Electable |-> NewChain(0)]
    /\ ledger = [n \in Electable |-> <<Genesis>>] /\ writing = {}
    /\ panics = {} /\ made = 0 /\ bound \in Bounds

-----------------------------------------------------------------------------
(* Raft.                                                                   *)

Disturbed == bound[2] > 0 /\ bound' = [bound EXCEPT ![2] = @ - 1]

Quorum(Q) == Cardinality(Q) * 2 > Cardinality(Nodes)

LastTerm(l) == IF l = <<>> THEN 0 ELSE l[Len(l)].term

UpToDate(l, than) ==
    \/ LastTerm(l) > LastTerm(than)
    \/ LastTerm(l) = LastTerm(than) /\ Len(l) >= Len(than)

Elect(n, Q) ==
    LET t == term[n] + 1 IN
    /\ n \notin leaders /\ \A m \in Q \cap Electable : ~ch[m].leads
    /\ n \in Q /\ Quorum(Q) /\ Disturbed
    /\ \A m \in Q \ {n} : term[m] < t /\ UpToDate(log[n], log[m])
    /\ term' = [m \in Nodes |-> IF m \in Q THEN t ELSE term[m]]
    /\ log' = [log EXCEPT ![n] = Append(@, NoOp(t))]
    /\ leaders' = (leaders \ Q) \cup {n}
    /\ transferring' = transferring \ Q
    /\ UNCHANGED <<committed, ch, ledger, writing, panics, made>>

\* A leader that hears of no quorum, or of a higher term (one whose run loop
\* is not yet informed loses only to a later election).
StepDown(n) ==
    /\ n \in leaders /\ ch[n].leads
    /\ leaders' = leaders \ {n} /\ transferring' = transferring \ {n}
    /\ UNCHANGED <<term, log, committed, ch, ledger, writing, panics, boundVars>>

Replicate(n, m) ==
    /\ n \in leaders /\ ch[n].leads /\ m # n /\ term[m] <= term[n]
    /\ log[m] # log[n] \/ term[m] # term[n]
    /\ term' = [term EXCEPT ![m] = term[n]]
    /\ log' = [log EXCEPT ![m] = log[n]]
    /\ leaders' = leaders \ {m} /\ transferring' = transferring \ {m}
    /\ UNCHANGED <<committed, ch, ledger, writing, panics, boundVars>>

\* A leader counts what is acknowledged to it in its own term.
Commit(n) ==
    LET has(m) == /\ term[m] = term[n] /\ Len(log[m]) >= Len(log[n])
                  /\ log[m][Len(log[n])] = log[n][Len(log[n])]
    IN
    /\ n \in leaders /\ Len(log[n]) > Len(committed)
    /\ LastTerm(log[n]) = term[n]
    /\ Quorum({m \in Nodes : has(m)})
    /\ committed' = log[n]
    /\ UNCHANGED <<term, log, leaders, transferring, ch, ledger, writing, panics, boundVars>>

-----------------------------------------------------------------------------
(* Leadership in the run loop.                                             *)

becomeLeader(c) ==
    [c EXCEPT !.leads = TRUE, !.blockInflight = 0, !.justElected = TRUE,
              !.accepting = FALSE, !.propC = <<>>, !.proposer = "runs"]

becomeFollower(c) ==
    [c EXCEPT !.leads = FALSE, !.proposer = "none", !.propC = <<>>,
              !.blockInflight = 0, !.pending = FALSE, !.accepting = TRUE, !.bc = None]

Informed(n) == ch[n].leads = (n \in leaders)

\* Mutant of AfterApply: a new leader that has applied entries before does not
\* wait for the rest of its log.
ServesEarly(c, lastIndex, tip) ==
    IF c.justElected
    THEN IF c.delivered = 0 \/ c.configInflight THEN c
         ELSE [c EXCEPT !.bc = [tip EXCEPT !.prev = 0, !.config = FALSE],
                        !.accepting = TRUE, !.justElected = FALSE]
    ELSE IF c.configInflight THEN [c EXCEPT !.accepting = FALSE]
    ELSE IF c.blockInflight < MaxInflightBlocks THEN [c EXCEPT !.accepting = TRUE]
    ELSE c

\* The end of the applyC case.
AfterApply(c, lastIndex, tip) ==
    IF c.justElected
    THEN IF lastIndex > c.appliedIndex \/ c.configInflight THEN c
         ELSE [c EXCEPT !.bc = [tip EXCEPT !.prev = 0, !.config = FALSE],
                        !.accepting = TRUE, !.justElected = FALSE]
    ELSE IF c.configInflight THEN [c EXCEPT !.accepting = FALSE]
    ELSE IF c.blockInflight < MaxInflightBlocks THEN [c EXCEPT !.accepting = TRUE]
    ELSE c

\* An apply with a soft state.  A leader elsewhere and no leader at all are
\* one to the run loop: it only answers a submitter differently.
ApplySoft(n) ==
    LET d == IF n \in leaders THEN becomeLeader(ch[n]) ELSE becomeFollower(ch[n]) IN
    /\ ~Informed(n)
    /\ ch' = [ch EXCEPT ![n] = AfterApply(d, Len(log[n]), lastBlock(n))]
    /\ UNCHANGED <<raftVars, ledger, writing, panics, boundVars>>

-----------------------------------------------------------------------------
(* The end of a process and its restart; raft has its log on disk.         *)

\* The ledgers that a process may leave on disk: the goroutine of WriteBlock
\* has appended the last block or not (the genesis block is there).  Only a
\* crash, and a node that pulls the block, can tell.
OnDisk(n) ==
    LET g == ledger[n] IN
    {g} \cup IF n \in writing /\ Len(g) > 1 THEN {SubSeq(g, 1, Len(g) - 1)} ELSE {}

Restart(n) ==
    \E g \in OnDisk(n) :
        /\ ledger' = [ledger EXCEPT ![n] = g] /\ writing' = writing \ {n}
        /\ ch' = [ch EXCEPT ![n] = NewChain(g[Len(g)].index)]
        /\ leaders' = leaders \ {n} /\ transferring' = transferring \ {n}
        /\ UNCHANGED <<term, log, committed>>

Crash(n) ==
    /\ Disturbed
    /\ Restart(n)
    /\ UNCHANGED <<panics, made>>

-----------------------------------------------------------------------------
(* An apply with a committed entry: apply, writeBlock, writeConfigBlock.   *)
(* Raft reports a leader no later than the entries of that leader.         *)

\* Mutant of writeBlock: it returns to the config block before the count.
ConfigNotCounted(c, b) ==
    [c EXCEPT !.blockInflight = IF @ > 0 /\ ~b.config THEN @ - 1 ELSE @,
              !.configInflight = @ /\ ~b.config]

writeBlock(c, b) ==
    [c EXCEPT !.blockInflight = IF @ > 0 THEN @ - 1 ELSE 0,
              !.configInflight = @ /\ ~b.config]

\* WriteBlock is left with the block, WriteConfigBlock appends it.
Writes(n, b) == IF b.config THEN writing \ {n} ELSE writing \cup {n}

Apply(n) ==
    LET c == ch[n]
        i == c.delivered + 1
        b == log[n][i].block
        next == lastBlock(n).num + 1
        writes == b # None /\ i > c.appliedIndex /\ b.num = next
        d == [IF writes THEN writeBlock(c, b) ELSE c EXCEPT
                 !.delivered = i, !.appliedIndex = IF i > @ THEN i ELSE @]
    IN
    /\ Informed(n)
    /\ i <= Len(committed) /\ i <= Len(log[n]) /\ log[n][i] = committed[i]
    /\ IF b # None /\ i > c.appliedIndex /\ b.num > next
       THEN panics' = panics \cup {"gap"} /\ Restart(n)
       ELSE /\ ledger' = IF writes
                         THEN [ledger EXCEPT ![n] = Append(@, [block |-> b, index |-> i])]
                         ELSE ledger
            /\ writing' = IF writes THEN Writes(n, b) ELSE writing
            /\ ch' = [ch EXCEPT ![n] = AfterApply(d, Len(log[n]), lastBlock(n)')]
            /\ UNCHANGED <<raftVars, panics>>
    /\ UNCHANGED boundVars

\* snapC and catchUp: the one block that is missing comes with the snapshot,
\* several are pulled from a node that has them on disk, the last one too.
CatchUp(n, m) ==
    LET i == ch[m].appliedIndex IN
    /\ n \notin leaders /\ Informed(n) /\ i > ch[n].appliedIndex
    /\ Len(ledger[m]) > Len(ledger[n])
    /\ ledger[m][Len(ledger[m])].index = i
    /\ ledger' = [ledger EXCEPT ![n] = ledger[m]]
    /\ writing' = IF Len(ledger[m]) = Len(ledger[n]) + 1 THEN Writes(n, lastBlock(m))
                  ELSE Writes(n, lastBlock(m)) \ {m}
    /\ ch' = [ch EXCEPT ![n].appliedIndex = i, ![n].delivered = i]
    /\ log' = [log EXCEPT ![n] = IF Len(@) >= i /\ @[i] = committed[i] THEN @
                                ELSE SubSeq(committed, 1, i)]
    /\ term' = [term EXCEPT ![n] = IF @ < committed[i].term THEN committed[i].term ELSE @]
    /\ UNCHANGED <<leaders, committed, transferring, panics, boundVars>>

-----------------------------------------------------------------------------
(* Ordering.                                                               *)

\* What ordered returns for a normal message: the number of batches, and
\* whether messages are left pending (BlockCutter.Ordered).
Cuts(pending) == {<<0, TRUE>>, <<1, FALSE>>} \cup IF pending THEN {<<1, TRUE>>, <<2, FALSE>>} ELSE {}

\* createNextBlock and propose: the blocks of k batches, the last of them a
\* config block if so; a full channel is a panic.
NewBlocks(bc, k, config) ==
    [i \in 1..k |-> [num |-> bc.num + i, id |-> made + i,
                     prev |-> IF i = 1 THEN bc.id ELSE made + i - 1,
                     config |-> config /\ i = k]]

\* propC here also holds the block with which the proposer waits for raft,
\* so that it may exceed the channel by one.
propose(n, c, k, config) ==
    LET blocks == NewBlocks(c.bc, k, config)
        queue == c.propC \o blocks
        held == IF c.proposer = "runs" THEN 1 ELSE 0
    IN
    /\ made + k <= bound[1] /\ made' = made + k
    /\ \/ /\ k > 0 /\ Len(queue) > MaxInflightBlocks
          /\ panics' = panics \cup {"full"}
          /\ Restart(n)
       \/ /\ k > 0 => Len(queue) <= MaxInflightBlocks + held
          /\ ch' = [ch EXCEPT ![n] =
                [c EXCEPT !.propC = queue, !.blockInflight = @ + k,
                          !.configInflight = @ \/ config,
                          !.bc = IF k = 0 THEN @ ELSE blocks[k]]]
          /\ UNCHANGED <<raftVars, ledger, writing, panics>>
    /\ UNCHANGED bound

\* The end of the submitC case.
AfterSubmit(c, k, config) ==
    [c EXCEPT !.accepting = ~(c.configInflight \/ config
                              \/ c.blockInflight + k >= MaxInflightBlocks)]

Serves(n) == ch[n].accepting /\ ch[n].leads

Submit(n) ==
    \E cut \in Cuts(ch[n].pending) :
        /\ Serves(n)
        /\ propose(n, AfterSubmit([ch[n] EXCEPT !.pending = cut[2]], cut[1], FALSE), cut[1], FALSE)

\* Mutant of SubmitConfig: what is pending is not cut before the message.
PendingNotCut(n) ==
    /\ Serves(n)
    /\ propose(n, AfterSubmit(ch[n], 1, TRUE), 1, TRUE)

SubmitConfig(n) ==
    LET k == IF ch[n].pending THEN 2 ELSE 1 IN
    /\ Serves(n)
    /\ propose(n, AfterSubmit([ch[n] EXCEPT !.pending = FALSE], k, TRUE), k, TRUE)

\* A config message that replaces the certificate of the leader, or evicts
\* it: raft is asked to pass on the leadership, and drops proposals meanwhile.
Abdicate(n) ==
    /\ Serves(n) /\ n \in leaders \ transferring
    /\ Disturbed
    /\ transferring' = transferring \cup {n}
    /\ UNCHANGED <<term, log, leaders, committed, ch, ledger, writing, panics, made>>

TransferEnds(n) ==
    /\ n \in transferring
    /\ transferring' = transferring \ {n}
    /\ UNCHANGED <<term, log, leaders, committed, ch, ledger, writing, panics, boundVars>>

BatchTimer(n) ==
    /\ ch[n].pending
    /\ propose(n, [ch[n] EXCEPT !.pending = FALSE], 1, FALSE)

-----------------------------------------------------------------------------
(* The goroutine that proposes.                                            *)

Propose(n) ==
    /\ ch[n].proposer = "runs" /\ ch[n].propC # <<>>
    /\ n \in leaders \ transferring
    /\ log' = [log EXCEPT ![n] = Append(@, [term |-> term[n], block |-> Head(ch[n].propC)])]
    /\ ch' = [ch EXCEPT ![n].propC = Tail(@)]
    /\ UNCHANGED <<term, leaders, committed, transferring, ledger, writing, panics, boundVars>>

\* Mutant of ProposeDropped: the proposer goes on with the next block.
GoesOnAfterDrop(n) ==
    /\ ch[n].proposer = "runs" /\ ch[n].propC # <<>>
    /\ n \notin leaders \ transferring
    /\ ch' = [ch EXCEPT ![n].propC = Tail(@)]
    /\ UNCHANGED <<raftVars, ledger, writing, panics, boundVars>>

\* ErrProposalDropped, of a leadership that is being passed on or of a leader
\* elsewhere (without any leader raft lets the proposer wait): the goroutine
\* returns, the channel stays.
ProposeDropped(n) ==
    /\ ch[n].proposer = "runs" /\ ch[n].propC # <<>>
    /\ n \notin leaders \ transferring
    /\ ch' = [ch EXCEPT ![n].propC = Tail(@), ![n].proposer = "dead"]
    /\ UNCHANGED <<raftVars, ledger, writing, panics, boundVars>>

-----------------------------------------------------------------------------
Raft ==
    \/ \E n \in Electable : StepDown(n) \/ Commit(n) \/ TransferEnds(n)
    \/ \E n \in Electable, m \in Nodes : Replicate(n, m)
    \/ \E n \in Electable : \E Q \in SUBSET Nodes : Elect(n, Q)

Chain(n) ==
    \/ ApplySoft(n) \/ Apply(n)
    \/ Submit(n) \/ SubmitConfig(n) \/ Abdicate(n) \/ BatchTimer(n)
    \/ Propose(n) \/ ProposeDropped(n) \/ Crash(n)

Next ==
    \/ Raft
    \/ \E n \in Electable : Chain(n)
    \/ \E n, m \in Electable : CatchUp(n, m)

Spec == Init /\ [][Next]_vars

-----------------------------------------------------------------------------
(* Properties.                                                             *)

\* The ledgers of two ordering nodes never disagree, and every block
\* written names the block before it: whatever leaders come and go, whatever
\* blocks they have proposed and lost, the blocks form one hash chain
\* (createNextBlock, writeBlock, catchUp).
LedgersAgree ==
    \A n, m \in Electable : \A i \in 1..Len(ledger[n]) :
        /\ i <= Len(ledger[m]) => ledger[n][i] = ledger[m][i]
        /\ i > 1 => ledger[n][i].block.prev = ledger[n][i - 1].block.id

\* No committed block ever skips a number: the panic of writeBlock is never
\* reached, although a proposer may fail with blocks queued behind it.
NoGap == "gap" \notin panics

\* The counter by which a leader limits itself is exact: it has created
\* blockInflight blocks more than it has written (propose, writeBlock,
\* becomeLeader).
InflightExact ==
    \A n \in Electable :
        LET c == ch[n] IN
        c.leads /\ ~c.justElected =>
            c.blockInflight = c.bc.num - lastBlock(n).num

\* A leader has no block behind a config block that is not yet written,
\* neither proposed nor queued: what is ordered next is validated against
\* the new configuration (ordered, and the end of the submitC case of run).
ConfigAlone ==
    \A n \in leaders :
        LET c == ch[n]
            queued == [i \in 1..Len(c.propC) |-> [term |-> term[n], block |-> c.propC[i]]]
            inFlight == SubSeq(log[n], c.appliedIndex + 1, Len(log[n])) \o queued
        IN
        c.leads /\ ~c.justElected =>
            \A i \in 1..Len(inFlight) : inFlight[i].block.config => i = Len(inFlight)

\* Not so: "this is true when there is config block or ConfChange in flight"
\* (configInflight of Chain).  A leader that loses its place, and its config
\* block, keeps configInflight; elected again, it never serves.
ConfigInflightExact ==
    \A n \in Electable :
        ch[n].configInflight =>
            \/ \E i \in 1..Len(ch[n].propC) : ch[n].propC[i].config
            \/ \E m \in Nodes : \E i \in 1..Len(log[m]) :
                   log[m][i].block.config /\ log[m][i].block.num > lastBlock(n).num

\* Not so: the comment of the panic in propose calls it a programming error.
NeverFull == "full" \notin panics
=============================================================================
