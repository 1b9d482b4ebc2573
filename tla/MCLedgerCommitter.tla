-------------------------- MODULE MCLedgerCommitter --------------------------
(* Blocks for TLC: those whose graph is built, with every dependency a      *)
(* transaction can name, and those that are committed, with what a worker   *)
(* can find, alone and along dependencies.                                  *)
EXTENDS LedgerCommitter, TLC

MCTxIDs == {"a", "b", "c", "d", "x"}

Set(reads, writes) == [Decodes |-> TRUE, Reads |-> reads, Writes |-> writes]
Broken == [Decodes |-> FALSE, Reads |-> {}, Writes |-> {}]
Ns(public) == [Public |-> public, Hashed |-> [c \in {} |-> {}]]
Private(hashed) == [Public |-> Set({}, {}), Hashed |-> "col" :> hashed]

Act(response, dep, ns) ==
    [Kind |-> "ChaincodeAction", Response |-> response,
     HasDependency |-> dep # NoTxID, DependentTxID |-> dep,
     ResultsDecode |-> TRUE, NsRwset |-> ns]

Tx(id, actions) == [Parses |-> TRUE, TxID |-> id, Actions |-> actions]

One(id, response, dep, ns) == Tx(id, <<Act(response, dep, ns)>>)

Empty == "cc" :> Ns(Set({}, {}))
X == "cc" :> Ns(Set({}, {"k"}))
ReadX == "cc" :> Ns(Set({"k"}, {}))
PrivateX == "cc" :> Private(Set({}, {"k"}))
OnePart == "cc" :> Ns(Broken) @@ "dd" :> Ns(Set({}, {"k"}))
BothParts == "cc" :> Ns(Set({}, {"k"})) @@ "dd" :> Ns(Set({"k"}, {}))

\* Two parents and a child of each.
Families ==
    {<<One("a", ra, NoTxID, X), One("b", rb, NoTxID, X),
       One("c", rc, "a", Empty), One("d", "ok", db, nd)>> :
        ra \in {"ok", "failed"}, rb \in {"ok", "nil"}, rc \in {"ok", "failed"},
        db \in {"b", "c", "x"}, nd \in {Empty, ReadX}}

\* Read-write sets of a parent and of its child.
Pairs ==
    {<<One("a", "ok", NoTxID, na), One("b", "ok", "a", nb)>> :
        na, nb \in {Empty, X, ReadX, PrivateX}}

\* Ids that occur twice, cycles, transactions and actions that do not decode.
Odd ==
    {<<One("a", "ok", NoTxID, X), One("a", "failed", "b", X), One("b", "ok", NoTxID, X)>>,
     <<One("a", "ok", "b", X), One("b", "ok", "a", X), One("c", "ok", "b", X)>>,
     <<[One("a", "ok", NoTxID, X) EXCEPT !.Parses = FALSE], One("b", "ok", "a", X)>>,
     <<Tx("a", <<Act("ok", NoTxID, X), [Act("ok", NoTxID, X) EXCEPT !.Kind = "garbage"]>>),
       One("b", "ok", "a", X)>>,
     <<Tx("a", <<[Act("ok", NoTxID, X) EXCEPT !.ResultsDecode = FALSE]>>), One("b", "ok", "a", X)>>,
     <<[One("a", "ok", NoTxID, X) EXCEPT !.Parses = FALSE]>>,
     <<>>}

\* One parent with three children, and three transactions on their own.
Wide ==
    {<<One("a", ra, NoTxID, X), One("b", "ok", p, Empty), One("c", "failed", p, Empty),
       One("d", "ok", p, ReadX)>> : ra \in {"ok", "failed"}, p \in {"a", "x"}}

CommitBlocks == Families \cup Pairs \cup Odd \cup Wide

\* A namespace that does not decode beside one with a conflict.
UndecodableBlocks ==
    {<<One("a", "ok", NoTxID, BothParts), One("b", "ok", "a", OnePart)>>}

\* What protoutil.CreateSignedTx makes of an endorsed proposal.
ClientBlocks ==
    {<<Tx("a", <<[Act("ok", NoTxID, X) EXCEPT !.Kind = "ChaincodeActionPayload"]>>)>>}

-----------------------------------------------------------------------------
(* Blocks whose graph is built and no more.                                *)
NoSets == [n \in {} |-> {}]
Node(id, dep) == One(id, "ok", dep, NoSets)

\* Four distinct transactions with any dependencies.
Distinct ==
    LET Choice(id) == {Node(id, d) : d \in MCTxIDs \cup {NoTxID}}
    IN  {<<p, q, r, s>> : p \in Choice("a"), q \in Choice("b"),
                          r \in Choice("c"), s \in Choice("d")}

\* Ids that occur twice.
Repeated ==
    LET Choice == {Node(id, d) : id \in {"a", "b"}, d \in {NoTxID, "a", "b", "x"}}
    IN  [1..3 -> Choice]

\* Several actions, undecodable ones, and transactions that do not parse.
Malformed ==
    LET Choice == {[Tx("a", <<>>) EXCEPT !.Parses = FALSE]}
                  \cup {Tx("b", <<[Act(r, "a", NoSets) EXCEPT !.Kind = k], Act("ok", "c", NoSets)>>) :
                           k \in {"ChaincodeAction", "ChaincodeActionPayload", "garbage"},
                           r \in {"nil", "failed"}}
                  \cup {Node("a", "b"), Node("c", "a")}
    IN  [1..3 -> Choice]

GraphBlocks == Distinct \cup Repeated \cup Malformed

-----------------------------------------------------------------------------
CONSTANT Modes

VARIABLE chosen

MCBlocks == CommitBlocks \cup IF "graph" \in Modes THEN GraphBlocks ELSE {}

MCInit ==
    /\ Init /\ chosen \in Modes
    /\ chosen = "graph" => block \in GraphBlocks
    /\ chosen = "commit" => block \in (Blocks \ GraphBlocks) \cup CommitBlocks

MCMain == IF chosen = "graph" THEN Build ELSE Main

MCNext ==
    /\ UNCHANGED chosen
    /\ MCMain \/ (chosen = "commit" /\ (ConcurrentMapWrites \/ \E t \in TxIDs : Worker(t)))

MCSpec == MCInit /\ [][MCNext]_<<vars, chosen>>

\* The Go scheduler runs every goroutine that can run.
MCFairSpec == MCSpec /\ WF_vars(MCMain) /\ \A t \in TxIDs : WF_vars(Worker(t))

(* The passes of CalculateLevels come to an end, cycles included, and      *)
(* CommitLegacy comes back, whatever the block: no goroutine waits for     *)
(* another for ever.                                                       *)
CommitsEnd ==
    <>(IF chosen = "graph" THEN dagPC = "done" ELSE mainPC \in {"returned", "error", "fatal"})
=============================================================================
