------------------------ MODULE ShardLeaderPlacement -------------------------
(***************************************************************************)
(* Type correctness of ShardLeader, for any set of requests, any batch     *)
(* size, any channel capacities and any number of peers; Positions, which  *)
(* relates the cursors of runRaft to the log, is what the types of the     *)
(* apply steps rest on.  Then that a request is in at most one place of    *)
(* the shard, and only once there: in proposeC, in batchQueue, in the      *)
(* hands of a goroutine that proposes, in flight in the raft node, or in   *)
(* the log.                                                                *)
(***************************************************************************)
EXTENDS ShardLeader, TLAPS

Positions ==
    /\ applied <= readyTo /\ readyTo <= Len(log)
    /\ raftPC \in {"select", "flush", "propose"} => applied = readyTo
    /\ raftPC = "entry" =>
          /\ applied < readyTo /\ commitIndex = applied + 1
          /\ reqPos <= Len(Unmarshal(log[applied + 1]))
    /\ raftPC # "entry" => commitIndex <= applied

-----------------------------------------------------------------------------
(* The facts about sequences the proofs rest on.                           *)
LEMMA SeqElement ==
    ASSUME NEW S, NEW s \in Seq(S), NEW i \in 1..Len(s)
    PROVE  s[i] \in S
  OBVIOUS

LEMMA SeqEmpty == ASSUME NEW S PROVE <<>> \in Seq(S) /\ Len(<<>>) = 0
  OBVIOUS

LEMMA SeqFirst ==
    ASSUME NEW S, NEW s \in Seq(S), s # <<>>
    PROVE  /\ Len(s) \in Nat \ {0} /\ Head(s) = s[1] /\ Head(s) \in S
           /\ Tail(s) \in Seq(S) /\ Len(Tail(s)) = Len(s) - 1
           /\ \A i \in 1..Len(Tail(s)) : Tail(s)[i] = s[i + 1]
<1>1. Len(s) \in Nat \ {0}
  OBVIOUS
<1> QED
  BY <1>1

-----------------------------------------------------------------------------
(* What the queue operations do to the set of requests a queue holds.      *)
Injective(s) == \A i, j \in 1..Len(s) : s[i] = s[j] => i = j

LEMMA ElemsEmpty == Elems(<<>>) = {} /\ Injective(<<>>)
  BY DEF Elems, Injective

LEMMA ElemsAppend ==
    ASSUME NEW S, NEW s \in Seq(S), NEW x \in S
    PROVE  /\ Elems(Append(s, x)) = Elems(s) \cup {x}
           /\ Injective(s) /\ x \notin Elems(s) => Injective(Append(s, x))
<1> DEFINE t == Append(s, x)
<1>1. Len(s) \in Nat /\ Len(t) = Len(s) + 1
  OBVIOUS
<1>2. t[Len(s) + 1] = x /\ \A i \in 1..Len(s) : t[i] = s[i]
  OBVIOUS
<1> HIDE DEF t
<1>3. Elems(t) = Elems(s) \cup {x}
  BY <1>1, <1>2 DEF Elems
<1>4. Injective(s) /\ x \notin Elems(s) => Injective(t)
  BY <1>1, <1>2 DEF Elems, Injective
<1> QED
  BY Zenon, <1>3, <1>4 DEF t

LEMMA ElemsTail ==
    ASSUME NEW S, NEW s \in Seq(S), s # <<>>, Injective(s)
    PROVE  /\ Head(s) \in Elems(s)
           /\ Elems(Tail(s)) = Elems(s) \ {Head(s)}
           /\ Injective(Tail(s))
<1>1. Len(s) \in Nat \ {0} /\ Head(s) = s[1]
  BY Zenon, SeqFirst
<1>2. /\ Tail(s) \in Seq(S) /\ Len(Tail(s)) = Len(s) - 1
      /\ \A i \in 1..Len(Tail(s)) : Tail(s)[i] = s[i + 1]
  BY Zenon, SeqFirst
<1>3. \A i \in 2..Len(s) : i - 1 \in 1..Len(Tail(s)) /\ Tail(s)[i - 1] = s[i]
  BY SMTT(30), <1>1, <1>2
<1>4. Elems(Tail(s)) \subseteq Elems(s) \ {Head(s)}
  BY SMTT(30), <1>1, <1>2 DEF Elems, Injective
<1>5. Elems(s) \ {Head(s)} \subseteq Elems(Tail(s))
  <2> SUFFICES ASSUME NEW i \in 1..Len(s), s[i] # s[1] PROVE s[i] \in Elems(Tail(s))
    BY Zenon, <1>1 DEF Elems
  <2>1. i \in 2..Len(s)
    BY <1>1
  <2> QED
    BY Zenon, <2>1, <1>3 DEF Elems
<1>6. Injective(Tail(s))
  BY <1>1, <1>2 DEF Injective
<1>7. 1 \in 1..Len(s) /\ Head(s) \in Elems(s)
  BY <1>1 DEF Elems
<1> QED
  BY Zenon, <1>4, <1>5, <1>6, <1>7

(* No two of the places a..l share a request, and s holds all of them.     *)
Disjoint(a, b, c, d, f, l, s) ==
    /\ a \cap (b \cup c \cup d \cup f \cup l) = {}
    /\ b \cap (c \cup d \cup f \cup l) = {}
    /\ c \cap (d \cup f \cup l) = {}
    /\ d \cap (f \cup l) = {}
    /\ f \cap l = {}
    /\ (a \cup b \cup c \cup d \cup f \cup l) \subseteq s

(* Every request of s is in one of the places.                             *)
Somewhere(a, b, c, d, f, l, s) == s \subseteq a \cup b \cup c \cup d \cup f \cup l

\* Proposing a batch moves its requests from one of the two hands to the proposals in flight
\* (sharding/shard_leader.go, flushBatch): no request is in two places afterwards.
LEMMA DisjointMoves ==
    ASSUME NEW a, NEW b, NEW c, NEW d, NEW f, NEW l, NEW s, Disjoint(a, b, c, d, f, l, s)
    PROVE  /\ Disjoint(a, b, {}, d, f \cup c, l, s)
           /\ Disjoint(a, b, c, {}, f \cup d, l, s)
  BY Zenon DEF Disjoint

(* And none is lost.                                                       *)
LEMMA SomewhereMoves ==
    ASSUME NEW a, NEW b, NEW c, NEW d, NEW f, NEW l, NEW s, Somewhere(a, b, c, d, f, l, s)
    PROVE  /\ Somewhere(a, b, {}, d, f \cup c, l, s)
           /\ Somewhere(a, b, c, {}, f \cup d, l, s)
  BY Zenon DEF Somewhere

-----------------------------------------------------------------------------
(* The log that StartNode bootstraps is a sequence of entries.             *)
LEMMA BootstrapLog ==
    /\ [i \in 1..NumPeers |->
          [Term |-> 1, Kind |-> "conf", Requests |-> <<>>]] \in Seq(Entry)
    /\ Len([i \in 1..NumPeers |->
          [Term |-> 1, Kind |-> "conf", Requests |-> <<>>]]) = NumPeers
<1> DEFINE c == [Term |-> 1, Kind |-> "conf", Requests |-> <<>>]
<1>1. c \in Entry
  BY DEF Entry
<1> QED
  BY <1>1, ConfigAssumption

LEMMA InitType == Init => TypeOK
<1> SUFFICES ASSUME Init PROVE TypeOK
  BY Zenon
<1>1. TypeQueues
  BY ConfigAssumption DEF Init, TypeQueues
<1>2. TypeResults
  BY ConfigAssumption DEF Init, TypeResults, NoInfo, Info
<1>3. TypeControl
  BY ConfigAssumption DEF Init, TypeControl
<1>4. TypeNode
  BY ConfigAssumption, BootstrapLog DEF Init, TypeNode
<1>5. TypeFlags
  BY Zenon DEF Init, TypeFlags
<1> QED
  BY Zenon, <1>1, <1>2, <1>3, <1>4, <1>5 DEF TypeOK

(* What Propose does to the node, whether it is accepted or refused.       *)
LEMMA ProposeType ==
    ASSUME TypeOK, NEW p \in Proposal, Accept(p) \/ Refuse
    PROVE  TypeNode' /\ TypeFlags'
<1>1. CASE Accept(p)
  BY Zenon, <1>1 DEF Accept, TypeOK, TypeNode, TypeFlags, stopVars
<1>2. CASE Refuse
  BY Zenon, <1>2 DEF Refuse, TypeOK, TypeNode, TypeFlags, nodeVars, stopVars
<1> QED
  BY Zenon, <1>1, <1>2

(* Committing an entry extends the log by one.                             *)
LEMMA ExtendLog ==
    ASSUME TypeOK, NEW k \in {"empty", "batch", "abort"}, NEW s \in Seq(Requests),
           NEW t \in Nat, Extend(k, s, t)
    PROVE  /\ log' \in Seq(Entry)
           /\ Len(log') = Len(log) + 1
           /\ log'[Len(log) + 1] = [Term |-> t, Kind |-> k, Requests |-> s]
           /\ \A i \in 1..Len(log) : log'[i] = log[i]
<1>1. [Term |-> t, Kind |-> k, Requests |-> s] \in Entry
  BY Zenon DEF Entry
<1> QED
  BY <1>1 DEF Extend, TypeOK, TypeNode

LEMMA LogEntry ==
    ASSUME TypeOK, NEW i \in 1..Len(log)
    PROVE  /\ log[i] \in Entry
           /\ Unmarshal(log[i]) \in Seq(Requests)
<1>1. log[i] \in Entry
  BY Zenon, SeqElement DEF TypeOK, TypeNode
<1>2. log[i].Requests \in Seq(Requests)
  BY Zenon, <1>1 DEF Entry
<1> QED
  BY <1>1, <1>2 DEF Unmarshal

LEMMA LastTermType == TypeOK => LastTerm \in Nat
<1> SUFFICES ASSUME TypeOK PROVE LastTerm \in Nat
  BY Zenon
<1>1. Len(log) \in 1..Len(log)
  BY ConfigAssumption DEF TypeOK, TypeNode
<1> QED
  BY Zenon, <1>1, LogEntry DEF LastTerm, Entry

(* The result of checkDependencies and the request it is about.            *)
LEMMA ApplyRequestType ==
    ASSUME TypeOK, ApplyRequest, applied < Len(log)
    PROVE  TypeOK'
<1> USE ConfigAssumption, RequestAssumption
<1> DEFINE e == log[applied + 1]
           r == Unmarshal(e)[reqPos + 1]
<1>1. e \in Entry /\ Unmarshal(e) \in Seq(Requests) /\ r \in Requests
  <2>1. applied + 1 \in 1..Len(log)
    BY DEF TypeOK, TypeNode, TypeControl
  <2>2. e \in Entry /\ Unmarshal(e) \in Seq(Requests)
    BY Zenon, <2>1, LogEntry
  <2>3. reqPos + 1 \in 1..Len(Unmarshal(e))
    BY <2>2 DEF ApplyRequest, TypeOK, TypeControl
  <2> QED
    BY Zenon, <2>2, <2>3, SeqElement
<1>2. PICK dep \in checkDependencies(r) :
          /\ updateDependencyMap(r, dep.HasDependency)
          /\ handled' = Append(handled,
                [Request |-> r, HasDependency |-> dep.HasDependency,
                 DependentTxID |-> dep.DependentTxID])
  BY Zenon DEF ApplyRequest
<1>3. dep \in Info
  <2>1. CASE FoundKeys(r) = {}
    <3>1. dep = NoInfo
      BY Zenon, <1>2, <2>1 DEF checkDependencies
    <3> QED
      BY Zenon, <3>1 DEF NoInfo, Info
  <2>2. CASE FoundKeys(r) # {}
    <3>1. PICK k \in FoundKeys(r) :
              dep = [DependentTxID |-> variableMap[k].DependentTxID,
                     HasDependency |-> TRUE]
      BY Zenon, <1>2, <2>2 DEF checkDependencies
    <3>2. k \in Keys
      BY Zenon, <1>1, <3>1 DEF FoundKeys, Known
    <3>3. variableMap[k].DependentTxID \in TxIDs \cup {NoTx}
      BY Zenon, <3>2 DEF Info, TypeOK, TypeResults
    <3> QED
      BY Zenon, <3>1, <3>3 DEF Info
  <2> QED
    BY Zenon, <2>1, <2>2
<1>4. variableMap' \in [Keys -> Info] /\ expired' \subseteq Keys
  BY Zenon, <1>1, <1>2, <1>3 DEF updateDependencyMap, Info, TypeOK, TypeResults
<1>5. handled' \in Seq(Handled)
  BY <1>1, <1>2, <1>3 DEF Handled, Info, TypeOK, TypeResults
<1>6. [TxID |-> TxID[r], CommitIndex |-> commitIndex, Term |-> e.Term,
       LeaderID |-> IF nodeStopped THEN 0 ELSE lead] \in Proof
  BY SMTT(30), <1>1 DEF Proof, Entry, TypeOK, TypeControl, TypeNode
<1>7. commitC' \in Seq(Proof) /\ Len(commitC') <= CommitCap
  BY <1>6 DEF ApplyRequest, SendProof, TypeOK, TypeResults
<1>8. TypeQueues' /\ TypeControl' /\ TypeNode' /\ TypeFlags'
  BY SMTT(30) DEF ApplyRequest, unchangedByApply, batchVars, stopVars, nodeVars,
         TypeOK, TypeQueues, TypeControl, TypeNode, TypeFlags
<1> QED
  BY Zenon, <1>4, <1>5, <1>7, <1>8 DEF TypeOK, TypeResults

LEMMA NextType == TypeOK /\ Positions /\ [Next]_vars => TypeOK'
<1> SUFFICES ASSUME TypeOK, Positions, [Next]_vars PROVE TypeOK'
  BY Zenon
<1> USE ConfigAssumption, RequestAssumption
        DEF chanVars, mapVars, raftVars, batchVars, stopVars, nodeVars, rest,
            unchangedByApply, unchangedByFlush
<1>1. CASE PeerCampaign
  BY <1>1 DEF PeerCampaign,
         TypeOK, TypeQueues, TypeResults, TypeControl, TypeFlags, TypeNode
<1>2. CASE WinElection
  BY <1>2 DEF WinElection,
         TypeOK, TypeQueues, TypeResults, TypeControl, TypeFlags, TypeNode
<1>3. CASE CommitEmpty
  <2>1. log' \in Seq(Entry) /\ Len(log') = Len(log) + 1
    BY Zenon, <1>3, ExtendLog, SeqEmpty DEF CommitEmpty, TypeOK, TypeNode
  <2> QED
    BY SMTT(30), <1>3, <2>1 DEF CommitEmpty, TypeOK, TypeQueues, TypeResults, TypeControl, TypeFlags, TypeNode
<1>4. CASE RaftTick
  <2>1. TypeFlags'
    BY Zenon, <1>4 DEF RaftTick, Campaign, Heartbeat, TypeOK, TypeFlags
  <2>2. TypeNode'
    BY <1>4 DEF RaftTick, Campaign, Heartbeat, TypeOK, TypeNode
  <2> QED
    BY Zenon, <1>4, <2>1, <2>2 DEF RaftTick, TypeOK, TypeQueues, TypeResults, TypeControl, TypeFlags, TypeNode
<1>5. CASE RaftReady
  <2>1. TypeFlags'
    BY Zenon, <1>5 DEF RaftReady, TypeOK, TypeFlags
  <2>2. TypeControl'
    BY <1>5 DEF RaftReady, TypeOK, TypeControl, TypeNode
  <2> QED
    BY Zenon, <1>5, <2>1, <2>2 DEF RaftReady, TypeOK, TypeQueues, TypeResults, TypeNode
<1>6. CASE RaftSend
  BY SMTT(30), <1>6 DEF RaftSend,
         TypeOK, TypeQueues, TypeResults, TypeControl, TypeFlags, TypeNode
<1>7. CASE SkipEntry
  BY SMTT(30), <1>7 DEF SkipEntry,
         TypeOK, TypeQueues, TypeResults, TypeControl, TypeFlags, TypeNode
<1>8. CASE ApplyEntry
  BY SMTT(30), <1>8 DEF ApplyEntry,
         TypeOK, TypeQueues, TypeResults, TypeControl, TypeFlags, TypeNode
<1>9. CASE ApplyRequest
  BY SMTT(30), <1>9, ApplyRequestType DEF Positions, ApplyRequest, TypeOK, TypeNode, TypeControl
<1>10. CASE EndEntry
  BY <1>10 DEF EndEntry,
         TypeOK, TypeQueues, TypeResults, TypeControl, TypeFlags, TypeNode
<1>11. CASE Advance
  BY Zenon, <1>11 DEF Advance,
         TypeOK, TypeQueues, TypeResults, TypeControl, TypeFlags, TypeNode
<1>12. CASE ReceiveRequest
  BY SMTT(30), <1>12 DEF ReceiveRequest,
         TypeOK, TypeQueues, TypeResults, TypeControl, TypeFlags, TypeNode
<1>13. CASE RaftFlush
  BY <1>13 DEF RaftFlush,
         TypeOK, TypeQueues, TypeResults, TypeControl, TypeFlags, TypeNode
<1>14. CASE RaftPropose
  <2>1. [Kind |-> "batch", Requests |-> raftBatch] \in Proposal
    BY Zenon DEF Proposal, TypeOK, TypeQueues
  <2>2. TypeNode' /\ TypeFlags'
    BY Zenon, <1>14, <2>1, ProposeType DEF RaftPropose
  <2> QED
    BY <1>14, <2>2 DEF RaftPropose, TypeOK, TypeQueues, TypeResults, TypeControl
<1>15. CASE RaftStop
  BY Zenon, <1>15 DEF RaftStop,
         TypeOK, TypeQueues, TypeResults, TypeControl, TypeFlags, TypeNode
<1>16. CASE BatcherTick
  BY SMTT(30), <1>16 DEF BatcherTick,
         TypeOK, TypeQueues, TypeResults, TypeControl, TypeFlags, TypeNode
<1>17. CASE BatcherPropose
  <2>1. [Kind |-> "batch", Requests |-> batcherBatch] \in Proposal
    BY Zenon DEF Proposal, TypeOK, TypeQueues
  <2>2. TypeNode' /\ TypeFlags'
    BY Zenon, <1>17, <2>1, ProposeType DEF BatcherPropose
  <2> QED
    BY SMTT(30), <1>17, <2>2 DEF BatcherPropose, TypeOK, TypeQueues, TypeResults, TypeControl
<1>18. CASE BatcherStop
  BY Zenon, <1>18 DEF BatcherStop,
         TypeOK, TypeQueues, TypeResults, TypeControl, TypeFlags, TypeNode
<1>19. CASE StopNode
  BY Zenon, <1>19 DEF StopNode,
         TypeOK, TypeQueues, TypeResults, TypeControl, TypeFlags, TypeNode
<1>20. CASE ConsumeMessages
  BY SMTT(30), <1>20 DEF ConsumeMessages,
         TypeOK, TypeQueues, TypeResults, TypeControl, TypeFlags, TypeNode
<1>21. CASE ExpiryPasses
  BY Zenon, <1>21 DEF ExpiryPasses, Known,
         TypeOK, TypeQueues, TypeResults, TypeControl, TypeFlags, TypeNode
<1>22. CASE TakeProof
  BY SMTT(30), <1>22 DEF TakeProof,
         TypeOK, TypeQueues, TypeResults, TypeControl, TypeFlags, TypeNode
<1>23. CASE Stop
  BY Zenon, <1>23 DEF Stop,
         TypeOK, TypeQueues, TypeResults, TypeControl, TypeFlags, TypeNode
<1>24. ASSUME NEW r \in Requests, Submit(r) PROVE TypeOK'
  BY SMTT(30), <1>24 DEF Submit, TypeOK, TypeQueues, TypeResults, TypeControl, TypeFlags, TypeNode
<1>25. ASSUME NEW r \in Requests, HandleAbort(r) PROVE TypeOK'
  <2>1. [Kind |-> "abort", Requests |-> <<r>>] \in Proposal
    BY <1>25 DEF Proposal
  <2>2. TypeNode' /\ TypeFlags'
    BY Zenon, <1>25, <2>1, ProposeType DEF HandleAbort
  <2> QED
    BY Zenon, <1>25, <2>2 DEF HandleAbort, TypeOK, TypeQueues, TypeResults, TypeControl
<1>26. ASSUME NEW r \in Requests, CommitRemote(r) PROVE TypeOK'
  <2>1. log' \in Seq(Entry) /\ Len(log') = Len(log) + 1
    <3>1. <<r>> \in Seq(Requests) /\ LastTerm \in Nat
      BY SMTT(30), <1>26, LastTermType
    <3> QED
      BY Zenon, <1>26, <3>1, ExtendLog DEF CommitRemote
  <2> QED
    BY SMTT(30), <1>26, <2>1 DEF CommitRemote, TypeOK, TypeQueues, TypeResults, TypeControl, TypeFlags, TypeNode
<1>27. ASSUME NEW l \in 1..NumPeers, PeerLeads(l) PROVE TypeOK'
  BY SMTT(30), <1>27 DEF PeerLeads, TypeOK, TypeQueues, TypeResults, TypeControl, TypeFlags, TypeNode
<1>28. ASSUME NEW q \in inflight, CommitProposal(q) PROVE TypeOK'
  <2>1. q.Kind \in {"batch", "abort"} /\ q.Requests \in Seq(Requests)
    BY Zenon, <1>28 DEF Proposal, TypeOK, TypeNode
  <2>2. log' \in Seq(Entry) /\ Len(log') = Len(log) + 1
    BY Zenon, <1>28, <2>1, ExtendLog, LastTermType DEF CommitProposal
  <2> QED
    BY SMTT(30), <1>28, <2>2 DEF CommitProposal, TypeOK, TypeQueues, TypeResults, TypeControl, TypeFlags, TypeNode
<1>29. ASSUME NEW q \in inflight, LoseProposal(q) PROVE TypeOK'
  BY Zenon, <1>29 DEF LoseProposal, TypeOK, TypeQueues, TypeResults, TypeControl, TypeFlags, TypeNode
<1>30. CASE UNCHANGED vars
  BY SMTT(30), <1>30 DEF vars, TypeOK, TypeQueues, TypeResults, TypeControl, TypeFlags, TypeNode
<1> QED
  BY Zenon, <1>1, <1>2, <1>3, <1>4, <1>5, <1>6, <1>7, <1>8, <1>9, <1>10, <1>11, <1>12,
     <1>13, <1>14, <1>15, <1>16, <1>17, <1>18, <1>19, <1>20, <1>21, <1>22, <1>23,
     <1>24, <1>25, <1>26, <1>27, <1>28, <1>29, <1>30
     DEF Next, CallerNext, InternalNext, NodeNext

(* Only a commit changes the log, and it leaves runRaft alone.             *)
LEMMA LogGrows ==
    ASSUME TypeOK, [Next]_vars
    PROVE  \/ UNCHANGED log
           \/ /\ UNCHANGED raftVars
              /\ Len(log') = Len(log) + 1
              /\ \A i \in 1..Len(log) : log'[i] = log[i]
<1> USE DEF nodeVars, stopVars, raftVars, rest
<1>1. CASE CommitEmpty
  BY Zenon, <1>1, ExtendLog, SeqEmpty DEF CommitEmpty, TypeOK, TypeNode
<1>2. ASSUME NEW q \in inflight, CommitProposal(q)
      PROVE  /\ UNCHANGED raftVars
             /\ Len(log') = Len(log) + 1
             /\ \A i \in 1..Len(log) : log'[i] = log[i]
  <2>1. q.Kind \in {"batch", "abort"} /\ q.Requests \in Seq(Requests)
    BY Zenon, <1>2 DEF Proposal, TypeOK, TypeNode
  <2> QED
    BY Zenon, <1>2, <2>1, ExtendLog, LastTermType DEF CommitProposal
<1>3. ASSUME NEW r \in Requests, CommitRemote(r)
      PROVE  /\ UNCHANGED raftVars
             /\ Len(log') = Len(log) + 1
             /\ \A i \in 1..Len(log) : log'[i] = log[i]
  <2>1. <<r>> \in Seq(Requests) /\ LastTerm \in Nat
    BY LastTermType
  <2> QED
    BY Zenon, <1>3, <2>1, ExtendLog DEF CommitRemote
<1>4. ASSUME NEW r \in Requests, Submit(r) \/ HandleAbort(r)
      PROVE  UNCHANGED log
  BY ZenonT(30), <1>4 DEF Submit, HandleAbort, Accept, Refuse
<1>5. ASSUME PeerCampaign \/ WinElection \/ TakeProof \/ Stop \/ StopNode
                 \/ ConsumeMessages \/ ExpiryPasses \/ RaftTick \/ UNCHANGED vars
      PROVE  UNCHANGED log
  BY Zenon, <1>5 DEF PeerCampaign, WinElection, TakeProof, Stop, StopNode, vars,
              ConsumeMessages, ExpiryPasses, RaftTick, Campaign, Heartbeat
<1>6. ASSUME RaftReady \/ RaftSend \/ SkipEntry \/ ApplyEntry \/ ApplyRequest
                 \/ EndEntry \/ Advance \/ ReceiveRequest
      PROVE  UNCHANGED log
  BY Zenon, <1>6 DEF RaftReady, RaftSend, SkipEntry, ApplyEntry, ApplyRequest,
              EndEntry, Advance, ReceiveRequest, unchangedByApply
<1>7. ASSUME RaftFlush \/ RaftPropose \/ RaftStop \/ BatcherTick
                 \/ BatcherPropose \/ BatcherStop
      PROVE  UNCHANGED log
  BY Zenon, <1>7 DEF RaftFlush, RaftPropose, RaftStop, BatcherTick, BatcherPropose,
              BatcherStop, Accept, Refuse
<1>8. ASSUME NEW l \in 1..NumPeers, PeerLeads(l) PROVE UNCHANGED log
  BY Zenon, <1>8 DEF PeerLeads
<1>9. ASSUME NEW q \in inflight, LoseProposal(q) PROVE UNCHANGED log
  BY Zenon, <1>9 DEF LoseProposal
<1> QED
  BY Zenon, <1>1, <1>2, <1>3, <1>4, <1>5, <1>6, <1>7, <1>8, <1>9
     DEF Next, CallerNext, InternalNext, NodeNext

(* What moves the cursors of runRaft.                                      *)
LEMMA RaftMoves ==
    ASSUME [Next]_vars
    PROVE  \/ UNCHANGED <<raftPC, readyTo, applied, reqPos, commitIndex>>
           \/ RaftReady \/ RaftSend \/ SkipEntry \/ ApplyEntry \/ ApplyRequest
           \/ EndEntry \/ Advance \/ ReceiveRequest \/ RaftFlush \/ RaftPropose
           \/ RaftStop
<1> DEFINE same == UNCHANGED <<raftPC, readyTo, applied, reqPos, commitIndex>>
<1> USE DEF raftVars, rest
<1>1. ASSUME NEW r \in Requests, Submit(r) \/ HandleAbort(r) \/ CommitRemote(r)
      PROVE  same
  BY Zenon, <1>1 DEF Submit, HandleAbort, CommitRemote
<1>2. ASSUME NEW q \in inflight, CommitProposal(q) \/ LoseProposal(q) PROVE same
  BY Zenon, <1>2 DEF CommitProposal, LoseProposal
<1>3. ASSUME NEW l \in 1..NumPeers, PeerLeads(l) PROVE same
  BY Zenon, <1>3 DEF PeerLeads
<1>4. ASSUME PeerCampaign \/ WinElection \/ CommitEmpty \/ TakeProof \/ Stop
                 \/ StopNode \/ ConsumeMessages \/ ExpiryPasses \/ RaftTick
                 \/ UNCHANGED vars
      PROVE  same
  BY Zenon, <1>4 DEF PeerCampaign, WinElection, CommitEmpty, TakeProof, Stop, StopNode,
              ConsumeMessages, ExpiryPasses, RaftTick, vars
<1>5. ASSUME BatcherTick \/ BatcherPropose \/ BatcherStop PROVE same
  BY Zenon, <1>5 DEF BatcherTick, BatcherPropose, BatcherStop, unchangedByFlush
<1> QED
  BY Zenon, <1>1, <1>2, <1>3, <1>4, <1>5 DEF Next, CallerNext, InternalNext, NodeNext

LEMMA NextPositions ==
    ASSUME TypeOK, TypeOK', Positions, [Next]_vars
    PROVE  Positions'
<1>1. Len(log) \in Nat /\ Len(log') \in Nat
  BY DEF TypeOK, TypeNode
<1>2. Len(log') >= Len(log) /\ \A i \in 1..Len(log) : log'[i] = log[i]
  BY <1>1, LogGrows
<1>3. /\ applied \in Nat /\ readyTo \in Nat /\ reqPos \in Nat /\ commitIndex \in Nat
      /\ raftPC # "entry" \/ applied + 1 \in 1..Len(log)
  BY SMTT(30), <1>1 DEF TypeOK, TypeControl, Positions
<1>4. raftPC = "entry" => Unmarshal(log'[applied + 1]) = Unmarshal(log[applied + 1])
  BY Zenon, <1>2, <1>3
<1>5. CASE UNCHANGED <<raftPC, readyTo, applied, reqPos, commitIndex>>
  BY SMTT(30), <1>1, <1>2, <1>3, <1>4, <1>5 DEF Positions, Unmarshal
<1>6. CASE RaftReady
  BY <1>1, <1>3, <1>6 DEF RaftReady, Positions
<1>7. CASE RaftSend \/ Advance \/ ReceiveRequest
  <2>1. CASE RaftSend
    BY Zenon, <1>1, <1>3, <2>1 DEF RaftSend, Positions, nodeVars
  <2>2. CASE Advance
    BY Zenon, <1>1, <1>3, <2>2 DEF Advance, Positions, unchangedByApply, nodeVars
  <2>3. CASE ReceiveRequest
    BY Zenon, <1>1, <1>3, <2>3 DEF ReceiveRequest, Positions, nodeVars
  <2> QED
    BY Zenon, <1>7, <2>1, <2>2, <2>3
<1>8. CASE SkipEntry
  BY SMTT(30), <1>1, <1>3, <1>8 DEF SkipEntry, Positions, unchangedByApply, nodeVars
<1>9. CASE RaftFlush \/ RaftPropose \/ RaftStop
  BY SMTT(30), <1>1, <1>2, <1>3, <1>9 DEF RaftFlush, RaftPropose, RaftStop, Positions,
                                unchangedByFlush
<1>10. CASE ApplyEntry
  <2>1. applied + 1 \in 1..Len(log)
    BY <1>1, <1>3, <1>10 DEF ApplyEntry, Positions
  <2>2. Unmarshal(log[applied + 1]) \in Seq(Requests)
    BY Zenon, <2>1, LogEntry
  <2>3. UNCHANGED <<readyTo, log>>
    BY Zenon, <1>10 DEF ApplyEntry, unchangedByApply, nodeVars
  <2> QED
    BY SMTT(30), <1>1, <1>3, <1>10, <2>2, <2>3 DEF ApplyEntry, Positions
<1>11. CASE ApplyRequest
  <2>1. Unmarshal(log[applied + 1]) \in Seq(Requests)
    BY Zenon, <1>3, <1>11, LogEntry DEF ApplyRequest
  <2>2. /\ reqPos < Len(Unmarshal(log[applied + 1])) /\ reqPos' = reqPos + 1
        /\ raftPC = "entry" /\ UNCHANGED <<raftPC, readyTo, applied, commitIndex, log>>
    BY Zenon, <1>11 DEF ApplyRequest, unchangedByApply, nodeVars
  <2> QED
    BY <1>1, <1>3, <2>1, <2>2 DEF Positions
<1>12. CASE EndEntry
  BY <1>1, <1>3, <1>12 DEF EndEntry, Positions, unchangedByApply, nodeVars
<1> QED
  BY Zenon, <1>5, <1>6, <1>7, <1>8, <1>9, <1>10, <1>11, <1>12, RaftMoves

(* Type correctness: every variable keeps its type, every channel stays    *)
(* within the capacity NewShardLeader gives it.                            *)
THEOREM TypeCorrect == Spec => []TypeOK
<1>1. Init => TypeOK /\ Positions
  BY InitType, BootstrapLog, ConfigAssumption DEF Init, Positions
<1>2. TypeOK /\ Positions /\ [Next]_vars => (TypeOK /\ Positions)'
  BY Zenon, NextType, NextPositions
<1> QED
  BY <1>1, <1>2, PTL DEF Spec

-----------------------------------------------------------------------------
(* Where a request is.                                                     *)

Held ==
    /\ raftPC # "propose" => raftBatch = <<>>
    /\ batcherPC # "propose" => batcherBatch = <<>>

OnceQueued ==
    /\ Injective(proposeC) /\ Injective(batchQueue)
    /\ Injective(raftBatch) /\ Injective(batcherBatch)

OnceFlight ==
    /\ \A p \in BatchesIn(inflight) : Injective(p.Requests)
    /\ \A p, q \in BatchesIn(inflight) :
          p # q => Elems(p.Requests) \cap Elems(q.Requests) = {}

OnceLog ==
    /\ \A i \in 1..Len(log) : Injective(Unmarshal(log[i]))
    /\ \A i, j \in 1..Len(log) :
          i # j => Elems(Unmarshal(log[i])) \cap Elems(Unmarshal(log[j])) = {}

Apart == Disjoint(Elems(proposeC), Elems(batchQueue), Elems(raftBatch),
                  Elems(batcherBatch), InFlight, InLog, submitted)

Placement == Held /\ OnceQueued /\ OnceFlight /\ OnceLog /\ Apart

-----------------------------------------------------------------------------
(* A committed entry adds its requests to the log.                         *)
LEMMA LogAdds ==
    ASSUME TypeOK, OnceLog, NEW e \in Entry, log' = Append(log, e),
           Injective(Unmarshal(e)), Elems(Unmarshal(e)) \cap InLog = {}
    PROVE  InLog' = InLog \cup Elems(Unmarshal(e)) /\ OnceLog'
<1> DEFINE n == Len(log)
<1>1. /\ n \in Nat /\ Len(log') = n + 1 /\ log'[n + 1] = e
      /\ \A i \in 1..n : log'[i] = log[i]
  BY DEF TypeOK, TypeNode
<1>2. \A i \in 1..(n + 1) : i \in 1..n \/ i = n + 1
  BY <1>1
<1>3. InLog' = InLog \cup Elems(Unmarshal(e))
  <2>1. \A i \in 1..n : Elems(Unmarshal(log'[i])) = Elems(Unmarshal(log[i]))
    BY Zenon, <1>1
  <2>2. 1..(n + 1) = (1..n) \cup {n + 1}
    BY SMTT(30), <1>1
  <2>3. InLog' = UNION {Elems(Unmarshal(log'[i])) : i \in 1..(n + 1)}
    BY Zenon, <1>1 DEF InLog, Elems, Unmarshal
  <2> QED
    BY SMTT(30), <1>1, <2>1, <2>2, <2>3 DEF InLog
<1>4. \A i \in 1..n : Elems(Unmarshal(log[i])) \subseteq InLog
  BY Zenon DEF InLog
<1>5. \A i \in 1..(n + 1) : Injective(Unmarshal(log'[i]))
  BY Zenon, <1>1, <1>2 DEF OnceLog
<1>6. \A i, j \in 1..(n + 1) :
         i # j => Elems(Unmarshal(log'[i])) \cap Elems(Unmarshal(log'[j])) = {}
  <2> SUFFICES ASSUME NEW i \in 1..(n + 1), NEW j \in 1..(n + 1), i # j
               PROVE  Elems(Unmarshal(log'[i])) \cap Elems(Unmarshal(log'[j])) = {}
    BY Zenon
  <2>1. CASE i \in 1..n /\ j \in 1..n
    BY Zenon, <1>1, <2>1 DEF OnceLog
  <2>2. CASE i = n + 1 /\ j \in 1..n
    BY Zenon, <1>1, <1>4, <2>2
  <2>3. CASE j = n + 1 /\ i \in 1..n
    BY Zenon, <1>1, <1>4, <2>3
  <2> QED
    BY Zenon, <1>2, <2>1, <2>2, <2>3
<1>7. OnceLog'
  BY Zenon, <1>1, <1>5, <1>6 DEF OnceLog
<1> QED
  BY Zenon, <1>3, <1>7

(* What entering and leaving the node's pipeline does to the requests in   *)
(* flight.                                                                 *)
LEMMA FlightAddsBatch ==
    ASSUME OnceFlight, NEW s \in Seq(Requests), Injective(s), Elems(s) \cap InFlight = {},
           inflight' = inflight \cup {[Kind |-> "batch", Requests |-> s]}
    PROVE  InFlight' = InFlight \cup Elems(s) /\ OnceFlight'
<1> DEFINE p == [Kind |-> "batch", Requests |-> s]
<1>1. BatchesIn(inflight') = BatchesIn(inflight) \cup {p}
  BY DEF BatchesIn
<1>2. p.Requests = s
  BY Zenon
<1>3. \A q \in BatchesIn(inflight) : Elems(q.Requests) \subseteq InFlight
  BY Zenon DEF InFlight
<1> HIDE DEF p
<1>4. UNION {Elems(q.Requests) : q \in BatchesIn(inflight')} = InFlight \cup Elems(s)
  BY ZenonT(30), <1>1, <1>2 DEF InFlight
<1>5. \A q \in BatchesIn(inflight') : Injective(q.Requests)
  BY Zenon, <1>1, <1>2 DEF OnceFlight
<1>6. \A q, t \in BatchesIn(inflight') :
         q # t => Elems(q.Requests) \cap Elems(t.Requests) = {}
  BY Zenon, <1>1, <1>2, <1>3 DEF OnceFlight
<1> QED
  BY Zenon, <1>4, <1>5, <1>6 DEF InFlight, OnceFlight, BatchesIn, Elems, Injective

LEMMA FlightDrops ==
    ASSUME OnceFlight, NEW p \in inflight, inflight' = inflight \ {p}
    PROVE  /\ InFlight' = IF p.Kind = "batch" THEN InFlight \ Elems(p.Requests) ELSE InFlight
           /\ OnceFlight'
<1>1. BatchesIn(inflight') = BatchesIn(inflight) \ {p}
  BY Zenon DEF BatchesIn
<1>2. UNION {Elems(q.Requests) : q \in BatchesIn(inflight) \ {p}}
        = IF p.Kind = "batch" THEN InFlight \ Elems(p.Requests) ELSE InFlight
  <2>1. CASE p.Kind = "batch"
    <3>1. p \in BatchesIn(inflight)
      BY Zenon, <2>1 DEF BatchesIn
    <3>2. \A q \in BatchesIn(inflight) : q # p => Elems(q.Requests) \cap Elems(p.Requests) = {}
      BY Zenon, <3>1 DEF OnceFlight
    <3> QED
      BY Zenon, <2>1, <3>1, <3>2 DEF InFlight
  <2>2. CASE p.Kind # "batch"
    BY Zenon, <2>2 DEF InFlight, BatchesIn
  <2> QED
    BY Zenon, <2>1, <2>2
<1>3. \A q \in BatchesIn(inflight') : Injective(q.Requests)
  BY Zenon, <1>1 DEF OnceFlight
<1>4. \A q, t \in BatchesIn(inflight') :
         q # t => Elems(q.Requests) \cap Elems(t.Requests) = {}
  BY Zenon, <1>1 DEF OnceFlight
<1> QED
  BY Zenon, <1>1, <1>2, <1>3, <1>4 DEF InFlight, OnceFlight, BatchesIn, Elems, Injective

LEMMA FlightSame ==
    ASSUME BatchesIn(inflight') = BatchesIn(inflight)
    PROVE  InFlight' = InFlight /\ (OnceFlight => OnceFlight')
  BY Zenon DEF InFlight, OnceFlight, BatchesIn, Elems, Injective

LEMMA LogSame ==
    ASSUME log' = log
    PROVE  InLog' = InLog /\ (OnceLog => OnceLog')
  BY Zenon DEF InLog, OnceLog

(* A batch is held only between the swap under batchLock and Propose.      *)
LEMMA NextHeld ==
    ASSUME Held, [Next]_vars
    PROVE  Held'
<1> USE DEF Held, rest, raftVars, batchVars, unchangedByApply, unchangedByFlush
<1>1. ASSUME NEW r \in Requests, Submit(r) \/ HandleAbort(r) \/ CommitRemote(r)
      PROVE  Held'
  BY Zenon, <1>1 DEF Submit, HandleAbort, CommitRemote
<1>2. ASSUME NEW q \in inflight, CommitProposal(q) \/ LoseProposal(q) PROVE Held'
  BY Zenon, <1>2 DEF CommitProposal, LoseProposal
<1>3. ASSUME NEW l \in 1..NumPeers, PeerLeads(l) PROVE Held'
  BY Zenon, <1>3 DEF PeerLeads
<1>4. ASSUME PeerCampaign \/ WinElection \/ CommitEmpty \/ TakeProof \/ Stop
                 \/ StopNode \/ ConsumeMessages \/ ExpiryPasses \/ RaftTick
                 \/ UNCHANGED vars
      PROVE  Held'
  <2>1. CASE PeerCampaign \/ WinElection \/ CommitEmpty
    BY Zenon, <2>1 DEF PeerCampaign, WinElection, CommitEmpty
  <2>2. CASE TakeProof \/ Stop \/ StopNode
    BY Zenon, <2>2 DEF TakeProof, Stop, StopNode
  <2>3. CASE ConsumeMessages \/ ExpiryPasses \/ RaftTick
    BY Zenon, <2>3 DEF ConsumeMessages, ExpiryPasses, RaftTick
  <2>4. CASE UNCHANGED vars
    BY Zenon, <2>4 DEF vars
  <2>5. QED
    BY Zenon, <1>4, <2>1, <2>2, <2>3, <2>4
<1>5. ASSUME BatcherTick \/ BatcherPropose \/ BatcherStop \/ RaftFlush
                 \/ RaftPropose \/ RaftStop
      PROVE  Held'
  BY Zenon, <1>5 DEF BatcherTick, BatcherPropose, BatcherStop, RaftFlush, RaftPropose,
              RaftStop
<1>6. ASSUME RaftReady \/ RaftSend \/ SkipEntry \/ ApplyEntry \/ ApplyRequest
                 \/ EndEntry \/ Advance \/ ReceiveRequest
      PROVE  Held'
  BY Zenon, <1>6 DEF RaftReady, RaftSend, SkipEntry, ApplyEntry, ApplyRequest, EndEntry,
              Advance, ReceiveRequest
<1> QED
  BY Zenon, <1>1, <1>2, <1>3, <1>4, <1>5, <1>6 DEF Next, CallerNext, InternalNext, NodeNext

(* The rest of Placement, action by action; the same account of where      *)
(* requests go shows that a single-node shard loses none.                  *)
Movement == OnceQueued /\ OnceFlight /\ OnceLog /\ Apart

Keeps == Movement' /\ (NothingLost => NothingLost')

LEMMA SubmitKeeps ==
    ASSUME TypeOK, Held, Movement, NEW r \in Requests, Submit(r)
    PROVE  Keeps
<1>1. /\ proposeC' = Append(proposeC, r) /\ r \notin submitted
      /\ submitted' = submitted \cup {r}
      /\ UNCHANGED <<batchQueue, raftBatch, batcherBatch, inflight, log, nodeStopped>>
  BY Zenon DEF Submit, raftVars, batchVars, nodeVars, stopVars
<1>2. r \notin Elems(proposeC)
  BY Zenon, <1>1 DEF Movement, Apart, Disjoint
<1>3. Elems(proposeC') = Elems(proposeC) \cup {r} /\ Injective(proposeC')
  BY <1>1, <1>2, ElemsAppend DEF TypeOK, TypeQueues, Movement, OnceQueued
<1>4. InFlight' = InFlight /\ OnceFlight' /\ InLog' = InLog /\ OnceLog'
  BY Zenon, <1>1, FlightSame, LogSame DEF Movement
<1>5. OnceQueued'
  BY Zenon, <1>1, <1>3 DEF Movement, OnceQueued
<1>6. Apart'
  BY <1>1, <1>3, <1>4 DEF Movement, Apart, Disjoint
<1>7. NothingLost => NothingLost'
  BY Zenon, <1>1, <1>3, <1>4 DEF NothingLost
<1> QED
  BY Zenon, <1>4, <1>5, <1>6, <1>7 DEF Keeps, Movement

LEMMA ReceiveKeeps ==
    ASSUME TypeOK, Held, Movement, ReceiveRequest
    PROVE  Keeps
<1> DEFINE r == Head(proposeC)
<1>1. /\ proposeC # <<>> /\ proposeC' = Tail(proposeC)
      /\ batchQueue' = Append(batchQueue, r)
      /\ UNCHANGED <<submitted, raftBatch, batcherBatch, inflight, log, nodeStopped>>
  BY Zenon DEF ReceiveRequest, batchVars, nodeVars, stopVars
<1>2. /\ r \in Elems(proposeC) /\ Elems(proposeC') = Elems(proposeC) \ {r}
      /\ Injective(proposeC')
  BY Zenon, <1>1, ElemsTail DEF TypeOK, TypeQueues, Movement, OnceQueued
<1>3. r \in Requests /\ r \notin Elems(batchQueue)
  BY Zenon, <1>1, <1>2, SeqFirst DEF Movement, Apart, Disjoint, TypeOK, TypeQueues
<1> HIDE DEF r
<1>4. Elems(batchQueue') = Elems(batchQueue) \cup {r} /\ Injective(batchQueue')
  BY <1>1, <1>3, ElemsAppend DEF TypeOK, TypeQueues, Movement, OnceQueued
<1>5. InFlight' = InFlight /\ OnceFlight' /\ InLog' = InLog /\ OnceLog'
  BY Zenon, <1>1, FlightSame, LogSame DEF Movement
<1>6. OnceQueued'
  BY Zenon, <1>1, <1>2, <1>4 DEF Movement, OnceQueued
<1>7. Apart'
  BY SMTT(30), <1>1, <1>2, <1>4, <1>5 DEF Movement, Apart, Disjoint
<1>8. NothingLost => NothingLost'
  BY Zenon, <1>1, <1>2, <1>4, <1>5 DEF NothingLost
<1> QED
  BY Zenon, <1>5, <1>6, <1>7, <1>8 DEF Keeps, Movement

LEMMA FlushKeeps ==
    ASSUME TypeOK, Held, Movement, RaftFlush \/ BatcherTick
    PROVE  Keeps
<1>1. /\ batchQueue' = <<>>
      /\ \/ raftBatch = <<>> /\ raftBatch' = batchQueue /\ batcherBatch' = batcherBatch
         \/ batcherBatch = <<>> /\ batcherBatch' = batchQueue /\ raftBatch' = raftBatch
      /\ UNCHANGED <<submitted, proposeC, inflight, log, nodeStopped>>
  BY Zenon DEF RaftFlush, BatcherTick, Held, unchangedByFlush, batchVars, nodeVars, stopVars,
         chanVars
<1>2. Elems(batchQueue') = {} /\ Injective(batchQueue')
  BY Zenon, <1>1, ElemsEmpty
<1>3. InFlight' = InFlight /\ OnceFlight' /\ InLog' = InLog /\ OnceLog'
  BY Zenon, <1>1, FlightSame, LogSame DEF Movement
<1>4. OnceQueued'
  BY Zenon, <1>1, <1>2 DEF Movement, OnceQueued
<1>5. Apart'
  BY Zenon, <1>1, <1>2, <1>3, ElemsEmpty DEF Movement, Apart, Disjoint
<1>6. NothingLost => NothingLost'
  BY Zenon, <1>1, <1>2, <1>3, ElemsEmpty DEF NothingLost
<1> QED
  BY Zenon, <1>3, <1>4, <1>5, <1>6 DEF Keeps, Movement

LEMMA ProposeKeeps ==
    ASSUME TypeOK, Held, Movement, RaftPropose \/ BatcherPropose
    PROVE  Keeps
<1>1. PICK s \in {raftBatch, batcherBatch} :
         /\ \/ Accept([Kind |-> "batch", Requests |-> s])
            \/ nodeStopped /\ UNCHANGED <<nodeStopped, inflight, log>>
         /\ \/ s = raftBatch /\ raftBatch' = <<>> /\ UNCHANGED batcherBatch
            \/ s = batcherBatch /\ batcherBatch' = <<>> /\ UNCHANGED raftBatch
         /\ UNCHANGED <<submitted, proposeC, batchQueue>>
  <2>1. CASE RaftPropose
    <3> WITNESS raftBatch \in {raftBatch, batcherBatch}
    <3> QED
      BY Zenon, <2>1 DEF RaftPropose, Refuse, unchangedByFlush, batchVars, nodeVars, stopVars, chanVars
  <2>2. CASE BatcherPropose
    <3> WITNESS batcherBatch \in {raftBatch, batcherBatch}
    <3> QED
      BY Zenon, <2>2 DEF BatcherPropose, Refuse, unchangedByFlush, nodeVars, stopVars, chanVars
  <2> QED
    BY Zenon, <2>1, <2>2
<1>2. s \in Seq(Requests) /\ Injective(s) /\ Elems(s) \cap InFlight = {}
  <2>1. s \in Seq(Requests)
    BY Zenon, <1>1 DEF TypeOK, TypeQueues
  <2>2. Injective(s)
    BY Zenon, <1>1 DEF Movement, OnceQueued
  <2>3. Elems(raftBatch) \cap InFlight = {} /\ Elems(batcherBatch) \cap InFlight = {}
    BY Zenon DEF Movement, Apart, Disjoint
  <2> QED
    BY Zenon, <1>1, <2>1, <2>2, <2>3
<1>3. OnceQueued'
  BY Zenon, <1>1, ElemsEmpty DEF Movement, OnceQueued
<1>4. CASE Accept([Kind |-> "batch", Requests |-> s])
  <2>1. /\ inflight' = inflight \cup {[Kind |-> "batch", Requests |-> s]}
        /\ UNCHANGED <<log, nodeStopped>>
    BY Zenon, <1>4 DEF Accept, stopVars
  <2>2. InFlight' = InFlight \cup Elems(s) /\ OnceFlight'
    BY Zenon, <2>1, <1>2, FlightAddsBatch DEF Movement
  <2>3. InLog' = InLog /\ OnceLog'
    BY Zenon, <2>1, LogSame DEF Movement
  <2>4. Apart'
    <3>1. /\ Elems(proposeC') = Elems(proposeC) /\ Elems(batchQueue') = Elems(batchQueue)
          /\ submitted' = submitted
      BY Zenon, <1>1
    <3>2. Disjoint(Elems(proposeC), Elems(batchQueue), Elems(raftBatch),
                   Elems(batcherBatch), InFlight, InLog, submitted)
      BY Zenon DEF Movement, Apart
    <3>3. CASE s = raftBatch /\ raftBatch' = <<>> /\ UNCHANGED batcherBatch
      <4>1. /\ Elems(raftBatch') = {} /\ Elems(batcherBatch') = Elems(batcherBatch)
            /\ InFlight' = InFlight \cup Elems(raftBatch)
        BY Zenon, <3>3, <2>2, ElemsEmpty
      <4>2. Disjoint(Elems(proposeC), Elems(batchQueue), {}, Elems(batcherBatch),
                       InFlight \cup Elems(raftBatch), InLog, submitted)
        BY Zenon, <3>2, DisjointMoves
      <4> QED
        BY Zenon, <3>1, <4>1, <4>2, <2>3 DEF Apart
    <3>4. CASE s = batcherBatch /\ batcherBatch' = <<>> /\ UNCHANGED raftBatch
      <4>1. /\ Elems(batcherBatch') = {} /\ Elems(raftBatch') = Elems(raftBatch)
            /\ InFlight' = InFlight \cup Elems(batcherBatch)
        BY Zenon, <3>4, <2>2, ElemsEmpty
      <4>2. Disjoint(Elems(proposeC), Elems(batchQueue), Elems(raftBatch), {},
                       InFlight \cup Elems(batcherBatch), InLog, submitted)
        BY Zenon, <3>2, DisjointMoves
      <4> QED
        BY Zenon, <3>1, <4>1, <4>2, <2>3 DEF Apart
    <3>5. QED
      BY Zenon, <1>1, <3>3, <3>4
  <2>5. NothingLost => NothingLost'
    <3> SUFFICES ASSUME NothingLost, NumPeers = 1, ~nodeStopped'
                 PROVE  Somewhere(Elems(proposeC'), Elems(batchQueue'), Elems(raftBatch'),
                                  Elems(batcherBatch'), InFlight', InLog', submitted')
      BY Zenon DEF NothingLost, Somewhere
    <3>1. Somewhere(Elems(proposeC), Elems(batchQueue), Elems(raftBatch),
                    Elems(batcherBatch), InFlight, InLog, submitted)
      BY Zenon, <2>1 DEF NothingLost, Somewhere
    <3>2. /\ Elems(proposeC') = Elems(proposeC) /\ Elems(batchQueue') = Elems(batchQueue)
          /\ submitted' = submitted
      BY Zenon, <1>1
    <3>3. CASE s = raftBatch /\ raftBatch' = <<>> /\ UNCHANGED batcherBatch
      <4>1. /\ Elems(raftBatch') = {} /\ Elems(batcherBatch') = Elems(batcherBatch)
            /\ InFlight' = InFlight \cup Elems(raftBatch)
        BY Zenon, <3>3, <2>2, ElemsEmpty
      <4>2. Somewhere(Elems(proposeC), Elems(batchQueue), {}, Elems(batcherBatch),
                      InFlight \cup Elems(raftBatch), InLog, submitted)
        BY Zenon, <3>1, SomewhereMoves
      <4> QED
        BY Zenon, <3>2, <4>1, <4>2, <2>3
    <3>4. CASE s = batcherBatch /\ batcherBatch' = <<>> /\ UNCHANGED raftBatch
      <4>1. /\ Elems(batcherBatch') = {} /\ Elems(raftBatch') = Elems(raftBatch)
            /\ InFlight' = InFlight \cup Elems(batcherBatch)
        BY Zenon, <3>4, <2>2, ElemsEmpty
      <4>2. Somewhere(Elems(proposeC), Elems(batchQueue), Elems(raftBatch), {},
                      InFlight \cup Elems(batcherBatch), InLog, submitted)
        BY Zenon, <3>1, SomewhereMoves
      <4> QED
        BY Zenon, <3>2, <4>1, <4>2, <2>3
    <3>5. QED
      BY Zenon, <1>1, <3>3, <3>4
  <2> QED
    BY Zenon, <1>3, <2>2, <2>3, <2>4, <2>5 DEF Keeps, Movement
<1>5. CASE nodeStopped /\ UNCHANGED <<nodeStopped, inflight, log>>
  <2>1. InFlight' = InFlight /\ OnceFlight' /\ InLog' = InLog /\ OnceLog'
    BY Zenon, <1>5, FlightSame, LogSame DEF Movement
  <2>2. Apart'
    BY Zenon, <1>1, <2>1, ElemsEmpty DEF Movement, Apart, Disjoint
  <2>3. NothingLost'
    BY Zenon, <1>5 DEF NothingLost
  <2> QED
    BY Zenon, <1>3, <2>1, <2>2, <2>3 DEF Keeps, Movement
<1> QED
  BY Zenon, <1>1, <1>4, <1>5

LEMMA CommitKeeps ==
    ASSUME TypeOK, Held, Movement, NEW p \in inflight, CommitProposal(p)
    PROVE  Keeps
<1> DEFINE e == [Term |-> LastTerm, Kind |-> p.Kind, Requests |-> p.Requests]
<1>1. /\ log' = Append(log, e) /\ inflight' = inflight \ {p}
      /\ UNCHANGED <<submitted, proposeC, batchQueue, raftBatch, batcherBatch, nodeStopped>>
  BY Zenon DEF CommitProposal, Extend, rest, chanVars, raftVars, batchVars, stopVars
<1>2. p \in Proposal /\ e \in Entry
  BY Zenon, LastTermType DEF TypeOK, TypeNode, Proposal, Entry
<1>3. /\ InFlight' = IF p.Kind = "batch" THEN InFlight \ Elems(p.Requests) ELSE InFlight
      /\ OnceFlight'
  BY Zenon, <1>1, FlightDrops DEF Movement
<1>4. CASE p.Kind = "batch"
  <2>1. /\ Unmarshal(e) = p.Requests /\ Injective(p.Requests)
        /\ Elems(p.Requests) \subseteq InFlight
    BY Zenon, <1>4 DEF Unmarshal, Movement, OnceFlight, InFlight, BatchesIn
  <2> HIDE DEF e
  <2>2. InLog' = InLog \cup Elems(p.Requests) /\ OnceLog'
    BY Zenon, <1>1, <1>2, <2>1, LogAdds DEF Movement, Apart, Disjoint
  <2>3. OnceQueued'
    BY Zenon, <1>1 DEF Movement, OnceQueued
  <2>4. Apart'
    BY Zenon, <1>1, <1>3, <1>4, <2>1, <2>2 DEF Movement, Apart, Disjoint
  <2>5. NothingLost => NothingLost'
    BY Zenon, <1>1, <1>3, <1>4, <2>2 DEF NothingLost
  <2> QED
    BY Zenon, <1>3, <2>2, <2>3, <2>4, <2>5 DEF Keeps, Movement
<1>5. CASE p.Kind # "batch"
  <2>1. Unmarshal(e) = <<>>
    BY Zenon, <1>5 DEF Unmarshal
  <2> HIDE DEF e
  <2>2. InLog' = InLog /\ OnceLog'
    BY Zenon, <1>1, <1>2, <2>1, LogAdds, ElemsEmpty DEF Movement
  <2>3. OnceQueued'
    BY Zenon, <1>1 DEF Movement, OnceQueued
  <2>4. Apart'
    BY Zenon, <1>1, <1>3, <1>5, <2>2 DEF Movement, Apart
  <2>5. NothingLost => NothingLost'
    BY Zenon, <1>1, <1>3, <1>5, <2>2 DEF NothingLost
  <2> QED
    BY Zenon, <1>3, <2>2, <2>3, <2>4, <2>5 DEF Keeps, Movement
<1> QED
  BY Zenon, <1>4, <1>5

LEMMA EmptyKeeps ==
    ASSUME TypeOK, Held, Movement, CommitEmpty
    PROVE  Keeps
<1> DEFINE e == [Term |-> term, Kind |-> "empty", Requests |-> <<>>]
<1>1. /\ log' = Append(log, e)
      /\ UNCHANGED <<submitted, proposeC, batchQueue, raftBatch, batcherBatch, inflight,
                     nodeStopped>>
  BY Zenon DEF CommitEmpty, Extend, rest, chanVars, raftVars, batchVars, stopVars
<1>2. e \in Entry /\ Unmarshal(e) = <<>>
  BY DEF TypeOK, TypeNode, Entry, Unmarshal
<1> HIDE DEF e
<1>3. InLog' = InLog /\ OnceLog'
  BY Zenon, <1>1, <1>2, LogAdds, ElemsEmpty DEF Movement
<1>4. InFlight' = InFlight /\ OnceFlight'
  BY Zenon, <1>1, FlightSame DEF Movement
<1>5. OnceQueued'
  BY Zenon, <1>1 DEF Movement, OnceQueued
<1>6. Apart'
  BY Zenon, <1>1, <1>3, <1>4 DEF Movement, Apart
<1>7. NothingLost => NothingLost'
  BY Zenon, <1>1, <1>3, <1>4 DEF NothingLost
<1> QED
  BY Zenon, <1>3, <1>4, <1>5, <1>6, <1>7 DEF Keeps, Movement

LEMMA RemoteKeeps ==
    ASSUME TypeOK, Held, Movement, NEW r \in Requests, CommitRemote(r)
    PROVE  Keeps
<1> DEFINE e == [Term |-> LastTerm, Kind |-> "batch", Requests |-> <<r>>]
<1>1. /\ log' = Append(log, e) /\ r \notin submitted /\ submitted' = submitted \cup {r}
      /\ NumPeers > 1
      /\ UNCHANGED <<proposeC, batchQueue, raftBatch, batcherBatch, inflight>>
  BY Zenon DEF CommitRemote, PeersTalk, Extend, chanVars, raftVars, batchVars
<1>2. /\ <<r>> \in Seq(Requests) /\ Unmarshal(e) = <<r>>
      /\ Elems(<<r>>) = {r} /\ Injective(<<r>>)
  BY SMTT(30) DEF Unmarshal, Elems, Injective
<1>3. e \in Entry
  BY Zenon, <1>2, LastTermType DEF TypeOK, TypeNode, Entry
<1> HIDE DEF e
<1>4. r \notin InLog
  BY Zenon, <1>1 DEF Movement, Apart, Disjoint
<1>5. InLog' = InLog \cup {r} /\ OnceLog'
  BY Zenon, <1>1, <1>2, <1>3, <1>4, LogAdds DEF Movement
<1>6. InFlight' = InFlight /\ OnceFlight'
  BY Zenon, <1>1, FlightSame DEF Movement
<1>7. OnceQueued'
  BY Zenon, <1>1 DEF Movement, OnceQueued
<1>8. Apart'
  BY SMTT(30), <1>1, <1>5, <1>6 DEF Movement, Apart, Disjoint
<1>9. NothingLost'
  BY <1>1, ConfigAssumption DEF NothingLost
<1> QED
  BY Zenon, <1>5, <1>6, <1>7, <1>8, <1>9 DEF Keeps, Movement

LEMMA LoseKeeps ==
    ASSUME TypeOK, Held, Movement, NEW p \in inflight, LoseProposal(p)
    PROVE  Keeps
<1>1. /\ inflight' = inflight \ {p} /\ NumPeers > 1
      /\ UNCHANGED <<submitted, proposeC, batchQueue, raftBatch, batcherBatch, log>>
  BY Zenon DEF LoseProposal, rest, chanVars, raftVars, batchVars
<1>2. InFlight' \subseteq InFlight /\ OnceFlight'
  BY Zenon, <1>1, FlightDrops DEF Movement
<1>3. InLog' = InLog /\ OnceLog'
  BY Zenon, <1>1, LogSame DEF Movement
<1>4. OnceQueued'
  BY Zenon, <1>1 DEF Movement, OnceQueued
<1>5. Apart'
  BY Zenon, <1>1, <1>2, <1>3 DEF Movement, Apart, Disjoint
<1>6. NothingLost'
  BY <1>1, ConfigAssumption DEF NothingLost
<1> QED
  BY Zenon, <1>2, <1>3, <1>4, <1>5, <1>6 DEF Keeps, Movement

(* Every other action leaves all requests where they are.                  *)
LEMMA StillKeeps ==
    ASSUME Movement, BatchesIn(inflight') = BatchesIn(inflight), log' = log,
           nodeStopped' = nodeStopped \/ nodeStopped',
           UNCHANGED <<submitted, proposeC, batchQueue, raftBatch, batcherBatch>>
    PROVE  Keeps
<1>1. InFlight' = InFlight /\ OnceFlight' /\ InLog' = InLog /\ OnceLog'
  BY Zenon, FlightSame, LogSame DEF Movement
<1>2. OnceQueued'
  BY Zenon DEF Movement, OnceQueued
<1>3. Apart'
  BY Zenon, <1>1 DEF Movement, Apart
<1>4. NothingLost => NothingLost'
  BY Zenon, <1>1 DEF NothingLost
<1> QED
  BY Zenon, <1>1, <1>2, <1>3, <1>4 DEF Keeps, Movement

LEMMA NextPlacement ==
    ASSUME TypeOK, Placement, [Next]_vars
    PROVE  Placement' /\ (NothingLost => NothingLost')
<1> DEFINE still == /\ BatchesIn(inflight') = BatchesIn(inflight) /\ log' = log
                    /\ nodeStopped' = nodeStopped \/ nodeStopped'
                    /\ UNCHANGED <<submitted, proposeC, batchQueue, raftBatch, batcherBatch>>
<1>1. Held /\ Movement /\ Held'
  BY Zenon, NextHeld DEF Placement, Movement
<1>2. ASSUME NEW r \in Requests, HandleAbort(r) PROVE still
  <2>1. inflight' = inflight \cup {[Kind |-> "abort", Requests |-> <<r>>]}
           \/ inflight' = inflight
    BY Zenon, <1>2 DEF HandleAbort, Accept, Refuse, nodeVars
  <2>2. BatchesIn(inflight') = BatchesIn(inflight)
    BY <2>1 DEF BatchesIn
  <2>3. log' = log /\ nodeStopped' = nodeStopped
    BY Zenon, <1>2 DEF HandleAbort, Accept, Refuse, nodeVars, stopVars
  <2> QED
    BY Zenon, <1>2, <2>2, <2>3 DEF HandleAbort, chanVars, raftVars, batchVars
<1>3. ASSUME NEW l \in 1..NumPeers, PeerLeads(l) PROVE still
  BY Zenon, <1>3 DEF PeerLeads, rest, chanVars, raftVars, batchVars, stopVars
<1>4. ASSUME PeerCampaign \/ WinElection \/ TakeProof \/ Stop
                 \/ StopNode \/ ConsumeMessages \/ ExpiryPasses \/ UNCHANGED vars
      PROVE  still
  <2>1. CASE PeerCampaign \/ WinElection
    BY Zenon, <2>1 DEF PeerCampaign, WinElection, rest, chanVars, raftVars, batchVars, stopVars
  <2>2. CASE TakeProof \/ ConsumeMessages \/ ExpiryPasses
    BY Zenon, <2>2 DEF TakeProof, ConsumeMessages, ExpiryPasses, rest, chanVars, raftVars,
       batchVars, nodeVars, stopVars
  <2>3. CASE Stop \/ StopNode
    BY Zenon, <2>3 DEF Stop, StopNode, rest, chanVars, raftVars, batchVars, nodeVars
  <2>4. CASE UNCHANGED vars
    BY Zenon, <2>4 DEF vars, chanVars, raftVars, batchVars, nodeVars, stopVars
  <2> QED
    BY Zenon, <1>4, <2>1, <2>2, <2>3, <2>4
<1>5. ASSUME RaftTick \/ BatcherStop \/ RaftStop \/ RaftReady \/ RaftSend
      PROVE  still
  <2>1. CASE RaftTick
    BY Zenon, <2>1 DEF RaftTick, Campaign, Heartbeat, rest, chanVars, raftVars, batchVars,
       nodeVars, stopVars
  <2>2. CASE BatcherStop \/ RaftStop
    BY Zenon, <2>2 DEF BatcherStop, RaftStop, rest, chanVars, raftVars, batchVars, nodeVars,
       stopVars, unchangedByFlush
  <2>3. CASE RaftReady \/ RaftSend
    BY Zenon, <2>3 DEF RaftReady, RaftSend, rest, chanVars, raftVars, batchVars, nodeVars,
       stopVars, unchangedByFlush
  <2> QED
    BY Zenon, <1>5, <2>1, <2>2, <2>3
<1>6. ASSUME SkipEntry \/ ApplyEntry \/ ApplyRequest \/ EndEntry \/ Advance
      PROVE  still
  BY Zenon, <1>6 DEF SkipEntry, ApplyEntry, ApplyRequest, EndEntry, Advance, unchangedByApply,
              batchVars, nodeVars, stopVars
<1>7. still => Keeps
  BY Zenon, <1>1, StillKeeps
<1> HIDE DEF still
<1>8. Keeps
  BY Zenon, <1>1, <1>2, <1>3, <1>4, <1>5, <1>6, <1>7, SubmitKeeps, ReceiveKeeps, FlushKeeps,
     ProposeKeeps, CommitKeeps, EmptyKeeps, RemoteKeeps, LoseKeeps
     DEF Next, CallerNext, InternalNext, NodeNext
<1> QED
  BY Zenon, <1>1, <1>8 DEF Keeps, Movement, Placement

(* In the log that StartNode bootstraps no entry holds a request.          *)
LEMMA InitLog == Init => InLog = {} /\ OnceLog
<1> SUFFICES ASSUME Init PROVE InLog = {} /\ OnceLog
  BY Zenon
<1>1. /\ Len(log) = NumPeers
      /\ \A i \in 1..Len(log) : Unmarshal(log[i]) = <<>>
  BY Zenon, BootstrapLog DEF Init, Unmarshal
<1> QED
  BY Zenon, <1>1, ElemsEmpty DEF InLog, OnceLog
=============================================================================
