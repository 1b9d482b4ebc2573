--------------------------- MODULE EndorserProofs ---------------------------
(***************************************************************************)
(* The safety properties of ShardLeader and its refinement of              *)
(* DependencyLog, for any number of requests and any sizes of the channels.*)
(* The inductive invariant IInv joins the types and Positions, and         *)
(* Placement (ShardLeaderPlacement), and the properties themselves, which  *)
(* tie the history to the log and the proofs to both.  Then what holds of  *)
(* the handlers of a contract and their shard, for any number of proposals.*)
(***************************************************************************)
EXTENDS Endorser, ShardLeaderPlacement

-----------------------------------------------------------------------------
(* Only applyEntry writes variableMap.                                     *)
LEMMA MapMoves ==
    ASSUME [Next]_vars
    PROVE  UNCHANGED <<variableMap, handled>> \/ ApplyRequest
<1> DEFINE same == UNCHANGED <<variableMap, handled>>
<1> USE DEF mapVars, rest
<1>1. ASSUME NEW r \in Requests, Submit(r) \/ HandleAbort(r) \/ CommitRemote(r)
      PROVE  same
  BY Zenon, <1>1 DEF Submit, HandleAbort, CommitRemote
<1>2. ASSUME NEW q \in inflight, CommitProposal(q) \/ LoseProposal(q) PROVE same
  BY Zenon, <1>2 DEF CommitProposal, LoseProposal
<1>3. ASSUME NEW l \in 1..NumPeers, PeerLeads(l) PROVE same
  BY Zenon, <1>3 DEF PeerLeads
<1>4. ASSUME PeerCampaign \/ WinElection \/ CommitEmpty \/ TakeProof \/ Stop
                 \/ StopNode \/ ConsumeMessages \/ ExpiryPasses \/ RaftTick
                 \/ UNCHANGED vars
      PROVE  same
  BY Zenon, <1>4 DEF PeerCampaign, WinElection, CommitEmpty, TakeProof, Stop, StopNode,
              ConsumeMessages, ExpiryPasses, RaftTick, vars
<1>5. ASSUME BatcherTick \/ BatcherPropose \/ BatcherStop \/ RaftFlush
                 \/ RaftPropose \/ RaftStop
      PROVE  same
  BY Zenon, <1>5 DEF BatcherTick, BatcherPropose, BatcherStop, RaftFlush, RaftPropose,
              RaftStop, unchangedByFlush
<1>6. ASSUME RaftReady \/ RaftSend \/ SkipEntry \/ ApplyEntry \/ EndEntry
                 \/ Advance \/ ReceiveRequest
      PROVE  same
  BY Zenon, <1>6 DEF RaftReady, RaftSend, SkipEntry, ApplyEntry, EndEntry, Advance,
              ReceiveRequest
<1> QED
  BY Zenon, <1>1, <1>2, <1>3, <1>4, <1>5, <1>6 DEF Next, CallerNext, InternalNext, NodeNext

(* The request that ApplyRequest applies, and what it adds to the history. *)
Current == Unmarshal(log[applied + 1])[reqPos + 1]

LEMMA CurrentRequest ==
    ASSUME TypeOK, Positions, ApplyRequest
    PROVE  /\ Current \in Requests
           /\ \E dep \in checkDependencies(Current) :
                 /\ updateDependencyMap(Current, dep.HasDependency)
                 /\ handled' = Append(handled,
                       [Request |-> Current, HasDependency |-> dep.HasDependency,
                        DependentTxID |-> dep.DependentTxID])
<1>1. applied + 1 \in 1..Len(log)
  BY DEF ApplyRequest, Positions, TypeOK, TypeControl, TypeNode
<1>2. Unmarshal(log[applied + 1]) \in Seq(Requests)
  BY Zenon, <1>1, LogEntry
<1>3. reqPos + 1 \in 1..Len(Unmarshal(log[applied + 1]))
  BY <1>2 DEF ApplyRequest, TypeOK, TypeControl
<1> QED
  BY Zenon, <1>2, <1>3, SeqElement DEF ApplyRequest, Current

LEMMA FoundAreKnown ==
    ASSUME NEW r, ReadSet[r] \subseteq Keys, WriteSet[r] \subseteq Keys
    PROVE  \A k \in FoundKeys(r) : k \in Keys /\ k \in Known
  BY Zenon DEF FoundKeys

LEMMA NextLastWriter ==
    ASSUME TypeOK, TypeOK', Positions, LastWriter, [Next]_vars
    PROVE  LastWriter'
<1>1. CASE UNCHANGED <<variableMap, handled>>
  BY Zenon, <1>1 DEF LastWriter
<1>2. CASE ApplyRequest
  <2> DEFINE r == Current
             n == Len(handled)
  <2>1. PICK dep \in checkDependencies(r) :
            /\ updateDependencyMap(r, dep.HasDependency)
            /\ handled' = Append(handled,
                  [Request |-> r, HasDependency |-> dep.HasDependency,
                   DependentTxID |-> dep.DependentTxID])
    BY Zenon, <1>2, CurrentRequest
  <2>2. r \in Requests
    BY Zenon, <1>2, CurrentRequest
  <2> HIDE DEF r
  <2>3. /\ n \in Nat /\ Len(handled') = n + 1
        /\ handled'[n + 1] =
              [Request |-> r, HasDependency |-> dep.HasDependency,
               DependentTxID |-> dep.DependentTxID]
        /\ \A i \in 1..n : handled'[i] = handled[i]
    BY <2>1 DEF TypeOK, TypeResults
  <2> SUFFICES ASSUME NEW k \in Keys
               PROVE  IF variableMap'[k] = NoInfo
                      THEN \A i \in 1..Len(handled') : k \notin WriteSet[handled'[i].Request]
                      ELSE \E i \in 1..Len(handled') :
                              /\ k \in WriteSet[handled'[i].Request]
                              /\ variableMap'[k] =
                                    [DependentTxID |-> TxID[handled'[i].Request],
                                     HasDependency |-> handled'[i].HasDependency]
                              /\ \A j \in (i + 1)..Len(handled') :
                                    k \notin WriteSet[handled'[j].Request]
    BY Zenon DEF LastWriter
  <2>4. CASE k \in WriteSet[r]
    <3>1. variableMap'[k] = [DependentTxID |-> TxID[r], HasDependency |-> dep.HasDependency]
      BY Zenon, <2>1, <2>4 DEF updateDependencyMap
    <3>2. variableMap'[k] # NoInfo
      BY <3>1, <2>2, RequestAssumption DEF NoInfo
    <3> QED
      BY <2>3, <2>4, <3>1, <3>2
  <2>5. CASE k \notin WriteSet[r]
    <3>1. variableMap'[k] = variableMap[k]
      BY Zenon, <2>1, <2>5 DEF updateDependencyMap
    <3>2. CASE variableMap[k] = NoInfo
      BY <2>3, <2>5, <3>1, <3>2 DEF LastWriter
    <3>3. CASE variableMap[k] # NoInfo
      <4>1. PICK i \in 1..n :
                /\ k \in WriteSet[handled[i].Request]
                /\ variableMap[k] =
                      [DependentTxID |-> TxID[handled[i].Request],
                       HasDependency |-> handled[i].HasDependency]
                /\ \A j \in (i + 1)..n : k \notin WriteSet[handled[j].Request]
        BY Zenon, <3>3 DEF LastWriter
      <4>2. ASSUME NEW j \in (i + 1)..(n + 1)
            PROVE  k \notin WriteSet[handled'[j].Request]
        <5>1. CASE j = n + 1
          BY <2>3, <2>5, <5>1
        <5>2. CASE j # n + 1
          <6>1. j \in (i + 1)..n /\ j \in 1..n
            BY <2>3, <5>2
          <6> QED
            BY Zenon, <2>3, <4>1, <6>1
        <5> QED
          BY Zenon, <5>1, <5>2
      <4> QED
        BY <2>3, <3>1, <3>3, <4>1, <4>2
    <3> QED
      BY Zenon, <3>2, <3>3
  <2> QED
    BY Zenon, <2>4, <2>5
<1> QED
  BY Zenon, <1>1, <1>2, MapMoves
-----------------------------------------------------------------------------
(* The two halves of AppliedExactly.                                       *)
LEMMA WholeGrows ==
    ASSUME applied \in Nat, log' = log, applied' = applied + 1
    PROVE  Whole' = Whole \cup Elems(Unmarshal(log[applied + 1]))
<1>1. 1..(applied + 1) = (1..applied) \cup {applied + 1}
  OBVIOUS
<1>2. Whole' = UNION {Elems(Unmarshal(log[i])) : i \in 1..(applied + 1)}
  BY Zenon DEF Whole
<1> QED
  BY Zenon, <1>1, <1>2 DEF Whole

(* ApplyRequest moves exactly one request, which was not applied before.   *)
LEMMA ApplyMoves ==
    ASSUME TypeOK, Positions, OnceLog, ApplyRequest
    PROVE  /\ HandledRequests' = HandledRequests \cup {Current}
           /\ Whole' = Whole
           /\ Part' = Part \cup {Current}
           /\ Current \notin Whole \cup Part
<1> DEFINE b == Unmarshal(log[applied + 1])
<1>1. /\ raftPC = "entry" /\ raftPC' = "entry" /\ reqPos' = reqPos + 1
      /\ log' = log /\ applied' = applied /\ reqPos < Len(b) /\ Current = b[reqPos + 1]
  BY Zenon DEF ApplyRequest, unchangedByApply, nodeVars, Current
<1>2. applied \in Nat /\ reqPos \in Nat /\ Len(log) \in Nat
  BY DEF TypeOK, TypeControl, TypeNode
<1>3. applied + 1 \in 1..Len(log) /\ applied <= Len(log)
  BY <1>1, <1>2 DEF Positions, TypeOK, TypeControl
<1>4. b \in Seq(Requests) /\ Current \in Requests
  BY Zenon, <1>3, LogEntry, CurrentRequest
<1>5. Len(b) \in Nat /\ \A i \in 1..Len(b) : b[i] \in Requests
  BY <1>4, SeqElement
<1>6. HandledRequests' = HandledRequests \cup {Current}
  <2>1. PICK dep \in checkDependencies(Current) :
          handled' = Append(handled,
              [Request |-> Current, HasDependency |-> dep.HasDependency,
               DependentTxID |-> dep.DependentTxID])
    BY Zenon, CurrentRequest
  <2>2. /\ Len(handled) \in Nat /\ Len(handled') = Len(handled) + 1
        /\ handled'[Len(handled) + 1].Request = Current
        /\ \A i \in 1..Len(handled) : handled'[i] = handled[i]
    BY <2>1 DEF TypeOK, TypeResults
  <2>3. 1..Len(handled') = (1..Len(handled)) \cup {Len(handled) + 1}
    BY <2>2
  <2> QED
    BY <2>2, <2>3 DEF HandledRequests
<1>7. Whole' = Whole
  BY Zenon, <1>1 DEF Whole
<1> HIDE DEF b
<1>8. Part' = Part \cup {Current}
  <2>1. 1..(reqPos + 1) = (1..reqPos) \cup {reqPos + 1}
    BY <1>2
  <2>2. Part = {r \in Requests : \E i \in 1..reqPos : r = b[i]}
    BY Zenon, <1>1 DEF Part, b
  <2>3. Part' = {r \in Requests : \E i \in 1..(reqPos + 1) : r = b[i]}
    BY Zenon, <1>1 DEF Part, b
  <2> QED
    BY Zenon, <1>1, <1>4, <2>1, <2>2, <2>3
<1>9. Current \notin Part
  <2>1. Injective(b)
    BY Zenon, <1>3 DEF OnceLog, b
  <2>2. reqPos + 1 \in 1..Len(b) /\ \A i \in 1..reqPos : i \in 1..Len(b) /\ i # reqPos + 1
    BY <1>1, <1>2, <1>5
  <2>3. Part = {r \in Requests : \E i \in 1..reqPos : r = b[i]}
    BY Zenon, <1>1 DEF Part, b
  <2> QED
    BY Zenon, <1>1, <2>1, <2>2, <2>3 DEF Injective
<1>10. Current \notin Whole
  <2>1. \A i \in 1..applied : i \in 1..Len(log) /\ i # applied + 1
    BY <1>2, <1>3
  <2>2. reqPos + 1 \in 1..Len(b)
    BY <1>1, <1>2, <1>5
  <2>3. Current \in Elems(b)
    BY Zenon, <1>1, <2>2 DEF Elems
  <2>4. \A i \in 1..applied : Elems(Unmarshal(log[i])) \cap Elems(b) = {}
    BY Zenon, <1>3, <2>1 DEF OnceLog, b
  <2> QED
    BY Zenon, <2>3, <2>4 DEF Whole
<1> QED
  BY Zenon, <1>6, <1>7, <1>8, <1>9, <1>10

LEMMA NextApplied ==
    ASSUME TypeOK, TypeOK', Positions, OnceLog, AppliedExactly, [Next]_vars
    PROVE  AppliedExactly'
<1> DEFINE b == Unmarshal(log[applied + 1])
<1>1. HandledRequests = Whole \cup Part
  BY Zenon DEF AppliedExactly
<1>2. SUFFICES HandledRequests' = (Whole \cup Part)'
  BY Zenon DEF AppliedExactly
<1>3. applied \in Nat /\ reqPos \in Nat /\ readyTo \in Nat /\ Len(log) \in Nat /\ Len(log') \in Nat
  BY SMTT(30) DEF TypeOK, TypeControl, TypeNode
<1>4. Len(log') >= Len(log) /\ \A i \in 1..Len(log) : log'[i] = log[i]
  BY <1>3, LogGrows
<1>5. applied <= Len(log) /\ (raftPC = "entry" => applied + 1 \in 1..Len(log))
  BY <1>3 DEF Positions
<1>6. CASE ApplyRequest
  BY Zenon, <1>1, <1>6, ApplyMoves
<1>7. CASE SkipEntry
  <2>1. /\ log' = log /\ applied' = applied + 1 /\ handled' = handled
        /\ raftPC = "ready" /\ raftPC' = "ready" /\ b = <<>>
    BY Zenon, <1>7 DEF SkipEntry, unchangedByApply, nodeVars, mapVars, Unmarshal
  <2>2. Whole' = Whole \cup {}
    BY Zenon, <1>3, <2>1, WholeGrows, ElemsEmpty
  <2>3. Part = {} /\ Part' = {}
    BY Zenon, <2>1 DEF Part
  <2> QED
    BY Zenon, <1>1, <2>1, <2>2, <2>3 DEF HandledRequests
<1>8. CASE EndEntry
  <2>1. /\ log' = log /\ applied' = applied + 1 /\ handled' = handled
        /\ raftPC = "entry" /\ raftPC' = "ready" /\ reqPos = Len(b)
    BY Zenon, <1>8 DEF EndEntry, unchangedByApply, nodeVars, mapVars
  <2>2. Whole' = Whole \cup Elems(b)
    BY Zenon, <1>3, <2>1, WholeGrows
  <2>3. b \in Seq(Requests)
    BY Zenon, <1>5, <2>1, LogEntry
  <2>4. \A i \in 1..Len(b) : b[i] \in Requests
    BY Zenon, <2>3, SeqElement
  <2>5. Part = Elems(b) /\ Part' = {}
    BY Zenon, <2>1, <2>4 DEF Part, Elems
  <2> QED
    BY Zenon, <1>1, <2>1, <2>2, <2>5 DEF HandledRequests
<1>9. CASE ~ApplyRequest /\ ~SkipEntry /\ ~EndEntry
  <2>1. handled' = handled
    BY Zenon, <1>9, MapMoves
  <2>2. /\ applied' = applied
        /\ \/ raftPC' = raftPC /\ reqPos' = reqPos
           \/ raftPC # "entry" /\ raftPC' # "entry"
           \/ raftPC # "entry" /\ reqPos' = 0
    BY Zenon, <1>9, RaftMoves
       DEF RaftReady, RaftSend, ApplyEntry, Advance, ReceiveRequest, RaftFlush,
           RaftPropose, RaftStop, unchangedByFlush
  <2>3. Whole' = Whole
    <3>1. \A i \in 1..applied : i \in 1..Len(log)
      BY <1>3, <1>5
    <3>2. \A i \in 1..applied : Elems(Unmarshal(log'[i])) = Elems(Unmarshal(log[i]))
      BY Zenon, <3>1, <1>4
    <3> QED
      BY Zenon, <2>2, <3>2 DEF Whole
  <2>4. Part' = Part
    <3>1. raftPC = "entry" => Unmarshal(log'[applied + 1]) = b
      BY Zenon, <1>4, <1>5
    <3> QED
      BY <2>2, <3>1 DEF Part
  <2> QED
    BY Zenon, <1>1, <2>1, <2>3, <2>4 DEF HandledRequests
<1> QED
  BY Zenon, <1>6, <1>7, <1>8, <1>9

LEMMA NextHandledOnce ==
    ASSUME TypeOK, Positions, OnceLog, AppliedExactly, HandledOnce, [Next]_vars
    PROVE  HandledOnce'
<1>1. CASE handled' = handled
  BY Zenon, <1>1 DEF HandledOnce
<1>2. CASE ApplyRequest
  <2>1. Current \notin HandledRequests
    BY Zenon, <1>2, ApplyMoves DEF AppliedExactly
  <2>2. PICK dep \in checkDependencies(Current) :
          handled' = Append(handled,
              [Request |-> Current, HasDependency |-> dep.HasDependency,
               DependentTxID |-> dep.DependentTxID])
    BY Zenon, <1>2, CurrentRequest
  <2>3. /\ Len(handled) \in Nat /\ Len(handled') = Len(handled) + 1
        /\ handled'[Len(handled) + 1].Request = Current
        /\ \A i \in 1..Len(handled) : handled'[i] = handled[i]
    BY <2>2 DEF TypeOK, TypeResults
  <2>4. \A i \in 1..Len(handled) : handled'[i].Request # Current
    BY Zenon, <2>1, <2>3 DEF HandledRequests
  <2>5. \A i \in 1..Len(handled') : i \in 1..Len(handled) \/ i = Len(handled) + 1
    BY <2>3
  <2> QED
    BY Zenon, <2>3, <2>4, <2>5 DEF HandledOnce
<1> QED
  BY Zenon, <1>1, <1>2, MapMoves

-----------------------------------------------------------------------------
(* Proofs on commitC.  ProofsInLogOrder follows from a bound by            *)
(* commitIndex, the field from which applyEntry numbers them.              *)
ProofsNumbered ==
    /\ \A i, j \in 1..Len(commitC) :
          i <= j => commitC[i].CommitIndex <= commitC[j].CommitIndex
    /\ \A i \in 1..Len(commitC) : commitC[i].CommitIndex <= commitIndex

LEMMA CommitCMoves ==
    ASSUME [Next]_vars
    PROVE  UNCHANGED commitC \/ TakeProof \/ ApplyRequest
<1> USE DEF chanVars, rest
<1>1. ASSUME NEW r \in Requests, Submit(r) \/ HandleAbort(r) \/ CommitRemote(r)
      PROVE  UNCHANGED commitC
  BY Zenon, <1>1 DEF Submit, HandleAbort, CommitRemote
<1>2. ASSUME NEW q \in inflight, CommitProposal(q) \/ LoseProposal(q)
      PROVE  UNCHANGED commitC
  BY Zenon, <1>2 DEF CommitProposal, LoseProposal
<1>3. ASSUME NEW l \in 1..NumPeers, PeerLeads(l) PROVE UNCHANGED commitC
  BY Zenon, <1>3 DEF PeerLeads
<1>4. ASSUME PeerCampaign \/ WinElection \/ CommitEmpty \/ Stop \/ StopNode
                 \/ ConsumeMessages \/ ExpiryPasses \/ RaftTick \/ UNCHANGED vars
      PROVE  UNCHANGED commitC
  BY Zenon, <1>4 DEF PeerCampaign, WinElection, CommitEmpty, Stop, StopNode,
              ConsumeMessages, ExpiryPasses, RaftTick, vars
<1>5. ASSUME BatcherTick \/ BatcherPropose \/ BatcherStop \/ RaftFlush
                 \/ RaftPropose \/ RaftStop
      PROVE  UNCHANGED commitC
  BY Zenon, <1>5 DEF BatcherTick, BatcherPropose, BatcherStop, RaftFlush, RaftPropose,
              RaftStop, unchangedByFlush
<1>6. ASSUME RaftReady \/ RaftSend \/ SkipEntry \/ ApplyEntry \/ EndEntry
                 \/ Advance \/ ReceiveRequest
      PROVE  UNCHANGED commitC
  BY Zenon, <1>6 DEF RaftReady, RaftSend, SkipEntry, ApplyEntry, EndEntry, Advance,
              ReceiveRequest
<1> QED
  BY Zenon, <1>1, <1>2, <1>3, <1>4, <1>5, <1>6 DEF Next, CallerNext, InternalNext, NodeNext

(* The proof that ApplyRequest sends, if commitC has room.                 *)
Sent == [TxID |-> TxID[Current], CommitIndex |-> commitIndex,
         Term |-> log[applied + 1].Term,
         LeaderID |-> IF nodeStopped THEN 0 ELSE lead]

(* A step leaves each proof on commitC in place, shifts them by one, or    *)
(* adds the proof of the request just applied.                             *)
LEMMA CommitCElements ==
    ASSUME TypeOK, [Next]_vars
    PROVE  /\ Len(commitC) \in Nat
           /\ \/ commitC' = commitC
              \/ /\ Len(commitC') = Len(commitC) - 1
                 /\ \A i \in 1..Len(commitC') : commitC'[i] = commitC[i + 1]
              \/ /\ ApplyRequest /\ Len(commitC') = Len(commitC) + 1
                 /\ \A i \in 1..Len(commitC) : commitC'[i] = commitC[i]
                 /\ commitC'[Len(commitC) + 1] = Sent
<1>1. commitC \in Seq(Proof) /\ Len(commitC) \in Nat
  BY DEF TypeOK, TypeResults
<1>2. CASE TakeProof
  BY Zenon, <1>1, <1>2, SeqFirst DEF TakeProof
<1>3. CASE ApplyRequest
  <2>1. commitC' = Append(commitC, Sent) \/ commitC' = commitC
    BY Zenon, <1>3 DEF ApplyRequest, SendProof, Sent, Current
  <2> QED
    BY SMTT(30), <1>1, <1>3, <2>1
<1> QED
  BY Zenon, <1>1, <1>2, <1>3, CommitCMoves

LEMMA SentIs == Sent.TxID = TxID[Current] /\ Sent.CommitIndex = commitIndex
  BY Zenon DEF Sent

LEMMA OneMore == \A n \in Nat : \A i \in 1..(n + 1) : i \in 1..n \/ i = n + 1
  OBVIOUS

LEMMA NextProofCommitted ==
    ASSUME TypeOK, TypeOK', Positions, OnceLog, ProofCommitted, [Next]_vars
    PROVE  ProofCommitted'
<1>1. Len(log) \in Nat /\ Len(log') \in Nat
  BY DEF TypeOK, TypeNode
<1>2. Len(log') >= Len(log) /\ \A i \in 1..Len(log) : log'[i] = log[i]
  BY <1>1, LogGrows
<1>3. HandledRequests \subseteq HandledRequests'
  BY Zenon, MapMoves, ApplyMoves DEF HandledRequests
<1>4. ASSUME NEW proof, Evidence(proof) PROVE Evidence(proof)'
  <2>1. proof.CommitIndex \in 1..Len(log') /\ log'[proof.CommitIndex] = log[proof.CommitIndex]
    BY <1>1, <1>2, <1>4 DEF Evidence
  <2> QED
    BY Zenon, <1>3, <1>4, <2>1 DEF Evidence
<1>5. ASSUME NEW proof, proof = Sent, ApplyRequest PROVE Evidence(proof)'
  <2> DEFINE e == log[applied + 1]
  <2>1. /\ applied + 1 \in 1..Len(log) /\ log' = log
        /\ commitIndex = applied + 1 /\ reqPos < Len(Unmarshal(e))
    <3>1. raftPC = "entry" /\ log' = log /\ reqPos < Len(Unmarshal(e))
      BY Zenon, <1>5 DEF ApplyRequest, unchangedByApply, nodeVars
    <3>2. /\ applied + 1 \in 1..Len(log)
          /\ commitIndex = applied + 1
      BY <1>1, <3>1 DEF Positions, TypeOK, TypeControl
    <3> QED
      BY Zenon, <3>1, <3>2
  <2>2. Unmarshal(e) \in Seq(Requests)
    BY Zenon, <2>1, LogEntry
  <2>3. e.Kind = "batch" /\ Unmarshal(e) = e.Requests
    BY SMTT(30), <2>1, SeqEmpty DEF Unmarshal, TypeOK, TypeControl
  <2>4. reqPos + 1 \in 1..Len(e.Requests) /\ Current = e.Requests[reqPos + 1]
    BY <2>1, <2>2, <2>3 DEF Current, TypeOK, TypeControl
  <2>5. Current \in Elems(e.Requests) /\ Current \in HandledRequests'
    BY Zenon, <1>5, <2>4, ApplyMoves DEF Elems
  <2> QED
    BY Zenon, <1>5, <2>1, <2>3, <2>5 DEF Evidence, Sent
<1> SUFFICES ASSUME NEW i \in 1..Len(commitC') PROVE Evidence(commitC[i])'
  BY Zenon DEF ProofCommitted
<1>6. PICK proof : proof = commitC'[i]
  BY Zenon
<1>7. \/ proof = Sent /\ ApplyRequest
      \/ \E j \in 1..Len(commitC) : proof = commitC[j]
  <2>1. Len(commitC) \in Nat
    BY Zenon, CommitCElements
  <2>2. CASE commitC' = commitC
    BY Zenon, <1>6, <2>2
  <2>3. CASE /\ Len(commitC') = Len(commitC) - 1
             /\ \A j \in 1..Len(commitC') : commitC'[j] = commitC[j + 1]
    <3>1. i + 1 \in 1..Len(commitC)
      BY <2>1, <2>3
    <3> QED
      BY Zenon, <1>6, <2>3, <3>1
  <2>4. CASE /\ ApplyRequest /\ Len(commitC') = Len(commitC) + 1
             /\ \A j \in 1..Len(commitC) : commitC'[j] = commitC[j]
             /\ commitC'[Len(commitC) + 1] = Sent
    <3>1. i \in 1..Len(commitC) \/ i = Len(commitC) + 1
      BY <2>1, <2>4
    <3> QED
      BY Zenon, <1>6, <2>4, <3>1
  <2> QED
    BY Zenon, <2>2, <2>3, <2>4, CommitCElements
<1>8. Evidence(proof)'
  BY Zenon, <1>4, <1>5, <1>7 DEF ProofCommitted
<1> QED
  BY Zenon, <1>6, <1>8 DEF Evidence

LEMMA NextProofsNumbered ==
    ASSUME TypeOK, TypeOK', Positions, ProofsNumbered, [Next]_vars
    PROVE  ProofsNumbered'
<1>1. /\ applied \in Nat /\ commitIndex \in Nat /\ commitIndex' \in Nat
      /\ Len(commitC) \in Nat /\ Len(commitC') \in Nat
  BY DEF TypeOK, TypeControl, TypeResults
<1>2. \A i \in 1..Len(commitC) : commitC[i].CommitIndex \in Nat
  <2>1. \A i \in 1..Len(commitC) : commitC[i] \in Proof
    BY Zenon, SeqElement DEF TypeOK, TypeResults
  <2> QED
    BY Zenon, <2>1 DEF Proof
<1>3. commitIndex <= commitIndex'
  <2>1. CASE ApplyEntry
    BY <1>1, <2>1 DEF ApplyEntry, Positions
  <2>2. CASE ~ApplyEntry
    <3>1. commitIndex' = commitIndex
      BY Zenon, <2>2, RaftMoves
         DEF RaftReady, RaftSend, SkipEntry, ApplyRequest, EndEntry, Advance,
             ReceiveRequest, RaftFlush, RaftPropose, RaftStop, unchangedByFlush
    <3> QED
      BY <1>1, <3>1
  <2> QED
    BY Zenon, <2>1, <2>2
<1>4. CASE commitC' = commitC
  BY <1>1, <1>2, <1>3, <1>4 DEF ProofsNumbered
<1>5. CASE /\ Len(commitC') = Len(commitC) - 1
           /\ \A i \in 1..Len(commitC') : commitC'[i] = commitC[i + 1]
  <2>1. \A i \in 1..Len(commitC') : i + 1 \in 1..Len(commitC)
    BY <1>1, <1>5
  <2>2. \A i, j \in 1..Len(commitC') :
           i <= j => commitC'[i].CommitIndex <= commitC'[j].CommitIndex
    BY SMTT(30), <1>5, <2>1 DEF ProofsNumbered
  <2>3. ASSUME NEW i \in 1..Len(commitC') PROVE commitC'[i].CommitIndex <= commitIndex'
    <3>1. commitC'[i] = commitC[i + 1] /\ i + 1 \in 1..Len(commitC)
      BY Zenon, <1>5, <2>1
    <3>2. commitC[i + 1].CommitIndex \in Nat /\ commitC[i + 1].CommitIndex <= commitIndex
      BY Zenon, <1>2, <3>1 DEF ProofsNumbered
    <3> QED
      BY <1>1, <1>3, <3>1, <3>2
  <2> QED
    BY Zenon, <2>2, <2>3 DEF ProofsNumbered
<1>6. CASE /\ ApplyRequest /\ Len(commitC') = Len(commitC) + 1
           /\ \A i \in 1..Len(commitC) : commitC'[i] = commitC[i]
           /\ commitC'[Len(commitC) + 1] = Sent
  <2>0. Len(commitC') = Len(commitC) + 1 /\ Len(commitC) \in Nat
    BY Zenon, <1>1, <1>6
  <2>1. \A i \in 1..Len(commitC') : i \in 1..Len(commitC) \/ i = Len(commitC) + 1
    BY Zenon, <2>0, OneMore
  <2>2. commitIndex' = commitIndex /\ Sent.CommitIndex = commitIndex
    BY Zenon, <1>6, SentIs DEF ApplyRequest
  <2>3. \A i \in 1..Len(commitC') : commitC'[i].CommitIndex <= commitIndex
    BY <1>1, <1>6, <2>1, <2>2 DEF ProofsNumbered
  <2>4. ASSUME NEW i \in 1..Len(commitC'), NEW j \in 1..Len(commitC'), i <= j
        PROVE  commitC'[i].CommitIndex <= commitC'[j].CommitIndex
    <3>1. CASE j = Len(commitC) + 1
      BY Zenon, <1>6, <2>2, <2>3, <3>1
    <3>2. CASE j # Len(commitC) + 1
      <4>1. j \in 1..Len(commitC) /\ i \in 1..Len(commitC)
        BY SMTT(30), <1>1, <2>1, <2>4, <3>2
      <4> QED
        BY Zenon, <1>6, <2>4, <4>1 DEF ProofsNumbered
    <3> QED
      BY Zenon, <3>1, <3>2
  <2> QED
    BY Zenon, <2>2, <2>3, <2>4 DEF ProofsNumbered
<1> QED
  BY Zenon, <1>4, <1>5, <1>6, CommitCElements

-----------------------------------------------------------------------------
(* Every step of the shard is a step of its promise or leaves the history  *)
(* alone: this is where LastWriter (the map answers as the history would)  *)
(* and AppliedExactly (nothing is handled twice) are used.                 *)
LEMMA KnownIsWritten ==
    ASSUME TypeOK, LastWriter, NEW k \in Keys
    PROVE  /\ k \in Known <=> Promise!WrittenIn(handled, k)
           /\ k \in Known =>
                 \E i \in 1..Len(handled) :
                    /\ Promise!LastWriterAt(handled, k, i)
                    /\ variableMap[k].DependentTxID = TxID[handled[i].Request]
<1>1. CASE variableMap[k] = NoInfo
  BY <1>1 DEF LastWriter, Known, NoInfo, Promise!WrittenIn
<1>2. CASE variableMap[k] # NoInfo
  <2>1. PICK i \in 1..Len(handled) :
            /\ k \in WriteSet[handled[i].Request]
            /\ variableMap[k] =
                  [DependentTxID |-> TxID[handled[i].Request],
                   HasDependency |-> handled[i].HasDependency]
            /\ \A j \in (i + 1)..Len(handled) : k \notin WriteSet[handled[j].Request]
    BY Zenon, <1>2 DEF LastWriter
  <2>2. TxID[handled[i].Request] \in TxIDs
    <3>1. handled[i] \in Handled
      BY Zenon, <2>1, SeqElement DEF TypeOK, TypeResults
    <3> QED
      BY Zenon, <3>1, RequestAssumption DEF Handled
  <2>3. k \in Known
    BY <2>1, <2>2, RequestAssumption DEF Known
  <2> QED
    BY <2>1, <2>3 DEF Promise!WrittenIn, Promise!LastWriterAt
<1> QED
  BY Zenon, <1>1, <1>2

LEMMA StepRefines ==
    ASSUME TypeOK, Positions, OnceLog, AppliedExactly, LastWriter, [Next]_vars
    PROVE  [Promise!Next]_handled
<1>1. CASE handled' = handled
  BY Zenon, <1>1
<1>2. CASE ApplyRequest
  <2> DEFINE r == Current
  <2>1. r \in Requests
    BY Zenon, <1>2, CurrentRequest
  <2>2. PICK dep \in checkDependencies(r) :
          handled' = Append(handled,
              [Request |-> r, HasDependency |-> dep.HasDependency,
               DependentTxID |-> dep.DependentTxID])
    BY Zenon, <1>2, CurrentRequest
  <2>3. \A i \in 1..Len(handled) : handled[i].Request # r
    BY Zenon, <1>2, ApplyMoves DEF AppliedExactly, HandledRequests
  <2> HIDE DEF r
  <2>4. ReadSet[r] \subseteq Keys /\ WriteSet[r] \subseteq Keys
    BY Zenon, <2>1, RequestAssumption
  <2>5. /\ {k \in ReadSet[r] : Promise!WrittenIn(handled, k)} = ReadSet[r] \cap Known
        /\ {k \in WriteSet[r] : Promise!WrittenIn(handled, k)} = WriteSet[r] \cap Known
    BY Zenon, <2>4, KnownIsWritten
  <2>6. Promise!DependencyKeys(handled, r) = FoundKeys(r)
    BY Zenon, <2>5 DEF Promise!DependencyKeys, FoundKeys
  <2>7. CASE FoundKeys(r) = {}
    <3>1. dep = NoInfo
      BY Zenon, <2>2, <2>7 DEF checkDependencies
    <3>2. handled' = Append(handled,
              [Request |-> r, HasDependency |-> FALSE, DependentTxID |-> NoTx])
      BY Zenon, <2>2, <3>1 DEF NoInfo
    <3>3. Promise!Independent(r)
      BY Zenon, <2>6, <2>7, <3>2 DEF Promise!Independent
    <3> QED
      BY Zenon, <2>1, <2>3, <3>3 DEF Promise!Next
  <2>8. CASE FoundKeys(r) # {}
    <3>0. \A k \in FoundKeys(r) : k \in Keys /\ k \in Known
      BY Zenon, <2>4, FoundAreKnown
    <3>1. PICK k \in FoundKeys(r) :
            dep = [DependentTxID |-> variableMap[k].DependentTxID, HasDependency |-> TRUE]
      BY Zenon, <2>2, <2>8 DEF checkDependencies
    <3>2. k \in Keys /\ k \in Known
      BY Zenon, <3>0, <3>1
    <3>3. PICK i \in 1..Len(handled) :
            /\ Promise!LastWriterAt(handled, k, i)
            /\ variableMap[k].DependentTxID = TxID[handled[i].Request]
      BY Zenon, <3>2, KnownIsWritten
    <3>4. handled' = Append(handled,
              [Request |-> r, HasDependency |-> TRUE,
               DependentTxID |-> TxID[handled[i].Request]])
      BY Zenon, <2>2, <3>1, <3>3
    <3>5. Promise!Dependent(r)
      BY Zenon, <2>6, <3>1, <3>3, <3>4 DEF Promise!Dependent
    <3> QED
      BY Zenon, <2>1, <2>3, <3>5 DEF Promise!Next
  <2> QED
    BY Zenon, <2>7, <2>8
<1> QED
  BY Zenon, <1>1, <1>2, MapMoves

-----------------------------------------------------------------------------
(* The inductive invariant of the shard.                                   *)
IInv == /\ TypeOK /\ Positions /\ Placement /\ NothingLost /\ LastWriter
        /\ AppliedExactly /\ HandledOnce /\ ProofCommitted /\ ProofsNumbered

LEMMA InitInvariant == Init => IInv
<1> SUFFICES ASSUME Init PROVE IInv
  BY Zenon
<1>1. TypeOK /\ Positions
  BY InitType, BootstrapLog, ConfigAssumption DEF Init, Positions
<1>2. InFlight = {} /\ OnceFlight
  BY Zenon DEF Init, InFlight, OnceFlight, BatchesIn
<1>3. Held /\ OnceQueued
  BY Zenon, ElemsEmpty DEF Init, Held, OnceQueued
<1>4. Apart
  BY Zenon, <1>2, InitLog, ElemsEmpty DEF Init, Apart, Disjoint
<1>5. NothingLost
  BY Zenon DEF Init, NothingLost
<1>6. Len(handled) = 0 /\ Len(commitC) = 0
  BY Zenon DEF Init
<1>7. LastWriter
  BY <1>6 DEF Init, LastWriter
<1>8. AppliedExactly
  BY <1>6 DEF Init, AppliedExactly, HandledRequests, Whole, Part
<1>9. HandledOnce /\ ProofCommitted /\ ProofsNumbered
  BY <1>6 DEF HandledOnce, ProofCommitted, ProofsNumbered
<1> QED
  BY Zenon, <1>1, <1>2, <1>3, <1>4, <1>5, <1>7, <1>8, <1>9, InitLog DEF IInv, Placement

LEMMA NextInvariant == IInv /\ [Next]_vars => IInv'
<1> SUFFICES ASSUME IInv, [Next]_vars PROVE IInv'
  BY Zenon
<1>1. TypeOK' /\ Positions'
  BY Zenon, NextType, NextPositions DEF IInv
<1>2. Placement' /\ NothingLost'
  BY Zenon, NextPlacement DEF IInv
<1>3. LastWriter' /\ ProofCommitted' /\ ProofsNumbered'
  BY Zenon, <1>1, NextLastWriter, NextProofCommitted, NextProofsNumbered DEF IInv, Placement
<1>4. AppliedExactly' /\ HandledOnce'
  BY Zenon, <1>1, NextApplied, NextHandledOnce DEF IInv, Placement
<1> QED
  BY Zenon, <1>1, <1>2, <1>3, <1>4 DEF IInv

LEMMA Invariance == Spec => []IInv
  BY InitInvariant, NextInvariant, PTL DEF Spec

(* variableMap is an exact index of the applied log (applyEntry).          *)
THEOREM DependenciesExact == Spec => []LastWriter
<1>1. IInv => LastWriter
  BY Zenon DEF IInv
<1> QED
  BY <1>1, Invariance, PTL

(* No request is applied twice, although two goroutines flush one queue.   *)
THEOREM AppliedOnce == Spec => []HandledOnce
<1>1. IInv => HandledOnce
  BY Zenon DEF IInv
<1> QED
  BY <1>1, Invariance, PTL

(* A running single-node shard has every submitted request in a queue, in  *)
(* flight or in its log.                                                   *)
THEOREM NoneLost == Spec => []NothingLost
<1>1. IInv => NothingLost
  BY Zenon DEF IInv
<1> QED
  BY <1>1, Invariance, PTL

(* What applyEntry has handled is exactly what the log holds so far.       *)
THEOREM LogApplied == Spec => []AppliedExactly
<1>1. IInv => AppliedExactly
  BY Zenon DEF IInv
<1> QED
  BY <1>1, Invariance, PTL

(* Every proof on commitC names the committed entry of its request.        *)
THEOREM ProofsAreEvidence == Spec => []ProofCommitted
<1>1. IInv => ProofCommitted
  BY Zenon DEF IInv
<1> QED
  BY <1>1, Invariance, PTL

(* Proofs are queued in log order and never ahead of the applied log.      *)
THEOREM ProofsOrdered == Spec => []ProofsInLogOrder
<1>1. IInv => ProofsInLogOrder
  <2> SUFFICES ASSUME IInv PROVE ProofsInLogOrder
    BY Zenon
  <2>1. commitIndex \in Nat /\ applied \in Nat /\ commitIndex <= applied + 1
    BY DEF IInv, TypeOK, TypeControl, Positions
  <2>2. \A i \in 1..Len(commitC) : commitC[i] \in Proof
    BY Zenon, SeqElement DEF IInv, TypeOK, TypeResults
  <2>3. \A i \in 1..Len(commitC) : commitC[i].CommitIndex \in Nat
    BY Zenon, <2>2 DEF Proof
  <2> QED
    BY <2>1, <2>3 DEF IInv, ProofsNumbered, ProofsInLogOrder
<1> QED
  BY <1>1, Invariance, PTL

(* The replica implements DependencyLog: whatever the batching, the        *)
(* elections and the interleaving of its goroutines, the dependencies it   *)
(* records are a function of the order in which requests are handled.      *)
THEOREM Refinement == Spec => ImplementsPromise
<1>1. Init => Promise!Init
  BY Zenon DEF Init, Promise!Init
<1>2. IInv /\ [Next]_vars => [Promise!Next]_handled
  BY Zenon, StepRefines DEF IInv, Placement
<1> QED
  BY <1>1, <1>2, Invariance, PTL DEF Spec, ImplementsPromise, Promise!Spec

-----------------------------------------------------------------------------
(* The handlers and their shard.                                           *)

(* The steps of the shard itself leave commitC alone, except for the one   *)
(* that applies a request.                                                 *)
LEMMA InternalCommitC ==
    ASSUME InternalNext
    PROVE  UNCHANGED commitC \/ ApplyRequest
<1> USE DEF chanVars, rest
<1>1. ASSUME NodeNext PROVE UNCHANGED commitC
  <2>1. PeerCampaign \/ WinElection \/ CommitEmpty => UNCHANGED commitC
    BY Zenon DEF PeerCampaign, WinElection, CommitEmpty
  <2>2. \A l \in 1..NumPeers : PeerLeads(l) => UNCHANGED commitC
    BY Zenon DEF PeerLeads
  <2>3. \A q : CommitProposal(q) \/ LoseProposal(q) \/ CommitRemote(q) => UNCHANGED commitC
    BY Zenon DEF CommitProposal, LoseProposal, CommitRemote
  <2> QED
    BY Zenon, <1>1, <2>1, <2>2, <2>3 DEF NodeNext
<1>2. ASSUME \/ RaftTick \/ RaftReady \/ RaftSend \/ SkipEntry \/ ApplyEntry
             \/ EndEntry \/ Advance \/ ReceiveRequest
      PROVE  UNCHANGED commitC
  BY Zenon, <1>2 DEF RaftTick, RaftReady, RaftSend, SkipEntry, ApplyEntry, EndEntry,
              Advance, ReceiveRequest
<1>3. ASSUME \/ RaftFlush \/ RaftPropose \/ RaftStop
             \/ BatcherTick \/ BatcherPropose \/ BatcherStop
      PROVE  UNCHANGED commitC
  BY Zenon, <1>3 DEF RaftFlush, RaftPropose, RaftStop, BatcherTick, BatcherPropose, BatcherStop,
              unchangedByFlush
<1>4. ASSUME StopNode \/ ConsumeMessages \/ ExpiryPasses PROVE UNCHANGED commitC
  BY Zenon, <1>4 DEF StopNode, ConsumeMessages, ExpiryPasses
<1> QED
  BY Zenon, <1>1, <1>2, <1>3, <1>4 DEF InternalNext

(* Of all the steps, only ReceiveProof changes what handlers hold.         *)
LEMMA HandlerMoves ==
    ASSUME [ENext]_evars
    PROVE  /\ [Next]_vars
           /\ \/ UNCHANGED got /\ (UNCHANGED commitC \/ ApplyRequest)
              \/ \E r \in Requests : ReceiveProof(r)
<1> DEFINE quiet == UNCHANGED got /\ (UNCHANGED commitC \/ ApplyRequest)
<1>1. ASSUME NEW r \in Requests,
             \/ Reject(r) \/ Receive(r) \/ SimulateFails(r) \/ ChaincodeFails(r)
             \/ Simulate(r) \/ GetResults(r) \/ GetShard(r) \/ Panic(r)
             \/ SubmitTimeout(r) \/ WaitTimeout(r) \/ RefuseThreshold(r)
             \/ EndorseFails(r) \/ Endorse(r) \/ Respond(r)
      PROVE  UNCHANGED vars /\ quiet
  BY Zenon, <1>1 DEF Reject, Receive, SimulateFails, ChaincodeFails, Simulate, GetResults,
              GetShard, Panic, SubmitTimeout, WaitTimeout, RefuseThreshold,
              EndorseFails, Endorse, Respond, vars, chanVars
<1>2. ASSUME NEW r \in Requests, SubmitPrepare(r)
      PROVE  Next /\ quiet
  BY Zenon, <1>2 DEF SubmitPrepare, Submit, Next, CallerNext
<1>3. ASSUME NEW r \in Requests, Abort(r)
      PROVE  Next /\ quiet
  BY Zenon, <1>3 DEF Abort, HandleAbort, chanVars, Next, CallerNext
<1>4. ASSUME NEW r \in Requests, ReceiveProof(r)
      PROVE  Next
  BY Zenon, <1>4 DEF ReceiveProof, Next, CallerNext
<1>5. ASSUME Shutdown PROVE Next /\ quiet
  BY Zenon, <1>5 DEF Shutdown, Stop, chanVars, handlerVars, Next, CallerNext
<1>6. ASSUME InternalNext, UNCHANGED handlerVars PROVE Next /\ quiet
  BY Zenon, <1>6, InternalCommitC DEF handlerVars, Next
<1>7. ASSUME UNCHANGED evars PROVE UNCHANGED vars /\ quiet
  BY Zenon, <1>7 DEF evars, handlerVars, vars, chanVars
<1> HIDE DEF quiet
<1>8. SUFFICES [Next]_vars /\ (quiet \/ \E r \in Requests : ReceiveProof(r))
  BY Zenon DEF quiet
<1> QED
  BY ZenonT(30), <1>1, <1>2, <1>3, <1>4, <1>5, <1>6, <1>7 DEF ENext, HandlerNext

(* The handlers take no liberty with the shard: everything that is proved  *)
(* of ShardLeader for arbitrary callers holds of the endorser's shard.     *)
THEOREM HandlersUseShard == ESpec => Spec
<1>1. EInit => Init
  BY Zenon DEF EInit
<1>2. [ENext]_evars => [Next]_vars
  BY Zenon, HandlerMoves
<1> QED
  BY <1>1, <1>2, PTL DEF ESpec, Spec

-----------------------------------------------------------------------------
(* A handler holds a proof only after it has received one, once.           *)
HoldersBeyond ==
    \A r \in Requests :
        got[r] # NoProof => hPC[r] \in {"abort", "endorse", "message"} \cup Ended

(* What is queued on commitC has distinct transactions.                    *)
QueuedOnce ==
    \A i, j \in 1..Len(commitC) : commitC[i].TxID = commitC[j].TxID => i = j

(* The type invariant of the handlers, with the shard's invariant.         *)
LEMMA ReceiveType ==
    ASSUME IInv, ETypeOK, HoldersBeyond, NEW r \in Requests, ReceiveProof(r)
    PROVE  /\ Head(commitC) \in Proof /\ commitC # <<>> /\ commitC' = Tail(commitC)
           /\ Len(commitC) \in Nat \ {0} /\ Head(commitC) = commitC[1]
           /\ hPC[r] = "wait" /\ got[r] = NoProof
           /\ got' = [got EXCEPT ![r] = Head(commitC)]
           /\ hPC' = [hPC EXCEPT ![r] = "endorse"]
           /\ UNCHANGED <<handled, log>>
<1>1. commitC \in Seq(Proof) /\ commitC # <<>> /\ commitC' = Tail(commitC)
  BY Zenon DEF IInv, TypeOK, TypeResults, ReceiveProof, TakeProof
<1>2. /\ Head(commitC) \in Proof /\ Len(commitC) \in Nat \ {0}
      /\ Head(commitC) = commitC[1]
  BY Zenon, <1>1, SeqFirst
<1>3. verifyProof(Head(commitC))
  BY ZenonT(30), <1>2, EndorserAssumption, RequestAssumption DEF verifyProof, Proof
<1>4. /\ hPC[r] = "wait" /\ hPC' = [hPC EXCEPT ![r] = "endorse"]
      /\ got' = [got EXCEPT ![r] = Head(commitC)]
  BY Zenon, <1>3 DEF ReceiveProof, Goto
<1>5. got[r] = NoProof
  BY Zenon, <1>4 DEF HoldersBeyond, Ended
<1>6. UNCHANGED <<handled, log>>
  BY Zenon DEF ReceiveProof, TakeProof, mapVars, nodeVars
<1> QED
  BY Zenon, <1>1, <1>2, <1>4, <1>5, <1>6

(* Where a handler may go without a proof that is new to it.               *)
Beyond == {"abort", "endorse", "message"} \cup Ended

Legal(from, to) ==
    /\ to \in {"simulate", "results", "shard", "submit", "wait"} \cup Beyond
    /\ to \in {"endorse", "message", "endorsed"} => from \in {"endorse", "message"}
    /\ from \in Beyond => to \in Beyond

LEMMA LegalMoves ==
    /\ Legal("idle", "failed") /\ Legal("idle", "simulate") /\ Legal("simulate", "failed")
    /\ Legal("simulate", "refused") /\ Legal("simulate", "results")
    /\ Legal("results", "failed") /\ Legal("results", "shard") /\ Legal("shard", "submit")
    /\ Legal("shard", "failed") /\ Legal("submit", "wait") /\ Legal("submit", "failed")
    /\ Legal("wait", "abort") /\ Legal("abort", "failed") /\ Legal("endorse", "refused")
    /\ Legal("endorse", "failed") /\ Legal("endorse", "message") /\ Legal("message", "endorsed")
  BY Zenon DEF Legal, Beyond, Ended

Goes(r) == got' = got /\ \E from, to : Legal(from, to) /\ Goto(r, from, to)

Same == UNCHANGED <<status, message, payload, panicked>>

(* The types of what a handler says.                                       *)
Said ==
    /\ status \in [Requests -> {"ok", "threshold"}]
    /\ message \in [Requests -> Message \cup {NoMessage}]
    /\ payload \in [Requests -> Message \cup {NoMessage}]
    /\ panicked \in BOOLEAN

LEMMA GoesKeeps ==
    ASSUME ETypeOK, HoldersBeyond, NEW r \in Requests, Goes(r), Said'
    PROVE  ETypeOK' /\ HoldersBeyond'
<1>1. PICK from, to : Legal(from, to) /\ Goto(r, from, to)
  BY Zenon DEF Goes
<1>2. got' = got /\ hPC[r] = from /\ hPC' = [hPC EXCEPT ![r] = to]
  BY Zenon, <1>1 DEF Goes, Goto
<1>3. hPC \in [Requests -> {"idle", "simulate", "results", "shard", "submit", "wait",
                            "abort", "endorse", "message"} \cup Ended]
  BY Zenon DEF ETypeOK
<1>4. ETypeOK'
  <2>1. hPC' \in [Requests -> {"idle", "simulate", "results", "shard", "submit", "wait",
                               "abort", "endorse", "message"} \cup Ended]
    BY Zenon, <1>1, <1>2, <1>3 DEF Legal, Beyond
  <2>2. \A s \in Requests : hPC'[s] \in {"endorse", "message", "endorsed"} => got[s] # NoProof
    BY Zenon, <1>1, <1>2, <1>3 DEF ETypeOK, Legal
  <2> QED
    BY Zenon, <1>2, <2>1, <2>2 DEF ETypeOK, Said
<1>5. HoldersBeyond'
  BY Zenon, <1>1, <1>2, <1>3 DEF HoldersBeyond, Legal, Beyond
<1> QED
  BY Zenon, <1>4, <1>5

LEMMA NextHandlers ==
    ASSUME IInv, ETypeOK, HoldersBeyond, [ENext]_evars
    PROVE  ETypeOK' /\ HoldersBeyond'
<1>0. Said /\ got \in [Requests -> Proof \cup {NoProof}]
  BY Zenon DEF ETypeOK, Said
<1>1. ASSUME NEW r \in Requests,
             \/ Reject(r) \/ Receive(r) \/ SimulateFails(r) \/ ChaincodeFails(r)
             \/ GetResults(r) \/ GetShard(r) \/ SubmitTimeout(r) \/ SubmitPrepare(r)
             \/ Abort(r) \/ WaitTimeout(r) \/ RefuseThreshold(r) \/ EndorseFails(r)
      PROVE  ETypeOK' /\ HoldersBeyond'
  <2>1. Goes(r) /\ Same
    <3>1. CASE Reject(r)
      BY Zenon, <3>1, LegalMoves DEF Goes, Same, Reject
    <3>2. CASE Receive(r)
      BY Zenon, <3>2, LegalMoves DEF Goes, Same, Receive
    <3>3. CASE SimulateFails(r)
      BY Zenon, <3>3, LegalMoves DEF Goes, Same, SimulateFails
    <3>4. CASE ChaincodeFails(r)
      BY Zenon, <3>4, LegalMoves DEF Goes, Same, ChaincodeFails
    <3>5. CASE GetResults(r)
      BY Zenon, <3>5, LegalMoves DEF Goes, Same, GetResults
    <3>6. CASE GetShard(r)
      BY Zenon, <3>6, LegalMoves DEF Goes, Same, GetShard
    <3>7. CASE SubmitTimeout(r)
      BY Zenon, <3>7, LegalMoves DEF Goes, Same, SubmitTimeout
    <3>8. CASE SubmitPrepare(r)
      BY Zenon, <3>8, LegalMoves DEF Goes, Same, SubmitPrepare
    <3>9. CASE Abort(r)
      BY Zenon, <3>9, LegalMoves DEF Goes, Same, Abort
    <3>10. CASE WaitTimeout(r)
      BY Zenon, <3>10, LegalMoves DEF Goes, Same, WaitTimeout
    <3>11. CASE RefuseThreshold(r)
      BY Zenon, <3>11, LegalMoves DEF Goes, Same, RefuseThreshold
    <3>12. CASE EndorseFails(r)
      BY Zenon, <3>12, LegalMoves DEF Goes, Same, EndorseFails
    <3> QED
      BY Zenon, <1>1, <3>1, <3>2, <3>3, <3>4, <3>5, <3>6, <3>7, <3>8, <3>9, <3>10, <3>11, <3>12
  <2>2. Said'
    BY Zenon, <1>0, <2>1 DEF Said, Same
  <2> QED
    BY Zenon, <2>1, <2>2, GoesKeeps
<1>2. ASSUME NEW r \in Requests, Simulate(r)
      PROVE  ETypeOK' /\ HoldersBeyond'
  <2>1. Goes(r) /\ UNCHANGED <<message, payload, panicked>>
    BY Zenon, <1>2, LegalMoves DEF Goes, Simulate
  <2>2. status' \in [Requests -> {"ok", "threshold"}]
    <3>1. PICK s \in {"ok", "threshold"} : status' = [status EXCEPT ![r] = s]
      BY Zenon, <1>2 DEF Simulate
    <3> QED
      BY Zenon, <1>0, <3>1 DEF Said
  <2>3. Said'
    BY Zenon, <1>0, <2>1, <2>2 DEF Said
  <2> QED
    BY Zenon, <2>1, <2>3, GoesKeeps
<1>3. ASSUME NEW r \in Requests, Endorse(r)
      PROVE  ETypeOK' /\ HoldersBeyond'
  <2>1. Goes(r) /\ UNCHANGED <<status, message, panicked>>
    BY Zenon, <1>3, LegalMoves DEF Goes, Endorse
  <2>2. payload' \in [Requests -> Message \cup {NoMessage}]
    <3>1. payload' = [payload EXCEPT ![r] = message[r]]
      BY Zenon, <1>3 DEF Endorse
    <3> QED
      BY Zenon, <1>0, <3>1 DEF Said
  <2>3. Said'
    BY Zenon, <1>0, <2>1, <2>2 DEF Said
  <2> QED
    BY Zenon, <2>1, <2>3, GoesKeeps
<1>4. ASSUME NEW r \in Requests, Respond(r)
      PROVE  ETypeOK' /\ HoldersBeyond'
  <2>1. Goes(r) /\ UNCHANGED <<status, payload, panicked>> /\ hPC[r] = "message"
    BY Zenon, <1>4, LegalMoves DEF Goes, Respond, Goto
  <2>2. got[r] \in Proof
    BY Zenon, <1>0, <2>1 DEF ETypeOK
  <2>3. got[r].CommitIndex \in Nat /\ got[r].Term \in Nat
    BY Zenon, <2>2 DEF Proof
  <2> DEFINE m == [HasDependency |-> got[r].CommitIndex > 1, DependentTxID |-> NoTx,
                   ShardCommitIndex |-> got[r].CommitIndex, ProofTerm |-> got[r].Term]
  <2>4. m \in Message
    BY <2>3 DEF Message
  <2>5. message' = [message EXCEPT ![r] = m]
    BY Zenon, <1>4 DEF Respond
  <2> HIDE DEF m
  <2>6. message' \in [Requests -> Message \cup {NoMessage}]
    BY Zenon, <1>0, <2>4, <2>5 DEF Said
  <2>7. Said'
    BY Zenon, <1>0, <2>1, <2>6 DEF Said
  <2> QED
    BY Zenon, <2>1, <2>7, GoesKeeps
<1>5. ASSUME NEW r \in Requests, Panic(r)
      PROVE  ETypeOK' /\ HoldersBeyond'
  <2>1. UNCHANGED <<hPC, got, status, message, payload>> /\ panicked' \in BOOLEAN
    BY Zenon, <1>5 DEF Panic
  <2> QED
    BY Zenon, <2>1 DEF ETypeOK, HoldersBeyond
<1>6. ASSUME NEW r \in Requests, ReceiveProof(r)
      PROVE  ETypeOK' /\ HoldersBeyond'
  <2>1. Same
    BY Zenon, <1>6 DEF ReceiveProof, Same
  <2>2. /\ Head(commitC) \in Proof /\ got' = [got EXCEPT ![r] = Head(commitC)]
        /\ hPC' = [hPC EXCEPT ![r] = "endorse"]
    BY Zenon, <1>6, ReceiveType
  <2>3. Said' /\ got' \in [Requests -> Proof \cup {NoProof}]
    <3>1. Said'
      BY Zenon, <1>0, <2>1 DEF Said, Same
    <3> QED
      BY Zenon, <1>0, <2>2, <3>1
  <2>4. NoProof \notin Proof
    BY Zenon, EndorserAssumption
  <2>5. /\ hPC' \in [Requests -> {"idle", "simulate", "results", "shard", "submit", "wait",
                                  "abort", "endorse", "message"} \cup Ended]
        /\ \A s \in Requests : hPC'[s] \in {"endorse", "message", "endorsed"} => got'[s] # NoProof
    BY Zenon, <1>0, <2>2, <2>4 DEF ETypeOK
  <2>6. HoldersBeyond'
    BY Zenon, <1>0, <2>2 DEF HoldersBeyond, ETypeOK
  <2> QED
    BY Zenon, <2>3, <2>5, <2>6 DEF ETypeOK, Said
<1>7. ASSUME UNCHANGED handlerVars PROVE ETypeOK' /\ HoldersBeyond'
  BY Zenon, <1>7 DEF handlerVars, ETypeOK, HoldersBeyond
<1> QED
  BY ZenonT(30), <1>1, <1>2, <1>3, <1>4, <1>5, <1>6, <1>7
     DEF ENext, HandlerNext, Shutdown, evars

(* Evidence is never withdrawn: the log and the history only grow.         *)
LEMMA EvidenceStays ==
    ASSUME TypeOK, TypeOK', Positions, OnceLog, [Next]_vars
    PROVE  /\ Len(log) \in Nat /\ Len(log') \in Nat /\ Len(log') >= Len(log)
           /\ \A i \in 1..Len(log) : log'[i] = log[i]
           /\ HandledRequests \subseteq HandledRequests'
<1>1. Len(log) \in Nat /\ Len(log') \in Nat
  BY DEF TypeOK, TypeNode
<1>2. Len(log') >= Len(log) /\ \A i \in 1..Len(log) : log'[i] = log[i]
  BY <1>1, LogGrows
<1>3. HandledRequests \subseteq HandledRequests'
  BY ZenonT(30), MapMoves, ApplyMoves DEF HandledRequests
<1> QED
  BY Zenon, <1>1, <1>2, <1>3

LEMMA NextHeldEvidence ==
    ASSUME IInv, IInv', ETypeOK, HoldersBeyond, HeldEvidence, [ENext]_evars
    PROVE  HeldEvidence'
<1>1. /\ Len(log) \in Nat /\ Len(log') \in Nat /\ Len(log') >= Len(log)
      /\ \A i \in 1..Len(log) : log'[i] = log[i]
      /\ HandledRequests \subseteq HandledRequests'
  BY ZenonT(30), EvidenceStays, HandlerMoves DEF IInv, Placement
<1>2. SUFFICES ASSUME NEW r \in Requests, got'[r] # NoProof
               PROVE  Evidence(got[r])' 
  BY Zenon DEF HeldEvidence, Holders
<1>3. CASE got'[r] = got[r]
  <2>1. Evidence(got[r])
    BY Zenon, <1>2, <1>3 DEF HeldEvidence, Holders
  <2> QED
    BY SMTT(30), <1>1, <1>3, <2>1 DEF Evidence
<1>4. CASE ReceiveProof(r)
  <2>1. Evidence(commitC[1]) /\ got'[r] = commitC[1]
    BY SMTT(30), <1>4, ReceiveType DEF IInv, ProofCommitted, ETypeOK
  <2> QED
    BY SMTT(30), <1>1, <2>1 DEF Evidence
<1>5. \A s \in Requests : s # r /\ ReceiveProof(s) => got'[r] = got[r]
  BY ReceiveType DEF ETypeOK
<1> QED
  BY ZenonT(30), <1>3, <1>4, <1>5, HandlerMoves

-----------------------------------------------------------------------------
(* What applying a request does to the history and to commitC.             *)
LEMMA Applying ==
    ASSUME IInv, ApplyRequest
    PROVE  /\ Current \in Requests \ HandledRequests
           /\ HandledRequests' = HandledRequests \cup {Current}
           /\ Len(handled') = Len(handled) + 1
           /\ commitC' = IF Len(commitC) < CommitCap THEN Append(commitC, Sent) ELSE commitC
<1>1. /\ Current \in Requests
      /\ HandledRequests' = HandledRequests \cup {Current}
      /\ Current \notin HandledRequests
  BY Zenon, CurrentRequest, ApplyMoves DEF IInv, Placement, AppliedExactly
<1>2. Len(handled') = Len(handled) + 1
  <2>1. PICK h : handled' = Append(handled, h)
    BY ZenonT(30), CurrentRequest DEF IInv
  <2> QED
    BY <2>1 DEF IInv, TypeOK, TypeResults
<1>3. commitC' = IF Len(commitC) < CommitCap THEN Append(commitC, Sent) ELSE commitC
  <2>1. SendProof(Sent)
    BY Zenon DEF ApplyRequest, Sent, Current
  <2> QED
    BY Zenon, <2>1 DEF SendProof
<1> QED
  BY Zenon, <1>1, <1>2, <1>3

(* The transaction of a proof, held or queued, is one that was handled.    *)
LEMMA ProofsOfHandled ==
    ASSUME IInv, HeldEvidence
    PROVE  /\ \A r \in Holders : \E q \in HandledRequests : TxID[q] = got[r].TxID
           /\ \A i \in 1..Len(commitC) :
                 \E q \in HandledRequests : TxID[q] = commitC[i].TxID
  BY Zenon DEF IInv, HeldEvidence, ProofCommitted, Evidence

LEMMA HandledAreRequests == ASSUME IInv PROVE HandledRequests \subseteq Requests
<1>1. \A i \in 1..Len(handled) : handled[i] \in Handled
  BY Zenon, SeqElement DEF IInv, TypeOK, TypeResults
<1> QED
  BY Zenon, <1>1 DEF HandledRequests, Handled

LEMMA NextOneProof ==
    ASSUME IInv, ETypeOK, HoldersBeyond, HeldEvidence, DistinctTxIDs, QueuedOnce,
           OneProofEach, [ENext]_evars
    PROVE  QueuedOnce' /\ OneProofEach'
<1>1. commitC \in Seq(Proof) /\ Len(commitC) \in Nat
  BY DEF IInv, TypeOK, TypeResults
<1>2. /\ \A r, s \in Holders : got[s].TxID = got[r].TxID => s = r
      /\ \A r \in Holders, i \in 1..Len(commitC) : commitC[i].TxID # got[r].TxID
  BY Zenon DEF OneProofEach
<1>3. CASE UNCHANGED got /\ UNCHANGED commitC
  BY Zenon, <1>3 DEF QueuedOnce, OneProofEach, Holders
<1>4. CASE UNCHANGED got /\ ApplyRequest /\ commitC' = Append(commitC, Sent)
  <2>1. /\ Current \in Requests \ HandledRequests /\ HandledRequests \subseteq Requests
        /\ Sent.TxID = TxID[Current]
    <3>1. Current \in Requests \ HandledRequests
      BY Zenon, <1>4, Applying
    <3> QED
      BY Zenon, <3>1, HandledAreRequests, SentIs
  <2>2. /\ \A r \in Holders : got[r].TxID # Sent.TxID
        /\ \A i \in 1..Len(commitC) : commitC[i].TxID # Sent.TxID
    <3>1. \A q \in HandledRequests : TxID[q] # Sent.TxID
      BY Zenon, <2>1 DEF DistinctTxIDs
    <3> QED
      BY Zenon, <3>1, ProofsOfHandled
  <2>3. /\ Len(commitC') = Len(commitC) + 1 /\ commitC'[Len(commitC) + 1] = Sent
        /\ \A i \in 1..Len(commitC) : commitC'[i] = commitC[i]
    BY <1>1, <1>4
  <2>4. \A i \in 1..Len(commitC') : i \in 1..Len(commitC) \/ i = Len(commitC) + 1
    BY Zenon, <1>1, <2>3, OneMore
  <2>5. QueuedOnce'
    BY Zenon, <2>2, <2>3, <2>4 DEF QueuedOnce
  <2>6. \A r \in Holders, i \in 1..Len(commitC') : commitC'[i].TxID # got[r].TxID
    BY SMTT(30), <1>2, <2>2, <2>3, <2>4
  <2>7. Holders' = Holders /\ got' = got
    BY Zenon, <1>4 DEF Holders
  <2>8. OneProofEach'
    BY Zenon, <1>2, <2>6, <2>7 DEF OneProofEach
  <2> QED
    BY Zenon, <2>5, <2>8
<1>5. ASSUME NEW r \in Requests, ReceiveProof(r)
      PROVE  QueuedOnce' /\ OneProofEach'
  <2>1. /\ Len(commitC) \in Nat \ {0} /\ got' = [got EXCEPT ![r] = commitC[1]]
        /\ Len(commitC') = Len(commitC) - 1
        /\ \A i \in 1..Len(commitC') : commitC'[i] = commitC[i + 1]
    <3>1. /\ commitC # <<>> /\ commitC' = Tail(commitC) /\ Len(commitC) \in Nat \ {0}
          /\ got' = [got EXCEPT ![r] = commitC[1]]
      BY ZenonT(30), <1>5, ReceiveType
    <3> QED
      BY Zenon, <1>1, <3>1, SeqFirst
  <2>0. \A i \in 1..Len(commitC') :
           i \in Nat /\ i + 1 \in 1..Len(commitC) /\ commitC'[i] = commitC[i + 1]
    BY <2>1
  <2>2. QueuedOnce'
    <3>1. SUFFICES ASSUME NEW i \in 1..Len(commitC'), NEW j \in 1..Len(commitC'),
                          commitC'[i].TxID = commitC'[j].TxID
                   PROVE  i = j
      BY Zenon DEF QueuedOnce
    <3>2. /\ i \in Nat /\ j \in Nat
          /\ i + 1 \in 1..Len(commitC) /\ j + 1 \in 1..Len(commitC)
          /\ commitC[i + 1].TxID = commitC[j + 1].TxID
      BY Zenon, <2>0, <3>1
    <3>3. i + 1 = j + 1
      BY Zenon, <3>2 DEF QueuedOnce
    <3> QED
      BY <3>2, <3>3
  <2>3. /\ Holders' \subseteq Holders \cup {r} /\ got'[r] = commitC[1]
        /\ \A s \in Holders' \ {r} : s \in Holders /\ got'[s] = got[s]
    BY Zenon, <2>1 DEF Holders, ETypeOK
  <2>4. \A i \in 1..Len(commitC') : i + 1 \in 1..Len(commitC) /\ i + 1 # 1
    BY <2>1
  <2>5. \A i \in 1..Len(commitC') : commitC'[i].TxID # commitC[1].TxID
    BY SMTT(30), <2>1, <2>4 DEF QueuedOnce
  <2>6. \A s \in Holders' \ {r} : got'[s].TxID # commitC[1].TxID
    <3>1. 1 \in 1..Len(commitC)
      BY <2>1
    <3>2. \A s \in Holders' \ {r} : s \in Holders /\ got'[s] = got[s]
      BY Zenon, <2>3
    <3>3. \A s \in Holders : got[s].TxID # commitC[1].TxID
      BY Zenon, <1>2, <3>1
    <3> QED
      BY Zenon, <3>2, <3>3
  <2>7. \A s \in Holders' \ {r}, i \in 1..Len(commitC') : commitC'[i].TxID # got'[s].TxID
    <3>1. \A s \in Holders' \ {r} : s \in Holders /\ got'[s] = got[s]
      BY Zenon, <2>3
    <3>2. \A s \in Holders, i \in 1..Len(commitC) : commitC[i].TxID # got[s].TxID
      BY Zenon, <1>2
    <3> QED
      BY Zenon, <2>0, <3>1, <3>2
  <2>8. \A s, q \in Holders' : got'[q].TxID = got'[s].TxID => q = s
    <3>1. \A s \in Holders' \ {r} : s \in Holders /\ got'[s] = got[s]
      BY Zenon, <2>3
    <3>2. \A s, q \in Holders' \ {r} : got'[q].TxID = got'[s].TxID => q = s
      BY Zenon, <1>2, <3>1
    <3>3. \A s \in Holders' \ {r} : got'[s].TxID # got'[r].TxID
      BY Zenon, <2>3, <2>6
    <3> QED
      BY Zenon, <3>2, <3>3
  <2>9. \A s \in Holders', i \in 1..Len(commitC') : commitC'[i].TxID # got'[s].TxID
    BY Zenon, <2>3, <2>5, <2>7
  <2> QED
    BY Zenon, <2>2, <2>8, <2>9 DEF OneProofEach
<1>6. ApplyRequest => UNCHANGED commitC \/ commitC' = Append(commitC, Sent)
  BY Zenon, Applying
<1> QED
  BY Zenon, <1>3, <1>4, <1>5, <1>6, HandlerMoves

-----------------------------------------------------------------------------
(* The history counts each request once.                                   *)
(* SetFacts is what the lemmas use of finite sets; the library proves it   *)
(* (SetFactsHold), and as a hypothesis it keeps the library's theorems out *)
(* of the context of every step.                                           *)
SetFacts ==
    /\ IsFiniteSet({}) /\ Cardinality({}) = 0
    /\ \A S : IsFiniteSet(S) => Cardinality(S) \in Nat
    /\ \A S, x : IsFiniteSet(S) /\ x \notin S =>
          IsFiniteSet(S \cup {x}) /\ Cardinality(S \cup {x}) = Cardinality(S) + 1
    /\ \A S : \A T \in SUBSET S : IsFiniteSet(S) =>
          IsFiniteSet(T) /\ Cardinality(T) <= Cardinality(S)

Counted ==
    /\ IsFiniteSet(HandledRequests) /\ IsFiniteSet(Holders)
    /\ Cardinality(HandledRequests) = Len(handled)

LEMMA NextCounted ==
    ASSUME SetFacts, IInv, IInv', ETypeOK, HoldersBeyond, Counted, ProofsConserved,
           [ENext]_evars
    PROVE  Counted' /\ ProofsConserved'
<1>1. /\ Len(commitC) \in Nat /\ Len(handled) \in Nat /\ commitC \in Seq(Proof)
      /\ CommitCap \in Nat /\ IsFiniteSet(Requests) /\ Cardinality(Requests) \in Nat
  <2>1. commitC \in Seq(Proof) /\ handled \in Seq(Handled)
    BY Zenon DEF IInv, TypeOK, TypeResults
  <2>2. CommitCap \in Nat /\ IsFiniteSet(Requests)
    BY Zenon, ConfigAssumption, EndorserAssumption
  <2>3. Cardinality(Requests) \in Nat
    BY Zenon, <2>2 DEF SetFacts
  <2> QED
    BY SMTT(30), <2>1, <2>2, <2>3
<1>2. IsFiniteSet(Holders') /\ Cardinality(Holders) \in Nat /\ Cardinality(Holders') \in Nat
  BY Zenon, <1>1 DEF SetFacts, Holders, Counted
<1>3. CASE ApplyRequest /\ UNCHANGED got
  <2>1. /\ Current \in Requests \ HandledRequests
        /\ HandledRequests' = HandledRequests \cup {Current}
        /\ Len(handled') = Len(handled) + 1
        /\ commitC' = IF Len(commitC) < CommitCap THEN Append(commitC, Sent) ELSE commitC
    BY Zenon, <1>3, Applying
  <2>2. /\ IsFiniteSet(HandledRequests')
        /\ Cardinality(HandledRequests') = Cardinality(HandledRequests) + 1
    BY ZenonT(30), <2>1 DEF SetFacts, Counted
  <2>3. Cardinality(HandledRequests') <= Cardinality(Requests)
    <3>1. HandledRequests' \subseteq Requests
      BY Zenon, <2>1, HandledAreRequests
    <3> QED
      BY Zenon, <1>1, <3>1 DEF SetFacts
  <2>4. Counted'
    BY Zenon, <1>1, <1>2, <2>1, <2>2 DEF Counted
  <2>5. Holders' = Holders
    BY Zenon, <1>3 DEF Holders
  <2>6. ASSUME CommitCap >= Cardinality(Requests)
        PROVE  Cardinality(Holders) + Len(commitC') = Len(handled')
    <3>1. Cardinality(Holders) + Len(commitC) = Len(handled)
      BY Zenon, <2>6 DEF ProofsConserved
    <3>2. Len(commitC) < CommitCap
      BY SMTT(30), <1>1, <1>2, <2>2, <2>3, <2>6, <3>1 DEF Counted
    <3>3. Len(commitC') = Len(commitC) + 1
      BY SMTT(30), <1>1, <2>1, <3>2
    <3> QED
      BY SMTT(30), <1>1, <1>2, <2>1, <3>1, <3>3
  <2>7. ProofsConserved'
    BY Zenon, <2>5, <2>6 DEF ProofsConserved
  <2> QED
    BY Zenon, <2>4, <2>7
<1>4. CASE UNCHANGED <<got, commitC, handled>>
  BY Zenon, <1>4 DEF Counted, ProofsConserved, Holders, HandledRequests
<1>5. ASSUME NEW r \in Requests, ReceiveProof(r)
      PROVE  Counted' /\ ProofsConserved'
  <2>1. /\ Len(commitC) \in Nat \ {0} /\ got' = [got EXCEPT ![r] = commitC[1]]
        /\ Len(commitC') = Len(commitC) - 1
        /\ commitC[1] \in Proof /\ got[r] = NoProof /\ handled' = handled
    <3>1. /\ commitC # <<>> /\ commitC' = Tail(commitC) /\ Len(commitC) \in Nat \ {0}
          /\ got' = [got EXCEPT ![r] = commitC[1]] /\ commitC[1] \in Proof
          /\ got[r] = NoProof /\ handled' = handled
      BY ZenonT(30), <1>5, ReceiveType
    <3>2. Len(commitC') = Len(commitC) - 1
      BY <1>1, <3>1
    <3> QED
      BY Zenon, <3>1, <3>2
  <2>2. Holders' = Holders \cup {r} /\ r \notin Holders
    <3>1. /\ got \in [Requests -> Proof \cup {NoProof}] /\ got[r] = NoProof
          /\ got' = [got EXCEPT ![r] = commitC[1]]
      BY Zenon, <2>1 DEF ETypeOK
    <3>2. commitC[1] # NoProof
      BY Zenon, <2>1, EndorserAssumption
    <3> QED
      BY Zenon, <3>1, <3>2 DEF Holders
  <2>3. Cardinality(Holders') = Cardinality(Holders) + 1
    BY ZenonT(30), <2>2 DEF SetFacts, Counted
  <2>4. Counted'
    BY ZenonT(30), <1>2, <2>1 DEF Counted, HandledRequests
  <2>5. ProofsConserved'
    BY SMTT(30), <1>1, <1>2, <2>1, <2>3 DEF ProofsConserved
  <2> QED
    BY Zenon, <2>4, <2>5
<1>6. \/ ApplyRequest /\ UNCHANGED got
      \/ UNCHANGED <<got, commitC>>
      \/ \E r \in Requests : ReceiveProof(r)
  BY Zenon, HandlerMoves
<1>7. ApplyRequest \/ UNCHANGED handled
  BY Zenon, HandlerMoves, MapMoves
<1> QED
  BY Zenon, <1>3, <1>4, <1>5, <1>6, <1>7

-----------------------------------------------------------------------------
(* The inductive invariant of the handlers and their shard.                *)
EInv == /\ IInv /\ ETypeOK /\ HoldersBeyond /\ HeldEvidence
        /\ Counted /\ ProofsConserved
        /\ OneProofEach /\ (DistinctTxIDs => QueuedOnce)

LEMMA InitHandlers ==
    ASSUME SetFacts, EInit
    PROVE  EInv
<1>1. IInv
  BY Zenon, InitInvariant DEF EInit
<1>2. ETypeOK /\ Holders = {}
  BY ZenonT(30) DEF EInit, ETypeOK, Holders
<1>3. handled = <<>> /\ commitC = <<>> /\ HandledRequests = {}
  <2>1. handled = <<>> /\ commitC = <<>>
    BY Zenon DEF EInit, Init
  <2> QED
    BY SMTT(30), <2>1 DEF HandledRequests
<1>4. Counted /\ ProofsConserved
  <2>1. IsFiniteSet({}) /\ Cardinality({}) = 0
    BY Zenon DEF SetFacts
  <2>2. Len(handled) = 0 /\ Len(commitC) = 0
    BY Zenon, <1>3
  <2> QED
    BY SMTT(30), <1>2, <1>3, <2>1, <2>2 DEF Counted, ProofsConserved
<1>5. HoldersBeyond /\ HeldEvidence /\ OneProofEach /\ QueuedOnce
  BY <1>2, <1>3 DEF HoldersBeyond, HeldEvidence, OneProofEach, QueuedOnce, Holders
<1> QED
  BY Zenon, <1>1, <1>2, <1>4, <1>5 DEF EInv

LEMMA NextHandlersInv ==
    ASSUME SetFacts, EInv, [ENext]_evars
    PROVE  EInv'
<1>1. IInv'
  BY Zenon, HandlerMoves, NextInvariant DEF EInv
<1>2. ETypeOK' /\ HoldersBeyond'
  BY Zenon, NextHandlers DEF EInv
<1>3. HeldEvidence' /\ Counted' /\ ProofsConserved'
  BY Zenon, <1>1, NextHeldEvidence, NextCounted DEF EInv
<1>4. CASE DistinctTxIDs
  <2>1. QueuedOnce' /\ OneProofEach'
    BY Zenon, <1>4, NextOneProof DEF EInv
  <2> QED
    BY Zenon, <1>1, <1>2, <1>3, <2>1 DEF EInv
<1>5. CASE ~DistinctTxIDs
  <2>1. OneProofEach' /\ (DistinctTxIDs => QueuedOnce)'
    BY Zenon, <1>5 DEF OneProofEach, DistinctTxIDs
  <2> QED
    BY Zenon, <1>1, <1>2, <1>3, <2>1 DEF EInv
<1> QED
  BY Zenon, <1>4, <1>5

-----------------------------------------------------------------------------
INSTANCE FiniteSetTheorems

LEMMA SetFactsHold == SetFacts
<1>1. \A S, x : IsFiniteSet(S) /\ x \notin S =>
         IsFiniteSet(S \cup {x}) /\ Cardinality(S \cup {x}) = Cardinality(S) + 1
  BY Zenon, FS_AddElement
<1>2. \A S : \A T \in SUBSET S : IsFiniteSet(S) =>
         IsFiniteSet(T) /\ Cardinality(T) <= Cardinality(S)
  BY Zenon, FS_Subset
<1> QED
  BY Zenon, <1>1, <1>2, FS_EmptySet, FS_CardinalityType DEF SetFacts

LEMMA HandlersInvariance == ESpec => []EInv
<1>1. EInit => EInv
  BY Zenon, SetFactsHold, InitHandlers
<1>2. EInv /\ [ENext]_evars => EInv'
  BY Zenon, SetFactsHold, NextHandlersInv
<1> QED
  BY <1>1, <1>2, PTL DEF ESpec

(* Every variable of the handlers keeps its type, and a handler endorses   *)
(* only with a proof in hand.                                              *)
THEOREM HandlersTypeCorrect == ESpec => []ETypeOK
<1>1. EInv => ETypeOK
  BY Zenon DEF EInv
<1> QED
  BY <1>1, HandlersInvariance, PTL

(* Every proof a handler holds is evidence of a committed, applied batch,  *)
(* however many handlers share commitC and whichever of them time out.     *)
THEOREM HeldProofsAreEvidence == ESpec => []HeldEvidence
<1>1. EInv => HeldEvidence
  BY Zenon DEF EInv
<1> QED
  BY <1>1, HandlersInvariance, PTL

(* No proof serves two handlers.                                           *)
THEOREM ProofsServeOnce == ESpec => []OneProofEach
<1>1. EInv => OneProofEach
  BY Zenon DEF EInv
<1> QED
  BY <1>1, HandlersInvariance, PTL

(* No proof is made up or lost between the shard and its handlers, as long *)
(* as commitC is large enough for all of them.                             *)
THEOREM ProofsAccounted == ESpec => []ProofsConserved
<1>1. EInv => ProofsConserved
  BY Zenon DEF EInv
<1> QED
  BY <1>1, HandlersInvariance, PTL
=============================================================================
