---------------------------- MODULE MCPeerLedger ----------------------------
(***************************************************************************)
(* The ledger of a peer with its snapshots, or below the state transfer:   *)
(* one of the two is chosen at the start, and with it the chain and the    *)
(* bounds that bring out what is of interest there.                        *)
(***************************************************************************)
EXTENDS SnapshotManager, GossipState, MVCCValidation, TLC

CONSTANTS k1, k2, MaxHeight, Modes

Tx(reads, ranges, writes, deletes) ==
    [Code |-> VALID, Reads |-> reads, Ranges |-> ranges, Writes |-> writes, Deletes |-> deletes]

Nothing == [k \in {} |-> NoVersion]
W1 == Tx(Nothing, {}, {k1}, {})
Copy(v) == Tx(k1 :> v, {}, {k2}, {})
Take(v) == Tx(k1 :> v, {}, {}, {k1})
Scan(r) == Tx(Nothing, {[Keys |-> {k1, k2}, Results |-> r]}, {k2}, {})
Rejected == [W1 EXCEPT !.Code = "BAD_CREATOR_SIGNATURE"]

First == {<<W1, Copy(NoVersion)>>, <<Copy(NoVersion), W1>>}
Second == {<<Take(<<1, i>>), Copy(<<1, i>>)>> : i \in 0..1}
      \cup {<<Rejected, Scan(k1 :> <<1, i>>)>> : i \in 0..1}
Third == {<<Scan(Nothing), W1>>}

DataChains == {<<<<>>, a, b, c>> : a \in First, b \in Second, c \in Third}
PlainChain(n) == [i \in 1..n |-> <<>>]

MCChains == DataChains \cup {PlainChain(4), PlainChain(MaxHeight)}
MCBlocks == {<<>>} \cup First \cup Second \cup Third

VARIABLE chosen

mcvars == <<vars, snapVars, gossipVars, chosen>>

MCInit ==
    /\ SInit /\ GInit
    /\ chosen \in Modes
    /\ \/ /\ chosen = "data" /\ chain \in DataChains
          /\ clients = 0 /\ deleteFaults = 0 /\ faults = MaxFaults /\ crashes = MaxCrashes
       \/ /\ chosen = "snapshots" /\ chain = PlainChain(4)
          /\ clients = MaxRequests /\ deleteFaults = MaxDeleteFaults
          /\ faults = Min({1, MaxFaults}) /\ crashes = MaxCrashes
       \/ /\ chosen = "gossip" /\ chain = PlainChain(MaxHeight)
          /\ clients = 0 /\ deleteFaults = 0 /\ faults = 0 /\ crashes = Min({1, MaxCrashes})

Snapshots(A) == chosen # "gossip" /\ A /\ UNCHANGED <<gossipVars, chosen>>

Gossips(A) == chosen = "gossip" /\ A /\ UNCHANGED <<snapVars, chosen>>

MCNext == Snapshots(SNext) \/ Gossips(GNext)

MCSpec == MCInit /\ [][MCNext]_mcvars

\* The fairness of SFairSpec and of GFairSpec.
MCFairSpec ==
    /\ MCSpec
    /\ WF_mcvars(Snapshots(Committing)) /\ WF_mcvars(Snapshots(Generate))
    /\ WF_mcvars(Snapshots(LedgerStarts \/ SnapshotMgrStarts))
    /\ WF_mcvars(Gossips(Ready \/ Deliver)) /\ WF_mcvars(Gossips(LedgerSteps))
    /\ WF_mcvars(Gossips(LedgerOpens \/ StateProviderStarts))
    /\ WF_mcvars(Gossips(Transfer))
    /\ SF_mcvars(Gossips(ReceiveAll))

(* Every valid transaction of the ledger reads, when the blocks are        *)
(* executed one transaction after the other, what it read when it was      *)
(* simulated, and validation rejects no other (validateAndPrepareBatch),   *)
(* through failures, retries and recovery.                                 *)
Serializable == SerialCodes(state)

(* Once faults and crashes end, every block is committed: no order of      *)
(* failures leaves a ledger that cannot be opened, and no snapshot holds   *)
(* up the chain for good (CommitLegacy, snapshotDone, newKVLedger).        *)
CommitsAll == <>[](chosen # "gossip" => AtRest)

(* Below the state transfer: the peer catches up with the others, whatever *)
(* gossip and responses get lost or come late, and although one of them    *)
(* lacks the last block of a batch (antiEntropy, deliverPayloads).  Only a *)
(* validation that could not be executed stops it, until the next start:   *)
(* "Aborting chain processing" (deliverPayloads).                          *)
CatchesUpWithPeers == <>[](chosen = "gossip" => CaughtUp \/ delivering = "returned")
=============================================================================
