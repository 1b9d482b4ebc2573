----------------------------- MODULE MCEndorser -----------------------------
(***************************************************************************)
(* Instances of Endorser for TLC.                                          *)
(***************************************************************************)
EXTENDS Endorser, TLC

CONSTANTS r1, r2, r3, t1, t2, t3, x, y

Ns(reads, writes) == [SysCC |-> FALSE, Decodes |-> TRUE, Reads |-> reads, Writes |-> writes]

\* r2 reads what r1 writes, and also touches a system chaincode and a read-write
\* set that does not decode; r3 only reads what r2 reads.
AllTxID == (r1 :> t1) @@ (r2 :> t2) @@ (r3 :> t3)
AllResults ==
    (r1 :> {Ns({}, {x})})
    @@ (r2 :> {Ns({x}, {}), [Ns({}, {y}) EXCEPT !.SysCC = TRUE],
               [Ns({y}, {}) EXCEPT !.Decodes = FALSE]})
    @@ (r3 :> {Ns({x}, {})})

MCTxID == [r \in Requests |-> AllTxID[r]]
MCResults == [r \in Requests |-> AllResults[r]]
MCReadSet == [r \in Requests |-> {}]
MCWriteSet == [r \in Requests |-> extractTransactionDependencies(r)]

\* Both handlers without Shutdown, or r1 alone with Shutdown at any time.
OneHandlerIfStopped == stopC' => \A r \in Requests \ {r1} : hPC'[r] = "idle"

MCEFairSpec ==
    /\ EInit /\ [][ENext /\ OneHandlerIfStopped]_evars
    /\ Fairness /\ \A r \in Requests : WF_evars(HandlerNext(r))
=============================================================================
