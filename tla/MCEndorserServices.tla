------------------------- MODULE MCEndorserServices -------------------------
(***************************************************************************)
(* Instances for TLC of what an endorser has beside its handlers: the      *)
(* table of shards and the goroutines of NewEndorser.  They share nothing  *)
(* but Shutdown, which waits for the goroutines before it stops the        *)
(* shards, so a behaviour is of the one or of the other.  Beside the table *)
(* the goroutines are those of a leader that is sent nothing, which wait   *)
(* without a clock: their fairness asks nothing of the table.              *)
(***************************************************************************)
EXTENDS ShardManager, EndorserBackground, TLC

CONSTANTS p1, p2, p3, a, b, c, Modes

\* Two handlers of one contract and one of another.
AllWants == (p1 :> a) @@ (p2 :> a) @@ (p3 :> b)
MCWants == [p \in Callers |-> AllWants[p]]

VARIABLE chosen

MCInit ==
    /\ Init /\ NewEndorser /\ chosen \in Modes
    /\ chosen = "shards" => role = "leader" /\ reachable

MCNext ==
    /\ UNCHANGED chosen
    /\ \/ chosen = "shards" /\ Next /\ UNCHANGED backgroundVars
       \/ chosen = "background" /\ BackgroundNext /\ UNCHANGED vars

MCSpec == MCInit /\ [][MCNext]_<<vars, backgroundVars, chosen>>

MCFairSpec == MCSpec /\ Goroutines /\ TableGoroutines
=============================================================================
