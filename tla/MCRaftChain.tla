----------------------------- MODULE MCRaftChain -----------------------------
(* Small instances of the chain of the ordering nodes.                       *)
EXTENDS RaftChain, TLC

CONSTANTS o1, o2, o3

MCNodes == {o1, o2, o3}
MCElectable == {o1, o2}
MCBounds == {<<3, 2>>, <<1, 3>>}
MoreLeaders == {<<2, 3>>}
MCSymmetry == Permutations(MCElectable)
=============================================================================
