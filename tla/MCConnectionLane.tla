-------------------------- MODULE MCConnectionLane --------------------------
(* Model checking of ConnectionLane: lanes and heap blocks are             *)
(* interchangeable.                                                        *)
EXTENDS ConnectionLane, FiniteSets, TLC

Symmetry == Permutations(Lane) \cup Permutations(Block)

\* Bound of the two-lane run: one chunk in all, written by a client's
\* application, both peers stay, and nothing is explored past the first
\* undefined behaviour, of which the properties say nothing.  The one-lane
\* runs have no such bound.
Written(p) == {n \in Lane : conn[p][n].life # "none" /\ app[p][n].left < MaxChunk}
TwoLaneBound ==
    /\ Sane
    /\ up = [p \in Peer |-> TRUE]
    /\ Cardinality(Written("client")) <= 1
    /\ Written("server") = {}
=============================================================================
