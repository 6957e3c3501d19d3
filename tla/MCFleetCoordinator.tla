-------------------------- MODULE MCFleetCoordinator --------------------------
(* Instances of FleetCoordinator: two connections, two spawns, three Fleets.*)
EXTENDS FleetCoordinator, TLC

CONSTANTS s1, s2, w1, w2, f1, f2, f3

TwoSlots == {s1, s2}
TwoSpawns == {w1, w2}
ThreeFleets == {f1, f2, f3}

Alike == Permutations(TwoSlots) \cup Permutations(TwoSpawns) \cup Permutations(ThreeFleets)
=============================================================================
