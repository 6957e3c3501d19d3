------------------------------ MODULE MCClickGate ------------------------------
(* Instances of ClickGate.                                                  *)
EXTENDS ClickGate

CONSTANTS w1, w2, w3, e1, e2

TwoWorkers == {w1, w2}
ThreeWorkers == {w1, w2, w3}
TwoEntries == {e1, e2}

Alike == Permutations(ThreeWorkers) \cup Permutations(TwoEntries)
=============================================================================
