------------------------------ MODULE MCRunLock ------------------------------
(* Instances of RunLock.                                                    *)
EXTENDS RunLock, TLC

CONSTANTS p1, p2, p3, p4

FourProcesses == {p1, p2, p3, p4}
ThreeProcesses == {p1, p2, p3}
=============================================================================
