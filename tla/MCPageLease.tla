----------------------------- MODULE MCPageLease -----------------------------
(* Instances of PageLease: two tasks of one worker, one of another.         *)
EXTENDS PageLease, TLC

CONSTANTS t1, t2, t3, w1, w2, p1, p2, f1, f2

OneFleet == {f1}
ThreeTasks == {t1, t2, t3}
TwoWorkers == {w1, w2}
OnePage == {p1}
TwoPages == {p1, p2}
MCWorkerOf == [t \in Tasks |-> IF t = t3 THEN w2 ELSE w1]
AllHome == [p \in Pages |-> f1]
FirstPage == {p1}
NoPages == {}
NestWorkflow == {"workflow"}
=============================================================================
