---------------------------- MODULE MCAuthBarrier ----------------------------
(* Instances of AuthBarrier.                                                *)
EXTENDS AuthBarrier, TLC

CONSTANTS w1, w2, p1

OneWorker == {w1}
NoReaders == {}
TwoWorkers == {w1, w2}
OnePage == {p1}

AllButList == AllMethods \ {"Page.list"}
ReadingMethods == Reads \cup {"business"}
WorkflowOnly == {"Workflow.execute"}

AlikeWorkers == Permutations(TwoWorkers)
=============================================================================
