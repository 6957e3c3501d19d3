---------------------------- MODULE MCTaskStorage ----------------------------
(***************************************************************************)
(* Three plan texts, so that a text may come back; four versions leave room *)
(* for two torn commits after the first plan; four processes take a task   *)
(* from the worktree through dual mode to the database and back to life    *)
(* after a crash.  The operator never goes back from the database.         *)
(***************************************************************************)
EXTENDS TaskStorage

CONSTANTS p1, p2, p3

MCPlan == {p1, p2, p3}
MCMaxVersion == 4
MCMaxWork == 2
MCMaxRuns == 4
MCForward == {<<m, n>> \in Mode \X Mode : m = "db" => n = "db"}
=============================================================================
