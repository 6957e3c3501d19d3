---------------------------- MODULE MCTaskControl ----------------------------
(* A small instance of TaskControl. *)
EXTENDS TaskControl

\* A worker that succeeds, one that stops half-way with an artifact that fails the
\* check, one that loses its connection, one that needs the operator.
MCOutcomes == {
  [raw |-> "done",          verdict |-> "done",      fatal |-> FALSE],
  [raw |-> "partial",       verdict |-> "failed",    fatal |-> FALSE],
  [raw |-> "failed",        verdict |-> "unchecked", fatal |-> TRUE],
  [raw |-> "hitl_required", verdict |-> "unchecked", fatal |-> FALSE] }
=============================================================================
