----------------------------- MODULE MCEventReplay -----------------------------
(* EventReplay with pages of one event and at most two pages per attempt.   *)
EXTENDS EventReplay
=============================================================================
