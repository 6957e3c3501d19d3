------------------------------ MODULE TaskMutex ------------------------------
(***************************************************************************)
(* What the run lock of harness/runtime/resume_state.py promises, without  *)
(* the directory and the file it is made of: a process tries once, gets    *)
(* the task only while no other process has it, and never comes back.      *)
(* RunLock implements this as long as no two processes take over a stale   *)
(* lock at once; TaskStorage, whose processes come one after the other,    *)
(* relies on it.                                                           *)
(***************************************************************************)
CONSTANT Processes

VARIABLE turn   \* how far the one try of a process is

Init == turn = [p \in Processes |-> "idle"]

Moves(p, from, to) == turn[p] = from /\ turn' = [turn EXCEPT ![p] = to]

Start(p) == Moves(p, "idle", "trying")

(* acquire_run_lock returns a RunLock. *)
Enter(p) ==
  /\ \A q \in Processes : turn[q] # "holding"
  /\ Moves(p, "trying", "holding")

(* acquire_run_lock raises, or the process dies in it. *)
GiveUp(p) == Moves(p, "trying", "over")

(* release_run_lock, or the death of the process. *)
Leave(p) == Moves(p, "holding", "over")

Next == \E p \in Processes : Start(p) \/ Enter(p) \/ GiveUp(p) \/ Leave(p)

Spec == Init /\ [][Next]_turn
=============================================================================
