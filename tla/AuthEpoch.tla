------------------------------- MODULE AuthEpoch -------------------------------
(***************************************************************************)
(* What FleetAuthBarrier of harness/fleet/runtime.py promises for one      *)
(* Fleet, without its waiters and without the workers' side: the gate has  *)
(* at most one resolver, only the resolver opens it, and each opening is a *)
(* new generation.  AuthBarrier implements this; ClickGate relies on it.   *)
(***************************************************************************)
EXTENDS Naturals

CONSTANTS Workers, NoWorker

VARIABLES closed, resolver, generation

vars == <<closed, resolver, generation>>

Init == closed = FALSE /\ resolver = NoWorker /\ generation = 0

(* claim and claim_ownerless *)
Close(w) ==
  /\ ~closed \/ resolver \in {NoWorker, w}
  /\ closed' = TRUE /\ resolver' = w
  /\ UNCHANGED generation

(* relinquish and abandon_worker *)
Drop(w) ==
  /\ resolver = w
  /\ resolver' = NoWorker
  /\ UNCHANGED <<closed, generation>>

(* resolve *)
Open(w) ==
  /\ closed /\ resolver = w
  /\ closed' = FALSE /\ resolver' = NoWorker
  /\ generation' = generation + 1

(* discard_fleet *)
Discard == closed' = FALSE /\ resolver' = NoWorker /\ generation' = 0

Next ==
  \/ \E w \in Workers : Close(w) \/ Drop(w) \/ Open(w)
  \/ Discard

Spec == Init /\ [][Next]_vars
=============================================================================
