--------------------------- MODULE PageLeaseProofs ---------------------------
(* Theorems about PageLease for every set of tasks, workers, pages, Fleets. *)
EXTENDS PageLease, TLAPS

(* What is needed of the records that stand for calls.                      *)
LEMMA CallFacts ==
  /\ NoCall \in MaybeCall /\ NoCall \notin Call
  /\ NoCall.kind = "none" /\ ~NoCall.live /\ NoCall.fleet = NoFleet
  /\ \A c \in Call : /\ c \in MaybeCall /\ c # NoCall
                     /\ c.kind \in {"page", "create", "workflow"}
                     /\ c.fleet \in Fleets /\ c.pages \in SUBSET Pages /\ c.live \in BOOLEAN
  /\ \A c \in MaybeCall : /\ c # NoCall => c \in Call
                          /\ c.kind \in {"page", "create", "workflow"} => c \in Call
  BY DEF NoCall, Call, MaybeCall, Kinds

LEMMA NewCallFacts ==
  ASSUME NEW k \in {"page", "create", "workflow"}, NEW f \in Fleets, NEW P \in SUBSET Pages
  PROVE  /\ NewCall(k, f, P) \in Call
         /\ NewCall(k, f, P).kind = k /\ NewCall(k, f, P).fleet = f
         /\ NewCall(k, f, P).pages = P /\ NewCall(k, f, P).live
  BY DEF NewCall, Call, Kinds

LEMMA DeadFacts ==
  ASSUME NEW c \in MaybeCall
  PROVE  /\ Dead(c) \in MaybeCall
         /\ c = NoCall <=> Dead(c) = NoCall
         /\ ~Dead(c).live /\ Dead(c).kind = c.kind /\ Dead(c).fleet = c.fleet
<1>1. CASE c = NoCall
  BY <1>1 DEF Dead, NoCall, MaybeCall
<1>2. CASE c \in Call
  BY <1>2, CallFacts DEF Dead, Call, NoCall, MaybeCall, Kinds
<1>3. QED
  BY <1>1, <1>2 DEF MaybeCall

LEMMA ClaimTypes ==
  ASSUME LeaseTypes, NEW w \in Workers, NEW f \in Fleets, NEW P \in SUBSET Pages,
         Claim(w, f, P), UNCHANGED <<open, closed>>
  PROVE  LeaseTypes'
  BY DEF Claim, LeaseTypes

LEMMA PushTypes ==
  ASSUME TaskTypes, NEW t \in Tasks, NEW c \in Call, Push(t, c)
  PROVE  outer' \in [Tasks -> MaybeCall] /\ inner' \in [Tasks -> MaybeCall]
  BY CallFacts DEF Push, TaskTypes

LEMMA PopTypes ==
  ASSUME TaskTypes, NEW t \in Tasks, Pop(t)
  PROVE  outer' \in [Tasks -> MaybeCall] /\ inner' \in [Tasks -> MaybeCall]
  BY CallFacts DEF Pop, TaskTypes

LEMMA TypeInit == Init => TypeOK
<1> SUFFICES ASSUME Init
             PROVE  TypeOK
  OBVIOUS
<1>1. LeaseTypes
  BY PageSetsAssumption DEF Init, LeaseTypes
<1>2. FleetTypes
  BY DEF Init, FleetTypes
<1>3. TaskTypes
  BY CallFacts DEF Init, TaskTypes
<1>4. QED
  BY <1>1, <1>2, <1>3 DEF TypeOK

(* The state variables of PageLeaseManager and its callers keep their types *)
(* in every reachable state.                                                *)
THEOREM TypeCorrect == Spec => []TypeOK
<1>1. Init => TypeOK
  BY TypeInit
<1>2. TypeOK /\ [Next]_vars => TypeOK'
  <2> SUFFICES ASSUME TypeOK, [Next]_vars
               PROVE  TypeOK'
    OBVIOUS
  <2>0. LeaseTypes /\ FleetTypes /\ TaskTypes
    BY DEF TypeOK
  <2> USE DEF leaseVars, fleetVars, taskVars
  <2>1. ASSUME NEW t \in Tasks, NEW f \in Fleets, NEW P \in SUBSET Pages, ArriveWorkflow(t, f, P)
        PROVE  TypeOK'
    <3> DEFINE c == NewCall("workflow", f, P)
    <3>1. c \in Call
      BY NewCallFacts
    <3> HIDE DEF c
    <3>2. LeaseTypes'
      BY <2>0, <2>1, ClaimTypes, WorkerOfAssumption DEF ArriveWorkflow
    <3>3. FleetTypes'
      <4>1. workflowOwner' \in [Fleets -> Tasks \cup {NoTask}]
        BY <2>0, <2>1 DEF ArriveWorkflow, FleetTypes
      <4>2. workflowWaiters' \in [Fleets -> SUBSET Tasks]
        BY <2>0, <2>1 DEF ArriveWorkflow, FleetTypes
      <4>3. UNCHANGED <<activeCalls, creationOwner>>
        BY <2>1 DEF ArriveWorkflow
      <4>4. QED
        BY <2>0, <4>1, <4>2, <4>3 DEF FleetTypes
    <3>4. \/ Push(t, c) /\ Signal({f}) /\ UNCHANGED <<waiting, joined>>
          \/ /\ waiting' = [waiting EXCEPT ![t] = c]
             /\ KeepJoined(joined \cup {t})
             /\ parked' = parked \cup {t}
             /\ UNCHANGED <<outer, inner>>
      BY <2>1 DEF ArriveWorkflow, c
    <3>5. TaskTypes'
      BY <2>0, <3>1, <3>4, CallFacts, PushTypes DEF TaskTypes, Signal, KeepJoined
    <3>6. QED
      BY <3>2, <3>3, <3>5 DEF TypeOK
  <2>2. ASSUME NEW t \in Tasks, NEW c \in Call, CheckPage(t, c)
        PROVE  TypeOK'
    <3>0. c.fleet \in Fleets /\ c.pages \in SUBSET Pages /\ WorkerOf[t] \in Workers
      BY CallFacts, WorkerOfAssumption
    <3>1. LeaseTypes'
      <4>1. CASE EnterPage(t, c)
        BY <2>0, <3>0, <4>1, ClaimTypes DEF EnterPage
      <4>2. CASE ConflictPage(t, c) \/ ParkPage(t, c)
        BY <2>0, <4>2 DEF ConflictPage, ParkPage, LeaseTypes
      <4>3. QED
        BY <2>2, <4>1, <4>2 DEF CheckPage
    <3>2. FleetTypes'
      <4>1. activeCalls' \in [Fleets -> [Tasks -> Nat]]
        <5>1. CASE activeCalls' = [activeCalls EXCEPT ![c.fleet][t] = @ + 1]
          BY <2>0, <3>0, <5>1 DEF FleetTypes
        <5>2. CASE UNCHANGED activeCalls
          BY <2>0, <5>2 DEF FleetTypes
        <5>3. QED
          BY <2>2, <5>1, <5>2 DEF CheckPage, EnterPage, ConflictPage, ParkPage
      <4>2. creationOwner' \in [Fleets -> Tasks \cup {NoTask}]
        <5>1. CASE TakeCreation(t, c)
          BY <2>0, <3>0, <5>1 DEF TakeCreation, FleetTypes
        <5>2. CASE UNCHANGED creationOwner
          BY <2>0, <5>2 DEF FleetTypes
        <5>3. QED
          BY <2>2, <5>1, <5>2 DEF CheckPage, EnterPage, ConflictPage, ParkPage
      <4>3. UNCHANGED <<workflowOwner, workflowWaiters>>
        BY <2>2 DEF CheckPage, EnterPage, ConflictPage, ParkPage
      <4>4. QED
        BY <2>0, <4>1, <4>2, <4>3 DEF FleetTypes
    <3>3. TaskTypes'
      <4>1. CASE EnterPage(t, c)
        BY <2>0, <4>1, CallFacts, PushTypes DEF EnterPage, TaskTypes
      <4>2. CASE ConflictPage(t, c) \/ ParkPage(t, c)
        BY <2>0, <4>2, CallFacts DEF ConflictPage, ParkPage, TaskTypes
      <4>3. QED
        BY <2>2, <4>1, <4>2 DEF CheckPage
    <3>4. QED
      BY <3>1, <3>2, <3>3 DEF TypeOK
  <2>3. ASSUME NEW t \in Tasks, NEW f \in Fleets, NEW p \in open \cup closed, ArrivePage(t, f, p)
        PROVE  TypeOK'
    <3>1. {p} \in SUBSET Pages
      BY <2>0 DEF LeaseTypes
    <3>2. NewCall("page", f, {p}) \in Call
      BY <3>1, NewCallFacts
    <3>3. QED
      BY <2>2, <2>3, <3>2 DEF ArrivePage
  <2>4. ASSUME NEW t \in Tasks, NEW f \in Fleets, NEW P \in {{}} \cup {{p} : p \in StrayPages},
               ArriveCreate(t, f, P)
        PROVE  TypeOK'
    <3>1. P \in SUBSET Pages
      BY PageSetsAssumption
    <3>2. NewCall("create", f, P) \in Call
      BY <3>1, NewCallFacts
    <3>3. QED
      BY <2>2, <2>4, <3>2 DEF ArriveCreate
  <2>5. ASSUME NEW t \in Tasks, RetryWorkflow(t)
        PROVE  TypeOK'
    <3>1. waiting[t] \in Call /\ waiting[t].fleet \in Fleets
      BY <2>0, <2>5, CallFacts DEF RetryWorkflow, TaskTypes
    <3>2. LeaseTypes'
      BY <2>0, <2>5 DEF RetryWorkflow, LeaseTypes
    <3>3. FleetTypes'
      BY <2>0, <2>5, <3>1 DEF RetryWorkflow, FleetTypes
    <3>4. TaskTypes'
      BY <2>0, <2>5, <3>1, CallFacts, PushTypes DEF RetryWorkflow, TaskTypes, Signal, KeepJoined
    <3>5. QED
      BY <3>2, <3>3, <3>4 DEF TypeOK
  <2>6. ASSUME NEW t \in Tasks, RetryPage(t)
        PROVE  TypeOK'
    <3>1. waiting[t] \in Call
      BY <2>0, <2>6, CallFacts DEF RetryPage, TaskTypes
    <3>2. QED
      BY <2>2, <2>6, <3>1 DEF RetryPage
  <2>7. ASSUME NEW t \in Tasks, GiveUp(t)
        PROVE  TypeOK'
    <3>1. waiting[t].fleet \in Fleets
      BY <2>0, <2>7, CallFacts DEF GiveUp, TaskTypes
    <3>2. LeaseTypes' /\ FleetTypes'
      BY <2>0, <2>7, <3>1 DEF GiveUp, LeaseTypes, FleetTypes
    <3>3. TaskTypes'
      BY <2>0, <2>7, CallFacts DEF GiveUp, TaskTypes, KeepJoined
    <3>4. QED
      BY <3>2, <3>3 DEF TypeOK
  <2>8. ASSUME NEW t \in Tasks, ExitWorkflow(t)
        PROVE  TypeOK'
    <3>1. LeaseTypes' /\ FleetTypes'
      BY <2>0, <2>8 DEF ExitWorkflow, LeaseTypes, FleetTypes
    <3>2. TaskTypes'
      BY <2>0, <2>8, PopTypes DEF ExitWorkflow, TaskTypes, Signal
    <3>3. QED
      BY <3>1, <3>2 DEF TypeOK
  <2>9. ASSUME NEW t \in Tasks, LeavePage(t), parked' \in SUBSET Tasks
        PROVE  FleetTypes' /\ TaskTypes' /\ Current(t).fleet \in Fleets
    <3>1. Current(t).fleet \in Fleets
      BY <2>0, <2>9, CallFacts DEF LeavePage, Current, TaskTypes
    <3>2. FleetTypes'
      BY <2>0, <2>9, <3>1 DEF LeavePage, FleetTypes, CountDown, ReturnCreation
    <3>3. TaskTypes'
      BY <2>0, <2>9, PopTypes DEF LeavePage, TaskTypes
    <3>4. QED
      BY <3>1, <3>2, <3>3
  <2>10. ASSUME NEW t \in Tasks, ExitPage(t)
         PROVE  TypeOK'
    <3>1. parked' \in SUBSET Tasks
      BY <2>0, <2>10 DEF ExitPage, Signal, TaskTypes
    <3>2. LeaseTypes'
      BY <2>0, <2>10 DEF ExitPage, LeaseTypes
    <3>3. QED
      BY <2>9, <2>10, <3>1, <3>2 DEF ExitPage, TypeOK
  <2>11. ASSUME NEW t \in Tasks, NEW p \in Pages, ExitCreated(t, p)
         PROVE  TypeOK'
    <3>1. parked' \in SUBSET Tasks
      BY <2>0, <2>11 DEF ExitCreated, Signal, TaskTypes
    <3>2. FleetTypes' /\ TaskTypes' /\ Current(t).fleet \in Fleets
      BY <2>9, <2>11, <3>1 DEF ExitCreated
    <3>3. LeaseTypes'
      BY <2>0, <2>11, <3>2, WorkerOfAssumption DEF ExitCreated, LeaseTypes
    <3>4. QED
      BY <3>2, <3>3 DEF TypeOK
  <2>12. ASSUME NEW t \in Tasks, NEW p \in Pages, ExitClosed(t, p)
         PROVE  TypeOK'
    <3>1. parked' \in SUBSET Tasks
      BY <2>0, <2>12 DEF ExitClosed, Signal, TaskTypes
    <3>2. FleetTypes' /\ TaskTypes'
      BY <2>9, <2>12, <3>1 DEF ExitClosed
    <3>3. LeaseTypes'
      BY <2>0, <2>12, WorkerOfAssumption DEF ExitClosed, LeaseTypes
    <3>4. QED
      BY <3>2, <3>3 DEF TypeOK
  <2>13. ASSUME NEW w \in Workers, ReleaseWorker(w)
         PROVE  TypeOK'
    <3>1. LeaseTypes'
      BY <2>0, <2>13 DEF ReleaseWorker, LeaseTypes
    <3>2. FleetTypes'
      BY <2>0, <2>13 DEF ReleaseWorker, FleetTypes
    <3>3. outer' \in [Tasks -> MaybeCall] /\ inner' \in [Tasks -> MaybeCall]
      BY <2>0, <2>13, DeadFacts DEF ReleaseWorker, Revoke, TaskTypes
    <3>4. TaskTypes'
      BY <2>0, <2>13, <3>3 DEF ReleaseWorker, TaskTypes, Signal, KeepJoined
    <3>5. QED
      BY <3>1, <3>2, <3>4 DEF TypeOK
  <2>14. ASSUME NEW w \in Workers, NEW P \in SUBSET Pages, SeedWorkerPages(w, P)
         PROVE  TypeOK'
    <3>1. LeaseTypes'
      BY <2>0, <2>14, HomeFleetAssumption DEF SeedWorkerPages, LeaseTypes
    <3>2. QED
      BY <2>0, <2>14, <3>1 DEF SeedWorkerPages, TypeOK, FleetTypes, TaskTypes
  <2>15. ASSUME NEW w \in Workers, NEW p \in Pages, ReleasePage(w, p)
         PROVE  TypeOK'
    BY <2>0, <2>15 DEF ReleasePage, TypeOK, LeaseTypes, FleetTypes, TaskTypes, Signal
  <2>16. ASSUME NEW p \in Pages,
                ObserveInventory(p) \/ QuarantinePage(p) \/ ClearPageQuarantine(p)
         PROVE  TypeOK'
    <3>1. LeaseTypes'
      BY <2>0, <2>16, HomeFleetAssumption
         DEF ObserveInventory, QuarantinePage, ClearPageQuarantine, LeaseTypes
    <3>2. QED
      BY <2>0, <2>16, <3>1
         DEF ObserveInventory, QuarantinePage, ClearPageQuarantine, TypeOK, FleetTypes, TaskTypes
  <2>17. CASE UNCHANGED vars
    BY <2>17, <2>0 DEF vars, TypeOK, LeaseTypes, FleetTypes, TaskTypes
  <2>18. QED
    BY <2>1, <2>3, <2>4, <2>5, <2>6, <2>7, <2>8, <2>10, <2>11, <2>12, <2>13, <2>14,
       <2>15, <2>16, <2>17 DEF Next
<1>3. QED
  BY <1>1, <1>2, PTL DEF Spec

-----------------------------------------------------------------------------
(* What entering and leaving a call does to the calls under way.            *)
LEMMA WeightFacts ==
  /\ \A f \in Fleets : Weight(NoCall, f) = 0 /\ ~InWorkflow(NoCall, f)
  /\ \A c \in MaybeCall, f \in Fleets :
       /\ Weight(c, f) \in {0, 1}
       /\ c.kind = "workflow" => Weight(c, f) = 0
       /\ c.kind # "workflow" => ~InWorkflow(c, f)
  BY CallFacts DEF Weight, InWorkflow

LEMMA PushEffect ==
  ASSUME TaskTypes, NEW t \in Tasks, NEW c \in Call, Push(t, c), inner[t] = NoCall
  PROVE  /\ \A u \in Tasks : u # t => outer'[u] = outer[u] /\ inner'[u] = inner[u]
         /\ \/ outer[t] = NoCall /\ outer'[t] = c /\ inner'[t] = NoCall
            \/ outer[t] # NoCall /\ outer'[t] = outer[t] /\ inner'[t] = c
  BY DEF Push, TaskTypes

LEMMA PopEffect ==
  ASSUME TaskTypes, NEW t \in Tasks, Pop(t)
  PROVE  /\ \A u \in Tasks : u # t => outer'[u] = outer[u] /\ inner'[u] = inner[u]
         /\ \/ inner[t] # NoCall /\ outer'[t] = outer[t] /\ inner'[t] = NoCall
            \/ inner[t] = NoCall /\ outer'[t] = NoCall /\ inner'[t] = NoCall
  BY DEF Pop, TaskTypes

(* LeaseInv is inductive: every entry adds the call to the bookkeeping that *)
(* its finally block takes away, and release_worker takes away what it      *)
(* revokes.                                                                 *)
THEOREM LeaseInvariant == Spec => []LeaseInv
<1>1. Init => LeaseInv
  <2> SUFFICES ASSUME Init
               PROVE  CountsMatch /\ OwnerMatches /\ OwnerAlone /\ Nesting
    BY TypeInit DEF LeaseInv
  <2>1. CountsMatch
    BY WeightFacts DEF Init, CountsMatch
  <2>2. OwnerMatches
    BY WeightFacts, AbsentAssumption DEF Init, OwnerMatches
  <2>3. OwnerAlone
    BY DEF Init, OwnerAlone
  <2>4. Nesting
    BY CallFacts DEF Init, Nesting
  <2>5. QED
    BY <2>1, <2>2, <2>3, <2>4
<1>2. LeaseInv /\ TypeOK' /\ [Next]_vars => LeaseInv'
  <2> SUFFICES ASSUME LeaseInv, TypeOK', [Next]_vars
               PROVE  CountsMatch' /\ OwnerMatches' /\ OwnerAlone' /\ Nesting'
    BY DEF LeaseInv
  <2> DEFINE Goal == CountsMatch' /\ OwnerMatches' /\ OwnerAlone' /\ Nesting'
  <2>0. TaskTypes /\ FleetTypes /\ CountsMatch /\ OwnerMatches /\ OwnerAlone /\ Nesting
    BY DEF LeaseInv, TypeOK
  <2> USE DEF leaseVars, fleetVars, taskVars
  (* Steps that touch none of the variables the invariant is about.         *)
  <2>1. ASSUME UNCHANGED <<activeCalls, workflowOwner, waiting, outer, inner>>
        PROVE  Goal
    BY <2>0, <2>1 DEF CountsMatch, OwnerMatches, OwnerAlone, Nesting
  (* A task begins to wait, or stops waiting.                               *)
  <2>2. ASSUME NEW t \in Tasks, NEW c \in MaybeCall, waiting' = [waiting EXCEPT ![t] = c],
               UNCHANGED <<activeCalls, workflowOwner, outer, inner>>,
               c # NoCall => c.live,
               c # NoCall /\ outer[t] # NoCall => inner[t] = NoCall /\ c.kind = "page"
        PROVE  Goal
    <3>1. Nesting'
      BY <2>0, <2>2 DEF Nesting, TaskTypes
    <3>2. QED
      BY <2>0, <2>2, <3>1 DEF CountsMatch, OwnerMatches, OwnerAlone
  (* A Workflow enters.                                                     *)
  <2>3. ASSUME NEW t \in Tasks, NEW c \in Call, c.kind = "workflow", c.live,
               outer[t] = NoCall, WorkflowAdmissible(c.fleet), Push(t, c),
               workflowOwner' = [workflowOwner EXCEPT ![c.fleet] = t],
               waiting' = [waiting EXCEPT ![t] = NoCall], UNCHANGED activeCalls
        PROVE  Goal
    <3>0. inner[t] = NoCall /\ c.fleet \in Fleets /\ c \in MaybeCall
      BY <2>0, <2>3, CallFacts DEF Nesting
    <3>1. /\ \A u \in Tasks : u # t => outer'[u] = outer[u] /\ inner'[u] = inner[u]
          /\ outer'[t] = c /\ inner'[t] = NoCall
      BY <2>0, <2>3, <3>0, PushEffect
    <3>2. CountsMatch'
      BY <2>0, <2>3, <3>0, <3>1, WeightFacts DEF CountsMatch
    <3>3. OwnerMatches'
      BY <2>0, <2>3, <3>0, <3>1, WeightFacts, AbsentAssumption
         DEF OwnerMatches, FleetTypes, InWorkflow, WorkflowAdmissible
    <3>4. OwnerAlone'
      BY <2>0, <2>3, <3>0 DEF OwnerAlone, FleetTypes, WorkflowAdmissible
    <3>5. Nesting'
      BY <2>0, <2>3, <3>0, <3>1, CallFacts DEF Nesting, TaskTypes
    <3>6. QED
      BY <3>2, <3>3, <3>4, <3>5
  <2>4. ASSUME NEW t \in Tasks, NEW f \in Fleets, NEW P \in SUBSET Pages, ArriveWorkflow(t, f, P)
        PROVE  Goal
    <3> DEFINE c == NewCall("workflow", f, P)
    <3>1. c \in Call /\ c \in MaybeCall /\ c.kind = "workflow" /\ c.fleet = f /\ c.live
      BY NewCallFacts, CallFacts
    <3>2. outer[t] = NoCall /\ waiting[t] = NoCall
      BY <2>4 DEF ArriveWorkflow, MayCall
    <3>3. UNCHANGED activeCalls
      BY <2>4 DEF ArriveWorkflow
    <3>4. \/ /\ WorkflowAdmissible(f) /\ Push(t, c) /\ UNCHANGED waiting
             /\ workflowOwner' = [workflowOwner EXCEPT ![f] = t]
          \/ waiting' = [waiting EXCEPT ![t] = c] /\ UNCHANGED <<workflowOwner, outer, inner>>
      BY <2>4 DEF ArriveWorkflow
    <3> HIDE DEF c
    <3>5. UNCHANGED waiting => waiting' = [waiting EXCEPT ![t] = NoCall]
      BY <2>0, <3>2 DEF TaskTypes
    <3>6. QED
      BY <2>2, <2>3, <3>1, <3>2, <3>3, <3>4, <3>5
  <2>5. ASSUME NEW t \in Tasks, RetryWorkflow(t)
        PROVE  Goal
    <3> DEFINE c == waiting[t]
    <3>1. c \in Call /\ c.kind = "workflow" /\ c.live
      BY <2>0, <2>5, CallFacts DEF RetryWorkflow, TaskTypes, Nesting
    <3>2. outer[t] = NoCall
      BY <2>0, <3>1, CallFacts DEF Nesting
    <3>3. \/ /\ WorkflowAdmissible(c.fleet) /\ Push(t, c) /\ UNCHANGED activeCalls
             /\ workflowOwner' = [workflowOwner EXCEPT ![c.fleet] = t]
             /\ waiting' = [waiting EXCEPT ![t] = NoCall]
          \/ UNCHANGED <<activeCalls, workflowOwner, waiting, outer, inner>>
      BY <2>5 DEF RetryWorkflow
    <3> HIDE DEF c
    <3>4. QED
      BY <2>1, <2>3, <3>1, <3>2, <3>3
  (* A page call or a Page.create enters.                                   *)
  <2>6. ASSUME NEW t \in Tasks, NEW c \in Call, EnterPage(t, c), c.live, c.kind # "workflow",
               inner[t] = NoCall, outer[t] # NoCall => c.kind = "page"
        PROVE  Goal
    <3>0. c.fleet \in Fleets /\ c \in MaybeCall
      BY CallFacts
    <3>1. /\ PageAdmissible(t, c.fleet) /\ Push(t, c) /\ UNCHANGED workflowOwner
          /\ activeCalls' = [activeCalls EXCEPT ![c.fleet][t] = @ + 1]
          /\ waiting' = [waiting EXCEPT ![t] = NoCall]
      BY <2>6 DEF EnterPage
    <3>2. /\ \A u \in Tasks : u # t => outer'[u] = outer[u] /\ inner'[u] = inner[u]
          /\ \/ outer[t] = NoCall /\ outer'[t] = c /\ inner'[t] = NoCall
             \/ outer[t] # NoCall /\ outer'[t] = outer[t] /\ inner'[t] = c
      BY <2>0, <2>6, <3>1, PushEffect
    <3>3. \A u \in Tasks, g \in Fleets :
            activeCalls'[g][u] = IF g = c.fleet /\ u = t THEN activeCalls[g][u] + 1
                                                         ELSE activeCalls[g][u]
      BY <2>0, <3>0, <3>1 DEF FleetTypes
    <3>4. CountsMatch'
      <4> SUFFICES ASSUME NEW u \in Tasks, NEW g \in Fleets
                   PROVE  activeCalls'[g][u] = Weight(outer'[u], g) + Weight(inner'[u], g)
        BY DEF CountsMatch
      <4>1. CASE u # t
        BY <2>0, <3>2, <3>3, <4>1 DEF CountsMatch
      <4>2. Weight(c, g) = IF g = c.fleet THEN 1 ELSE 0
        BY <2>6 DEF Weight
      <4>3. Weight(inner[t], g) = 0 /\ Weight(NoCall, g) = 0
        BY <2>6, WeightFacts
      <4>4. Weight(outer[t], g) \in {0, 1}
        BY <2>0, WeightFacts DEF TaskTypes
      <4>5. CASE u = t
        BY <2>0, <3>2, <3>3, <4>2, <4>3, <4>4, <4>5 DEF CountsMatch
      <4>6. QED
        BY <4>1, <4>5
    <3>5. OwnerMatches'
      BY <2>0, <2>6, <3>0, <3>1, <3>2, WeightFacts DEF OwnerMatches
    <3>6. OwnerAlone'
      BY <2>0, <3>1, <3>3, AbsentAssumption DEF OwnerAlone, PageAdmissible
    <3>7. Nesting'
      BY <2>0, <2>6, <3>0, <3>1, <3>2, CallFacts DEF Nesting, TaskTypes
    <3>8. QED
      BY <3>4, <3>5, <3>6, <3>7
  <2>7. ASSUME NEW t \in Tasks, NEW c \in Call, CheckPage(t, c), c.live, c.kind # "workflow",
               inner[t] = NoCall, outer[t] # NoCall => c.kind = "page"
        PROVE  Goal
    <3>1. c \in MaybeCall /\ NoCall \in MaybeCall
      BY CallFacts
    <3>2. CASE ConflictPage(t, c)
      BY <2>2, <3>1, <3>2 DEF ConflictPage
    <3>3. CASE ParkPage(t, c)
      BY <2>2, <2>7, <3>1, <3>3 DEF ParkPage
    <3>4. QED
      BY <2>6, <2>7, <3>2, <3>3 DEF CheckPage
  <2>8. ASSUME NEW t \in Tasks, NEW f \in Fleets,
               \/ \E p \in open \cup closed : ArrivePage(t, f, p)
               \/ \E P \in {{}} \cup {{p} : p \in StrayPages} : ArriveCreate(t, f, P)
        PROVE  Goal
    <3>1. PICK k \in {"page", "create"}, P \in SUBSET Pages :
            MayCall(t, k, f) /\ CheckPage(t, NewCall(k, f, P))
      <4>1. open \cup closed \subseteq Pages
        BY DEF LeaseInv, TypeOK, LeaseTypes
      <4>2. QED
        BY <2>8, <4>1, PageSetsAssumption DEF ArrivePage, ArriveCreate
    <3> DEFINE c == NewCall(k, f, P)
    <3>2. c \in Call /\ c.kind = k /\ c.live
      BY NewCallFacts
    <3>3. inner[t] = NoCall /\ (outer[t] # NoCall => k = "page")
      BY <2>0, <3>1 DEF MayCall, Nesting
    <3> HIDE DEF c
    <3>4. QED
      BY <2>7, <3>1, <3>2, <3>3 DEF c
  <2>9. ASSUME NEW t \in Tasks, RetryPage(t)
        PROVE  Goal
    <3>1. /\ waiting[t] \in Call /\ waiting[t].live /\ waiting[t].kind # "workflow"
          /\ CheckPage(t, waiting[t])
      BY <2>0, <2>9, CallFacts DEF RetryPage, TaskTypes, Nesting
    <3>2. inner[t] = NoCall /\ (outer[t] # NoCall => waiting[t].kind = "page")
      BY <2>0, <3>1, CallFacts DEF Nesting
    <3>3. QED
      BY <2>7, <3>1, <3>2
  <2>10. ASSUME NEW t \in Tasks, GiveUp(t)
         PROVE  Goal
    BY <2>2, <2>10, CallFacts DEF GiveUp
  (* The innermost call of a task ends.                                     *)
  <2>11. ASSUME NEW t \in Tasks, ExitWorkflow(t)
         PROVE  Goal
    <3> DEFINE f == outer[t].fleet
    <3>1. inner[t] = NoCall /\ outer[t].kind = "workflow" /\ f \in Fleets /\ outer[t] \in MaybeCall
      BY <2>0, <2>11, CallFacts DEF ExitWorkflow, Current, Nesting, TaskTypes
    <3>2. /\ Pop(t) /\ UNCHANGED <<activeCalls, waiting>>
          /\ workflowOwner' = IF workflowOwner[f] = t
                              THEN [workflowOwner EXCEPT ![f] = NoTask] ELSE workflowOwner
      BY <2>11, <3>1 DEF ExitWorkflow, Current
    <3> HIDE DEF f
    <3>3. /\ \A u \in Tasks : u # t => outer'[u] = outer[u] /\ inner'[u] = inner[u]
          /\ outer'[t] = NoCall /\ inner'[t] = NoCall
      BY <2>0, <3>1, <3>2, PopEffect
    <3>4. CountsMatch'
      BY <2>0, <3>1, <3>2, <3>3, WeightFacts DEF CountsMatch
    <3>5. OwnerMatches'
      BY <2>0, <3>1, <3>2, <3>3, WeightFacts, AbsentAssumption
         DEF OwnerMatches, FleetTypes, InWorkflow, f
    <3>6. OwnerAlone'
      BY <2>0, <3>1, <3>2, AbsentAssumption DEF OwnerAlone, FleetTypes
    <3>7. Nesting'
      BY <2>0, <2>11, <3>2, <3>3, CallFacts DEF Nesting, ExitWorkflow
    <3>8. QED
      BY <3>4, <3>5, <3>6, <3>7
  <2>12. ASSUME NEW t \in Tasks, LeavePage(t)
         PROVE  Goal
    <3> DEFINE c == Current(t)
    <3>1. c \in Call /\ c.kind # "workflow" /\ c.fleet \in Fleets
      BY <2>0, <2>12, CallFacts DEF LeavePage, Current, TaskTypes
    <3>2. Pop(t) /\ CountDown(t, c.fleet) /\ UNCHANGED <<workflowOwner, waiting>>
      BY <2>12 DEF LeavePage
    <3>3. /\ \A u \in Tasks : u # t => outer'[u] = outer[u] /\ inner'[u] = inner[u]
          /\ \/ inner[t] # NoCall /\ c = inner[t] /\ outer'[t] = outer[t] /\ inner'[t] = NoCall
             \/ inner[t] = NoCall /\ c = outer[t] /\ outer'[t] = NoCall /\ inner'[t] = NoCall
      BY <2>0, <3>2, PopEffect DEF Current
    <3> HIDE DEF c
    <3>4. \A u \in Tasks, g \in Fleets :
            activeCalls'[g][u] = IF g = c.fleet /\ u = t /\ activeCalls[g][u] > 0
                                 THEN activeCalls[g][u] - 1 ELSE activeCalls[g][u]
      BY <2>0, <3>1, <3>2 DEF CountDown, FleetTypes
    <3>5. CountsMatch'
      <4> SUFFICES ASSUME NEW u \in Tasks, NEW g \in Fleets
                   PROVE  activeCalls'[g][u] = Weight(outer'[u], g) + Weight(inner'[u], g)
        BY DEF CountsMatch
      <4>1. CASE u # t
        BY <2>0, <3>3, <3>4, <4>1 DEF CountsMatch
      <4>2. Weight(c, g) = IF c.live /\ g = c.fleet THEN 1 ELSE 0
        BY <3>1 DEF Weight
      <4>3. Weight(outer[t], g) \in {0, 1} /\ Weight(NoCall, g) = 0
        BY <2>0, WeightFacts DEF TaskTypes
      <4>4. ~c.live /\ inner[t] # NoCall => Weight(outer[t], g) = 0
        BY <2>0, <3>3 DEF Nesting, Weight
      <4>5. activeCalls[g][t] = Weight(outer[t], g) + Weight(inner[t], g)
        BY <2>0 DEF CountsMatch
      <4>6. CASE u = t
        BY <3>3, <3>4, <4>2, <4>3, <4>4, <4>5, <4>6
      <4>7. QED
        BY <4>1, <4>6
    <3>6. OwnerMatches'
      <4>1. \A g \in Fleets : InWorkflow(outer'[t], g) <=> InWorkflow(outer[t], g)
        BY <3>1, <3>3, WeightFacts DEF InWorkflow
      <4>2. QED
        BY <2>0, <3>2, <3>3, <4>1 DEF OwnerMatches
    <3>7. OwnerAlone'
      BY <2>0, <3>2, <3>4 DEF OwnerAlone
    <3>8. Nesting'
      BY <2>0, <2>12, <3>2, <3>3, CallFacts DEF Nesting, LeavePage
    <3>9. QED
      BY <3>5, <3>6, <3>7, <3>8
  <2>13. ASSUME NEW t \in Tasks,
                ExitPage(t) \/ \E p \in Pages : ExitCreated(t, p) \/ ExitClosed(t, p)
         PROVE  Goal
    BY <2>12, <2>13 DEF ExitPage, ExitCreated, ExitClosed
  <2>14. ASSUME NEW w \in Workers, ReleaseWorker(w)
         PROVE  Goal
    <3>1. /\ \A t \in Tasks : WorkerOf[t] # w =>
               outer'[t] = outer[t] /\ inner'[t] = inner[t]
          /\ \A t \in Tasks : WorkerOf[t] = w =>
               outer'[t] = Dead(outer[t]) /\ inner'[t] = Dead(inner[t])
          /\ UNCHANGED waiting
      BY <2>14 DEF ReleaseWorker, Revoke
    <3>2. \A f \in Fleets, t \in Tasks :
            activeCalls'[f][t] = IF WorkerOf[t] = w THEN 0 ELSE activeCalls[f][t]
      BY <2>14 DEF ReleaseWorker
    <3>3. \A f \in Fleets :
            workflowOwner'[f] = IF workflowOwner[f] \in {t \in Tasks : WorkerOf[t] = w}
                                THEN NoTask ELSE workflowOwner[f]
      BY <2>14 DEF ReleaseWorker
    <3>4. \A t \in Tasks : outer[t] \in MaybeCall /\ inner[t] \in MaybeCall
      BY <2>0 DEF TaskTypes
    <3>5. \A c \in MaybeCall, f \in Fleets : Weight(Dead(c), f) = 0 /\ ~InWorkflow(Dead(c), f)
      BY DeadFacts DEF Weight, InWorkflow
    <3>6. CountsMatch'
      BY <2>0, <3>1, <3>2, <3>4, <3>5 DEF CountsMatch
    <3>7. OwnerMatches'
      BY <2>0, <3>1, <3>3, <3>4, <3>5, AbsentAssumption DEF OwnerMatches
    <3>8. OwnerAlone'
      BY <2>0, <3>2, <3>3, AbsentAssumption DEF OwnerAlone
    <3>9. Nesting'
      BY <2>0, <3>1, <3>4, DeadFacts DEF Nesting
    <3>10. QED
      BY <3>6, <3>7, <3>8, <3>9
  <2>15. ASSUME NEW w \in Workers, \/ \E P \in SUBSET Pages : SeedWorkerPages(w, P)
                                   \/ \E p \in Pages : ReleasePage(w, p)
         PROVE  Goal
    BY <2>1, <2>15 DEF SeedWorkerPages, ReleasePage
  <2>16. ASSUME NEW p \in Pages,
                ObserveInventory(p) \/ QuarantinePage(p) \/ ClearPageQuarantine(p)
         PROVE  Goal
    BY <2>1, <2>16 DEF ObserveInventory, QuarantinePage, ClearPageQuarantine
  <2>17. CASE UNCHANGED vars
    BY <2>1, <2>17 DEF vars
  <2>18. QED
    BY <2>4, <2>5, <2>8, <2>9, <2>10, <2>11, <2>13, <2>14, <2>15, <2>16, <2>17 DEF Next
<1>3. QED
  BY <1>1, <1>2, TypeCorrect, PTL DEF Spec

(* Opaque Workflows and page calls exclude each other inside a Fleet: while *)
(* a Workflow.execute is under way every call inside is its own callback.   *)
THEOREM WorkflowsExclusive == Spec => []WorkflowExclusive
<1>1. LeaseInv => WorkflowExclusive
  <2> SUFFICES ASSUME LeaseInv, NEW t \in Tasks, NEW u \in Tasks, NEW f \in Fleets,
                      NEW c \in LiveCalls(t, f), c.kind = "workflow",
                      NEW d \in LiveCalls(u, f)
               PROVE  t = u
    BY DEF WorkflowExclusive
  <2> USE DEF LeaseInv, Nesting, InWorkflow, Weight, LiveCalls
  <2>1. workflowOwner[f] = t
    BY DEF OwnerMatches
  <2>2. CASE d.kind = "workflow"
    BY <2>1, <2>2 DEF OwnerMatches
  <2>3. CASE d.kind # "workflow"
    <3>1. activeCalls[f][u] # 0
      BY <2>3 DEF CountsMatch
    <3>2. QED
      BY <2>1, <3>1 DEF OwnerAlone
  <2>4. QED
    BY <2>2, <2>3
<1>2. QED
  BY <1>1, LeaseInvariant, PTL

-----------------------------------------------------------------------------
(* The two dicts of owners.  ExitCreated writes a page without asking who   *)
(* owned it; that is sound because a page nobody has seen open has no owner *)
(* and no Fleet, and is in no payload.                                      *)
KnownPages ==
  \A p \in Pages : pageOwner[p] # NoWorker \/ pageFleet[p] # NoFleet => p \in open \cup closed

KnownCalls ==
  \A t \in Tasks : /\ waiting[t].pages \subseteq open \cup closed
                   /\ outer[t].pages \subseteq open \cup closed
                   /\ inner[t].pages \subseteq open \cup closed

OwnersInv == IndexesAgree /\ KnownPages /\ KnownCalls

(* Claiming takes what is free, leaves what is owned, and keeps both dicts  *)
(* in step.                                                                 *)
LEMMA ClaimEffect ==
  ASSUME LeaseTypes, IndexesAgree, KnownPages, NEW w \in Workers, NEW f \in Fleets,
         NEW P \in SUBSET Pages, P \subseteq open \cup closed,
         Claim(w, f, P), UNCHANGED <<open, closed>>
  PROVE  /\ IndexesAgree' /\ KnownPages'
         /\ \A p \in Pages : pageOwner[p] # NoWorker => pageOwner'[p] = pageOwner[p]
         /\ CanClaim(w, f, P) => \A p \in P : pageOwner'[p] = w
<1> DEFINE fresh == {p \in P : pageOwner[p] = NoWorker}
<1>1. /\ \A p \in Pages : pageOwner'[p] = IF p \in fresh THEN w ELSE pageOwner[p]
      /\ \A v \in Workers : workerPages'[v] = IF v = w THEN workerPages[v] \cup fresh
                                                      ELSE workerPages[v]
      /\ \A p \in Pages : pageFleet'[p] # pageFleet[p] => p \in P
  BY DEF Claim, LeaseTypes
<1>2. IndexesAgree'
  <2> SUFFICES ASSUME NEW p \in Pages, NEW v \in Workers
               PROVE  pageOwner'[p] = v <=> p \in workerPages'[v]
    BY DEF IndexesAgree
  <2>1. pageOwner[p] = v <=> p \in workerPages[v]
    BY DEF IndexesAgree
  <2>2. v # NoWorker
    BY AbsentAssumption
  <2>3. CASE p \in fresh
    BY <1>1, <2>1, <2>2, <2>3
  <2>4. CASE p \notin fresh
    BY <1>1, <2>1, <2>4
  <2>5. QED
    BY <2>3, <2>4
<1>3. KnownPages'
  BY <1>1 DEF KnownPages
<1>4. QED
  BY <1>1, <1>2, <1>3 DEF CanClaim

(* The page part of a step that enters a page call, refuses it or parks it. *)
LEMMA CheckPageOwners ==
  ASSUME TypeOK, OwnersInv, NEW t \in Tasks, NEW c \in Call, CheckPage(t, c),
         c.pages \subseteq open \cup closed
  PROVE  OwnersInv'
<1>0. /\ LeaseTypes /\ TaskTypes /\ WorkerOf[t] \in Workers /\ c.fleet \in Fleets
      /\ c.pages \in SUBSET Pages /\ NoCall.pages = {}
  BY CallFacts, WorkerOfAssumption DEF TypeOK, NoCall
<1>1. UNCHANGED <<open, closed>>
  BY DEF CheckPage, EnterPage, ConflictPage, ParkPage
<1>2. IndexesAgree' /\ KnownPages'
  <2>1. CASE EnterPage(t, c)
    BY <1>0, <1>1, <2>1, ClaimEffect DEF EnterPage, OwnersInv
  <2>2. CASE UNCHANGED leaseVars
    BY <1>1, <2>2 DEF OwnersInv, IndexesAgree, KnownPages, leaseVars
  <2>3. QED
    BY <2>1, <2>2 DEF CheckPage, ConflictPage, ParkPage
<1>3. \A u \in Tasks : /\ waiting'[u] \in {waiting[u], c, NoCall}
                       /\ outer'[u] \in {outer[u], c} /\ inner'[u] \in {inner[u], c}
  BY <1>0 DEF CheckPage, EnterPage, ConflictPage, ParkPage, Push, TaskTypes
<1>4. KnownCalls'
  BY <1>0, <1>1, <1>3 DEF OwnersInv, KnownCalls
<1>5. QED
  BY <1>2, <1>4 DEF OwnersInv

LEMMA OwnersStep == TypeOK /\ OwnersInv /\ [Next]_vars => OwnersInv'
<1> SUFFICES ASSUME TypeOK, OwnersInv, [Next]_vars
             PROVE  OwnersInv'
  OBVIOUS
<1>0. LeaseTypes /\ TaskTypes /\ IndexesAgree /\ KnownPages /\ KnownCalls /\ NoCall.pages = {}
  BY DEF TypeOK, OwnersInv, NoCall
<1> USE DEF leaseVars, fleetVars, taskVars
(* Steps that only move calls that are there already.                       *)
<1>1. ASSUME UNCHANGED <<pageOwner, workerPages, pageFleet, open, closed>>,
             \A u \in Tasks : /\ waiting'[u].pages \in {waiting[u].pages, {}}
                              /\ outer'[u].pages \in {outer[u].pages, waiting[u].pages, {}}
                              /\ inner'[u].pages \in {inner[u].pages, waiting[u].pages, {}}
      PROVE  OwnersInv'
  BY <1>0, <1>1 DEF OwnersInv, IndexesAgree, KnownPages, KnownCalls
<1>2. ASSUME NEW t \in Tasks, NEW f \in Fleets, NEW P \in SUBSET Pages, ArriveWorkflow(t, f, P)
      PROVE  OwnersInv'
  <2>1. P \subseteq open \cup closed
    BY <1>0, <1>2, HomeFleetAssumption, AbsentAssumption
       DEF ArriveWorkflow, WorkflowPages, KnownPages
  <2>2. UNCHANGED <<open, closed>> /\ Claim(WorkerOf[t], f, P)
    BY <1>2 DEF ArriveWorkflow
  <2>3. IndexesAgree' /\ KnownPages'
    BY <1>0, <2>1, <2>2, ClaimEffect, WorkerOfAssumption
  <2> DEFINE c == NewCall("workflow", f, P)
  <2>4. c.pages = P
    BY NewCallFacts
  <2>5. \/ Push(t, c) /\ UNCHANGED waiting
        \/ waiting' = [waiting EXCEPT ![t] = c] /\ UNCHANGED <<outer, inner>>
    BY <1>2 DEF ArriveWorkflow
  <2> HIDE DEF c
  <2>6. \A u \in Tasks : /\ waiting'[u] \in {waiting[u], c}
                         /\ outer'[u] \in {outer[u], c} /\ inner'[u] \in {inner[u], c}
    BY <1>0, <2>5 DEF Push, TaskTypes
  <2>7. KnownCalls'
    BY <1>0, <2>1, <2>2, <2>4, <2>6 DEF KnownCalls
  <2>8. QED
    BY <2>3, <2>7 DEF OwnersInv
<1>3. ASSUME NEW t \in Tasks, NEW f \in Fleets,
             \/ \E p \in open \cup closed : ArrivePage(t, f, p)
             \/ \E P \in {{}} \cup {{p} : p \in StrayPages} : ArriveCreate(t, f, P)
      PROVE  OwnersInv'
  <2>1. PICK k \in {"page", "create"}, P \in SUBSET Pages :
          P \subseteq open \cup closed /\ CheckPage(t, NewCall(k, f, P))
    BY <1>0, <1>3, PageSetsAssumption DEF ArrivePage, ArriveCreate, LeaseTypes
  <2>2. QED
    BY <2>1, NewCallFacts, CheckPageOwners
<1>4. ASSUME NEW t \in Tasks, RetryPage(t)
      PROVE  OwnersInv'
  BY <1>0, <1>4, CallFacts, CheckPageOwners DEF RetryPage, TaskTypes, KnownCalls
<1>5. ASSUME NEW t \in Tasks, RetryWorkflow(t) \/ GiveUp(t) \/ ExitWorkflow(t) \/ ExitPage(t)
      PROVE  OwnersInv'
  <2>1. CASE RetryWorkflow(t)
    BY <1>0, <1>1, <2>1 DEF RetryWorkflow, Push, TaskTypes
  <2>2. CASE GiveUp(t)
    BY <1>0, <1>1, <2>2 DEF GiveUp, TaskTypes
  <2>3. CASE ExitWorkflow(t)
    BY <1>0, <1>1, <2>3 DEF ExitWorkflow, Pop, TaskTypes
  <2>4. CASE ExitPage(t)
    BY <1>0, <1>1, <2>4 DEF ExitPage, LeavePage, Pop, TaskTypes
  <2>5. QED
    BY <1>5, <2>1, <2>2, <2>3, <2>4
<1>6. ASSUME NEW t \in Tasks, NEW p \in Pages, ExitCreated(t, p) \/ ExitClosed(t, p)
      PROVE  OwnersInv'
  <2>1. KnownCalls'
    <3>1. /\ \A u \in Tasks : /\ waiting'[u] = waiting[u]
                              /\ outer'[u] \in {outer[u], NoCall} /\ inner'[u] \in {inner[u], NoCall}
          /\ open \cup closed \subseteq open' \cup closed'
      BY <1>0, <1>6 DEF ExitCreated, ExitClosed, LeavePage, Pop, TaskTypes
    <3>2. QED
      BY <1>0, <3>1 DEF KnownCalls
  <2>2. CASE ExitCreated(t, p)
    <3>1. IndexesAgree'
      <4>1. pageOwner[p] = NoWorker
        BY <1>0, <2>2 DEF ExitCreated, KnownPages
      <4>2. /\ pageOwner' = [pageOwner EXCEPT ![p] = WorkerOf[t]]
            /\ workerPages' = [workerPages EXCEPT ![WorkerOf[t]] = @ \cup {p}]
        BY <2>2 DEF ExitCreated
      <4>3. QED
        BY <1>0, <4>1, <4>2, WorkerOfAssumption, AbsentAssumption DEF IndexesAgree, LeaseTypes
    <3>2. KnownPages'
      BY <1>0, <2>2 DEF ExitCreated, KnownPages, LeaseTypes
    <3>3. QED
      BY <2>1, <3>1, <3>2 DEF OwnersInv
  <2>3. CASE ExitClosed(t, p)
    <3>1. IndexesAgree'
      BY <1>0, <2>3, WorkerOfAssumption, AbsentAssumption DEF ExitClosed, IndexesAgree, LeaseTypes
    <3>2. KnownPages'
      BY <1>0, <2>3 DEF ExitClosed, KnownPages, LeaseTypes
    <3>3. QED
      BY <2>1, <3>1, <3>2 DEF OwnersInv
  <2>4. QED
    BY <1>6, <2>2, <2>3
<1>7. ASSUME NEW w \in Workers, ReleaseWorker(w)
      PROVE  OwnersInv'
  <2>1. KnownCalls'
    <3>1. \A u \in Tasks : /\ waiting'[u] = waiting[u]
                           /\ outer'[u] \in {outer[u], Dead(outer[u])}
                           /\ inner'[u] \in {inner[u], Dead(inner[u])}
      BY <1>0, <1>7 DEF ReleaseWorker, Revoke, TaskTypes
    <3>2. UNCHANGED <<open, closed>>
      BY <1>7 DEF ReleaseWorker
    <3>3. QED
      BY <1>0, <3>1, <3>2 DEF KnownCalls, Dead
  <2>2. IndexesAgree'
    BY <1>0, <1>7, AbsentAssumption DEF ReleaseWorker, IndexesAgree, LeaseTypes
  <2>3. KnownPages'
    BY <1>0, <1>7 DEF ReleaseWorker, KnownPages, LeaseTypes
  <2>4. QED
    BY <2>1, <2>2, <2>3 DEF OwnersInv
<1>8. ASSUME NEW w \in Workers, \/ \E P \in SUBSET Pages : SeedWorkerPages(w, P)
                                \/ \E p \in Pages : ReleasePage(w, p)
      PROVE  OwnersInv'
  <2>1. KnownCalls'
    BY <1>0, <1>8 DEF SeedWorkerPages, ReleasePage, KnownCalls
  <2>2. IndexesAgree'
    <3>1. CASE \E P \in SUBSET Pages : SeedWorkerPages(w, P)
      <4>1. PICK P \in SUBSET Pages : SeedWorkerPages(w, P)
        BY <3>1
      <4>2. /\ \A p \in Pages : pageOwner'[p] = IF p \in P THEN w ELSE pageOwner[p]
            /\ \A v \in Workers : workerPages'[v] = IF v = w THEN workerPages[v] \cup P
                                                            ELSE workerPages[v]
            /\ \A p \in P : pageOwner[p] \in {NoWorker, w}
        BY <1>0, <4>1 DEF SeedWorkerPages, LeaseTypes
      <4> SUFFICES ASSUME NEW p \in Pages, NEW v \in Workers
                   PROVE  pageOwner'[p] = v <=> p \in workerPages'[v]
        BY DEF IndexesAgree
      <4>3. pageOwner[p] = v <=> p \in workerPages[v]
        BY <1>0 DEF IndexesAgree
      <4>4. QED
        BY <4>2, <4>3, AbsentAssumption
    <3>2. CASE \E p \in Pages : ReleasePage(w, p)
      BY <1>0, <3>2, AbsentAssumption DEF ReleasePage, IndexesAgree, LeaseTypes
    <3>3. QED
      BY <1>8, <3>1, <3>2
  <2>3. KnownPages'
    BY <1>0, <1>8 DEF SeedWorkerPages, ReleasePage, KnownPages, LeaseTypes
  <2>4. QED
    BY <2>1, <2>2, <2>3 DEF OwnersInv
<1>9. ASSUME NEW p \in Pages, ObserveInventory(p) \/ QuarantinePage(p) \/ ClearPageQuarantine(p)
      PROVE  OwnersInv'
  BY <1>0, <1>9 DEF ObserveInventory, QuarantinePage, ClearPageQuarantine, OwnersInv, IndexesAgree,
                    KnownPages, KnownCalls, LeaseTypes
<1>10. CASE UNCHANGED vars
  BY <1>0, <1>10 DEF vars, OwnersInv, IndexesAgree, KnownPages, KnownCalls
<1>11. QED
  BY <1>2, <1>3, <1>4, <1>5, <1>6, <1>7, <1>8, <1>9, <1>10 DEF Next

LEMMA OwnersInvariant == Spec => []OwnersInv
<1>1. Init => OwnersInv
  BY AbsentAssumption DEF Init, OwnersInv, IndexesAgree, KnownPages, KnownCalls, NoCall
<1>2. QED
  BY <1>1, OwnersStep, TypeCorrect, PTL DEF Spec

(* _page_owners and _worker_pages stay one relation, also when a worker is  *)
(* released in the middle of its calls.                                     *)
THEOREM IndexesStayEqual == Spec => []IndexesAgree
<1>1. OwnersInv => IndexesAgree
  BY DEF OwnersInv
<1>2. QED
  BY <1>1, OwnersInvariant, PTL

-----------------------------------------------------------------------------
(* A call that is inside, and a Workflow that waits, have their open pages: *)
(* nothing takes a page from a worker that is not idle.                     *)
OwnsPages(t, c) == \A p \in c.pages \cap open : pageOwner[p] = WorkerOf[t]

Owned ==
  \A t \in Tasks : /\ outer[t].live => OwnsPages(t, outer[t])
                   /\ inner[t].live => OwnsPages(t, inner[t])
                   /\ waiting[t].kind = "workflow" => OwnsPages(t, waiting[t])

\* No open page that has an owner among the tasks' workers changes hands.
NoTheft ==
  /\ open' \subseteq open
  /\ \A p \in open', u \in Tasks : pageOwner[p] = WorkerOf[u] => pageOwner'[p] = pageOwner[p]

\* The calls of a task are those it had; t may also have the call c, whose
\* pages are its worker's.
Entering(t, c) ==
  /\ \A p \in c.pages : p \in open' => pageOwner'[p] = WorkerOf[t]
  /\ \A u \in Tasks : /\ outer'[u] = outer[u] \/ ~outer'[u].live \/ (u = t /\ outer'[u] = c)
                      /\ inner'[u] = inner[u] \/ ~inner'[u].live \/ (u = t /\ inner'[u] = c)
                      /\ \/ waiting'[u] = waiting[u] \/ waiting'[u].kind # "workflow"
                         \/ u = t /\ waiting'[u] = c

LEMMA OwnedStep ==
  ASSUME ~BusyRelease, LeaseInv, OwnersInv, Owned, [Next]_vars
  PROVE  Owned'
<1>0. /\ LeaseTypes /\ TaskTypes /\ Nesting /\ KnownCalls
      /\ NoCall.pages = {} /\ ~NoCall.live /\ NoCall.kind = "none"
  BY DEF LeaseInv, TypeOK, OwnersInv, NoCall
<1>a. \A t \in Tasks : WorkerOf[t] \in Workers /\ WorkerOf[t] # NoWorker
  BY WorkerOfAssumption, AbsentAssumption
<1> USE DEF leaseVars, fleetVars, taskVars
<1>1. ASSUME NoTheft, NEW t \in Tasks, NEW c, Entering(t, c)
      PROVE  Owned'
  <2> SUFFICES ASSUME NEW u \in Tasks, NEW p, p \in open'
               PROVE  /\ outer'[u].live /\ p \in outer'[u].pages => pageOwner'[p] = WorkerOf[u]
                      /\ inner'[u].live /\ p \in inner'[u].pages => pageOwner'[p] = WorkerOf[u]
                      /\ waiting'[u].kind = "workflow" /\ p \in waiting'[u].pages
                           => pageOwner'[p] = WorkerOf[u]
    BY DEF Owned, OwnsPages
  <2>1. \A d : OwnsPages(u, d) /\ p \in d.pages => pageOwner'[p] = WorkerOf[u]
    BY <1>1 DEF OwnsPages, NoTheft
  <2>2. /\ outer[u].live => OwnsPages(u, outer[u])
        /\ inner[u].live => OwnsPages(u, inner[u])
        /\ waiting[u].kind = "workflow" => OwnsPages(u, waiting[u])
    BY DEF Owned
  <2>3. p \in c.pages => pageOwner'[p] = WorkerOf[t]
    BY <1>1 DEF Entering
  <2>4. /\ outer'[u] = outer[u] \/ ~outer'[u].live \/ (u = t /\ outer'[u] = c)
        /\ inner'[u] = inner[u] \/ ~inner'[u].live \/ (u = t /\ inner'[u] = c)
        /\ \/ waiting'[u] = waiting[u] \/ waiting'[u].kind # "workflow"
           \/ u = t /\ waiting'[u] = c
    BY <1>1 DEF Entering
  <2>5. QED
    BY <2>1, <2>2, <2>3, <2>4
(* The same, when no call enters that was not there.                        *)
<1>2. ASSUME NoTheft,
             \A u \in Tasks : /\ outer'[u] = outer[u] \/ ~outer'[u].live
                              /\ inner'[u] = inner[u] \/ ~inner'[u].live
                              /\ waiting'[u] = waiting[u] \/ waiting'[u].kind # "workflow"
      PROVE  Owned'
  <2>1. CASE Tasks = {}
    BY <2>1 DEF Owned
  <2>2. ASSUME NEW t \in Tasks
        PROVE  Owned'
    <3>1. Entering(t, NoCall)
      BY <1>0, <1>2 DEF Entering
    <3>2. QED
      BY <1>1, <1>2, <3>1
  <2>3. QED
    BY <2>1, <2>2
<1>3. ASSUME NEW t \in Tasks, NEW c \in Call, CheckPage(t, c), c.kind # "workflow",
             c.pages \subseteq open \cup closed
      PROVE  Owned'
  <2>0. /\ WorkerOf[t] \in Workers /\ c.fleet \in Fleets /\ c.pages \in SUBSET Pages
        /\ open \subseteq Pages
    BY <1>0, CallFacts, WorkerOfAssumption DEF LeaseTypes
  <2>1. UNCHANGED <<open, closed>>
    BY <1>3 DEF CheckPage, EnterPage, ConflictPage, ParkPage
  <2>2. CASE EnterPage(t, c)
    <3>1. CanClaim(WorkerOf[t], c.fleet, c.pages) /\ Claim(WorkerOf[t], c.fleet, c.pages)
      BY <2>2 DEF EnterPage
    <3>2. /\ \A p \in Pages : pageOwner[p] # NoWorker => pageOwner'[p] = pageOwner[p]
          /\ \A p \in c.pages : pageOwner'[p] = WorkerOf[t]
      BY <1>0, <1>3, <2>0, <2>1, <3>1, ClaimEffect DEF OwnersInv
    <3>3. \A u \in Tasks : /\ outer'[u] = outer[u] \/ (u = t /\ outer'[u] = c)
                           /\ inner'[u] = inner[u] \/ (u = t /\ inner'[u] = c)
                           /\ waiting'[u] = waiting[u] \/ waiting'[u].kind # "workflow"
      BY <1>0, <2>2 DEF EnterPage, Push, TaskTypes
    <3>4. NoTheft
      BY <1>a, <2>0, <2>1, <3>2 DEF NoTheft
    <3>5. Entering(t, c)
      BY <3>2, <3>3 DEF Entering
    <3>6. QED
      BY <1>1, <3>4, <3>5
  <2>3. CASE ConflictPage(t, c) \/ ParkPage(t, c)
    <3>1. UNCHANGED <<pageOwner, outer, inner>>
      BY <2>3 DEF ConflictPage, ParkPage
    <3>2. \A u \in Tasks : waiting'[u] = waiting[u] \/ waiting'[u].kind # "workflow"
      BY <1>0, <1>3, <2>3 DEF ConflictPage, ParkPage, TaskTypes
    <3>3. QED
      BY <1>2, <2>1, <3>1, <3>2 DEF NoTheft
  <2>4. QED
    BY <1>3, <2>2, <2>3 DEF CheckPage
<1>4. ASSUME NEW t \in Tasks, NEW f \in Fleets, NEW P \in SUBSET Pages, ArriveWorkflow(t, f, P)
      PROVE  Owned'
  <2> DEFINE c == NewCall("workflow", f, P)
  <2>1. c.pages = P
    BY NewCallFacts
  <2>2. /\ P \subseteq open \cup closed /\ WorkerOf[t] \in Workers /\ open \subseteq Pages
    BY <1>0, <1>4, WorkerOfAssumption, HomeFleetAssumption, AbsentAssumption
       DEF ArriveWorkflow, WorkflowPages, KnownPages, OwnersInv, LeaseTypes
  <2>3. CanClaim(WorkerOf[t], f, P) /\ Claim(WorkerOf[t], f, P) /\ UNCHANGED <<open, closed>>
    BY <1>4 DEF ArriveWorkflow
  <2>4. /\ \A p \in Pages : pageOwner[p] # NoWorker => pageOwner'[p] = pageOwner[p]
        /\ \A p \in P : pageOwner'[p] = WorkerOf[t]
    BY <1>0, <2>2, <2>3, ClaimEffect DEF OwnersInv
  <2>5. \/ Push(t, c) /\ UNCHANGED waiting
        \/ waiting' = [waiting EXCEPT ![t] = c] /\ UNCHANGED <<outer, inner>>
    BY <1>4 DEF ArriveWorkflow
  <2> HIDE DEF c
  <2>6. \A u \in Tasks : /\ outer'[u] = outer[u] \/ (u = t /\ outer'[u] = c)
                         /\ inner'[u] = inner[u] \/ (u = t /\ inner'[u] = c)
                         /\ waiting'[u] = waiting[u] \/ (u = t /\ waiting'[u] = c)
    BY <1>0, <2>5 DEF Push, TaskTypes
  <2>7. NoTheft
    BY <1>a, <2>2, <2>3, <2>4 DEF NoTheft
  <2>8. Entering(t, c)
    BY <2>1, <2>4, <2>6 DEF Entering
  <2>9. QED
    BY <1>1, <2>7, <2>8
<1>5. ASSUME NEW t \in Tasks, NEW f \in Fleets,
             \/ \E p \in open \cup closed : ArrivePage(t, f, p)
             \/ \E P \in {{}} \cup {{p} : p \in StrayPages} : ArriveCreate(t, f, P)
      PROVE  Owned'
  <2>1. PICK k \in {"page", "create"}, P \in SUBSET Pages :
          P \subseteq open \cup closed /\ CheckPage(t, NewCall(k, f, P))
    BY <1>0, <1>5, PageSetsAssumption DEF ArrivePage, ArriveCreate, LeaseTypes
  <2>2. QED
    BY <1>3, <2>1, NewCallFacts
<1>6. ASSUME NEW t \in Tasks, RetryPage(t)
      PROVE  Owned'
  BY <1>0, <1>3, <1>6, CallFacts DEF RetryPage, TaskTypes, KnownCalls
<1>7. ASSUME NEW t \in Tasks, RetryWorkflow(t)
      PROVE  Owned'
  <2> DEFINE c == waiting[t]
  <2>1. OwnsPages(t, c) /\ UNCHANGED <<open, pageOwner>>
    BY <1>7 DEF RetryWorkflow, Owned
  <2>2. \A u \in Tasks : /\ outer'[u] = outer[u] \/ (u = t /\ outer'[u] = c)
                         /\ inner'[u] = inner[u] \/ (u = t /\ inner'[u] = c)
                         /\ waiting'[u] = waiting[u] \/ waiting'[u].kind # "workflow"
    BY <1>0, <1>7 DEF RetryWorkflow, Push, TaskTypes
  <2>3. NoTheft
    BY <2>1 DEF NoTheft
  <2> HIDE DEF c
  <2>4. Entering(t, c)
    BY <2>1, <2>2 DEF Entering, OwnsPages
  <2>5. QED
    BY <1>1, <2>3, <2>4
<1>8. ASSUME NEW t \in Tasks, GiveUp(t) \/ ExitWorkflow(t) \/ ExitPage(t)
      PROVE  Owned'
  <2>1. UNCHANGED <<open, pageOwner>>
    BY <1>8 DEF GiveUp, ExitWorkflow, ExitPage
  <2>2. \A u \in Tasks : /\ outer'[u] \in {outer[u], NoCall} /\ inner'[u] \in {inner[u], NoCall}
                         /\ waiting'[u] \in {waiting[u], NoCall}
    BY <1>0, <1>8 DEF GiveUp, ExitWorkflow, ExitPage, LeavePage, Pop, TaskTypes
  <2>3. QED
    BY <1>0, <1>2, <2>1, <2>2 DEF NoTheft
(* A new page is in no call yet.                                            *)
<1>9. ASSUME NEW t \in Tasks, NEW p \in Pages, ExitCreated(t, p)
      PROVE  Owned'
  <2>1. /\ open' = open \cup {p} /\ p \notin open \cup closed
        /\ \A q \in open : pageOwner'[q] = pageOwner[q]
    BY <1>0, <1>9 DEF ExitCreated, LeaseTypes
  <2>2. \A u \in Tasks : /\ outer'[u] \in {outer[u], NoCall} /\ inner'[u] \in {inner[u], NoCall}
                         /\ waiting'[u] = waiting[u]
    BY <1>0, <1>9 DEF ExitCreated, LeavePage, Pop, TaskTypes
  <2>3. \A u \in Tasks : /\ p \notin waiting[u].pages /\ p \notin outer[u].pages
                         /\ p \notin inner[u].pages
    BY <1>0, <2>1 DEF KnownCalls
  <2>4. QED
    BY <1>0, <2>1, <2>2, <2>3 DEF Owned, OwnsPages
<1>10. ASSUME NEW t \in Tasks, NEW p \in Pages, ExitClosed(t, p)
       PROVE  Owned'
  <2>1. open' \subseteq open /\ \A q \in open' : pageOwner'[q] = pageOwner[q]
    BY <1>0, <1>10 DEF ExitClosed, LeaseTypes
  <2>2. \A u \in Tasks : /\ outer'[u] \in {outer[u], NoCall} /\ inner'[u] \in {inner[u], NoCall}
                         /\ waiting'[u] = waiting[u]
    BY <1>0, <1>10 DEF ExitClosed, LeavePage, Pop, TaskTypes
  <2>3. QED
    BY <1>0, <1>2, <2>1, <2>2 DEF NoTheft
(* Only an idle worker loses its pages.                                     *)
<1>11. ASSUME NEW w \in Workers, Idle(w), UNCHANGED <<open, waiting>>,
              \A p \in open : pageOwner[p] # w => pageOwner'[p] = pageOwner[p],
              \A u \in Tasks : WorkerOf[u] # w => outer'[u] = outer[u] /\ inner'[u] = inner[u],
              \A u \in Tasks : WorkerOf[u] = w => ~outer'[u].live /\ ~inner'[u].live
       PROVE  Owned'
  <2>1. \A u \in Tasks : WorkerOf[u] = w => waiting'[u].kind # "workflow"
    BY <1>0, <1>11 DEF Idle
  <2>2. QED
    BY <1>11, <2>1 DEF Owned, OwnsPages
<1>12. ASSUME NEW w \in Workers, ReleaseWorker(w)
       PROVE  Owned'
  <2>1. Idle(w) /\ UNCHANGED <<open, waiting>>
    BY <1>12 DEF ReleaseWorker
  <2>2. \A p \in open : pageOwner[p] # w => pageOwner'[p] = pageOwner[p]
    BY <1>0, <1>12 DEF ReleaseWorker, LeaseTypes
  <2>3. \A u \in Tasks : WorkerOf[u] # w => outer'[u] = outer[u] /\ inner'[u] = inner[u]
    BY <1>0, <1>12 DEF ReleaseWorker, Revoke, TaskTypes
  <2>4. \A u \in Tasks : WorkerOf[u] = w => ~outer'[u].live /\ ~inner'[u].live
    BY <1>0, <1>12, DeadFacts DEF ReleaseWorker, Revoke, TaskTypes
  <2>5. QED
    BY <1>11, <2>1, <2>2, <2>3, <2>4
<1>13. ASSUME NEW w \in Workers, NEW p \in Pages, ReleasePage(w, p)
       PROVE  Owned'
  <2>1. Idle(w) /\ UNCHANGED <<open, waiting, outer, inner>>
    BY <1>13 DEF ReleasePage
  <2>2. \A q \in open : pageOwner[q] # w => pageOwner'[q] = pageOwner[q]
    BY <1>0, <1>13 DEF ReleasePage, LeaseTypes
  <2>3. \A u \in Tasks : WorkerOf[u] = w => ~outer'[u].live /\ ~inner'[u].live
    BY <1>0, <2>1 DEF Idle, Nesting
  <2>4. QED
    BY <1>11, <2>1, <2>2, <2>3
<1>14. ASSUME NEW w \in Workers, NEW P \in SUBSET Pages, SeedWorkerPages(w, P)
       PROVE  Owned'
  <2>1. /\ UNCHANGED <<open, waiting, outer, inner>>
        /\ \A q \in open : pageOwner[q] # NoWorker => pageOwner'[q] = pageOwner[q]
    BY <1>0, <1>14 DEF SeedWorkerPages, LeaseTypes
  <2>2. QED
    BY <1>a, <1>2, <2>1 DEF NoTheft
<1>15. CASE \/ \E p \in Pages : ObserveInventory(p) \/ QuarantinePage(p) \/ ClearPageQuarantine(p)
            \/ UNCHANGED vars
  <2>1. UNCHANGED <<open, pageOwner, waiting, outer, inner>>
    BY <1>15 DEF ObserveInventory, QuarantinePage, ClearPageQuarantine, vars
  <2>2. QED
    BY <1>2, <2>1 DEF NoTheft
<1>16. QED
  BY <1>4, <1>5, <1>6, <1>7, <1>8, <1>9, <1>10, <1>12, <1>13, <1>14, <1>15 DEF Next

(* Two workers are never inside calls on one open page, and nobody is in a  *)
(* Fleet beside a Workflow but its own callback, when no worker is released *)
(* before its calls have left.                                              *)
THEOREM CallsExclusive == ASSUME ~BusyRelease PROVE Spec => []Exclusive
<1>1. Init => Owned
  BY CallFacts DEF Init, Owned
<1>2. LeaseInv /\ OwnersInv /\ Owned /\ [Next]_vars => Owned'
  BY OwnedStep
<1>3. Owned => PageExclusive
  <2> SUFFICES ASSUME Owned, NEW t \in Tasks, NEW u \in Tasks, NEW f \in Fleets, NEW g \in Fleets,
                      NEW c \in LiveCalls(t, f), NEW d \in LiveCalls(u, g),
                      NEW p \in c.pages \cap d.pages \cap open
               PROVE  WorkerOf[t] = WorkerOf[u]
    BY DEF PageExclusive
  <2>1. pageOwner[p] = WorkerOf[t]
    BY DEF Owned, OwnsPages, LiveCalls
  <2>2. pageOwner[p] = WorkerOf[u]
    BY DEF Owned, OwnsPages, LiveCalls
  <2>3. QED
    BY <2>1, <2>2
<1>4. Spec => []Owned
  BY <1>1, <1>2, LeaseInvariant, OwnersInvariant, PTL DEF Spec
<1>5. QED
  BY <1>3, <1>4, WorkflowsExclusive, PTL DEF Exclusive

-----------------------------------------------------------------------------
(* What the two other dicts of a Fleet say: a registered waiter is a        *)
(* Workflow that waits for this Fleet, and a Page.create that is under way  *)
(* owns the creation of its Fleet.                                          *)
WaitersReal ==
  \A f \in Fleets : \A t \in workflowWaiters[f] : waiting[t].kind = "workflow" /\ waiting[t].fleet = f

Creating ==
  \A t \in Tasks, f \in Fleets :
    outer[t].live /\ outer[t].kind = "create" /\ outer[t].fleet = f => creationOwner[f] = t

FleetInv == WaitersReal /\ Creating

LEMMA CheckPageFleet ==
  ASSUME LeaseInv, FleetInv, NEW t \in Tasks, NEW c \in Call, CheckPage(t, c),
         waiting[t].kind # "workflow", inner[t] = NoCall, outer[t] # NoCall => c.kind = "page"
  PROVE  FleetInv'
<1>0. /\ FleetTypes /\ TaskTypes /\ WaitersReal /\ Creating /\ c.fleet \in Fleets
      /\ NoCall.kind = "none"
  BY CallFacts DEF LeaseInv, TypeOK, FleetInv
<1>1. UNCHANGED workflowWaiters /\ \A u \in Tasks : u # t => waiting'[u] = waiting[u]
  BY <1>0 DEF CheckPage, EnterPage, ConflictPage, ParkPage, fleetVars, TaskTypes
<1>2. WaitersReal'
  BY <1>0, <1>1 DEF WaitersReal, FleetTypes
<1>3. CASE EnterPage(t, c)
  <2>1. PageAdmissible(t, c.fleet) /\ TakeCreation(t, c) /\ Push(t, c)
    BY <1>3 DEF EnterPage
  <2>2. /\ \A u \in Tasks : u # t => outer'[u] = outer[u]
        /\ outer'[t] = outer[t] \/ outer'[t] = c
    BY <1>0, <2>1, PushEffect
  <2>3. /\ \A f \in Fleets : creationOwner[f] # NoTask => creationOwner'[f] = creationOwner[f]
        /\ c.kind = "create" => creationOwner'[c.fleet] = t
    BY <1>0, <2>1, AbsentAssumption DEF TakeCreation, PageAdmissible, FleetTypes
  <2>4. Creating'
    BY <1>0, <2>2, <2>3, AbsentAssumption DEF Creating
  <2>5. QED
    BY <1>2, <2>4 DEF FleetInv
<1>4. CASE ConflictPage(t, c) \/ ParkPage(t, c)
  <2>1. UNCHANGED outer /\ \A f \in Fleets : creationOwner[f] # NoTask => creationOwner'[f] = creationOwner[f]
    BY <1>0, <1>4 DEF ConflictPage, ParkPage, TakeCreation, FleetTypes, fleetVars
  <2>2. Creating'
    BY <1>0, <2>1, AbsentAssumption DEF Creating
  <2>3. QED
    BY <1>2, <2>2 DEF FleetInv
<1>5. QED
  BY <1>3, <1>4 DEF CheckPage

LEMMA FleetStep == LeaseInv /\ FleetInv /\ [Next]_vars => FleetInv'
<1> SUFFICES ASSUME LeaseInv, FleetInv, [Next]_vars
             PROVE  FleetInv'
  OBVIOUS
<1>0. /\ FleetTypes /\ TaskTypes /\ WaitersReal /\ Creating /\ Nesting
      /\ NoCall.kind = "none" /\ ~NoCall.live
  BY CallFacts DEF LeaseInv, TypeOK, FleetInv
<1> USE DEF leaseVars, fleetVars, taskVars
<1>1. ASSUME UNCHANGED <<workflowWaiters, waiting, creationOwner, outer>>
      PROVE  FleetInv'
  BY <1>0, <1>1 DEF FleetInv, WaitersReal, Creating
<1>2. ASSUME NEW t \in Tasks, NEW f \in Fleets, NEW P \in SUBSET Pages, ArriveWorkflow(t, f, P)
      PROVE  FleetInv'
  <2> DEFINE c == NewCall("workflow", f, P)
  <2>1. c.kind = "workflow" /\ c.fleet = f /\ waiting[t] = NoCall /\ UNCHANGED creationOwner
    BY <1>2, NewCallFacts DEF ArriveWorkflow, MayCall
  <2>2. \/ Push(t, c) /\ UNCHANGED <<waiting, workflowWaiters>>
        \/ /\ waiting' = [waiting EXCEPT ![t] = c] /\ UNCHANGED outer
           /\ workflowWaiters' = [workflowWaiters EXCEPT ![f] = @ \cup {t}]
    BY <1>2 DEF ArriveWorkflow
  <2> HIDE DEF c
  <2>3. WaitersReal'
    BY <1>0, <2>1, <2>2 DEF WaitersReal, FleetTypes, TaskTypes
  <2>4. \A u \in Tasks : outer'[u] = outer[u] \/ outer'[u].kind = "workflow"
    BY <1>0, <2>1, <2>2 DEF Push, TaskTypes
  <2>5. Creating'
    BY <1>0, <2>1, <2>4 DEF Creating
  <2>6. QED
    BY <2>3, <2>5 DEF FleetInv
<1>3. ASSUME NEW t \in Tasks, NEW f \in Fleets,
             \/ \E p \in open \cup closed : ArrivePage(t, f, p)
             \/ \E P \in {{}} \cup {{p} : p \in StrayPages} : ArriveCreate(t, f, P)
      PROVE  FleetInv'
  <2>1. PICK k \in {"page", "create"}, P \in SUBSET Pages :
          MayCall(t, k, f) /\ CheckPage(t, NewCall(k, f, P))
    <3>1. open \cup closed \subseteq Pages
      BY DEF LeaseInv, TypeOK, LeaseTypes
    <3>2. QED
      BY <1>3, <3>1, PageSetsAssumption DEF ArrivePage, ArriveCreate
  <2>2. waiting[t].kind # "workflow" /\ inner[t] = NoCall /\ (outer[t] # NoCall => k = "page")
    BY <1>0, <2>1 DEF MayCall, Nesting
  <2>3. QED
    BY <2>1, <2>2, NewCallFacts, CheckPageFleet
<1>4. ASSUME NEW t \in Tasks, RetryPage(t)
      PROVE  FleetInv'
  <2>1. waiting[t] \in Call /\ waiting[t].kind # "workflow" /\ CheckPage(t, waiting[t])
    BY <1>0, <1>4, CallFacts DEF RetryPage, TaskTypes
  <2>2. inner[t] = NoCall /\ (outer[t] # NoCall => waiting[t].kind = "page")
    BY <1>0, <2>1, CallFacts DEF Nesting
  <2>3. QED
    BY <2>1, <2>2, CheckPageFleet
<1>5. ASSUME NEW t \in Tasks, RetryWorkflow(t)
      PROVE  FleetInv'
  <2>1. waiting[t].kind = "workflow" /\ waiting[t].fleet \in Fleets /\ UNCHANGED creationOwner
    BY <1>0, <1>5, CallFacts DEF RetryWorkflow, TaskTypes
  <2>2. \A u \in Tasks : outer'[u] = outer[u] \/ outer'[u].kind = "workflow"
    BY <1>0, <1>5, <2>1 DEF RetryWorkflow, Push, TaskTypes
  <2>3. Creating'
    BY <1>0, <2>1, <2>2 DEF Creating
  <2>4. CASE UNCHANGED <<waiting, workflowWaiters>>
    BY <1>0, <2>3, <2>4 DEF FleetInv, WaitersReal
  <2>5. CASE /\ waiting' = [waiting EXCEPT ![t] = NoCall]
             /\ workflowWaiters' = [workflowWaiters EXCEPT
                                      ![waiting[t].fleet] = IF t \in joined THEN @ \ {t} ELSE {}]
    <3> SUFFICES ASSUME NEW f \in Fleets, NEW u \in workflowWaiters'[f]
                 PROVE  waiting'[u].kind = "workflow" /\ waiting'[u].fleet = f
      BY <2>3 DEF FleetInv, WaitersReal
    <3>1. u \in workflowWaiters[f] /\ u # t
      BY <1>0, <2>1, <2>5 DEF FleetTypes, WaitersReal
    <3>2. u \in Tasks
      BY <1>0, <3>1 DEF FleetTypes
    <3>3. QED
      BY <1>0, <2>5, <3>1, <3>2 DEF WaitersReal, TaskTypes
  <2>6. QED
    BY <1>5, <2>4, <2>5 DEF RetryWorkflow
<1>6. ASSUME NEW t \in Tasks, GiveUp(t)
      PROVE  FleetInv'
  <2>1. /\ waiting' = [waiting EXCEPT ![t] = NoCall] /\ UNCHANGED <<creationOwner, outer>>
        /\ workflowWaiters' = IF waiting[t].kind = "workflow"
                              THEN [workflowWaiters EXCEPT ![waiting[t].fleet] = @ \ {t}]
                              ELSE workflowWaiters
    BY <1>6 DEF GiveUp
  <2>2. waiting[t].fleet \in Fleets
    BY <1>0, <1>6, CallFacts DEF GiveUp, TaskTypes
  <2>3. \A f \in Fleets : workflowWaiters'[f] \subseteq workflowWaiters[f] \ {t}
    BY <1>0, <2>1, <2>2 DEF FleetTypes, WaitersReal
  <2>4. WaitersReal'
    BY <1>0, <2>1, <2>3 DEF WaitersReal, FleetTypes, TaskTypes
  <2>5. QED
    BY <1>0, <2>1, <2>4 DEF FleetInv, Creating
<1>7. ASSUME NEW t \in Tasks, ExitWorkflow(t)
      PROVE  FleetInv'
  <2>1. UNCHANGED <<workflowWaiters, waiting, creationOwner>> /\ \A u \in Tasks : outer'[u] \in {outer[u], NoCall}
    BY <1>0, <1>7 DEF ExitWorkflow, Pop, TaskTypes
  <2>2. QED
    BY <1>0, <2>1 DEF FleetInv, WaitersReal, Creating
<1>8. ASSUME NEW t \in Tasks, LeavePage(t)
      PROVE  FleetInv'
  <2> DEFINE c == Current(t)
  <2>1. UNCHANGED <<workflowWaiters, waiting>> /\ ReturnCreation(t, c) /\ Pop(t)
    BY <1>8 DEF LeavePage
  <2>2. \A f \in Fleets : creationOwner'[f] # creationOwner[f] => c.kind = "create" /\ creationOwner[f] = t
    BY <1>0, <2>1 DEF ReturnCreation, FleetTypes
  <2>3. /\ \A u \in Tasks : outer'[u] \in {outer[u], NoCall}
        /\ c.kind = "create" => outer'[t] = NoCall
    BY <1>0, <2>1 DEF Pop, Current, Nesting, TaskTypes
  <2>4. Creating'
    BY <1>0, <2>2, <2>3 DEF Creating
  <2>5. QED
    BY <1>0, <2>1, <2>4 DEF FleetInv, WaitersReal
<1>9. ASSUME NEW w \in Workers, ReleaseWorker(w)
      PROVE  FleetInv'
  <2>1. /\ UNCHANGED waiting
        /\ \A f \in Fleets : workflowWaiters'[f] \subseteq workflowWaiters[f]
        /\ \A f \in Fleets : creationOwner'[f] # creationOwner[f]
                               => \E t \in Tasks : WorkerOf[t] = w /\ creationOwner[f] = t
        /\ \A t \in Tasks : outer'[t] = IF WorkerOf[t] = w THEN Dead(outer[t]) ELSE outer[t]
    BY <1>0, <1>9 DEF ReleaseWorker, Revoke, FleetTypes
  <2>2. WaitersReal'
    BY <1>0, <2>1 DEF WaitersReal
  <2>3. \A t \in Tasks : WorkerOf[t] = w => ~outer'[t].live
    BY <1>0, <2>1, DeadFacts DEF TaskTypes
  <2>4. Creating'
    BY <1>0, <2>1, <2>3 DEF Creating
  <2>5. QED
    BY <2>2, <2>4 DEF FleetInv
<1>10. ASSUME NEW p \in Pages, ObserveInventory(p) \/ QuarantinePage(p) \/ ClearPageQuarantine(p)
       PROVE  FleetInv'
  BY <1>1, <1>10 DEF ObserveInventory, QuarantinePage, ClearPageQuarantine
<1>11. ASSUME NEW w \in Workers, \/ \E P \in SUBSET Pages : SeedWorkerPages(w, P)
                                 \/ \E p \in Pages : ReleasePage(w, p)
       PROVE  FleetInv'
  BY <1>1, <1>11 DEF SeedWorkerPages, ReleasePage
<1>12. CASE UNCHANGED vars
  BY <1>1, <1>12 DEF vars
<1>13. ASSUME NEW t \in Tasks, ExitPage(t) \/ \E p \in Pages : ExitCreated(t, p) \/ ExitClosed(t, p)
       PROVE  FleetInv'
  BY <1>8, <1>13 DEF ExitPage, ExitCreated, ExitClosed
<1>14. QED
  BY <1>2, <1>3, <1>4, <1>5, <1>6, <1>7, <1>9, <1>10, <1>11, <1>12, <1>13 DEF Next

LEMMA FleetInvariant == Spec => []FleetInv
<1>1. Init => FleetInv
  BY CallFacts DEF Init, FleetInv, WaitersReal, Creating
<1>2. QED
  BY <1>1, FleetStep, LeaseInvariant, PTL DEF Spec

(* A Fleet in which a Page.create is under way admits no call of another    *)
(* task, until the page it returns has been adopted (claim_created_pages).  *)
THEOREM CreationsExclusive == Spec => CreationExclusive
<1> DEFINE Alone == \A t, u \in Tasks, f \in Fleets :
                      (\E c \in LiveCalls(t, f) : c.kind = "create") /\ LiveCalls(u, f)' \ LiveCalls(u, f) # {}
                        => t = u
<1>1. ASSUME LeaseInv, FleetInv, [Next]_vars PROVE Alone
  <2>0. /\ FleetTypes /\ TaskTypes /\ CountsMatch /\ Nesting /\ Creating
        /\ ~NoCall.live /\ LeaseTypes
    BY <1>1, CallFacts DEF LeaseInv, TypeOK, FleetInv
  <2> USE DEF leaseVars, fleetVars, taskVars
  <2> SUFFICES ASSUME NEW t \in Tasks, NEW u \in Tasks, NEW f \in Fleets,
                      NEW c \in LiveCalls(t, f), c.kind = "create",
                      NEW d, d \in LiveCalls(u, f)', d \notin LiveCalls(u, f)
               PROVE  t = u
    OBVIOUS
  <2>1. c = outer[t] /\ c.live /\ c.fleet = f
    BY <2>0 DEF LiveCalls, Nesting
  <2>2. creationOwner[f] = t /\ activeCalls[f][t] # 0
    <3>1. creationOwner[f] = t
      BY <2>0, <2>1 DEF Creating
    <3>2. Weight(outer[t], f) = 1 /\ Weight(inner[t], f) \in {0, 1}
      BY <2>0, <2>1, WeightFacts DEF Weight, TaskTypes
    <3>3. QED
      BY <2>0, <3>1, <3>2 DEF CountsMatch
  <2>3. d \in {outer'[u], inner'[u]} /\ d.live /\ d.fleet = f /\ d \notin {outer[u], inner[u]}
    BY DEF LiveCalls
  <2>4. ~WorkflowAdmissible(f) /\ (PageAdmissible(u, f) => t = u)
    BY <2>2, AbsentAssumption DEF WorkflowAdmissible, PageAdmissible
  (* What enters is the call of a task that was admitted.                   *)
  <2>5. ASSUME NEW v \in Tasks, NEW e \in Call, CheckPage(v, e)
        PROVE  t = u
    <3>1. EnterPage(v, e)
      BY <2>3, <2>5 DEF CheckPage, ConflictPage, ParkPage
    <3>2. PageAdmissible(v, e.fleet) /\ Push(v, e)
      BY <3>1 DEF EnterPage
    <3>3. v = u /\ d = e
      BY <2>0, <2>3, <3>2 DEF Push, TaskTypes
    <3>4. QED
      BY <2>3, <2>4, <3>2, <3>3
  <2>6. ASSUME NEW v \in Tasks, NEW g \in Fleets, NEW P \in SUBSET Pages, ArriveWorkflow(v, g, P)
        PROVE  t = u
    <3>1. WorkflowAdmissible(g) /\ Push(v, NewCall("workflow", g, P))
      BY <2>3, <2>6 DEF ArriveWorkflow
    <3>2. d = NewCall("workflow", g, P)
      BY <2>0, <2>3, <3>1 DEF Push, TaskTypes
    <3>3. d.fleet = g
      BY <3>2, NewCallFacts
    <3>4. QED
      BY <2>3, <2>4, <3>1, <3>3
  <2>7. ASSUME NEW v \in Tasks, RetryWorkflow(v)
        PROVE  t = u
    <3>1. WorkflowAdmissible(waiting[v].fleet) /\ Push(v, waiting[v])
      BY <2>3, <2>7 DEF RetryWorkflow
    <3>2. d = waiting[v]
      BY <2>0, <2>3, <3>1 DEF Push, TaskTypes
    <3>3. QED
      BY <2>3, <2>4, <3>1, <3>2
  <2>8. ASSUME NEW v \in Tasks, NEW g \in Fleets,
               \/ \E p \in open \cup closed : ArrivePage(v, g, p)
               \/ \E P \in {{}} \cup {{p} : p \in StrayPages} : ArriveCreate(v, g, P)
        PROVE  t = u
    <3>1. PICK k \in {"page", "create"}, P \in SUBSET Pages : CheckPage(v, NewCall(k, g, P))
      BY <2>0, <2>8, PageSetsAssumption DEF ArrivePage, ArriveCreate, LeaseTypes
    <3>2. QED
      BY <2>5, <3>1, NewCallFacts
  <2>9. ASSUME NEW v \in Tasks, RetryPage(v)
        PROVE  t = u
    BY <2>0, <2>5, <2>9, CallFacts DEF RetryPage, TaskTypes
  (* Every other step lets no call in.                                      *)
  <2>10. ASSUME \A v \in Tasks : /\ outer'[v] = outer[v] \/ ~outer'[v].live
                                 /\ inner'[v] = inner[v] \/ ~inner'[v].live
         PROVE  t = u
    BY <2>3, <2>10
  <2>11. ASSUME NEW v \in Tasks, \/ GiveUp(v) \/ ExitWorkflow(v) \/ ExitPage(v)
                                 \/ \E p \in Pages : ExitCreated(v, p) \/ ExitClosed(v, p)
         PROVE  t = u
    <3>1. \A x \in Tasks : outer'[x] \in {outer[x], NoCall} /\ inner'[x] \in {inner[x], NoCall}
      BY <2>0, <2>11 DEF GiveUp, ExitWorkflow, ExitPage, ExitCreated, ExitClosed, LeavePage, Pop, TaskTypes
    <3>2. QED
      BY <2>0, <2>10, <3>1
  <2>12. ASSUME NEW w \in Workers, ReleaseWorker(w)
         PROVE  t = u
    <3>1. \A x \in Tasks : /\ outer'[x] \in {outer[x], Dead(outer[x])}
                           /\ inner'[x] \in {inner[x], Dead(inner[x])}
      BY <2>0, <2>12 DEF ReleaseWorker, Revoke, TaskTypes
    <3>2. QED
      BY <2>0, <2>10, <3>1, DeadFacts DEF TaskTypes
  <2>13. CASE UNCHANGED <<outer, inner>>
    BY <2>10, <2>13
  <2>14. QED
    BY <1>1, <2>6, <2>7, <2>8, <2>9, <2>11, <2>12, <2>13
    DEF Next, SeedWorkerPages, ReleasePage, ObserveInventory, QuarantinePage, ClearPageQuarantine, vars
<1>2. LeaseInv /\ FleetInv /\ [Next]_vars => [Alone]_vars
  BY <1>1
<1>3. QED
  BY <1>2, LeaseInvariant, FleetInvariant, PTL DEF Spec, CreationExclusive

-----------------------------------------------------------------------------
(* Whatever ended a call, its Fleet is free afterwards, when the parameters *)
(* of a Page.create name no page (the case in which the creation lease is   *)
(* lost to a conflict is CreationLeaseReturned's).                          *)
NoStray == \A t \in Tasks : waiting[t].kind = "create" => waiting[t].pages = {}

LeakInv == CreationLeaseReturned /\ NoStray

LEMMA LeakStep ==
  ASSUME StrayPages = {}, LeaseInv, LeakInv, [Next]_vars
  PROVE  LeakInv'
<1>0. /\ FleetTypes /\ TaskTypes /\ Nesting /\ CreationLeaseReturned /\ NoStray /\ LeaseTypes
      /\ NoCall.kind = "none" /\ NoTask \notin Tasks
  BY CallFacts, AbsentAssumption DEF LeaseInv, TypeOK, LeakInv
<1> USE DEF leaseVars, fleetVars, taskVars
<1>1. ASSUME UNCHANGED creationOwner,
             \A u \in Tasks : /\ outer[u].kind = "create" => outer'[u] = outer[u]
                              /\ waiting'[u] = waiting[u] \/ waiting'[u].kind # "create"
      PROVE  LeakInv'
  BY <1>0, <1>1 DEF LeakInv, CreationLeaseReturned, NoStray, FleetTypes
<1>2. ASSUME NEW t \in Tasks, NEW c \in Call, CheckPage(t, c), c.kind = "create" => c.pages = {},
             inner[t] = NoCall, outer[t] # NoCall => c.kind = "page"
      PROVE  LeakInv'
  <2>1. NoStray'
    BY <1>0, <1>2 DEF CheckPage, EnterPage, ConflictPage, ParkPage, NoStray, TaskTypes
  <2>2. CASE EnterPage(t, c)
    <3>1. TakeCreation(t, c) /\ Push(t, c)
      BY <2>2 DEF EnterPage
    <3>2. /\ \A u \in Tasks : u # t => outer'[u] = outer[u]
          /\ \/ outer[t] = NoCall /\ outer'[t] = c
             \/ outer'[t] = outer[t] /\ c.kind = "page"
      BY <1>0, <1>2, <3>1, PushEffect
    <3>3. \A f \in Fleets : \/ creationOwner'[f] = creationOwner[f]
                            \/ creationOwner'[f] = t /\ c.kind = "create" /\ c.fleet = f
      BY <1>0, <3>1 DEF TakeCreation, FleetTypes
    <3>4. CreationLeaseReturned'
      <4> SUFFICES ASSUME NEW f \in Fleets, creationOwner'[f] # NoTask
                   PROVE  outer'[creationOwner'[f]].kind = "create" /\ outer'[creationOwner'[f]].fleet = f
        BY DEF CreationLeaseReturned
      <4>1. CASE creationOwner'[f] = creationOwner[f]
        <5>1. /\ creationOwner[f] \in Tasks
              /\ outer[creationOwner[f]].kind = "create" /\ outer[creationOwner[f]].fleet = f
          BY <1>0, <4>1 DEF CreationLeaseReturned, FleetTypes
        <5>2. QED
          BY <1>0, <3>2, <4>1, <5>1
      <4>2. CASE creationOwner'[f] = t /\ c.kind = "create" /\ c.fleet = f
        BY <3>2, <4>2
      <4>3. QED
        BY <3>3, <4>1, <4>2
    <3>5. QED
      BY <2>1, <3>4 DEF LeakInv
  (* Without pages there is no conflict after the lease was taken.          *)
  <2>3. CASE ConflictPage(t, c)
    <3>1. c.kind # "create"
      BY <1>2, <2>3 DEF ConflictPage, CanClaim
    <3>2. UNCHANGED <<creationOwner, outer>>
      BY <2>3, <3>1 DEF ConflictPage, TakeCreation
    <3>3. QED
      BY <1>0, <2>1, <3>2 DEF LeakInv, CreationLeaseReturned
  <2>4. CASE ParkPage(t, c)
    BY <1>0, <2>1, <2>4 DEF ParkPage, LeakInv, CreationLeaseReturned
  <2>5. QED
    BY <1>2, <2>2, <2>3, <2>4 DEF CheckPage
<1>3. ASSUME NEW t \in Tasks, NEW f \in Fleets,
             \/ \E p \in open \cup closed : ArrivePage(t, f, p)
             \/ \E P \in {{}} \cup {{p} : p \in StrayPages} : ArriveCreate(t, f, P)
      PROVE  LeakInv'
  <2>1. PICK k \in {"page", "create"}, P \in SUBSET Pages :
          /\ MayCall(t, k, f) /\ CheckPage(t, NewCall(k, f, P))
          /\ k = "create" => P = {}
    <3>1. CASE \E p \in open \cup closed : ArrivePage(t, f, p)
      BY <1>0, <3>1 DEF ArrivePage, LeaseTypes
    <3>2. CASE ArriveCreate(t, f, {})
      BY <3>2 DEF ArriveCreate
    <3>3. QED
      BY <1>3, <3>1, <3>2
  <2>2. inner[t] = NoCall /\ (outer[t] # NoCall => k = "page")
    BY <1>0, <2>1 DEF MayCall, Nesting
  <2>3. QED
    BY <1>2, <2>1, <2>2, NewCallFacts
<1>4. ASSUME NEW t \in Tasks, RetryPage(t)
      PROVE  LeakInv'
  <2>1. waiting[t] \in Call /\ CheckPage(t, waiting[t])
    BY <1>0, <1>4, CallFacts DEF RetryPage, TaskTypes
  <2>2. inner[t] = NoCall /\ (outer[t] # NoCall => waiting[t].kind = "page")
    BY <1>0, <2>1, CallFacts DEF Nesting
  <2>3. QED
    BY <1>0, <1>2, <2>1, <2>2 DEF NoStray
<1>5. ASSUME NEW t \in Tasks, NEW f \in Fleets, NEW P \in SUBSET Pages, ArriveWorkflow(t, f, P)
      PROVE  LeakInv'
  <2>1. UNCHANGED creationOwner /\ outer[t] = NoCall /\ NewCall("workflow", f, P).kind # "create"
    BY <1>5, NewCallFacts DEF ArriveWorkflow, MayCall
  <2>2. \A u \in Tasks : /\ outer[u].kind = "create" => outer'[u] = outer[u]
                         /\ waiting'[u] = waiting[u] \/ waiting'[u].kind # "create"
    BY <1>0, <1>5, <2>1 DEF ArriveWorkflow, Push, TaskTypes
  <2>3. QED
    BY <1>1, <2>1, <2>2
<1>6. ASSUME NEW t \in Tasks, RetryWorkflow(t)
      PROVE  LeakInv'
  <2>1. UNCHANGED creationOwner /\ outer[t] = NoCall
    BY <1>0, <1>6, CallFacts DEF RetryWorkflow, Nesting
  <2>2. \A u \in Tasks : /\ outer[u].kind = "create" => outer'[u] = outer[u]
                         /\ waiting'[u] = waiting[u] \/ waiting'[u].kind # "create"
    BY <1>0, <1>6, <2>1 DEF RetryWorkflow, Push, TaskTypes
  <2>3. QED
    BY <1>1, <2>1, <2>2
<1>7. ASSUME NEW t \in Tasks, GiveUp(t)
      PROVE  LeakInv'
  BY <1>0, <1>1, <1>7 DEF GiveUp, TaskTypes
<1>8. ASSUME NEW t \in Tasks, ExitWorkflow(t)
      PROVE  LeakInv'
  BY <1>0, <1>1, <1>8 DEF ExitWorkflow, Current, Pop, Nesting, TaskTypes
<1>9. ASSUME NEW t \in Tasks, LeavePage(t)
      PROVE  LeakInv'
  <2> DEFINE c == Current(t)
  <2>1. UNCHANGED waiting /\ ReturnCreation(t, c) /\ Pop(t)
    BY <1>9 DEF LeavePage
  <2>2. /\ \A u \in Tasks : u # t => outer'[u] = outer[u]
        /\ outer'[t] = outer[t] \/ c = outer[t]
    BY <1>0, <2>1, PopEffect DEF Current
  <2>3. \A f \in Fleets : /\ creationOwner'[f] \in {creationOwner[f], NoTask}
                          /\ c.kind = "create" /\ c.fleet = f /\ creationOwner[f] = t
                              => creationOwner'[f] = NoTask
    BY <1>0, <2>1 DEF ReturnCreation, FleetTypes
  <2>4. CreationLeaseReturned'
    <3> SUFFICES ASSUME NEW f \in Fleets, creationOwner'[f] # NoTask
                 PROVE  outer'[creationOwner'[f]].kind = "create" /\ outer'[creationOwner'[f]].fleet = f
      BY DEF CreationLeaseReturned
    <3> HIDE DEF c
    <3>1. /\ creationOwner'[f] = creationOwner[f] /\ creationOwner[f] \in Tasks
          /\ outer[creationOwner[f]].kind = "create" /\ outer[creationOwner[f]].fleet = f
      BY <1>0, <2>3 DEF CreationLeaseReturned, FleetTypes
    <3>2. outer'[creationOwner[f]] = outer[creationOwner[f]]
      BY <2>2, <2>3, <3>1
    <3>3. QED
      BY <3>1, <3>2
  <2>5. QED
    BY <1>0, <2>1, <2>4 DEF LeakInv, NoStray
<1>10. ASSUME NEW t \in Tasks, ExitPage(t) \/ \E p \in Pages : ExitCreated(t, p) \/ ExitClosed(t, p)
       PROVE  LeakInv'
  BY <1>9, <1>10 DEF ExitPage, ExitCreated, ExitClosed
<1>11. ASSUME NEW w \in Workers, ReleaseWorker(w)
       PROVE  LeakInv'
  <2>1. /\ UNCHANGED waiting
        /\ \A f \in Fleets : \/ creationOwner'[f] = NoTask
                             \/ /\ creationOwner'[f] = creationOwner[f]
                                /\ \A t \in Tasks : creationOwner[f] = t => WorkerOf[t] # w
        /\ \A t \in Tasks : WorkerOf[t] # w => outer'[t] = outer[t]
    BY <1>0, <1>11 DEF ReleaseWorker, Revoke, FleetTypes
  <2>2. CreationLeaseReturned'
    BY <1>0, <2>1 DEF CreationLeaseReturned, FleetTypes
  <2>3. QED
    BY <1>0, <2>1, <2>2 DEF LeakInv, NoStray
<1>12. CASE UNCHANGED <<creationOwner, outer, waiting>>
  BY <1>1, <1>12
<1>13. QED
  BY <1>3, <1>4, <1>5, <1>6, <1>7, <1>8, <1>10, <1>11, <1>12
  DEF Next, SeedWorkerPages, ReleasePage, ObserveInventory, QuarantinePage, ClearPageQuarantine, vars

LEMMA LeakInvariant == ASSUME StrayPages = {} PROVE Spec => []LeakInv
<1>1. Init => LeakInv
  BY CallFacts DEF Init, LeakInv, CreationLeaseReturned, NoStray
<1>2. LeaseInv /\ LeakInv /\ [Next]_vars => LeakInv'
  BY LeakStep
<1>3. QED
  BY <1>1, <1>2, LeaseInvariant, PTL DEF Spec

(* Whatever raised, timed out or was cancelled: the index has every page,   *)
(* and when no call is left, no count, owner or waiter is left either.      *)
THEOREM NothingStays == ASSUME StrayPages = {} PROVE Spec => []NothingLeaks
<1>1. LeaseInv /\ FleetInv /\ LeakInv /\ IndexesAgree => NothingLeaks
  <2> SUFFICES ASSUME LeaseInv, FleetInv, LeakInv, IndexesAgree, AtRest, NEW f \in Fleets
               PROVE  /\ workflowOwner[f] = NoTask /\ creationOwner[f] = NoTask
                      /\ workflowWaiters[f] = {} /\ \A t \in Tasks : activeCalls[f][t] = 0
    BY DEF NothingLeaks
  <2>0. /\ FleetTypes /\ CountsMatch /\ OwnerMatches /\ Nesting /\ NoCall.kind = "none"
        /\ \A t \in Tasks : waiting[t] = NoCall /\ outer[t] = NoCall
    BY CallFacts DEF LeaseInv, TypeOK, AtRest
  <2>1. workflowOwner[f] = NoTask
    BY <2>0, WeightFacts DEF OwnerMatches, FleetTypes
  <2>2. creationOwner[f] = NoTask
    BY <2>0 DEF LeakInv, CreationLeaseReturned, FleetTypes
  <2>3. workflowWaiters[f] = {}
    BY <2>0 DEF FleetInv, WaitersReal, FleetTypes
  <2>4. \A t \in Tasks : activeCalls[f][t] = 0
    BY <2>0, WeightFacts DEF CountsMatch, Nesting
  <2>5. QED
    BY <2>1, <2>2, <2>3, <2>4
<1>2. QED
  BY <1>1, LeaseInvariant, FleetInvariant, LeakInvariant, IndexesStayEqual, PTL

-----------------------------------------------------------------------------
(* A task that sleeps on a Fleet's Event waits for a call, and what would   *)
(* admit that call is signalled by the step that makes it true.             *)
Asleep == \A t \in parked : waiting[t] # NoCall

WakeInv == NoLostWakeup /\ Asleep

LEMMA WakeStep == LeaseInv /\ WakeInv /\ [Next]_vars => WakeInv'
<1> SUFFICES ASSUME LeaseInv, WakeInv, [Next]_vars
             PROVE  WakeInv'
  OBVIOUS
<1>0. FleetTypes /\ TaskTypes /\ NoLostWakeup /\ Asleep /\ LeaseTypes /\ NoTask \notin Tasks
  BY AbsentAssumption DEF LeaseInv, TypeOK, WakeInv
<1> USE DEF leaseVars, fleetVars, taskVars
(* What a sleeper sees of its Fleet: nothing that could admit it appears.   *)
<1> DEFINE Shut(u, g) ==
      /\ workflowOwner'[g] = workflowOwner[g] \/ workflowOwner'[g] \notin {u, NoTask}
      /\ workflowWaiters[g] \subseteq workflowWaiters'[g]
      /\ creationOwner'[g] = creationOwner[g] \/ creationOwner'[g] \notin {u, NoTask}
      /\ \A v \in Tasks : activeCalls[g][v] # 0 => activeCalls'[g][v] # 0
<1>1. ASSUME NEW u \in parked, u \in Tasks, waiting[u] # NoCall, Shut(u, waiting[u].fleet),
             waiting'[u] = waiting[u]
      PROVE  /\ waiting'[u] # NoCall
             /\ IF waiting'[u].kind = "workflow" THEN ~WorkflowAdmissible(waiting[u].fleet)'
                                                 ELSE ~PageAdmissible(u, waiting[u].fleet)'
  <2> DEFINE g == waiting[u].fleet
  <2>1. IF waiting[u].kind = "workflow" THEN ~WorkflowAdmissible(g) ELSE ~PageAdmissible(u, g)
    BY <1>0 DEF NoLostWakeup
  <2>2. CASE waiting[u].kind = "workflow"
    BY <1>0, <1>1, <2>1, <2>2 DEF WorkflowAdmissible
  <2>3. CASE waiting[u].kind # "workflow"
    BY <1>0, <1>1, <2>1, <2>3 DEF PageAdmissible
  <2>4. QED
    BY <1>1, <2>2, <2>3
(* Sleepers that go on sleeping see nothing of the kind.                    *)
<1>2. ASSUME \A u \in parked' : u \in parked /\ waiting'[u] = waiting[u] /\ Shut(u, waiting[u].fleet)
      PROVE  WakeInv'
  <2>1. \A u \in parked' : u \in Tasks /\ waiting[u] # NoCall
    BY <1>0, <1>2 DEF Asleep, TaskTypes
  <2> HIDE DEF Shut
  <2>2. QED
    BY <1>1, <1>2, <2>1 DEF WakeInv, NoLostWakeup, Asleep
(* One task falls asleep, on a call that is not admitted.                   *)
<1>3. ASSUME NEW t \in Tasks, waiting'[t] # NoCall,
             IF waiting'[t].kind = "workflow" THEN ~WorkflowAdmissible(waiting[t].fleet)'
                                             ELSE ~PageAdmissible(t, waiting[t].fleet)',
             \A u \in parked' : u = t \/ (u \in parked /\ waiting'[u] = waiting[u] /\ Shut(u, waiting[u].fleet))
      PROVE  WakeInv'
  <2>1. \A u \in parked' : u # t => u \in Tasks /\ waiting[u] # NoCall
    BY <1>0, <1>3 DEF Asleep, TaskTypes
  <2> HIDE DEF Shut
  <2>2. QED
    BY <1>1, <1>3, <2>1 DEF WakeInv, NoLostWakeup, Asleep
<1>4. \A u \in parked : u \in Tasks /\ waiting[u] # NoCall /\ waiting[u].fleet \in Fleets
  BY <1>0, CallFacts DEF Asleep, TaskTypes
<1>5. ASSUME NEW t \in Tasks, NEW f \in Fleets, NEW P \in SUBSET Pages, ArriveWorkflow(t, f, P)
      PROVE  WakeInv'
  <2> DEFINE c == NewCall("workflow", f, P)
  <2>1. c \in Call /\ c # NoCall /\ c.kind = "workflow" /\ c.fleet = f /\ t \notin parked
    BY <1>0, <1>5, NewCallFacts, CallFacts DEF ArriveWorkflow, MayCall, Asleep
  <2>2. UNCHANGED <<activeCalls, creationOwner>>
    BY <1>5 DEF ArriveWorkflow
  <2>3. \/ /\ Signal({f}) /\ workflowOwner' = [workflowOwner EXCEPT ![f] = t]
           /\ UNCHANGED <<waiting, workflowWaiters>>
        \/ /\ ~WorkflowAdmissible(f) /\ waiting' = [waiting EXCEPT ![t] = c] /\ UNCHANGED workflowOwner
           /\ workflowWaiters' = [workflowWaiters EXCEPT ![f] = @ \cup {t}] /\ parked' = parked \cup {t}
    BY <1>5 DEF ArriveWorkflow
  <2> HIDE DEF c
  <2>4. CASE Signal({f}) /\ workflowOwner' = [workflowOwner EXCEPT ![f] = t] /\ UNCHANGED <<waiting, workflowWaiters>>
    <3>1. \A u \in parked' : u \in parked /\ waiting'[u] = waiting[u] /\ Shut(u, waiting[u].fleet)
      BY <1>0, <1>4, <2>2, <2>4 DEF Signal, FleetTypes
    <3> HIDE DEF Shut
    <3>2. QED
      BY <1>2, <3>1
  <2>5. CASE /\ ~WorkflowAdmissible(f) /\ waiting' = [waiting EXCEPT ![t] = c] /\ UNCHANGED workflowOwner
             /\ workflowWaiters' = [workflowWaiters EXCEPT ![f] = @ \cup {t}] /\ parked' = parked \cup {t}
    <3>1. waiting'[t] = c /\ ~WorkflowAdmissible(waiting[t].fleet)'
      BY <1>0, <2>1, <2>2, <2>5 DEF WorkflowAdmissible, TaskTypes
    <3>2. \A u \in parked' : u = t \/ (u \in parked /\ waiting'[u] = waiting[u] /\ Shut(u, waiting[u].fleet))
      BY <1>0, <1>4, <2>1, <2>2, <2>5 DEF FleetTypes, TaskTypes
    <3> HIDE DEF Shut
    <3>3. QED
      BY <1>3, <2>1, <3>1, <3>2
  <2>6. QED
    BY <2>3, <2>4, <2>5
<1>6. ASSUME NEW t \in Tasks, NEW c \in Call, CheckPage(t, c), t \notin parked, c.kind # "workflow"
      PROVE  WakeInv'
  <2>1. c # NoCall /\ c.fleet \in Fleets
    BY CallFacts
  <2>2. UNCHANGED <<workflowOwner, workflowWaiters>>
    BY <1>6 DEF CheckPage, EnterPage, ConflictPage, ParkPage
  <2>3. \A u \in Tasks : u # t => waiting'[u] = waiting[u]
    BY <1>0, <1>6 DEF CheckPage, EnterPage, ConflictPage, ParkPage, TaskTypes
  <2>4. \A g \in Fleets : creationOwner'[g] = creationOwner[g] \/ creationOwner'[g] = t
    BY <1>0, <1>6 DEF CheckPage, EnterPage, ConflictPage, ParkPage, TakeCreation, FleetTypes
  <2>5. \A g \in Fleets, v \in Tasks : activeCalls[g][v] # 0 => activeCalls'[g][v] # 0
    <3>1. \/ UNCHANGED activeCalls
          \/ activeCalls' = [activeCalls EXCEPT ![c.fleet][t] = @ + 1]
      BY <1>6 DEF CheckPage, EnterPage, ConflictPage, ParkPage
    <3>2. QED
      BY <1>0, <2>1, <3>1 DEF FleetTypes
  <2>6. \A u \in parked : u # t /\ waiting'[u] = waiting[u] /\ Shut(u, waiting[u].fleet)
    BY <1>0, <1>4, <1>6, <2>2, <2>3, <2>4, <2>5
  <2> HIDE DEF Shut
  <2>7. CASE UNCHANGED parked
    BY <1>2, <2>6, <2>7
  <2>8. CASE ParkPage(t, c)
    <3>1. waiting'[t] = c /\ ~PageAdmissible(t, waiting[t].fleet)' /\ parked' = parked \cup {t}
      BY <1>0, <2>8 DEF ParkPage, PageAdmissible, TaskTypes
    <3>2. QED
      BY <1>3, <1>6, <2>1, <2>6, <3>1
  <2>9. QED
    BY <1>6, <2>7, <2>8 DEF CheckPage, EnterPage, ConflictPage
<1>7. ASSUME NEW t \in Tasks, NEW f \in Fleets,
             \/ \E p \in open \cup closed : ArrivePage(t, f, p)
             \/ \E P \in {{}} \cup {{p} : p \in StrayPages} : ArriveCreate(t, f, P)
      PROVE  WakeInv'
  <2>1. PICK k \in {"page", "create"}, P \in SUBSET Pages : MayCall(t, k, f) /\ CheckPage(t, NewCall(k, f, P))
    BY <1>0, <1>7, PageSetsAssumption DEF ArrivePage, ArriveCreate, LeaseTypes
  <2>2. t \notin parked
    BY <1>0, <2>1 DEF MayCall, Asleep
  <2>3. QED
    BY <1>6, <2>1, <2>2, NewCallFacts
<1>8. ASSUME NEW t \in Tasks, RetryPage(t)
      PROVE  WakeInv'
  <2>1. waiting[t] \in Call /\ waiting[t].kind # "workflow" /\ t \notin parked /\ CheckPage(t, waiting[t])
    BY <1>0, <1>8, CallFacts DEF RetryPage, TaskTypes
  <2>2. QED
    BY <1>6, <2>1
<1>9. ASSUME NEW t \in Tasks, RetryWorkflow(t)
      PROVE  WakeInv'
  <2> DEFINE f == waiting[t].fleet
  <2>1. /\ waiting[t] \in Call /\ f \in Fleets /\ waiting[t].kind = "workflow" /\ t \notin parked
        /\ UNCHANGED <<activeCalls, creationOwner>>
    BY <1>0, <1>9, CallFacts DEF RetryWorkflow, TaskTypes
  <2>2. CASE /\ Signal({f}) /\ workflowOwner' = [workflowOwner EXCEPT ![f] = t]
             /\ waiting' = [waiting EXCEPT ![t] = NoCall]
             /\ workflowWaiters' = [workflowWaiters EXCEPT ![f] = IF t \in joined THEN @ \ {t} ELSE {}]
    <3>1. \A u \in parked' : u \in parked /\ u # t /\ waiting[u].fleet # f
      BY <2>1, <2>2 DEF Signal
    <3>2. \A u \in parked' : u \in parked /\ waiting'[u] = waiting[u] /\ Shut(u, waiting[u].fleet)
      BY <1>0, <1>4, <2>1, <2>2, <3>1 DEF FleetTypes, TaskTypes
    <3> HIDE DEF Shut
    <3>3. QED
      BY <1>2, <3>2
  <2>3. CASE /\ ~WorkflowAdmissible(f) /\ parked' = parked \cup {t}
             /\ UNCHANGED <<workflowOwner, waiting, workflowWaiters>>
    <3>1. waiting'[t] # NoCall /\ waiting'[t].kind = "workflow" /\ ~WorkflowAdmissible(waiting[t].fleet)'
      BY <2>1, <2>3, CallFacts DEF WorkflowAdmissible
    <3>2. \A u \in parked' : u = t \/ (u \in parked /\ waiting'[u] = waiting[u] /\ Shut(u, waiting[u].fleet))
      BY <2>1, <2>3
    <3> HIDE DEF Shut
    <3>3. QED
      BY <1>3, <3>1, <3>2
  <2>4. QED
    BY <1>9, <2>2, <2>3 DEF RetryWorkflow
<1>10. ASSUME NEW t \in Tasks, GiveUp(t)
       PROVE  WakeInv'
  <2> DEFINE f == waiting[t].fleet
  <2>1. /\ f \in Fleets /\ waiting' = [waiting EXCEPT ![t] = NoCall]
        /\ UNCHANGED <<activeCalls, creationOwner, workflowOwner>>
        /\ IF waiting[t].kind = "workflow"
           THEN /\ workflowWaiters' = [workflowWaiters EXCEPT ![f] = @ \ {t}]
                /\ parked' = {u \in parked : u # t /\ waiting[u].fleet # f}
           ELSE parked' = parked \ {t} /\ UNCHANGED workflowWaiters
    BY <1>0, <1>10, CallFacts DEF GiveUp, TaskTypes
  <2>2. \A u \in parked' : u \in parked /\ waiting'[u] = waiting[u] /\ Shut(u, waiting[u].fleet)
    BY <1>0, <1>4, <2>1 DEF FleetTypes, TaskTypes
  <2> HIDE DEF Shut
  <2>3. QED
    BY <1>2, <2>2
<1>11. ASSUME NEW t \in Tasks, ExitWorkflow(t)
       PROVE  WakeInv'
  <2> DEFINE f == Current(t).fleet
  <2>1. /\ UNCHANGED <<activeCalls, creationOwner, workflowWaiters, waiting>>
        /\ \/ workflowOwner' = [workflowOwner EXCEPT ![f] = NoTask] /\ Signal({f})
           \/ UNCHANGED <<workflowOwner, parked>>
    BY <1>11 DEF ExitWorkflow
  <2>2. \A u \in parked' : u \in parked /\ waiting'[u] = waiting[u] /\ Shut(u, waiting[u].fleet)
    BY <1>0, <1>4, <2>1 DEF Signal, FleetTypes
  <2> HIDE DEF Shut
  <2>3. QED
    BY <1>2, <2>2
<1>12. ASSUME NEW t \in Tasks, NEW F, LeavePage(t), Current(t).fleet \in F, Signal(F)
       PROVE  WakeInv'
  <2> DEFINE f == Current(t).fleet
  <2>1. UNCHANGED <<workflowOwner, workflowWaiters, waiting>> /\ CountDown(t, f) /\ ReturnCreation(t, Current(t))
    BY <1>12 DEF LeavePage
  <2>2. \A g \in Fleets : g # f => activeCalls'[g] = activeCalls[g] /\ creationOwner'[g] = creationOwner[g]
    BY <1>0, <2>1 DEF CountDown, ReturnCreation, FleetTypes
  <2>3. \A u \in parked' : u \in parked /\ waiting[u].fleet # f
    BY <1>12 DEF Signal
  <2>4. \A u \in parked' : u \in parked /\ waiting'[u] = waiting[u] /\ Shut(u, waiting[u].fleet)
    BY <1>4, <2>1, <2>2, <2>3
  <2> HIDE DEF Shut
  <2>5. QED
    BY <1>2, <2>4
<1>13. ASSUME NEW t \in Tasks, ExitPage(t) \/ \E p \in Pages : ExitCreated(t, p) \/ ExitClosed(t, p)
       PROVE  WakeInv'
  <2>1. CASE ExitPage(t)
    BY <1>12, <2>1 DEF ExitPage
  <2>2. CASE \E p \in Pages : ExitCreated(t, p)
    BY <1>12, <2>2 DEF ExitCreated
  <2>3. ASSUME NEW p \in Pages, ExitClosed(t, p)
        PROVE  WakeInv'
    <3>1. PICK F : F = {Current(t).fleet} \cup IF pageOwner[p] \in {NoWorker, WorkerOf[t]} THEN {pageFleet[p]} ELSE {}
      OBVIOUS
    <3>2. LeavePage(t) /\ Signal(F) /\ Current(t).fleet \in F
      BY <2>3, <3>1 DEF ExitClosed
    <3>3. QED
      BY <1>12, <3>2
  <2>4. QED
    BY <1>13, <2>1, <2>2, <2>3
<1>14. ASSUME NEW w \in Workers, ReleaseWorker(w)
       PROVE  WakeInv'
  <2> DEFINE mine == {t \in Tasks : WorkerOf[t] = w}
  <2>1. UNCHANGED waiting
    BY <1>14 DEF ReleaseWorker
  <2>2. \A u \in parked' : /\ u \in parked
                           /\ workflowOwner[waiting[u].fleet] \notin mine
                           /\ creationOwner[waiting[u].fleet] \notin mine
                           /\ \A v \in mine : ~(activeCalls[waiting[u].fleet][v] > 0)
                           /\ workflowWaiters[waiting[u].fleet] \cap mine = {}
    BY <1>4, <1>14 DEF ReleaseWorker, Signal
  <2>3. \A g \in Fleets : /\ workflowOwner'[g] = IF workflowOwner[g] \in mine THEN NoTask ELSE workflowOwner[g]
                          /\ creationOwner'[g] = IF creationOwner[g] \in mine THEN NoTask ELSE creationOwner[g]
                          /\ workflowWaiters'[g] = workflowWaiters[g] \ mine
                          /\ \A v \in Tasks : activeCalls'[g][v] = IF v \in mine THEN 0 ELSE activeCalls[g][v]
    BY <1>14 DEF ReleaseWorker
  <2>4. \A g \in Fleets, v \in Tasks : activeCalls[g][v] \in Nat
    BY <1>0 DEF FleetTypes
  <2>5. \A u \in parked' : Shut(u, waiting[u].fleet)
    <3> SUFFICES ASSUME NEW u \in parked'
                 PROVE  Shut(u, waiting[u].fleet)
      OBVIOUS
    <3> DEFINE g == waiting[u].fleet
    <3>1. g \in Fleets
      BY <1>4, <2>2
    <3>2. workflowOwner'[g] = workflowOwner[g] /\ creationOwner'[g] = creationOwner[g]
      BY <2>2, <2>3, <3>1
    <3>3. workflowWaiters[g] \subseteq workflowWaiters'[g]
      BY <2>2, <2>3, <3>1
    <3>4. \A v \in Tasks : activeCalls[g][v] # 0 => activeCalls'[g][v] # 0
      BY <2>2, <2>3, <2>4, <3>1
    <3>5. QED
      BY <3>2, <3>3, <3>4
  <2> HIDE DEF Shut
  <2>6. QED
    BY <1>2, <2>1, <2>2, <2>5
<1>15. CASE UNCHANGED <<fleetVars, waiting>> /\ parked' \subseteq parked
  <2>1. \A u \in parked' : u \in parked /\ waiting'[u] = waiting[u] /\ Shut(u, waiting[u].fleet)
    BY <1>15
  <2> HIDE DEF Shut
  <2>2. QED
    BY <1>2, <2>1
<1>16. QED
  BY <1>5, <1>7, <1>8, <1>9, <1>10, <1>11, <1>13, <1>14, <1>15
  DEF Next, SeedWorkerPages, ReleasePage, ObserveInventory, QuarantinePage, ClearPageQuarantine, vars, Signal

(* _signal reaches everyone it must: a task that sleeps would not be        *)
(* admitted if it looked, whoever entered, left, gave up or was released.   *)
THEOREM WakeupsReach == Spec => []NoLostWakeup
<1>1. Init => WakeInv
  BY DEF Init, WakeInv, NoLostWakeup, Asleep
<1>2. WakeInv => NoLostWakeup
  BY DEF WakeInv
<1>3. QED
  BY <1>1, <1>2, WakeStep, LeaseInvariant, PTL DEF Spec
=============================================================================
