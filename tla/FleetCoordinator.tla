---------------------------- MODULE FleetCoordinator ----------------------------
(***************************************************************************)
(* FleetCoordinator of harness/fleet/coordinator.py, AuthFleetLedger of    *)
(* harness/fleet/auth.py and the routing half of the spawner               *)
(* (harness/spawner): slots hold connections, a spawn gets a slot and then *)
(* one Fleet, and a named session is bound to one Fleet, whose cookie jar  *)
(* holds the login.                                                        *)
(*                                                                         *)
(* There is one session key; two would meet only in two ledger rows that   *)
(* name the same Fleet.  same_fleet_multiworker_enabled is off (its        *)
(* default) and max_task_fleets is set, so one lock serializes the Fleet   *)
(* decisions.  What a request may prefer among equals is left open.        *)
(***************************************************************************)
EXTENDS Integers, FiniteSets

CONSTANTS
  Slots, NoSlot, Workers, NoWorker, Fleets, NoFleet,
  Limit,           \* max_task_fleets
  MaxReleases      \* bounds how often the session is released

ASSUME AbsentAssumption == NoSlot \notin Slots /\ NoWorker \notin Workers /\ NoFleet \notin Fleets
ASSUME LimitsAssumption == Limit \in Nat \ {0} /\ MaxReleases \in Nat

VARIABLES
  coordinator,     \* _fleets, _session_bindings, _session_generations, _slot_defaults
  assigned,        \* _worker_assignments
  ledger,          \* the session's row of auth_fleets, which outlives the process
  fate,            \* what the platform did with a Fleet
  slot,            \* status of a slot
  view,            \* slot.fleet_ids
  registered,      \* the Fleets in slot.registration
  pc, at, request, \* where a spawn is, its slot, what it asks for
  lock,            \* owner of the guard assignment:task_fleet_budget
  first,           \* owner of _first_fleet_acquisition_lock
  committed,       \* _first_fleet_acquisition_committed
  releases         \* ghost: how often the session was released

spawnVars == <<pc, at, request>>
slotVars == <<slot, view, registered>>
lockVars == <<lock, first, committed>>
vars == <<coordinator, assigned, ledger, fate, slotVars, spawnVars, lockVars, releases>>

NoRecord == [status |-> "unknown", slot |-> NoSlot, named |-> FALSE,
             isolated |-> FALSE, retired |-> FALSE, admitted |-> FALSE]
NoAssignment == [fleet |-> NoFleet, named |-> FALSE, generation |-> 0, owner |-> NoSlot, epoch |-> 0]
NoRow == [fleet |-> NoFleet, generation |-> 0, owner |-> NoSlot, stale |-> TRUE]
NoRequest == [kind |-> "shared", source |-> NoWorker]

Kinds == {"shared", "named", "isolated", "preferred"}  \* preferred: isolation by default
Waiting == {"acquired", "prepared", "reading", "creating"}
Usable == {"idle", "busy"}
Phases == Waiting \cup {"new", "readying", "running", "done"}

FleetRecord ==
  [status : {"unknown", "active", "suspect", "missing", "released"}, slot : Slots \cup {NoSlot},
   named : BOOLEAN, isolated : BOOLEAN, retired : BOOLEAN, admitted : BOOLEAN]

CoordinatorType ==
  [record : [Fleets -> FleetRecord], bound : Fleets \cup {NoFleet}, generation : Nat \ {0},
   default : [Slots -> Fleets \cup {NoFleet}]]

AssignmentType ==
  [fleet : Fleets \cup {NoFleet}, named : BOOLEAN, generation : Nat,
   owner : Slots \cup {NoSlot}, epoch : Nat]

LedgerType ==
  [fleet : Fleets \cup {NoFleet}, generation : Nat, owner : Slots \cup {NoSlot}, stale : BOOLEAN]

TypeOK ==
  /\ coordinator \in CoordinatorType
  /\ assigned \in [Workers -> AssignmentType]
  /\ ledger \in LedgerType
  /\ fate \in [Fleets -> {"unborn", "live", "dead"}]
  /\ slot \in [Slots -> {"absent", "starting", "idle", "busy", "broken", "gone"}]
  /\ view \in [Slots -> SUBSET Fleets] /\ registered \in [Slots -> SUBSET Fleets]
  /\ pc \in [Workers -> Phases]
  /\ at \in [Workers -> Slots \cup {NoSlot}]
  /\ request \in [Workers -> [kind : Kinds, source : Workers \cup {NoWorker}]]
  /\ lock \in Workers \cup {NoWorker} /\ first \in Workers \cup {NoWorker} /\ committed \in BOOLEAN
  /\ releases \in 0..MaxReleases

(* A process starts with the ledger and the Fleets of earlier ones.         *)
Init ==
  /\ coordinator = [record |-> [f \in Fleets |-> NoRecord], bound |-> NoFleet,
                    generation |-> 1, default |-> [s \in Slots |-> NoFleet]]
  /\ assigned = [w \in Workers |-> NoAssignment]
  /\ fate \in [Fleets -> {"unborn", "live"}]
  /\ \/ ledger = NoRow
     \/ \E f \in Fleets, s \in Slots :
          fate[f] = "live" /\ ledger = [fleet |-> f, generation |-> 1, owner |-> s, stale |-> FALSE]
  /\ slot = [s \in Slots |-> "absent"]
  /\ view = [s \in Slots |-> {}] /\ registered = [s \in Slots |-> {}]
  /\ pc = [w \in Workers |-> "new"] /\ at = [w \in Workers |-> NoSlot]
  /\ request = [w \in Workers |-> NoRequest]
  /\ lock = NoWorker /\ first = NoWorker /\ committed = FALSE
  /\ releases = 0

Live == {f \in Fleets : fate[f] = "live"}

-----------------------------------------------------------------------------
(* The coordinator's methods, as functions of its state c.  Operators with  *)
(* an underscore in their names are faulty variants of the one that         *)
(* follows; no action uses them.                                            *)

Forget_Keeps(default, f) == default
Forget(default, f) == [s \in Slots |-> IF default[s] = f THEN NoFleet ELSE default[s]]

(* An inventory is the platform's, so several connections see one Fleet:    *)
(* the sight of it neither admits it to the task nor moves it.              *)
Keeper_Last(r, s) == s
Keeper(r, s) == IF r.admitted THEN r.slot ELSE s

Admits(r) == r.admitted

Sight(r, s) ==
  [r EXCEPT !.slot = Keeper(r, s), !.admitted = Admits(r),
            !.status = IF r.retired THEN "released" ELSE "active"]

(* A Fleet that is not there is forgotten, unless it holds a login.         *)
Unseen(r) == IF r.named THEN [r EXCEPT !.status = "missing"] ELSE NoRecord

Observe(c, s, seen) ==
  [c EXCEPT
     !.record = [f \in Fleets |-> IF f \in seen THEN Sight(@[f], s)
                                  ELSE IF @[f].slot = s THEN Unseen(@[f]) ELSE @[f]],
     !.default = [t \in Slots |-> IF t = s /\ @[t] \notin seen THEN NoFleet ELSE @[t]]]

(* reconcile_missing_fleets: an inventory speaks for every owner.           *)
Reconcile(c, seen) ==
  LET Gone == {f \in Fleets \ seen : c.record[f].status # "unknown"}
  IN  [c EXCEPT
         !.record = [f \in Fleets |-> IF f \in Gone THEN Unseen(@[f]) ELSE @[f]],
         !.default = [t \in Slots |-> IF @[t] \in {f \in Gone : ~c.record[f].named}
                                      THEN NoFleet ELSE @[t]]]

(* restore_auth_binding raises when the key is bound to another Fleet.      *)
RestoreRaises_Never(c, f) == FALSE
RestoreRaises(c, f) == c.bound \notin {NoFleet, f}

Restore(c, f, g, s, status) ==
  [c EXCEPT !.record[f] = [@ EXCEPT !.slot = s, !.named = TRUE, !.isolated = TRUE,
                                    !.admitted = TRUE, !.status = status],
            !.bound = f, !.generation = g, !.default = Forget(@, f)]

(* _observe_slot_fleets, with the ledger row if this slot's agent owns it.  *)
Reclaims(s) == ledger.fleet # NoFleet /\ ~ledger.stale /\ ledger.owner = s

RefreshRaises(c, s) == Reclaims(s) /\ RestoreRaises(c, ledger.fleet)

Refresh(c, s, seen) ==
  LET o == Observe(c, s, seen)
  IN  IF Reclaims(s) /\ ~RestoreRaises(c, ledger.fleet)
      THEN Restore(o, ledger.fleet, ledger.generation, s,
                   IF ledger.fleet \in seen THEN "active" ELSE "missing")
      ELSE o

MarkSuspect(c, s) ==
  [c EXCEPT !.record = [f \in Fleets |->
     IF @[f].slot = s /\ @[f].status = "active" THEN [@[f] EXCEPT !.status = "suspect"] ELSE @[f]]]

HasSession(c, s) == \E f \in Fleets : c.record[f].slot = s /\ c.record[f].named

RetireSlot(c, s) ==
  [c EXCEPT !.record = [f \in Fleets |-> IF @[f].slot = s THEN Unseen(@[f]) ELSE @[f]],
            !.default = [t \in Slots |-> IF t = s THEN NoFleet ELSE @[t]]]

NextGeneration(g) == g + 1

ReleaseBinding(c) ==
  LET f == c.bound
      r == c.record[f]
  IN  [c EXCEPT !.bound = NoFleet, !.generation = NextGeneration(@),
                !.record[f] = IF r.status = "unknown" THEN r
                              ELSE [r EXCEPT !.named = FALSE, !.retired = TRUE, !.status = "released"],
                !.default = IF r.status = "unknown" THEN @ ELSE Forget(@, f)]

(* bind_assignment for a request that is named or not.                      *)
Bindable(c, f, named) ==
  /\ ~c.record[f].retired
  /\ named => c.bound \in {NoFleet, f}
  /\ c.record[f].named => named

Bind(c, f, named, isolate, s, owner) ==
  LET r == c.record[f]
      isolated == r.isolated \/ isolate
  IN  [c EXCEPT !.record[f] = [status |-> "active", slot |-> owner, named |-> r.named \/ named,
                               isolated |-> isolated, retired |-> r.retired, admitted |-> TRUE],
                !.bound = IF named THEN f ELSE @,
                !.default = IF named \/ isolated THEN Forget(@, f) ELSE [@ EXCEPT ![s] = f]]

Eligible(c, f) ==
  /\ c.record[f].status = "active" /\ c.record[f].admitted
  /\ ~c.record[f].named /\ ~c.record[f].isolated

TaskFleets(c) == {f \in Fleets : c.record[f].status \in {"active", "suspect"}
                                 /\ \E w \in Workers : assigned[w].fleet = f}

Full(c) == Cardinality(TaskFleets(c)) >= Limit

(* choose_under_cap *)
Reusable(c, f) ==
  /\ f \in TaskFleets(c)
  /\ c.record[f].status = "active" /\ c.record[f].admitted
  /\ ~c.record[f].named /\ ~c.record[f].retired

-----------------------------------------------------------------------------
(* _acquire_slot: a named request goes to the slot that owns its session,   *)
(* and is refused while that slot is broken or busy.                        *)
Owner(f) == coordinator.record[f].slot
SessionSlot == IF coordinator.bound = NoFleet THEN NoSlot ELSE Owner(coordinator.bound)
Idle == {s \in Slots : slot[s] = "idle"}

Attached(s) == SessionSlot = s /\ slot[s] \in {"idle", "busy", "starting", "broken"}

ValidSource(v, named) ==
  /\ pc[v] = "done" /\ assigned[v].fleet # NoFleet /\ slot[at[v]] = "idle"
  /\ assigned[v].named => named
  /\ named /\ coordinator.bound # NoFleet
       /\ coordinator.record[coordinator.bound].status = "active" => assigned[v].fleet = coordinator.bound

Selectable(s, named, source) ==
  IF named /\ \E o \in Slots : Attached(o) THEN slot[s] = "idle" /\ Attached(s)
  ELSE IF source # NoWorker THEN s = at[source]
  ELSE slot[s] = IF Idle # {} THEN "idle" ELSE "absent"

Acquire(w) ==
  /\ pc[w] = "new"
  /\ \E k \in Kinds, v \in Workers \cup {NoWorker}, s \in Slots :
       /\ v # NoWorker => ValidSource(v, k = "named")
       /\ Selectable(s, k = "named", v)
       /\ request' = [request EXCEPT ![w] = [kind |-> k, source |-> v]]
       /\ at' = [at EXCEPT ![w] = s]
       /\ slot' = [slot EXCEPT ![s] = IF @ = "idle" THEN "busy" ELSE "starting"]
  /\ pc' = [pc EXCEPT ![w] = "acquired"]
  /\ UNCHANGED <<coordinator, assigned, ledger, fate, view, registered, lockVars, releases>>

(* _initialize_reserved_slot and _prepare_slot_for_worker: the view starts  *)
(* from the registration of the connection, and Fleet.list is asked only    *)
(* when the last answer is old; it may fail.                                *)
Registration(s) == IF slot[s] = "starting" THEN Live ELSE registered[s]
Inventories(s) == {Registration(s), Live}

Prepare(w) ==
  LET s == at[w] IN
  /\ pc[w] = "acquired"
  /\ ~RefreshRaises(coordinator, s)
  /\ \E seen \in Inventories(s) :
       /\ view' = [view EXCEPT ![s] = seen]
       /\ coordinator' = Refresh(coordinator, s, seen)
  /\ registered' = [registered EXCEPT ![s] = Registration(s)]
  /\ slot' = [slot EXCEPT ![s] = "busy"]
  /\ pc' = [pc EXCEPT ![w] = "prepared"]
  /\ UNCHANGED <<assigned, ledger, fate, at, request, lockVars, releases>>

Without(l, w) == IF l = w THEN NoWorker ELSE l

Ended(w) ==
  /\ pc' = [pc EXCEPT ![w] = "done"]
  /\ slot' = [slot EXCEPT ![at[w]] = "idle"]

(* Whatever ends a spawn releases both locks.                               *)
Unlock(w) ==
  /\ lock' = Without(lock, w)
  /\ first' = Without(first, w)
  /\ UNCHANGED committed

(* The first Fleet of a task is acquired alone, readiness included.         *)
MayDecide(w) == lock = NoWorker /\ (committed \/ first = NoWorker)

(* A spawn that got no Fleet leaves nothing behind.                         *)
Refused(w) ==
  /\ at' = [at EXCEPT ![w] = NoSlot]
  /\ request' = [request EXCEPT ![w] = NoRequest]

(* A spawn is refused, or fails without harm to its connection.             *)
Sights(w) ==
  IF pc[w] = "acquired" THEN Inventories(at[w])
  ELSE IF pc[w] = "reading" THEN {view[at[w]], Live} ELSE {view[at[w]]}

Rejected(w) ==
  LET s == at[w] IN
  /\ pc[w] \in Waiting
  /\ pc[w] = "prepared" => MayDecide(w)
  /\ pc[w] = "reading" => RefreshRaises(coordinator, s)
  /\ \E seen \in Sights(w) :
       /\ view' = [view EXCEPT ![s] = seen]
       /\ coordinator' = IF pc[w] = "creating" THEN coordinator ELSE Refresh(coordinator, s, seen)
  /\ registered' = [registered EXCEPT ![s] = Registration(s)]
  /\ Ended(w) /\ Unlock(w) /\ Refused(w)
  /\ UNCHANGED <<assigned, ledger, fate, releases>>

-----------------------------------------------------------------------------
(* _assign_fleet_for_worker_locked.  Its first act is to refresh.           *)
Named(w) == request[w].kind = "named"
Isolates(w) == request[w].kind \in {"isolated", "preferred"}
Boundary(w) == request[w].kind \in {"named", "isolated"}

Claim(w) == IF committed THEN first ELSE w

Refreshed(w) == Refresh(coordinator, at[w], view[at[w]])

Decides(w) ==
  /\ pc[w] = "prepared" /\ MayDecide(w)
  /\ ~RefreshRaises(coordinator, at[w])

Commit(w, c, f, isolate, owner) ==
  /\ Bindable(c, f, Named(w))
  /\ coordinator' = Bind(c, f, Named(w), isolate, at[w], owner)
  /\ assigned' = [assigned EXCEPT ![w] =
       [fleet |-> f, named |-> Named(w), generation |-> IF Named(w) THEN c.generation ELSE 0,
        owner |-> owner, epoch |-> releases]]
  /\ lock' = Without(lock, w)
  /\ IF slot[owner] \in Usable
     THEN pc' = [pc EXCEPT ![w] = "readying"] /\ first' = Claim(w) /\ UNCHANGED slot
     ELSE Ended(w) /\ first' = Without(first, w)
  /\ request' = [request EXCEPT ![w] = NoRequest]
  /\ UNCHANGED <<ledger, at, registered, committed, releases>>

(* A pinned, referenced or remembered Fleet the slot has seen.              *)
AssignReferenced(w) ==
  /\ Decides(w) /\ request[w].kind = "shared" /\ request[w].source = NoWorker
  /\ \E f \in view[at[w]] : Commit(w, Refreshed(w), f, FALSE, Refreshed(w).record[f].slot)
  /\ UNCHANGED <<fate, view>>

(* The task's first worker may get the Fleet of a similar earlier task.     *)
AssignSimilar(w) ==
  /\ Decides(w) /\ ~Boundary(w) /\ request[w].source = NoWorker /\ ~committed
  /\ \E f \in view[at[w]] :
       /\ ~Refreshed(w).record[f].isolated
       /\ Commit(w, Refreshed(w), f, Isolates(w), Refreshed(w).record[f].slot)
  /\ UNCHANGED <<fate, view>>

(* choose_existing *)
Available(c, f, s) == c.record[f].status = "active" /\ f \in view[s]

(* validate_routing_intent, once more *)
SourceAgrees(w, c) ==
  request[w].source # NoWorker /\ c.record[c.bound].status = "active"
    => assigned[request[w].source].fleet = c.bound

AssignSession(w) ==
  LET c == Refreshed(w) IN
  /\ Decides(w) /\ Named(w) /\ c.bound # NoFleet /\ SourceAgrees(w, c)
  /\ Available(c, c.bound, at[w])
  /\ Commit(w, c, c.bound, FALSE, c.record[c.bound].slot)
  /\ UNCHANGED <<fate, view>>

(* session_fleet_lost, which the spawner answers with                       *)
(* _handle_auth_session_lost.                                               *)
Stale(f, g) == [ledger EXCEPT !.stale = @ \/ (ledger.fleet = f /\ ledger.generation = g)]

SessionLost(w) ==
  LET c == Refreshed(w) IN
  /\ Decides(w) /\ Named(w) /\ c.bound # NoFleet /\ SourceAgrees(w, c)
  /\ releases < MaxReleases
  /\ ~Available(c, c.bound, at[w])
  /\ coordinator' = ReleaseBinding(c)
  /\ ledger' = Stale(c.bound, c.generation)
  /\ releases' = releases + 1
  /\ Ended(w) /\ Unlock(w) /\ Refused(w)
  /\ UNCHANGED <<assigned, fate, view, registered>>

AssignSource(w) ==
  LET c == Refreshed(w)
      f == assigned[request[w].source].fleet
  IN
  /\ Decides(w) /\ request[w].source # NoWorker
  /\ Named(w) => c.bound = NoFleet
  /\ Available(c, f, at[w])
  /\ Isolates(w) => c.record[f].isolated
  /\ Commit(w, c, f, FALSE, c.record[f].slot)
  /\ UNCHANGED <<fate, view>>

AssignShared(w) ==
  LET c == Refreshed(w)
      able == {f \in view[at[w]] : Eligible(c, f)}
      default == c.default[at[w]]
  IN
  /\ Decides(w) /\ request[w].kind = "shared" /\ request[w].source = NoWorker
  /\ \E f \in (IF default \in able THEN {default} ELSE able) : Commit(w, c, f, FALSE, c.record[f].slot)
  /\ UNCHANGED <<fate, view>>

Unserved(w, c) ==
  /\ request[w].source = NoWorker
  /\ Named(w) => c.bound = NoFleet
  /\ request[w].kind = "shared" => \A f \in view[at[w]] : ~Eligible(c, f)

(* _assign_within_task_fleet_cap *)
Lends(w, c, seen, f) == ~Boundary(w) /\ f \in seen /\ Reusable(c, f)

CapReuse(w) ==
  LET c == Refreshed(w) IN
  /\ Decides(w) /\ Unserved(w, c) /\ Full(c)
  /\ \E f \in Fleets : Lends(w, c, view[at[w]], f) /\ Commit(w, c, f, FALSE, c.record[f].slot)
  /\ UNCHANGED <<fate, view>>

(* The decision waits for an answer and keeps the guard: either an          *)
(* inventory, before it refuses, or a new Fleet.                            *)
Awaits(w, c, where) ==
  /\ coordinator' = c
  /\ lock' = w /\ first' = Claim(w)
  /\ pc' = [pc EXCEPT ![w] = where]
  /\ UNCHANGED <<assigned, ledger, fate, slot, registered, at, request, committed, releases>>

AsksInventory(w) ==
  LET c == Refreshed(w) IN
  /\ Decides(w) /\ Unserved(w, c) /\ Full(c)
  /\ \A f \in Fleets : ~Lends(w, c, view[at[w]], f)
  /\ Awaits(w, c, "reading")
  /\ UNCHANGED view

AsksFleet(w) ==
  LET c == Refreshed(w) IN
  /\ Decides(w) /\ Unserved(w, c) /\ ~Full(c)
  /\ Awaits(w, c, "creating")
  /\ UNCHANGED view

(* The inventory answers, or does not, and the cap is looked at again: it   *)
(* has room now, or one of the task's Fleets serves, or the spawn is over.  *)
Reread(w, seen, answered) ==
  LET o == Refresh(coordinator, at[w], seen) IN IF answered THEN Reconcile(o, seen) ELSE o

Rereads(w) == pc[w] = "reading" /\ ~RefreshRaises(coordinator, at[w])

Answer(w, answered) == IF answered THEN Live ELSE view[at[w]]

CapReleased(w) ==
  /\ Rereads(w)
  /\ \E answered \in BOOLEAN :
       LET seen == Answer(w, answered)
           c == Reread(w, seen, answered)
       IN  ~Full(c) /\ Awaits(w, c, "creating") /\ view' = [view EXCEPT ![at[w]] = seen]

CapReread(w) ==
  /\ Rereads(w)
  /\ \E answered \in BOOLEAN, f \in Fleets :
       LET seen == Answer(w, answered)
           c == Reread(w, seen, answered)
       IN  /\ Full(c) /\ Lends(w, c, seen, f)
           /\ view' = [view EXCEPT ![at[w]] = seen]
           /\ Commit(w, c, f, FALSE, c.record[f].slot)
  /\ UNCHANGED fate

CapBlocked(w) ==
  /\ Rereads(w)
  /\ \E answered \in BOOLEAN :
       LET seen == Answer(w, answered)
           c == Reread(w, seen, answered)
       IN  /\ Full(c) /\ \A f \in Fleets : ~Lends(w, c, seen, f)
           /\ view' = [view EXCEPT ![at[w]] = seen] /\ coordinator' = c
  /\ Ended(w) /\ Unlock(w) /\ Refused(w)
  /\ UNCHANGED <<assigned, ledger, fate, registered, releases>>

(* Fleet.create answers.                                                    *)
Create(w) ==
  /\ pc[w] = "creating"
  /\ \E f \in Fleets :
       /\ fate[f] = "unborn"
       /\ fate' = [fate EXCEPT ![f] = "live"]
       /\ view' = [view EXCEPT ![at[w]] = @ \cup {f}]
       /\ \/ \E isolate \in (IF Named(w) THEN BOOLEAN ELSE {Isolates(w)}) :
               Commit(w, coordinator, f, isolate, at[w])
          \/ /\ ~Bindable(coordinator, f, Named(w))
             /\ Ended(w) /\ Unlock(w) /\ Refused(w)
             /\ UNCHANGED <<coordinator, assigned, ledger, registered, releases>>

-----------------------------------------------------------------------------
(* The Fleet is ready, or not: the assignment stays either way.             *)
Ready(w) ==
  /\ pc[w] = "readying"
  /\ pc' = [pc EXCEPT ![w] = "running"]
  /\ first' = Without(first, w)
  /\ committed' = TRUE
  /\ UNCHANGED <<coordinator, assigned, ledger, fate, slotVars, at, request, lock, releases>>

NotReady(w) ==
  /\ pc[w] = "readying"
  /\ Ended(w) /\ Unlock(w)
  /\ UNCHANGED <<coordinator, assigned, ledger, fate, view, registered, at, request, releases>>

(* Workers run.  _record_verified_auth_session: the row is written first.   *)
Verified(w) ==
  LET a == assigned[w] IN
  /\ pc[w] = "running" /\ a.named /\ fate[a.fleet] = "live"
  /\ ledger' = [fleet |-> a.fleet, generation |-> a.generation, owner |-> a.owner, stale |-> FALSE]
  /\ coordinator' = IF RestoreRaises(coordinator, a.fleet) THEN coordinator
                    ELSE Restore(coordinator, a.fleet, a.generation, a.owner, "active")
  /\ UNCHANGED <<assigned, fate, slotVars, spawnVars, lockVars, releases>>

(* _handle_auth_session_lost after Page.create was told that the Fleet is   *)
(* gone: both halves compare before they write.                             *)
Current(f, g) == coordinator.bound = f /\ coordinator.generation = g

LossSeen(w) ==
  LET a == assigned[w] IN
  /\ pc[w] = "running" /\ a.named /\ fate[a.fleet] = "dead" /\ releases < MaxReleases
  /\ ledger' = Stale(a.fleet, a.generation)
  /\ IF Current(a.fleet, a.generation)
     THEN /\ coordinator' = ReleaseBinding(coordinator)
          /\ releases' = releases + 1
     ELSE UNCHANGED <<coordinator, releases>>
  /\ UNCHANGED <<assigned, fate, slotVars, spawnVars, lockVars>>

(* What a worker leaves in its slot's view.                                 *)
Traces(w) == {view[at[w]], view[at[w]] \cup {assigned[w].fleet}}

Finish(w) ==
  /\ pc[w] = "running"
  /\ \E seen \in Traces(w) :
       /\ view' = [view EXCEPT ![at[w]] = seen]
       /\ coordinator' = Refresh(coordinator, at[w], seen)
  /\ Ended(w)
  /\ UNCHANGED <<assigned, ledger, fate, registered, at, request, lockVars, releases>>

(* The connection fails, or the spawn is cancelled with a call in flight.   *)
(* A worker's failure is recorded in its slot after the quarantine.         *)
Breaks(w) ==
  LET s == at[w]
      c == MarkSuspect(coordinator, s)
  IN
  /\ \/ /\ pc[w] \in Waiting
        /\ coordinator' = c /\ UNCHANGED view /\ Refused(w)
     \/ /\ pc[w] = "readying"
        /\ coordinator' = c /\ UNCHANGED <<view, at, request>>
     \/ /\ pc[w] = "running" /\ UNCHANGED <<at, request>>
        /\ \E seen \in Traces(w) : /\ view' = [view EXCEPT ![s] = seen]
                                   /\ coordinator' = Refresh(c, s, seen)
  /\ slot' = [slot EXCEPT ![s] = "broken"]
  /\ pc' = [pc EXCEPT ![w] = "done"]
  /\ Unlock(w)
  /\ UNCHANGED <<assigned, ledger, fate, registered, releases>>

(* refresh_browser_connection finds an idle connection dead.                *)
IdleBreaks(s) ==
  /\ slot[s] = "idle"
  /\ slot' = [slot EXCEPT ![s] = "broken"]
  /\ coordinator' = MarkSuspect(coordinator, s)
  /\ UNCHANGED <<assigned, ledger, fate, view, registered, spawnVars, lockVars, releases>>

(* _recover_broken_slot *)
Recover(s) ==
  /\ slot[s] = "broken" /\ HasSession(coordinator, s)
  /\ view' = [view EXCEPT ![s] = Live]
  /\ registered' = [registered EXCEPT ![s] = Live]
  /\ coordinator' = Refresh(coordinator, s, Live)
  /\ slot' = [slot EXCEPT ![s] = IF RefreshRaises(coordinator, s) THEN @ ELSE "idle"]
  /\ UNCHANGED <<assigned, ledger, fate, spawnVars, lockVars, releases>>

(* _cleanup_retired_slots *)
Retire(s) ==
  /\ slot[s] = "broken" /\ ~HasSession(coordinator, s)
  /\ slot' = [slot EXCEPT ![s] = "gone"]
  /\ coordinator' = RetireSlot(coordinator, s)
  /\ UNCHANGED <<assigned, ledger, fate, view, registered, spawnVars, lockVars, releases>>

(* reset_auth_session, by an operator.                                      *)
OperatorReset ==
  LET f == coordinator.bound IN
  /\ f # NoFleet /\ releases < MaxReleases
  /\ slot[Owner(f)] # "busy"
  /\ \A w \in Workers : pc[w] \in {"readying", "running"} => assigned[w].fleet # f
  /\ ledger.fleet # NoFleet => ledger.fleet = f /\ ledger.generation = coordinator.generation
  /\ coordinator' = ReleaseBinding(coordinator)
  /\ ledger' = Stale(f, coordinator.generation)
  /\ releases' = releases + 1
  /\ UNCHANGED <<assigned, fate, slotVars, spawnVars, lockVars>>

(* The platform: other tasks create Fleets too, and any Fleet may go.       *)
Appears(f) ==
  /\ fate[f] = "unborn"
  /\ fate' = [fate EXCEPT ![f] = "live"]
  /\ UNCHANGED <<coordinator, assigned, ledger, slotVars, spawnVars, lockVars, releases>>

Disappears(f) ==
  /\ fate[f] = "live"
  /\ fate' = [fate EXCEPT ![f] = "dead"]
  /\ UNCHANGED <<coordinator, assigned, ledger, slotVars, spawnVars, lockVars, releases>>

Next ==
  \/ \E w \in Workers :
       \/ Acquire(w) \/ Prepare(w) \/ Rejected(w)
       \/ AssignReferenced(w) \/ AssignSimilar(w) \/ AssignSession(w) \/ SessionLost(w) \/ AssignSource(w)
       \/ AssignShared(w) \/ CapReuse(w) \/ AsksInventory(w) \/ AsksFleet(w)
       \/ CapReleased(w) \/ CapReread(w) \/ CapBlocked(w) \/ Create(w) \/ Ready(w) \/ NotReady(w)
       \/ Verified(w) \/ LossSeen(w) \/ Finish(w) \/ Breaks(w)
  \/ \E s \in Slots : IdleBreaks(s) \/ Recover(s) \/ Retire(s)
  \/ OperatorReset
  \/ \E f \in Fleets : Appears(f) \/ Disappears(f)

Spec == Init /\ [][Next]_vars

-----------------------------------------------------------------------------
(* Two forms of the binding agree: _session_bindings names a Fleet exactly  *)
(* when that Fleet's record carries the session key.                        *)
(* restore_auth_binding, bind_assignment and release_session_binding each   *)
(* write both, and observe, reconcile and retire keep named records.        *)
BindingAgrees ==
  \A f \in Fleets : coordinator.record[f].named <=> coordinator.bound = f

(* A slot's default Fleet (_slot_defaults) may be handed to any unnamed     *)
(* worker, so it is never a Fleet that holds a login, was isolated, or was  *)
(* retired after a login in it was lost.                                    *)
DefaultsLendable ==
  \A s \in Slots :
    LET f == coordinator.default[s] IN
    f # NoFleet => /\ ~coordinator.record[f].named
                   /\ ~coordinator.record[f].isolated
                   /\ ~coordinator.record[f].retired

(* Two workers sent to one named session get the same cookie jar, unless    *)
(* the session was released between the two (bind_assignment, line 1050).   *)
OneJarPerEpoch ==
  \A v, w \in Workers :
    assigned[v].named /\ assigned[w].named /\ assigned[v].epoch = assigned[w].epoch
      => assigned[v].fleet = assigned[w].fleet

(* A Fleet that this task never gave to a worker is not picked for one by   *)
(* choose_existing: being seen in an owner's inventory is not enough        *)
(* (choose_existing, line 763), whatever was observed, missing, restored or *)
(* retired since.                                                           *)
ForeignUntouched ==
  \A f \in Fleets : Eligible(coordinator, f) => \E w \in Workers : assigned[w].fleet = f

(* What a worker may be lent without naming it: never a Fleet that holds a  *)
(* login, and never one of another task.                                    *)
OnlyLendable == DefaultsLendable /\ ForeignUntouched

(* The owner of an admitted Fleet does not move to whichever connection saw *)
(* it last (observe_slot, line 295); only a verified login names another owner.  *)
OwnershipStable ==
  [][\A f \in Fleets : coordinator.record[f].admitted /\ coordinator'.record[f].admitted
       => coordinator'.record[f].slot \in {coordinator.record[f].slot, ledger'.owner}]_vars
=============================================================================
