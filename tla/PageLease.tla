------------------------------ MODULE PageLease ------------------------------
(***************************************************************************)
(* PageLeaseManager of harness/fleet/runtime.py: persistent page ownership *)
(* and the per-Fleet interaction lease every browser call runs under.      *)
(*                                                                         *)
(* The manager is shared by asyncio tasks on one event loop, so a stretch  *)
(* of code between two awaits is one action.  The only await in it is      *)
(* _wait_for_change; a task that waits there is in waiting, and in parked  *)
(* until its Event is set.                                                 *)
(***************************************************************************)
EXTENDS Integers, FiniteSets

CONSTANTS
  Tasks, Workers, Pages, Fleets,
  WorkerOf,      \* the worker whose client a task calls through
  HomeFleet,     \* the Fleet the browser really keeps a page in
  SeedPages,     \* pages open when the run starts; the others may be created
  StrayPages,    \* pages a Page.create payload may name (extra parameters pass)
  NestKinds,     \* calls whose settlement handler calls back into the client
  BusyRelease,   \* may a worker be released while its calls are in flight?
  NoTask, NoWorker, NoFleet

ASSUME WorkerOfAssumption == WorkerOf \in [Tasks -> Workers]
ASSUME HomeFleetAssumption == HomeFleet \in [Pages -> Fleets]
ASSUME PageSetsAssumption == SeedPages \subseteq Pages /\ StrayPages \subseteq Pages
ASSUME NestAssumption == NestKinds \subseteq {"page", "workflow"} /\ BusyRelease \in BOOLEAN
ASSUME AbsentAssumption == NoTask \notin Tasks /\ NoWorker \notin Workers /\ NoFleet \notin Fleets

VARIABLES
  pageOwner,        \* _page_owners
  workerPages,      \* _worker_pages, the reverse index
  pageFleet,        \* _page_fleets
  quarantined,      \* _quarantined_pages
  activeCalls,      \* _fleet_active_calls: calls in progress per Fleet and task
  workflowOwner,    \* _fleet_workflow_owner
  creationOwner,    \* _fleet_creation_owner
  workflowWaiters,  \* _fleet_workflow_waiters
  joined,           \* waiting Workflows whose local `waiters` is the registered dict
  waiting,          \* the call a task has not entered yet
  parked,           \* tasks inside changed.wait() whose Event is not set
  outer, inner,     \* the calls a task is inside; inner is the settlement callback's
  open, closed      \* the browser's pages: open, and closed for good

leaseVars == <<pageOwner, workerPages, pageFleet, quarantined>>
fleetVars == <<activeCalls, workflowOwner, creationOwner, workflowWaiters, joined>>
taskVars == <<waiting, parked, outer, inner>>
vars == <<leaseVars, fleetVars, taskVars, open, closed>>

Kinds == {"page", "create", "workflow"}

(* live: ghost, FALSE once release_worker revoked the call under way.       *)
Call == [kind : Kinds, fleet : Fleets, pages : SUBSET Pages, live : BOOLEAN]
NoCall == [kind |-> "none", fleet |-> NoFleet, pages |-> {}, live |-> FALSE]
MaybeCall == Call \cup {NoCall}
NewCall(k, f, P) == [kind |-> k, fleet |-> f, pages |-> P, live |-> TRUE]

LeaseTypes ==
  /\ pageOwner \in [Pages -> Workers \cup {NoWorker}]
  /\ workerPages \in [Workers -> SUBSET Pages]
  /\ pageFleet \in [Pages -> Fleets \cup {NoFleet}]
  /\ quarantined \in SUBSET Pages
  /\ open \in SUBSET Pages
  /\ closed \in SUBSET Pages

FleetTypes ==
  /\ activeCalls \in [Fleets -> [Tasks -> Nat]]
  /\ workflowOwner \in [Fleets -> Tasks \cup {NoTask}]
  /\ creationOwner \in [Fleets -> Tasks \cup {NoTask}]
  /\ workflowWaiters \in [Fleets -> SUBSET Tasks]

TaskTypes ==
  /\ joined \in SUBSET Tasks
  /\ parked \in SUBSET Tasks
  /\ waiting \in [Tasks -> MaybeCall]
  /\ outer \in [Tasks -> MaybeCall]
  /\ inner \in [Tasks -> MaybeCall]

TypeOK == LeaseTypes /\ FleetTypes /\ TaskTypes

Init ==
  /\ pageOwner = [p \in Pages |-> NoWorker]
  /\ workerPages = [w \in Workers |-> {}]
  /\ pageFleet = [p \in Pages |-> NoFleet]
  /\ quarantined = {}
  /\ activeCalls = [f \in Fleets |-> [t \in Tasks |-> 0]]
  /\ workflowOwner = [f \in Fleets |-> NoTask]
  /\ creationOwner = [f \in Fleets |-> NoTask]
  /\ workflowWaiters = [f \in Fleets |-> {}]
  /\ joined = {}
  /\ waiting = [t \in Tasks |-> NoCall]
  /\ parked = {}
  /\ outer = [t \in Tasks |-> NoCall]
  /\ inner = [t \in Tasks |-> NoCall]
  /\ open = SeedPages
  /\ closed = {}

-----------------------------------------------------------------------------
(* Operators with an underscore in their names are faulty variants of the   *)
(* one that follows; no action uses them.                                   *)

(* _signal: set the Fleet's Event; every task parked on it will re-check.   *)
Signal_Never(F) == UNCHANGED parked
Signal(F) == parked' = {t \in parked : waiting[t].fleet \notin F}

(* _validate_and_claim_pages: all pages pass, or none is claimed.           *)
CanClaim_AnyOwner(w, f, P) ==
  \A p \in P : p \notin quarantined /\ pageFleet[p] \in {NoFleet, f}

CanClaim(w, f, P) ==
  \A p \in P : /\ p \notin quarantined
               /\ pageFleet[p] \in {NoFleet, f}
               /\ pageOwner[p] \in {NoWorker, w}

Claim(w, f, P) ==
  LET fresh == {p \in P : pageOwner[p] = NoWorker}
  IN  /\ pageOwner' = [p \in Pages |-> IF p \in fresh THEN w ELSE pageOwner[p]]
      /\ workerPages' = [workerPages EXCEPT ![w] = @ \cup fresh]
      /\ pageFleet' = [p \in Pages |->
                         IF p \in P /\ pageFleet[p] = NoFleet THEN f ELSE pageFleet[p]]
      /\ UNCHANGED quarantined

(* An emptied dict is dropped from _fleet_workflow_waiters; the tasks that  *)
(* still hold it in their local variable no longer share the registered one.*)
KeepJoined(J) ==
  joined' = {t \in J : waiting'[t] # NoCall /\ workflowWaiters'[waiting'[t].fleet] # {}}

Idle(w) == \A t \in Tasks : WorkerOf[t] = w => waiting[t] = NoCall /\ outer[t] = NoCall

(* A task starts a call when it has none, or from the settlement handler of *)
(* the call it is inside.                                                   *)
MayCall(t, k, f) ==
  /\ waiting[t] = NoCall
  /\ \/ outer[t] = NoCall
     \/ /\ inner[t] = NoCall
        /\ k = "page"
        /\ outer[t].kind \in NestKinds
        /\ outer[t].fleet = f

Push(t, c) ==
  IF outer[t] = NoCall
  THEN outer' = [outer EXCEPT ![t] = c] /\ UNCHANGED inner
  ELSE inner' = [inner EXCEPT ![t] = c] /\ UNCHANGED outer

-----------------------------------------------------------------------------
(* interaction(workflow=True): pages are claimed and the waiter registered  *)
(* before the first check; a Workflow enters an otherwise empty Fleet.      *)
WorkflowAdmissible(f) ==
  workflowOwner[f] = NoTask /\ \A t \in Tasks : activeCalls[f][t] = 0

(* PageLeasedBrowserClient.call: every page but the top one is known.       *)
WorkflowPages(f, P) ==
  \E top \in P \cap (open \cup closed) : \A p \in P \ {top} : pageFleet[p] = f

ArriveWorkflow(t, f, P) ==
  LET c == NewCall("workflow", f, P)
  IN  /\ MayCall(t, "workflow", f)
      /\ WorkflowPages(f, P)
      /\ CanClaim(WorkerOf[t], f, P)
      /\ Claim(WorkerOf[t], f, P)
      /\ \/ /\ WorkflowAdmissible(f)
            /\ workflowOwner' = [workflowOwner EXCEPT ![f] = t]
            /\ Push(t, c)
            /\ Signal({f})
            /\ UNCHANGED <<waiting, workflowWaiters, joined>>
         \/ /\ ~WorkflowAdmissible(f)
            /\ waiting' = [waiting EXCEPT ![t] = c]
            /\ workflowWaiters' = [workflowWaiters EXCEPT ![f] = @ \cup {t}]
            /\ KeepJoined(joined \cup {t})
            /\ parked' = parked \cup {t}
            /\ UNCHANGED <<workflowOwner, outer, inner>>
      /\ UNCHANGED <<activeCalls, creationOwner, open, closed>>

(* The woken Workflow re-checks.  On entry it removes itself from its local *)
(* dict and, finding that one empty, drops whatever dict is registered.     *)
RetryWorkflow(t) ==
  LET c == waiting[t]
      f == c.fleet
  IN  /\ c.kind = "workflow" /\ t \notin parked
      /\ \/ /\ WorkflowAdmissible(f)
            /\ workflowOwner' = [workflowOwner EXCEPT ![f] = t]
            /\ waiting' = [waiting EXCEPT ![t] = NoCall]
            /\ workflowWaiters' = [workflowWaiters EXCEPT
                                     ![f] = IF t \in joined THEN @ \ {t} ELSE {}]
            /\ KeepJoined(joined \ {t})
            /\ Push(t, c)
            /\ Signal({f})
         \/ /\ ~WorkflowAdmissible(f)
            /\ parked' = parked \cup {t}
            /\ UNCHANGED <<workflowOwner, waiting, workflowWaiters, joined, outer, inner>>
      /\ UNCHANGED <<leaseVars, activeCalls, creationOwner, open, closed>>

-----------------------------------------------------------------------------
(* interaction(workflow=False): page calls, and fleet_scoped Page.create.   *)
PageAdmissible_NoCreation(t, f) ==
  workflowOwner[f] = t \/ (workflowOwner[f] = NoTask /\ workflowWaiters[f] = {})

PageAdmissible_NoPriority(t, f) ==
  creationOwner[f] \in {NoTask, t} /\ workflowOwner[f] \in {NoTask, t}

PageAdmissible(t, f) ==
  /\ creationOwner[f] \in {NoTask, t}
  /\ \/ workflowOwner[f] = t
     \/ workflowOwner[f] = NoTask /\ workflowWaiters[f] = {}

(* The creation owner is set before the claim that may raise.               *)
TakeCreation(t, c) ==
  creationOwner' = IF c.kind = "create" /\ creationOwner[c.fleet] = NoTask
                   THEN [creationOwner EXCEPT ![c.fleet] = t]
                   ELSE creationOwner

EnterPage(t, c) ==
  /\ PageAdmissible(t, c.fleet)
  /\ CanClaim(WorkerOf[t], c.fleet, c.pages)
  /\ TakeCreation(t, c)
  /\ Claim(WorkerOf[t], c.fleet, c.pages)
  /\ activeCalls' = [activeCalls EXCEPT ![c.fleet][t] = @ + 1]
  /\ Push(t, c)
  /\ waiting' = [waiting EXCEPT ![t] = NoCall]
  /\ UNCHANGED <<workflowOwner, workflowWaiters, joined, parked, open, closed>>

(* PageLeaseConflict escapes interaction before its try block.              *)
ConflictPage(t, c) ==
  /\ PageAdmissible(t, c.fleet)
  /\ ~CanClaim(WorkerOf[t], c.fleet, c.pages)
  /\ TakeCreation(t, c)
  /\ waiting' = [waiting EXCEPT ![t] = NoCall]
  /\ UNCHANGED <<leaseVars, activeCalls, workflowOwner, workflowWaiters, joined,
                 parked, outer, inner, open, closed>>

ParkPage(t, c) ==
  /\ ~PageAdmissible(t, c.fleet)
  /\ waiting' = [waiting EXCEPT ![t] = c]
  /\ parked' = parked \cup {t}
  /\ UNCHANGED <<leaseVars, fleetVars, outer, inner, open, closed>>

CheckPage(t, c) == EnterPage(t, c) \/ ConflictPage(t, c) \/ ParkPage(t, c)

ArrivePage(t, f, p) == MayCall(t, "page", f) /\ CheckPage(t, NewCall("page", f, {p}))

ArriveCreate(t, f, P) ==
  MayCall(t, "create", f) /\ P \subseteq open /\ CheckPage(t, NewCall("create", f, P))

RetryPage(t) ==
  /\ waiting[t].kind \in {"page", "create"} /\ t \notin parked
  /\ CheckPage(t, waiting[t])

-----------------------------------------------------------------------------
(* The wait of a call may end at its deadline, or by cancellation.          *)
(* FleetInteractionTimeout or CancelledError unwinds a call that waits.     *)
GiveUp(t) ==
  LET f == waiting[t].fleet
  IN  /\ waiting[t] # NoCall
      /\ waiting' = [waiting EXCEPT ![t] = NoCall]
      /\ IF waiting[t].kind = "workflow"
         THEN /\ workflowWaiters' = [workflowWaiters EXCEPT ![f] = @ \ {t}]
              /\ KeepJoined(joined \ {t})
              /\ parked' = {u \in parked : u # t /\ waiting[u].fleet # f}
         ELSE parked' = parked \ {t} /\ UNCHANGED <<workflowWaiters, joined>>
      /\ UNCHANGED <<leaseVars, activeCalls, workflowOwner, creationOwner,
                     outer, inner, open, closed>>

(* The call under the interaction returned, failed or was cancelled: the    *)
(* finally block of the innermost interaction runs.                         *)
Current(t) == IF inner[t] # NoCall THEN inner[t] ELSE outer[t]

Pop(t) ==
  IF inner[t] # NoCall
  THEN inner' = [inner EXCEPT ![t] = NoCall] /\ UNCHANGED outer
  ELSE outer' = [outer EXCEPT ![t] = NoCall] /\ UNCHANGED inner

ExitWorkflow(t) ==
  LET f == Current(t).fleet
  IN  /\ waiting[t] = NoCall
      /\ Current(t).kind = "workflow"
      /\ Pop(t)
      /\ IF workflowOwner[f] = t
         THEN workflowOwner' = [workflowOwner EXCEPT ![f] = NoTask] /\ Signal({f})
         ELSE UNCHANGED <<workflowOwner, parked>>
      /\ UNCHANGED <<leaseVars, activeCalls, creationOwner, workflowWaiters, joined,
                     waiting, open, closed>>

CountDown(t, f) ==
  activeCalls' = IF activeCalls[f][t] > 0
                 THEN [activeCalls EXCEPT ![f][t] = @ - 1]
                 ELSE activeCalls

ReturnCreation_Never(t, c) == UNCHANGED creationOwner

ReturnCreation(t, c) ==
  creationOwner' = IF c.kind = "create" /\ creationOwner[c.fleet] = t
                   THEN [creationOwner EXCEPT ![c.fleet] = NoTask]
                   ELSE creationOwner

LeavePage(t) ==
  LET c == Current(t)
  IN  /\ waiting[t] = NoCall
      /\ c.kind \in {"page", "create"}
      /\ Pop(t)
      /\ CountDown(t, c.fleet)
      /\ ReturnCreation(t, c)
      /\ UNCHANGED <<workflowOwner, workflowWaiters, joined, waiting>>

ExitPage(t) ==
  LeavePage(t) /\ Signal({Current(t).fleet}) /\ UNCHANGED <<leaseVars, open, closed>>

(* Page.create succeeded: claim_created_pages before the lease is returned. *)
ExitCreated(t, p) ==
  LET w == WorkerOf[t]
  IN  /\ Current(t).kind = "create"
      /\ p \notin open \cup closed \cup quarantined
      /\ HomeFleet[p] = Current(t).fleet
      /\ LeavePage(t)
      /\ Signal({Current(t).fleet})
      /\ open' = open \cup {p}
      /\ pageFleet' = [pageFleet EXCEPT ![p] = Current(t).fleet]
      /\ pageOwner' = [pageOwner EXCEPT ![p] = w]
      /\ workerPages' = [workerPages EXCEPT ![w] = @ \cup {p}]
      /\ UNCHANGED <<quarantined, closed>>

(* Page.close succeeded: forget_page right after the lease is returned,     *)
(* unless another worker has come to own the page.                          *)
ExitClosed(t, p) ==
  LET w == WorkerOf[t]
      forget == pageOwner[p] \in {NoWorker, w}
  IN  /\ Current(t).kind = "page"
      /\ p \in Current(t).pages \cap open
      /\ LeavePage(t)
      /\ open' = open \ {p}
      /\ closed' = closed \cup {p}
      /\ Signal({Current(t).fleet} \cup IF forget THEN {pageFleet[p]} ELSE {})
      /\ IF forget
         THEN /\ pageFleet' = [pageFleet EXCEPT ![p] = NoFleet]
              /\ quarantined' = quarantined \ {p}
              /\ pageOwner' = [pageOwner EXCEPT ![p] = NoWorker]
              /\ workerPages' = [workerPages EXCEPT ![w] = @ \ {p}]
         ELSE UNCHANGED leaseVars

-----------------------------------------------------------------------------
(* release_worker: drop everything the worker holds, signal what changed.   *)
Dead(c) == [kind |-> c.kind, fleet |-> c.fleet, pages |-> c.pages, live |-> FALSE]
Revoke(w, calls) == [t \in Tasks |-> IF WorkerOf[t] = w THEN Dead(calls[t]) ELSE calls[t]]

ReleaseWorker(w) ==
  LET mine == {t \in Tasks : WorkerOf[t] = w}
      changed == {f \in Fleets : \/ workflowOwner[f] \in mine
                                 \/ creationOwner[f] \in mine
                                 \/ \E t \in mine : activeCalls[f][t] > 0
                                 \/ workflowWaiters[f] \cap mine # {}}
  IN  /\ BusyRelease \/ Idle(w)
      /\ pageOwner' = [p \in Pages |-> IF p \in workerPages[w] /\ pageOwner[p] = w
                                       THEN NoWorker ELSE pageOwner[p]]
      /\ workerPages' = [workerPages EXCEPT ![w] = {}]
      /\ workflowOwner' = [f \in Fleets |-> IF workflowOwner[f] \in mine
                                            THEN NoTask ELSE workflowOwner[f]]
      /\ creationOwner' = [f \in Fleets |-> IF creationOwner[f] \in mine
                                            THEN NoTask ELSE creationOwner[f]]
      /\ activeCalls' = [f \in Fleets |-> [t \in Tasks |->
                            IF t \in mine THEN 0 ELSE activeCalls[f][t]]]
      /\ workflowWaiters' = [f \in Fleets |-> workflowWaiters[f] \ mine]
      /\ outer' = Revoke(w, outer)
      /\ inner' = Revoke(w, inner)
      /\ Signal(changed)
      /\ UNCHANGED waiting
      /\ KeepJoined(joined)
      /\ UNCHANGED <<pageFleet, quarantined, open, closed>>

(* seed_worker_pages, before a worker starts: all pages pass, or it raises. *)
SeedWorkerPages(w, P) ==
  /\ Idle(w)
  /\ P \subseteq open
  /\ \A p \in P : p \notin quarantined /\ pageOwner[p] \in {NoWorker, w}
  /\ pageOwner' = [p \in Pages |-> IF p \in P THEN w ELSE pageOwner[p]]
  /\ workerPages' = [workerPages EXCEPT ![w] = @ \cup P]
  /\ pageFleet' = [p \in Pages |-> IF p \in P THEN HomeFleet[p] ELSE pageFleet[p]]
  /\ UNCHANGED <<quarantined, fleetVars, taskVars, open, closed>>

(* release_page has no caller; it could only be meant for an idle worker.   *)
ReleasePage(w, p) ==
  /\ Idle(w) /\ pageOwner[p] = w
  /\ pageOwner' = [pageOwner EXCEPT ![p] = NoWorker]
  /\ workerPages' = [workerPages EXCEPT ![w] = @ \ {p}]
  /\ Signal({pageFleet[p]})
  /\ UNCHANGED <<pageFleet, quarantined, fleetVars, waiting, outer, inner, open, closed>>

(* observe_inventory: a Page.list row says which Fleet a page is in.        *)
ObserveInventory(p) ==
  /\ p \in open
  /\ pageFleet' = [pageFleet EXCEPT ![p] = HomeFleet[p]]
  /\ UNCHANGED <<pageOwner, workerPages, quarantined, fleetVars, taskVars, open, closed>>

(* quarantine_page and clear_page_quarantine.                               *)
QuarantinePage(p) ==
  /\ p \in open
  /\ quarantined' = quarantined \cup {p}
  /\ UNCHANGED <<pageOwner, workerPages, pageFleet, fleetVars, taskVars, open, closed>>

ClearPageQuarantine(p) ==
  /\ p \in quarantined
  /\ quarantined' = quarantined \ {p}
  /\ UNCHANGED <<pageOwner, workerPages, pageFleet, fleetVars, taskVars, open, closed>>

-----------------------------------------------------------------------------
Next ==
  \/ \E t \in Tasks, f \in Fleets, P \in SUBSET Pages : ArriveWorkflow(t, f, P)
  \/ \E t \in Tasks, f \in Fleets, p \in open \cup closed : ArrivePage(t, f, p)
  \/ \E t \in Tasks, f \in Fleets, P \in {{}} \cup {{p} : p \in StrayPages} :
        ArriveCreate(t, f, P)
  \/ \E t \in Tasks : \/ RetryWorkflow(t) \/ RetryPage(t) \/ GiveUp(t)
                      \/ ExitWorkflow(t) \/ ExitPage(t)
  \/ \E t \in Tasks, p \in Pages : ExitCreated(t, p) \/ ExitClosed(t, p)
  \/ \E w \in Workers : ReleaseWorker(w)
  \/ \E w \in Workers, P \in SUBSET Pages : SeedWorkerPages(w, P)
  \/ \E w \in Workers, p \in Pages : ReleasePage(w, p)
  \/ \E p \in Pages : ObserveInventory(p) \/ QuarantinePage(p) \/ ClearPageQuarantine(p)

Spec == Init /\ [][Next]_vars

(* The event loop runs every ready task, and every RPC under an interaction *)
(* is bounded by its own timeout.                                           *)
Progress == \A t \in Tasks : /\ WF_vars(RetryWorkflow(t)) /\ WF_vars(RetryPage(t))
                             /\ WF_vars(ExitWorkflow(t)) /\ WF_vars(ExitPage(t))

FairSpec == Spec /\ Progress

-----------------------------------------------------------------------------
LiveCalls(t, f) == {c \in {outer[t], inner[t]} : c.live /\ c.fleet = f}
AtRest == \A t \in Tasks : waiting[t] = NoCall /\ outer[t] = NoCall

(* _page_owners and _worker_pages are one relation kept in two dicts: a page*)
(* missing from the index would outlive its worker's release_worker.        *)
IndexesAgree ==
  \A p \in Pages, w \in Workers : pageOwner[p] = w <=> p \in workerPages[w]

(* Class docstring: two workers never alternate on one page.  No two calls  *)
(* of different workers are inside interactions on one open page.           *)
PageExclusive ==
  \A t, u \in Tasks, f, g \in Fleets :
    \A c \in LiveCalls(t, f), d \in LiveCalls(u, g) :
      c.pages \cap d.pages \cap open # {} => WorkerOf[t] = WorkerOf[u]

(* While a Workflow.execute runs, every other call inside its Fleet is its  *)
(* own settlement callback, however the bookkeeping was reached.            *)
WorkflowExclusive ==
  \A t, u \in Tasks, f \in Fleets :
    (\E c \in LiveCalls(t, f) : c.kind = "workflow") /\ LiveCalls(u, f) # {} => t = u

(* Who is inside: two workers never on one page, nobody beside a Workflow.  *)
Exclusive == PageExclusive /\ WorkflowExclusive

(* The bookkeeping counts exactly the calls that are under way: the dicts of*)
(* the manager against the calls the tasks really are inside.               *)
Weight(c, f) == IF c.live /\ c.fleet = f /\ c.kind # "workflow" THEN 1 ELSE 0
InWorkflow(c, f) == c.live /\ c.fleet = f /\ c.kind = "workflow"

CountsMatch ==
  \A t \in Tasks, f \in Fleets :
    activeCalls[f][t] = Weight(outer[t], f) + Weight(inner[t], f)

OwnerMatches ==
  \A t \in Tasks, f \in Fleets : workflowOwner[f] = t <=> InWorkflow(outer[t], f)

OwnerAlone ==
  \A t, u \in Tasks, f \in Fleets : workflowOwner[f] = t /\ u # t => activeCalls[f][u] = 0

(* Only page calls are nested, and a task that waits has room for its call. *)
Nesting ==
  \A t \in Tasks :
    /\ inner[t].kind \in {"none", "page"}
    /\ outer[t] = NoCall => inner[t] = NoCall
    /\ outer[t].live /\ inner[t] # NoCall => inner[t].live
    /\ waiting[t] # NoCall => waiting[t].live
    /\ waiting[t] # NoCall /\ outer[t] # NoCall => inner[t] = NoCall /\ waiting[t].kind = "page"

(* The inductive strengthening of WorkflowExclusive: counts and owners of   *)
(* the manager are the calls under way, and a Workflow owner is alone.      *)
LeaseInv == TypeOK /\ CountsMatch /\ OwnerMatches /\ OwnerAlone /\ Nesting

(* No call of another task enters a Fleet between the start of a Page.create*)
(* and the adoption of the page it returns.                                 *)
CreationExclusive ==
  [][\A t, u \in Tasks, f \in Fleets :
       (\E c \in LiveCalls(t, f) : c.kind = "create") /\ LiveCalls(u, f)' \ LiveCalls(u, f) # {}
         => t = u]_vars

(* _signal reaches everyone it must: a task asleep on the Fleet's Event     *)
(* would not be admitted if it looked.                                      *)
NoLostWakeup ==
  \A t \in parked :
    IF waiting[t].kind = "workflow" THEN ~WorkflowAdmissible(waiting[t].fleet)
                                    ELSE ~PageAdmissible(t, waiting[t].fleet)

(* Whatever raised, timed out or was cancelled: no page is missing from the *)
(* index that release_worker empties, and once no call is left, no Fleet is *)
(* held and no waiter is remembered.                                        *)
NothingLeaks ==
  /\ IndexesAgree
  /\ AtRest => \A f \in Fleets : /\ workflowOwner[f] = NoTask
                                 /\ creationOwner[f] = NoTask
                                 /\ workflowWaiters[f] = {}
                                 /\ \A t \in Tasks : activeCalls[f][t] = 0

(* Docstring of interaction: entry is atomic.  A call whose pages conflict  *)
(* leaves nothing behind, so the creation lease is held by a Page.create    *)
(* that is under way.                                                       *)
CreationLeaseReturned ==
  \A f \in Fleets : creationOwner[f] # NoTask =>
    outer[creationOwner[f]].kind = "create" /\ outer[creationOwner[f]].fleet = f

(* Workflow priority without any help from deadlines: the calls already     *)
(* inside leave, new ones queue behind the waiter, and a Workflow gets in.  *)
WorkflowGetsIn ==
  \A f \in Fleets :
    workflowWaiters[f] # {} ~> workflowOwner[f] # NoTask \/ workflowWaiters[f] = {}

=============================================================================
