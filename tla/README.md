# Verification of the ABCP Agent Harness

The harness (`harness/`, `main.py`, `abcp_client.py`) runs one Lead agent and
several Browser workers as tasks of one asyncio event loop. Workers drive a
remote browser service over WebSocket RPC. What is shared between them (pages,
Fleets, cookie jars, connections, the event stream, the task directory) is
guarded by a few coordination objects. This project models those objects and
the code around them in TLA+, checks them with TLC on small instances, and
proves their main safety properties for every instance with TLAPS.

Paths below are relative to the repository; `runtime.py` without a directory
is `harness/fleet/runtime.py`.

## 1. The system

| Component | State it keeps | Operations | Module |
| --- | --- | --- | --- |
| Page and Fleet interaction leases: `PageLeaseManager`, `PageLeasedBrowserClient` (runtime.py) | page owners and their reverse index, calls in progress per Fleet and task, Workflow owner, creation owner, Workflow waiters, quarantined pages | `interaction`, `release_worker`, `seed_worker_pages`, `release_page`, `observe_inventory`, quarantine | `PageLease` |
| Fleet authentication barrier: `FleetAuthBarrier` (runtime.py) and the worker's side in `harness/tools/browser_tools` (bindings, hitl, capability) | resolving, resolver and generation of a Fleet; the agent's re-perception latches | `before_call`, `claim`, `claim_ownerless`, `resolve`, `relinquish`, `abandon_worker`, `reset_by_operator`, `discard_inactive`; HITL, verified clearance, the Workflow fence | `AuthBarrier`, `AuthEpoch` |
| Fleet click gate: `FleetClickGate`, `FleetClickLease` (runtime.py) | one lock, a user count, tombstones and a clean-up timer per Fleet | `acquire`, the race with the barrier, dispatch, `retire`, clean-up | `ClickGate` |
| Fleet coordinator and spawner routing: `FleetCoordinator`, `AuthFleetLedger`, `harness/spawner` | Fleet records, session bindings and generations, slot defaults, assignments, persisted logins; slots, their views, two decision locks | observe, reconcile, choose, bind, restore, release, retire; acquire, prepare, decide, create, run, break, recover, reset | `FleetCoordinator` |
| RPC client and event stream: `abcp_client.py`, recovery in `spawner_slots.py` | event cursors of slot and client, the notification hub, the recovery attempt | publish, `replay_events`, bootstrap, recover, close | `EventReplay` |
| Run lock: `harness/runtime/resume_state.py` | a directory and its `owner.json` | acquire, take over, clean up, release | `RunLock`, `TaskMutex` |
| Task control: `harness/task_control`, `harness/delegation.py`, dispatch in the Lead's tools and in `spawner_core.py`; transport recovery; resume | the accepted plan, status and attempts of each assignment, validated artifacts, the transport fence, start failures; of the process: the Lead's tool call, its workers, the operator's consent | propose, review, accept, dispatch, start, roll back, collect, probe, revalidate, shut down, resume | `TaskControl` |
| Human in the loop: `harness/runtime/hitl.py`, `browser_tools/hitl.py` | one wait with its two readers, the pause flag, the pause budget, the recovery loop | request, race of page events, terminal input and deadline, settlement verifier, confirmation, look again, re-pause | `HitlWait` |
| Storage: `harness/storage`, snapshots in `state_store.py`, the repairs in `resume_state.py` | plan history, plan alias and task state in files, in the database, or in both | commit a plan, save a state, mirror, promote the mirror, repair a torn alias, resume | `TaskStorage` |
| Fleet memory: `harness/fleet/task_reuse.py`, `_ensure_task_memory` in `agents/browser/agent.py`, `spawner_worker.py` | a document per Fleet on the platform: policy, summaries of finished tasks, leases of running workers, the fence; of a worker: its write under way | find a Fleet of a similar task; get, merge, save under a revision, retry once; heartbeat; terminal write | `FleetMemory` |
| Browser agent, tools, observation, results, planning prompts, models, vision, skill builder, capabilities, CLI | messages, documents, configuration | model calls and pure functions | environment |

`PROJECT.json` lists all of them with their files, and says of each part that
is not modelled why.

### How the parts meet

A spawn takes a slot (one connection), then a Fleet (`FleetCoordinator`). The
worker's calls pass, in this order: the authentication barrier
(`AuthBarrier`), the page lease (`PageLease`), and for clicks, submitting keys
and Workflows the click gate, which asks the barrier again (`ClickGate`). When
a worker ends, `release_worker` and `abandon_worker` take back what it held. A
connection that breaks is recovered with a new client that first replays the
missed events (`EventReplay`); events also claim the barrier for the worker of
a Workflow. `AuthEpoch` is the contract between barrier and gate:
`AuthBarrier` is shown to implement it, and the steps of the barrier that
`ClickGate` lives beside are `AuthEpoch`'s. The run lock is the outermost
layer: one harness process for one task. `TaskMutex` says what it promises,
without the directory and the file it is made of; `RunLock` implements it as
long as no two processes take over a stale lock at once, which the code does
not ensure (section 6).

Above the workers is the Lead. Each of its tool calls proposes an assignment,
starts a worker for one, or collects workers that finished (`TaskControl`);
every call awaits something, and workers finish meanwhile. What it decides
reaches the disk through `TaskStorage`, and a process that was killed leaves
both to the next one. A worker that meets a challenge asks a human
(`HitlWait`); in `AuthBarrier` that conversation is the one step from
`PauseGranted` to `HumanResumes`, `HumanGone` or the verification.
A Fleet outlives the task that made it; that a later task may take it over is
decided on the memory its workers left (`FleetMemory`), which other processes
write too.

### What is hard, and what has to hold

* Interleavings at awaits: a lock won after the state it was wanted for
  changed (click gate against barrier), a decision made before an await and
  committed after it (`Fleet.create`, `Fleet.list`), two contenders for one
  stale lock.
* Cancellation: any await may raise; every count, owner and waiter must be
  returned whatever the exit.
* Lost wake-ups: three hand-made wait loops (lease, barrier, gate).
* Stale views: Fleet inventories are cached per connection and speak of Fleets
  of other tasks; a worker acts on a page it read before the login changed.
* Decisions on evidence: the Lead's plan is reviewed, shown to the operator and
  accepted in three steps, while workers change what it was reviewed against.
* Recovery: broken connections, bounded replays, processes killed with a lock,
  in the middle of a start, between two files of one commit; artifacts lost
  between two processes.
* Evidence about a page from several sources, late, repeated or contradictory:
  resume events, titles, a visual verifier, a text typed at a terminal.
* Writers without a lock: workers of several processes, with clocks of their
  own, change one document by read, merge and conditional save, and a save
  whose caller gave up may still arrive.
* Liveness under timeouts: Workflow priority, the end of re-perception, the
  end of the lock's loop.

`PROJECT.json` names each hazard with its line, and the properties that would
show it going wrong.

## 2. From code to model

**Atomicity.** The harness is one event loop, so a stretch of code between two
awaits is one action, and an action covers the whole stretch. A wait loop is
an action that parks the task, and one that lets it look again. In `RunLock`
the actors are processes, and each file system call is an action.

**PageLease.** `interaction` is `ArriveWorkflow`, `ArrivePage`, `ArriveCreate`
(first look), `RetryWorkflow` and `RetryPage` (after `_wait_for_change`),
`GiveUp` (deadline or cancellation) and the exits; what the call did to pages
is in `ExitCreated` and `ExitClosed`. A task can be inside an outer and an
inner call, because a Workflow's settlement handler calls back. `HomeFleet`
says where the browser keeps a page, which the manager only learns.
`StrayPages` are pages that extra parameters of a `Page.create` may name.

**AuthBarrier.** `Issue` is `before_call`'s first look and the agent's latch
bookkeeping, `Recheck` the look after a wake-up, `Send*` and `Refuse*` what
follows admission, `PauseGranted`, `HumanResumes`, `HumanGone`, `Verified`,
`NotVerified` the human's turn, `WorkflowAnswered/Failed/Fenced` the fence,
`Detect` and `ObserverClaim` the claims of challenge detection, `LateClaim`
the one through a tombstone. A call is a class of methods: the two reads,
listing, creating, pausing, a Workflow, and any business call.

**ClickGate.** `Call` to `Take` is `gate.acquire`; `Notice`, `AuthFirst`,
`Redirected`, `GateFirst` are the two-task race of `_acquire_click_gate` with
all its outcomes, `AuthFirstSwallowed` the outcome of `asyncio.wait_for`
before Python 3.12; `Blocked`, `Admitted`, `Rejected` the second look at the
barrier; `Dispatch`, `Settle`, `Expire`, `CleanUp` the life of a lease and its
entry.

**FleetCoordinator.** The coordinator is one record, changed only by operators
that are the methods of the class (`Observe`, `Reconcile`, `Restore`,
`MarkSuspect`, `ReleaseBinding`, `RetireSlot`, `Bind`), so each action
composes them as the spawner does: `Refresh` is what `_observe_slot_fleets`
and `_reconcile_auth_ledger_for_slot` do together. `AssignReferenced`,
`AssignSimilar`, `AssignSession`, `AssignSource`, `AssignShared`, `CapReuse`,
`AsksFleet` with `Create` and the `Cap*` steps are the branches of the
decision in their order; the guards make them exclusive. A Fleet is unborn,
live or dead; inventories are chosen among what the platform and the caches
can say.

**EventReplay.** The platform numbers a slot's durable events. `Deliver`
publishes a pushed event and moves the client's cursor; `ReadMore` and
`ReadLast` are pages of `replay_events` inside `Recover` ... `Recovered`;
`Closed` is the handler of an earlier break that drops the client late.

**RunLock.** One action per `mkdir`, read, probe, stat, `unlink`, `rmdir` and
rename, so two processes interleave anywhere; `Crash` ends a process between
any two; `Age` is the passing of the 30 seconds of
`RUN_LOCK_OWNER_GRACE_SECONDS`.

**TaskControl.** `Propose`, `ReviewApproved`, `Accept` are the three parts of
`dispatch_assignment` between its awaits (the reviewer, the operator), with
`ReviewRefused` and `NotAccepted` for the other outcomes; `Evidence` is what
`execution_evidence` hashes and `Fresh` the comparison of receipts. `Dispatch`
is the gates of `spawn_browser_agent` up to `mark_phase_running`, `PaceOver`
the second pass after the pacing sleep (the Lead runs one tool call at a time,
so of its gates only the one of the route, which is asked first here, ever
refuses), `StartSucceeds`, `StartRefused` and `StartFails` the end of the start
with `cancel_phase_running_reservation`.
`WorkerReturns` is `mark_phase_result` with its artifact check (a free
verdict), `Wait` is `wait_browser_agents`, `Refresh` and `ProbeDone` the
transport probe, `Revalidate` the Lead's late acceptance of artifacts.
`Shutdown`, `CancelRecorded`, `CancelUnrecorded`, `Closed` and `Crash` end a
process; `Resume` is `prepare_resume_state`, and `Invalidated` its transitive
withdrawal of phases whose artifacts are gone. Statuses that the code treats
alike are one value (see the comment at `Terminal`). The name of an assignment
is its place in the plan, `replaces` and `lineage` are the code's.

**HitlWait.** `Listen`, `TitleUpdated`, `Settled`, `Verdict` are the
notification branch, `Resolve`, `Poll`, `Retry`, `GiveUp` the release of the
pause and its confirmation, `InputEnds`, `TextTakesOver`, `Return` the race in
`wait_for_hitl_resume`, `StructuralCheck`, `VisualCheck`, `Asked`, `Repause`
the recovery loop of `browser_tools/hitl.py`, `HumanResumes` and `Age` the
panel and the five-second replay window. `found` is a history variable: what
was seen of the page since it was last released.

**TaskStorage.** Each file write, and each database transaction, is an action;
`CommitHistory`, `CommitAlias`, `CommitState` are the three writes of
`commit_accepted_plan`. `Mirror` and `MirrorFails` are the second half of a
dual write. `Resume` is what a process does before it trusts the store: promote
a mirror (`PromotionAgrees`) or not, repair a torn alias (`Torn`, `Repaired`)
or refuse.

**FleetMemory.** The document is a record: `policy` (`"none"` where a history
has no trusted policy), `history` (terminal summaries in their order),
`running` (worker to `updatedAt`) and `fence` (the synthetic overflow record;
`Forever` is its time 0). `Policy`, `Summarised`, `Newest` and `Compacted` are
the parts of `_merge_task_memory_envelope` in their order, `Allowed` and
`Matches` the two decisions of `task_reuse.py`. `op` is one call of
`_ensure_task_memory`: `Fetched`, `Saved`, `Conflict`, `Fails` are its returns
from `Memory.get` and `Memory.save`. A worker goes from `Register` over
`AssignSimilar` or `AssignOrdinary` (the bootstrap), `Heartbeat`s, to
`Returns` and its terminal write; `Breaks` is the exception or cancellation
whose handler writes again, `ProcessDies` the end of a process. `Abandoned` leaves a
save on its way, `StrayLands` is its arrival. `leased`, `settled` and `vetoed`
are history variables for the properties.

Definitions with an underscore in the name (`Keeper_Last`, `Verdict_AnyAge`)
are faulty variants of the definition that follows them. No action uses them;
each shows that the property it was written for would notice that fault.

## 3. What each run checks and shows

| Run | Instance | What is checked |
| --- | --- | --- |
| `page_lease` | two tasks of one worker and one task of another, two pages, one Fleet | `Exclusive`, `CreationExclusive`: who may be inside a Fleet together. `NothingLeaks`: the two page dicts and every count, owner and waiter after any exit. `NoLostWakeup`, `WorkflowGetsIn`: a waiting Workflow gets in without help from deadlines. |
| `auth_barrier` | two workers, one page, two openings of the gate, late Workflow events, every method but `Page.list` | `FailClosed`, `KeepsEpochs`: only verified clearance opens the gate. `NoLostWakeup`. `WorkflowTrust`: no result of a Workflow that ran while the gate closed is used. `FreshPerception`: no business call is admitted on a page read before the gate closed. |
| `auth_barrier_reading_ends` | one opening, reads and business calls, fairness for one worker, no late events | `ReperceptionEnds`: a worker told to read again gets through. `ResolverAlive`: no dead resolver. |
| `click_gate` | three workers, two entries, two tombstones, one opening of the barrier, swallowed cancellations included | `LeasesAccounted`: one click at a time although entries come and go, every lock has a holder, every count and timer fits. `AdmittedInOneEpoch`: no queued click is let through after another worker's login recovery began. Deadlock. |
| `fleet_coordinator` | two connections, two spawns of any kind, three Fleets, a cap of one, two releases, an earlier process's login | `BindingAgrees`, `OneJarPerEpoch`: a named session is one jar until it is released. `OnlyLendable`: a jar with a login is never lent, and other tasks' Fleets stay theirs. `OwnershipStable`: seeing a Fleet does not move it. |
| `event_replay` | four connections of one slot one after the other, three events, pages of one event, two pages an attempt | `NothingMissed`, `CursorForward`: no event is lost between a break and a recovery, bounded or not |
| `run_lock` | four processes, two crashes, takeovers of a stale lock do not overlap | `KeepsMutex`: under that condition the file system steps implement `TaskMutex`, so `MutualExclusion` holds; what happens without it is the next run's question. `NothingLeftBehind`, `AloneGetsIn`: a lock does not outlive its use. `TryEnds`. |
| `run_lock_takeover` | three processes, one crash, takeovers may overlap | `MutualExclusion` is violated, see section 6 |
| `task_control` | three assignments, three workers, two processes, one lost artifact, an attempt limit of two, two failed starts close a route | `RunningIsReal`: "running" on disk is one live worker. `EvidenceStands`: what is done stands on artifacts that are there, its own and its inputs'. `LineageBudget`: revisions do not renew the attempts. `DecisionsHold`: nothing is accepted or started on evidence, consent or a connection that has changed. `HistoryKept`: attempts are not rewritten. |
| `hitl_wait` | two requests, two recovery rounds, two calls of the verifier, two reads and one retry of a confirmation | `GoesOnSafely`: a worker that goes on has a page that is free and was looked at. `LiftedOnEvidence`: what may lift a pause. `OperatorHeard`: text typed during a wait is in the outcome of that wait. `WaitReturns`. |
| `task_storage` | three plan texts, four versions, four processes, from files over dual mode to the database | `RunsOnLastSave`: a resumed process works on what was written last. `PlanIsOfState`: after any crash, alias, state and history name one plan. `HistoryIsImmutable`. |
| `fleet_memory` | two workers of one task or of two, eligible or not, one failure, a Fleet with any history, one clock ahead | `LiveLeaseClosesFleet`: a Fleet somebody works in is not offered. `NeverPromoted`: an identity once used is never offered. `TerminalStands`: a late heartbeat does not undo the terminal write. `CompletedStands`: a completed summary is not replaced by another worker's failure. |

### Bounds, and why they are enough

* `PageLease`: two tasks of one worker are the least for a callback beside an
  ordinary call, a third of another worker the least for a conflict. Two pages
  let a call own one and want another. Fleets do not interact except through
  pages, so one is enough; the proofs hold for any number, and, but for
  `Exclusive`, also for workers that are released in the middle of their calls
  (`BusyRelease`).
* `AuthBarrier`: a resolver and a bystander, and each can be the other.
  `MaxEpoch = 2` lets a worker that missed one opening meet the next.
  `Page.list` is left out of the large run: it only adds a call class that is
  admitted like a read and clears no latch.
* `ClickGate`: a holder, a head of the queue and one behind it; a second entry
  for an old Fleet object whose successor is in use. `MaxRetired` is the cap
  on tombstones of one entry, and one opening is enough to tell epochs apart
  because the property compares two moments of one call.
* `FleetCoordinator`: `Limit = 1` makes the cap bite on the second spawn;
  three Fleets are the bound one, a fresh one and another task's.
  `MaxReleases` bounds the operator's resets.
* `EventReplay`: `PageBudget` and `PageLimit` are `max_pages` and `limit` of
  `replay_events`; three events exceed one attempt (two pages of one), so a
  bounded replay and its successor occur. Four connections are the first, two
  recoveries and one that breaks again.
* `RunLock`: an owner that died, two that take over and one that comes late.
  `MaxCrashes` bounds kills.
* `TaskControl`: three assignments give a chain of two dependencies (the
  transitive withdrawal), or a producer, its revision and a consumer. Three
  workers spend a limit of two and leave one over; two processes are a crash
  and the resume; one lost file is enough to withdraw a chain.
  `MaxStartFailures = 2` tells a counted failure from the one that closes the
  route.
* `HitlWait`: a second request after a spent first, and a second round, which
  pauses without being charged. With two verifier calls it can see the
  challenge and then fail to, and its budget can be spent. A pause budget of
  0, which means no limit, has no run: its requests never end. The theorems
  cover it.
* `TaskStorage`: four versions leave room for two torn commits after the first
  plan; three texts let a plan return to an earlier text; four processes walk
  from files to dual mode to the database with a crash on the way. The
  operator goes forward only (`MCForward`), section 6 says why.

* `FleetMemory`: two workers write against each other, the older use of the
  Fleet is in its history. `RunningCap = 1` folds the second lease into the
  fence, `HistoryCap = 2` trims on the third summary, `TTL = 2` in three ticks
  lets a lease expire, and a clock that is one ahead writes leases from the
  future. One fault is a call that fails, a worker that breaks, or a process
  that dies.

The large runs have 4.9 million (`fleet_memory`), 2.6 million (`auth_barrier`), 1.5 million
(`task_control`) and 1.0 million (`hitl_wait`) distinct states.

Deadlock is checked where the tasks go on for ever (`page_lease`,
`click_gate`). It is off where a run really ends: all workers are gone, all
connections used, every process over, every pause spent.

Symmetry is used only in runs without liveness properties.

## 4. Fairness

`PageLease`: weak fairness of the second look of a waiter and of the exit of a
call. The event loop runs every ready task, and every RPC has a timeout, so a
call that is inside leaves. Arrivals and deadlines are not fair:
`WorkflowGetsIn` therefore shows that priority is enough, not that a deadline
saves the waiter.

`AuthBarrier`: for the workers in `Readers`, weak fairness of every step that
is bounded by a timeout (waking, gate timeout, dispatch, answer, end of human
wait, end of verification, abandonment). Strong fairness of the reads and of
their answers is an assumption on the agent: a worker told to read a page
again keeps reading, and its reads do not fail for ever.

`RunLock`: weak fairness of `Step(p)`, as the operating system runs each
process. `Start`, `Release`, `Crash` and `Age` are not fair.

`HitlWait`: weak fairness of `TimedOut` (the deadline is one for the whole
wait and is looked at in every round of it), of what the harness does by
itself while it verifies, resolves, confirms and returns, and of the recovery
loop. Nothing is assumed of the person or the page, which may emit events for
ever.

The other modules have safety properties only.

## 5. What is proved

The theorems hold for every value of the constants that satisfies the named
assumptions of the modules: the value that stands for "none" is not a member
of its set, the bounds are naturals, the maps map where they should. Nothing
is assumed finite but where it is said. Each inductive invariant was checked
with TLC before it was proved. Typing is by theorem and is in no run: a
formula that only says a variable has its type is a lemma of the proofs.

**`PageLeaseProofs`.** `LeaseInv` is about counts and calls. `Exclusive` and
`CreationExclusive` speak of the calls that tasks are inside; the manager
decides by its own counts, so neither is inductive. `LeaseInv` adds that
counts and calls agree (`CountsMatch`, `OwnerMatches`), that an owner is alone
(`OwnerAlone`) and how calls nest (`Nesting`); it gives `WorkflowsExclusive`,
also for workers released in the middle of a call, since `release_worker`
leaves counts to the exits of the calls. `OwnersInv` adds that the two page
dicts agree and that a call inside knows its pages (`KnownCalls`). `Owned`,
which needs `~BusyRelease`, says that a call inside still owns the pages it
asked for, and gives `CallsExclusive`. `FleetInv` relates the creation owner
and the waiters to calls (`Creating`, `WaitersReal`). `LeakInv` needs that no
creation names another worker's page (`StrayPages = {}`, section 6).
`WakeInv` says that a change which lets a waiter in has woken it.

**`AuthBarrierProofs`.** `GateInv` is `ResolverHolds`, `NoLostWakeup` and,
without late events, `ResolverAlive`. They need each other: that a wake-up
reaches all waiters rests on who may clear the resolver. `FailClosed` follows
from it for each step. `TrustInv` relates the generation a Workflow started in
to the present one; it needs that the barrier of a Fleet in use is not
discarded (`~SharedSlots`). `FreshInv`, under the same assumption, says what a
worker's latch is worth: a read that is ticked off was seen on the page the
latch stands for, in this epoch, and one that is under way for the present
generation was issued in this epoch; so the worker that is up to date knows a
whole page. It holds for any number of pages, where the run has one.
`ImplementsEpochs` is the refinement: `AuthEpoch` is implemented with
`closed <- resolving`; it is what `ClickGate` relies on.

**`FleetCoordinatorProofs`.** `FleetInv` is `FrameTypes` (the variables the
coordinator does not own), `Placed` (which Fleet a spawn is at) and
`Bindings`, whose parts are: `Sound` (the coordinator's record: the binding
and the Fleets' named flags agree, defaults are lendable), `Counted`,
`Epochs`, `OneJarPerEpoch`, `Handed` (a Fleet that is eligible was handed out)
and `Born` (a Fleet that was handed out exists). Every method of the
coordinator has a lemma that it keeps `Sound`, and the actions, which compose
the methods, cite those. `Follows` is what a method may do to a record's
owner, and gives `OwnershipStable`.

**`DurableProofs`** is about what outlives a process.

*The run lock.* `LockInv` says of each process, by where it stands, what it
knows of the directory (`Knows`): a process that published is the owner that
is in the file, one that is about to publish made the directory that is there,
one that is about to remove it still sees what it checked. The last is true
only under `SoleTakeover`, the assumption of all five theorems; without it
`MutualExclusion` is false (section 6). `ImplementsMutex` is the refinement of
`TaskMutex`, which sees of a process only whether it tries, holds or is over
(`Turn`): a rename is the entry, and `OneInside`, the part of `LockInv` that
counts from the `mkdir` to the last `rmdir`, says that nobody else holds the
lock then; every other step of a try or of a release keeps the process where
`TaskMutex` has it or takes it out. `AloneInv` adds what a process that
nobody ran beside has seen, for `CrashIsSurvived`.

*The plan and state of a task.* `RunsOnLastSave` and `PlanIsOfState` speak of
a process that is up. What carries them over a crash is `StorageInv`: the
store the next process would start on (`Authority`: the worktree until the
database is promoted, then the database) has the state saved last, and the
version that state names is on record with its plan (`Sound`), at every point
between the writes of a commit, an import and a promotion. `Placed` says which
store a process can be on, and that the second write of a commit still finds
what the first has made. Both theorems need `MovesForward`, that the operator
does not start on files again after the database; section 6 says what happens
otherwise. `HistoryIsImmutable` holds in any order of backends and has no
hypothesis: it follows from the number a commit takes (`NextVersionIsNew`).

*The memory of a Fleet.* `MemoryInv` relates the document on the platform to
every save that may still reach it, those whose callers have given up
included. A save at the present revision was made from the present document
(`Abreast`, `Late`), and what is merged from a document keeps what matters of
it (`Follows`: the leases that count are listed or the fence stands for them,
what was barred stays barred). So a lease that was confirmed and still counts
is always covered (`Covers`), whatever is compacted, and whichever of two
writers loses. The lemmas `FenceStands`, `FollowerCovers` and `FollowerIsTimed`
say this of the operators; one lemma for each action carries it through a
step. The three theorems hold for any number of workers, any cap on the
listed leases, any time to live, any error of each clock, and any number of
failures and late saves. Their hypothesis `LaxCreate = FALSE` is that the
platform refuses a save without `expectedRevision` over a record that exists;
section 6 says what the schema leaves open.

**`ClickGateProofs`.** Its `GateInv` says where calls, lock and count meet: a
call that waits for or has a lease is at the present entry (`AtEntry`), a
lease is the lock (`LeaseIsLock`) and the lock a lease (`LockHeld`), `users`
counts those calls (`Counted`, the set of them is finite because each came by
one step), tombstones have a timer (`Remembered`), and a dropped lease keeps
its entry for good (`LostForGood`), which is why exclusion holds even where a
cancellation is swallowed. `EpochInv` says of an overtaken worker that its
generation is old or the gate is still closed to it.

**`EventReplayProofs`.** `ReplayInv` is about gaps: nothing is missing up to
the slot's cursor, before the client's connection and up to its cursor
(`Complete`), and up to the place a replay has reached. `CursorForward` needs
more, because after a failed attempt the next one starts at the broken
client's cursor, behind the slot's: the slot's cursor is never further than
one attempt (`Reach`, budget times page size) beyond that client's, and an
attempt reads that far or to the end.

**`TaskControlProofs`.** `IInv` is `TypeOK`, `PlanShape` (an assignment comes
after what it depends on and replaces, and has the lineage of what it
replaces), `AttemptShape` (who has an attempt, and of which phase),
`LeadShape` (what the Lead's tool call has in hand at each of its awaits) and
the three invariants `RunningIsReal` (in the form `Running`),
`EvidenceStands` and `LineageBudget`. They need each other: that the roll-back
of a failed start loses nobody's evidence rests on `RunningIsReal`, that the
budget survives a start on `LeadShape`: the limit was asked before the sleep,
and only this call adds attempts. `DecisionsHold` and `HistoryKept` are
theorems about each step from `IInv`. All five hold for any number of
assignments, workers, crashes and lost files, any limits, any outcomes, with
or without the reviewer.

**`HitlWaitProofs`.** `HitlInv` is `Types`, `Released` (`ResumedIsReleased`
with the recovery loop's states added), `Grounded` (where the recovery loop
stands, what it has seen), `Kept` (a typed text is in the reader or in an
outcome), `Rounds` and `Paid`. `Paid` gives `PausesBounded`: although the
pauses of the recovery loop are not charged (section 6), a page is paused at
most `Budget * MaxRounds` times, if `Budget` is not 0: the code takes 0 for no
limit (`_hitl_admission`), and so does the model. The other theorems of the
module hold for every budget.

The runs check some of these together: `NothingMissed`, `OnlyLendable` and
`GoesOnSafely` are conjunctions of two invariants each, and their theorems
follow from the two.

Model-checked only:

* liveness (`WorkflowGetsIn`, `ReperceptionEnds`, `TryEnds`, `WaitReturns`),
  which is out of the prover's reach under fairness;
* `CompletedStands` of `FleetMemory`: it speaks of the histories that
  `SelectSeq` leaves, which is defined by recursion over a sequence, and the
  provers know nothing of it.

## 6. Where the code disagrees with what is said of it

The run `run_lock_takeover` ends in a counterexample; `PROJECT.json` quotes the
sentence it contradicts. Two processes look at one stale lock. One removes it
and makes its own; the other then removes that one by path. Both the `unlink`
of a dead owner's file and the `rmdir` of an old empty directory do this, and
the `os.replace` that publishes an owner overwrites one that is there.

Further counterexamples are found by TLC with a definition that is in the
module, as an invariant or property of the module's run, and where it is said
a change of a constant:

| Definition | With | What happens |
| --- | --- | --- |
| `PageLease!CreationLeaseReturned` | `StrayPages` not empty | `interaction` takes the creation lease, then checks the pages its parameters name. When a page is another worker's, the conflict leaves before the `try` that returns the lease (`runtime.py:440`). The Fleet then admits no page call until that worker is released. |
| `AuthBarrier!ResolverAlive` | `LateEvents = TRUE` | A `Hitl.paused` event that finds its Workflow only as a tombstone claims the gate for a worker that has ended (`runtime.py:1175`). Nobody is left to open it. |
| `AuthBarrier!ReperceptionEnds` | `SharedSlots = TRUE` | The clean-up of a broken slot discards the barrier of a Fleet that a worker on another slot is using (`spawner_slots.py:1409`). The generation starts again at 0, and `int(target or -1)` never equals 0, so each read clears what the other read had satisfied. |
| `ClickGate!CancellationSafe` | `SwallowsCancel = TRUE` | Before Python 3.12 `asyncio.wait_for` may return a result it has although it was cancelled (`runtime.py:1440`). The lease given to the cancelled task is dropped, and the lock stays taken. |
| `HitlWait!EveryPauseCharged` | none | The comment at `bindings.py:819` says every `Hitl.requestPause` passes the dispatch guard that charges the budget. The re-pauses of the recovery loop call the client directly (`browser_tools/hitl.py:632`). |
| `TaskControl!OneLiveVersion` | two phases, three workers, two processes, one lost file | `prepare_resume_state` reopens a superseded assignment whose artifact is gone (`phase_lifecycle.py:835`). Then the old and the new version are both startable and run at once, although a caller is told to continue the current version (`delegation.py:131`), and a later `accept_assignment` raises. |
| `TaskStorage!StopIsRepairable` | none | A commit stops half-way, by a crash or a write that fails, and its version stays in the history unused. The next commit takes the number after it and stops between alias and state. The alias is then two versions ahead of the state, although `resume_state.py:463` says "exactly the next history version", and `reconcile_torn_plan_alias` (`resume_state.py:549`), which repairs a distance of one, refuses the task on every start. |
| `FleetMemory!ReuseFindsItFree` | none | The registration a reuse is decided on is as old as the slot's connection (`spawner_slots.py:1925`), and after a conflict the lease is merged into the new memory without asking again whether the Fleet is free (`agent.py:383`). A task can enter a Fleet in which another works. |
| `FleetMemory!LiveLeaseClosesFleet`, `NeverPromoted`, `TerminalStands` | `LaxCreate = TRUE` | A worker whose registration showed an empty memory saves without `expectedRevision`. The schema of `Memory.save` says only "Omit only when creating the first record"; on a platform that takes such a save for an overwrite, it erases what others wrote meanwhile. |

Other differences were met while reading and are not the subject of a run:

* A named session can be declared lost while its Fleet lives:
  `_prepare_slot_for_worker` fills `slot.fleet_ids` from a cached registration
  (`spawner_slots.py:1510`), and `Fleet.list` is asked again only after
  `SLOT_FULL_SYNC_TTL_SECONDS`.
* `observe`, `reconcile` and `retire` drop the `released` tombstone of a
  binding, so a jar that was released can be bound again. `FleetCoordinator`
  has this.
* A login that is verified after its session was released makes the ledger
  valid again for the old Fleet.
* `mark_slot_suspect` is undone by the failing worker's own result, which
  observes the slot again.
* A Fleet with a persisted login can be attached by an unnamed worker before
  the owner's slot registers.
* The cap on Fleets is exceeded when missing Fleets come back.
* A recovery commits `slot.event_cursor` before the attempt succeeds, and
  publishes the replayed events on a hub that a failed attempt discards.
  `NothingSkipped` counts an event as heard when it was published on any hub.
* The handler of an earlier break can set `slot.client` to `None` after a
  recovery installed a new client (`Closed` of `EventReplay`).
* A call that passed the barrier can be dispatched after the gate closed,
  since the page lease is waited for in between.
* `release_worker` does not end calls that wait: with `BusyRelease`, a Workflow
  that waits while its worker is released goes in without owning its pages.
* `delegation_budget` counts interrupted and partial attempts, although the
  comment at `_count_budgeted_phase_attempts` says an interruption must not
  consume the budget; the phase's own limit does not count them.
* The roll-back of a failed start makes a phase `pending` that was
  `validation_failed` or `partial` before. The operator's cancellation and
  request for a revision are lost at a crash, and a fatal failure that nobody
  collected leaves no transport fence behind.
* A resume event of an earlier pause that is still in the replay window
  settles the next pause of that page (`runtime/hitl.py:767`), and one that is
  pressed while the verifier runs for more than five seconds is not heard, so
  the wait ends in a timeout. `LiftedOnEvidence` accepts the earlier event, as
  the code does. The text typed for a re-pause is in its outcome but not among
  `hitl_user_messages`, and that of a re-pause in the middle of a recovery is
  not in the loop's final result either. An empty error text counts as a page
  that was closed.
* Going back from the database to files or to dual mode and forward again
  trusts what the database had before: the marker says it was promoted
  (`resume_state.py:655`). After a commit that failed, alias and state differ
  until the next start.

## 7. What is not modelled, and what the models assume

* `PageLease`: a Fleet's pages stay in it. `release_page` is an operation of
  the class without a caller. A task that calls back from a Workflow and waits
  behind itself is ended by its deadline.
* `AuthBarrier`: one Fleet. The run has one page; that the two halves of a read
  do not come from two pages is part of the theorem `PerceptionIsFresh`. The
  verdict that a challenge is present or cleared is a free choice.
* `ClickGate`: one Fleet; `classify` only builds a receipt; `discard_fleet`
  has no caller.
* `FleetCoordinator`: one session key, as tasks use, and
  `same_fleet_multiworker` off. The wait for a similar task's Fleet is folded
  into the step that takes it.
* `EventReplay`: events without a cursor, platforms without `events.read`, and
  the window of 256 keys in which `publish_once` recognises a duplicate.
* `RunLock`: no live process stays between `mkdir` and the rename, or between
  `unlink` and `rmdir`, for the 30 seconds of the grace period; that is what
  the period is for. The second lock of an older layout, owners of another
  host, a reused pid and a malformed owner file are left out.
* `TaskControl`: the delegated mode, in which the Lead starts workers; the
  browser mode (`agents/browser/task.py`) runs one phase without it. One route
  with two error signatures. Worker numbers are not used again, where the code
  counts from what is on disk. `blocked_by_dependency` is a status that the
  delegated mode never writes. What a reviewer, an artifact check or a probe
  finds is a free choice.
* `HitlWait`: one page of one worker. Automatic solving, the cooldown and the
  tracker that decide whether to ask at all are left out, and so are the
  platform's own time limits on a pause.
* `TaskStorage`: the plan, the history and the state of one task. The
  three-way merge of `write_task_state`, events, chunks and resources are not
  in it. The run lock is taken to keep a second process away, as `TaskMutex`
  promises; section 6 says when it does not.
* `FleetMemory`: one Fleet. A registered task may match or not, as its text
  decides. The time to live is the same in every process; "failed" and
  "cancelled" are one value; a worker is not resumed. Envelopes of older
  formats, records without a task and a platform without the Memory methods
  are left out. The platform is assumed to refuse a save with a revision that
  is not the record's.
* Model calls, prompts, tools' formats, observation heuristics, result
  documents and provider adapters are environment: their verdicts are free
  choices where a module needs one. `PROJECT.json` gives the reason for each
  component.

## 8. Plan

The coordination of workers that share Fleets, the memory by which tasks reuse
them, the Lead's ledger, the human's turn and the storage beneath them are in
place. Next:

1. The worker's own loop (`harness/agents/browser/loop.py`): step budgets,
   stop reasons, and the pairing of tool calls and results through compaction.
2. A composition of barrier, lease and gate for one click, to check the orders
   in which a call passes them (an item of section 6).
3. The page lifecycle guard, and the three-way merge of task state with two
   writers whose baselines are stale.

Proofs: every safety property of the runs but `CompletedStands` has its
theorem. `AuthEpoch` is implemented, and `TaskMutex` under the condition that
takeovers do not overlap. What 1 to 3 add needs theorems of its own.
