----------------------------- MODULE FleetMemory -----------------------------
(***************************************************************************)
(* The memory of one Fleet, by which a later task finds a Fleet it may     *)
(* reuse: a document on the platform that workers of several processes     *)
(* change by read, merge and conditional save (_ensure_task_memory and     *)
(* _merge_task_memory_envelope, agents/browser/agent.py), the heartbeat of *)
(* a worker and its terminal write (spawner_worker.py), and the choice of  *)
(* a Fleet from a registration that may be old (fleet/task_reuse.py).      *)
(*                                                                         *)
(* A document has the policy of the Fleet, one summary per finished task,  *)
(* and a lease, the time of its last write, for each worker that runs.     *)
(* Task texts and their similarity are left out: a registration that shows *)
(* a completed task may match or not.  Time is a counter; every process    *)
(* reads it with an error of its own.  A worker ends "completed" or        *)
(* "failed"; nothing tells failed from cancelled here.                     *)
(***************************************************************************)
EXTENDS Integers, Sequences, FiniteSets, SequencesExt, FiniteSetsExt

CONSTANTS
    Workers, Tasks,
    Contracts,      \* what workers may be spawned with: task, eligible
    OldWorker, OldTask,   \* who used the Fleet before
    Skew,           \* by how much the clock of a worker's process is ahead
    TTL,            \* similar_task_running_stale_seconds, 0: leases never end
    RunningCap,     \* MAX_ACTIVE_RUNNING_MEMORY_RECORDS
    HistoryCap,     \* terminal_history[-12:]
    MaxTime,
    MaxFaults,      \* calls that fail, workers that break, processes that die
    Origins,        \* what the memory may hold at first
    LaxCreate       \* the platform overwrites when no revision is expected

NoFence == -1
Forever == 0       \* the time of a fence that never ends

ASSUME MemoryAssumption ==
    /\ Contracts \subseteq [Workers -> [task : Tasks, eligible : BOOLEAN]]
    /\ OldWorker \notin Workers /\ OldTask \notin Tasks
    /\ Skew \in [Workers -> Nat]
    /\ TTL \in Nat /\ MaxTime \in Nat /\ MaxFaults \in Nat
    /\ RunningCap \in Nat \ {0} /\ HistoryCap \in Nat \ {0}
    /\ Origins \subseteq {"absent", "foreign", "legacy", "reusable"}
    /\ LaxCreate \in BOOLEAN

VARIABLES
    contract,   \* top-level task of a worker; no session key, pin, isolation
    now,        \* true time
    memory,     \* the platform's record: revision (0: none) and document
    stage,      \* how far a worker is
    reuse,      \* workers admitted as similar_task_fleet_reuse
    seen,       \* the registration a worker was given
    op,         \* its memory write under way
    stray,      \* saves whose callers have given up
    leased,     \* of a worker at work: time of its last confirmed lease, or 0
    settled,    \* workers whose terminal write was confirmed
    vetoed,     \* someone used the Fleet who excludes its reuse
    faults

memoryVars == <<contract, now, memory, stage, reuse, seen, op, stray, leased, settled, vetoed, faults>>

NoLease == [v \in {} |-> 0]
Blank == [policy |-> "none", history |-> <<>>, running |-> NoLease, fence |-> NoFence]
Foreign == [Blank EXCEPT !.policy = "foreign"]
OldSummary == [task |-> OldTask, worker |-> OldWorker, status |-> "completed"]
Idle == [step |-> "idle", status |-> "running", again |-> FALSE, at |-> 0,
         rev |-> 0, doc |-> Blank]
Unseen == [rev |-> 0, doc |-> Blank]

Found(o) ==
    IF o = "absent" THEN Unseen
    ELSE [rev |-> 1,
          doc |-> IF o = "foreign" THEN Foreign
                  ELSE [Blank EXCEPT !.history = <<OldSummary>>,
                            !.policy = IF o = "reusable" THEN "open" ELSE "none"]]

MemoryInit ==
    /\ contract \in Contracts /\ now = 1
    /\ \E o \in Origins : memory = Found(o) /\ vetoed = (o \in {"foreign", "legacy"})
    /\ stage = [w \in Workers |-> "new"] /\ reuse = {}
    /\ seen = [w \in Workers |-> Unseen]
    /\ op = [w \in Workers |-> Idle] /\ stray = {}
    /\ leased = [w \in Workers |-> 0] /\ settled = {} /\ faults = 0

Clock(w) == now + Skew[w]
TaskOf(w) == contract[w].task
Eligible(v) == v # OldWorker => contract[v].eligible

-----------------------------------------------------------------------------
(* fleet/task_reuse.py *)

\* running_memory_record_blocks_reuse
Blocks(at, t) == TTL = 0 \/ at = Forever \/ at > t \/ t - at < TTL

\* fleet_memory_auto_reuse_allowed
Allowed(doc, t) ==
    /\ doc # Foreign /\ doc.policy = "open"
    /\ \A e \in ToSet(doc.history) : Eligible(e.worker)
    /\ \A v \in DOMAIN doc.running : Eligible(v) /\ ~Blocks(doc.running[v], t)
    /\ doc.fence = NoFence \/ ~Blocks(doc.fence, t)

\* find_similar_task_fleet
Matches(w, doc) ==
    /\ Allowed(doc, Clock(w))
    /\ \E e \in ToSet(doc.history) : e.status = "completed" /\ e.task # TaskOf(w)

Fence_Dropped(old, future, omitted, t) ==
    IF old = Forever \/ future # {} THEN Forever ELSE NoFence

\* The one synthetic record that stands for leases that are not listed: it
\* ends with the last of them, or never, if one cannot be trusted to end.
Fence(old, future, omitted, t) ==
    LET spent == TTL > 0 /\ old # Forever /\ old <= t /\ t - old >= TTL
        ends == omitted \cup (IF old = NoFence \/ spent THEN {} ELSE {old})
    IN  IF future # {} \/ old = Forever \/ old > t \/ (TTL = 0 /\ ends # {}) THEN Forever
        ELSE IF ends = {} THEN NoFence ELSE Max(ends)

\* compact_running_memory_records: the leases kept and the fence.  Among
\* leases of one time any may be kept, the code keeps the later written.
Compacted(running, fence, t) ==
    LET At(S) == {running[v] : v \in S}
        live == {v \in DOMAIN running :
                    TTL = 0 \/ (running[v] <= t /\ t - running[v] < TTL)}
        future == {v \in DOMAIN running : TTL > 0 /\ running[v] > t}
        Latest(K) == \A a \in At(K), b \in At(live \ K) : a >= b
        size == Min({RunningCap, Cardinality(live)})
    IN  {[running |-> [v \in K |-> running[v]],
          fence |-> Fence(fence, future, At(live \ K), t)] :
            K \in {L \in SUBSET live : Cardinality(L) = size /\ Latest(L)}}

-----------------------------------------------------------------------------
(* _merge_task_memory_envelope *)

Policy_OfTasks(doc, w) ==
    IF \/ ~Eligible(w)
       \/ \E e \in ToSet(doc.history) : ~Eligible(e.worker)
       \/ \E v \in DOMAIN doc.running : ~Eligible(v)
    THEN "blocked" ELSE "open"

\* The policy of the Fleet: it outlives the records it was derived from.
Policy(doc, w) ==
    IF \/ ~Eligible(w)
       \/ doc.policy = "blocked"
       \/ doc.policy = "none" /\ (doc.history # <<>> \/ DOMAIN doc.running # {})
       \/ \E e \in ToSet(doc.history) : ~Eligible(e.worker)
       \/ \E v \in DOMAIN doc.running : ~Eligible(v)
    THEN "blocked" ELSE "open"

Summarised_Newest(history, e) ==
    Append(SelectSeq(history, LAMBDA f : f.task # e.task), e)

\* One summary for a task; a completed one is not replaced by another
\* outcome of the task.
Summarised(history, e) ==
    IF \E f \in ToSet(history) :
          f.task = e.task /\ f.status = "completed" /\ e.status # "completed"
    THEN history
    ELSE Append(SelectSeq(history, LAMBDA f : f.task # e.task), e)

Newest(history) ==
    SubSeq(history, Max({1, Len(history) - HistoryCap + 1}), Len(history))

OtherLeases_All(running, w) == DOMAIN running

\* The worker's own record is replaced, or dropped when it has ended.
OtherLeases(running, w) == DOMAIN running \ {w}

\* The summaries after a write of worker w: its own record is made anew.
Remembered(history, w, status) ==
    LET Own(f) == f.task = TaskOf(w) /\ f.worker = w
        others == SelectSeq(history, LAMBDA f : ~Own(f))
        summary == [task |-> TaskOf(w), worker |-> w, status |-> status]
    IN  Newest(IF status = "running" THEN others ELSE Summarised(others, summary))

\* What worker w may save over doc at time t of its clock.
Merged(doc, w, status, t) ==
    LET run == OtherLeases(doc.running, w) \cup (IF status = "running" THEN {w} ELSE {})
        running == [v \in run |-> IF v = w THEN t ELSE doc.running[v]]
    IN  {[policy |-> Policy(doc, w), history |-> Remembered(doc.history, w, status),
          running |-> c.running, fence |-> c.fence] :
            c \in Compacted(running, doc.fence, t)}

-----------------------------------------------------------------------------
(* One attempt of _ensure_task_memory: Memory.get, merge, Memory.save *)

Fetching(status, again) == [Idle EXCEPT !.step = "get", !.status = status, !.again = again]

\* The document just read is merged and sent back with its revision.
Saving(w, record, status, again) ==
    {[step |-> "save", status |-> status, again |-> again, at |-> Clock(w),
      rev |-> record.rev, doc |-> d] :
        d \in Merged(record.doc, w, status, Clock(w))}

\* Memory.save: "Omit [expectedRevision] only when creating the first record."
Accepts(rev) == rev = memory.rev \/ (rev = 0 /\ LaxCreate)

\* The saves of the workers in W that may reach the platform and be accepted.
Sent(W) == {[worker |-> w, rev |-> op[w].rev, doc |-> op[w].doc] :
               w \in {v \in W : op[v].step = "save" /\ Accepts(op[v].rev)}}

\* A save whose caller no longer waits for it may still reach the platform.
Abandoned(w) ==
    \/ stray' = stray
    \/ op[w].step = "save" /\ stray' = stray \cup Sent({w})

Fault == faults < MaxFaults /\ faults' = faults + 1

\* The workers in W no longer work in the Fleet.
Leaves(W) ==
    /\ leased' = [w \in Workers |-> IF w \in W THEN 0 ELSE leased[w]]
    /\ reuse' = reuse \ W

\* What the worker does with the receipt of its write.
Proceeds(w, saved) ==
    CASE stage[w] = "boot" /\ (saved \/ w \notin reuse) ->
           /\ stage' = [stage EXCEPT ![w] = "working"]
           /\ op' = [op EXCEPT ![w] = Idle]
      [] stage[w] = "boot" /\ ~saved /\ w \in reuse ->
           \* "could not establish its running memory lease"
           /\ stage' = [stage EXCEPT ![w] = "handling"]
           /\ op' = [op EXCEPT ![w] = Fetching("failed", FALSE)]
      [] stage[w] = "working" -> UNCHANGED stage /\ op' = [op EXCEPT ![w] = Idle]
      [] stage[w] = "closing" ->
           \/ stage' = [stage EXCEPT ![w] = "ended"] /\ op' = [op EXCEPT ![w] = Idle]
           \* What follows the checkpoint raises: the handler writes again.
           \/ /\ stage' = [stage EXCEPT ![w] = "handling"]
              /\ op' = [op EXCEPT ![w] = Fetching("failed", FALSE)]
      [] stage[w] = "handling" ->
           stage' = [stage EXCEPT ![w] = "ended"] /\ op' = [op EXCEPT ![w] = Idle]

\* Foreign memory is not overwritten: the attempt ends as skipped.
Fetched(w) ==
    /\ op[w].step = "get"
    /\ IF memory.doc = Foreign
         THEN Proceeds(w, FALSE)
         ELSE /\ \E o \in Saving(w, memory, op[w].status, op[w].again) : op' = [op EXCEPT ![w] = o]
              /\ UNCHANGED stage
    /\ UNCHANGED <<contract, now, memory, reuse, seen, stray, leased, settled, vetoed, faults>>

\* The record changes, and the saves that expected it are refused later.
Applied(w, doc) ==
    /\ memory' = [rev |-> memory.rev + 1, doc |-> doc]
    /\ vetoed' = (vetoed \/ ~Eligible(w))
    /\ stray' = {s \in stray : s.rev = 0 /\ LaxCreate}

Saved(w) ==
    /\ op[w].step = "save" /\ Accepts(op[w].rev)
    /\ Applied(w, op[w].doc)
    /\ Proceeds(w, TRUE)
    /\ IF op[w].status = "running"
         THEN leased' = [leased EXCEPT ![w] = op[w].at] /\ UNCHANGED settled
         ELSE settled' = settled \cup {w} /\ UNCHANGED leased
    /\ UNCHANGED <<contract, now, reuse, seen, faults>>

\* _memory_revision_conflict: read again and try once more.
Conflict(w) ==
    /\ op[w].step = "save" /\ ~Accepts(op[w].rev)
    /\ IF op[w].again
         THEN Proceeds(w, FALSE)
         ELSE op' = [op EXCEPT ![w] = Fetching(op[w].status, TRUE)] /\ UNCHANGED stage
    /\ UNCHANGED <<contract, now, memory, reuse, seen, stray, leased, settled, vetoed, faults>>

\* A call fails, or the time of the attempt is over.
Fails(w) ==
    /\ op[w].step # "idle"
    /\ Fault /\ Abandoned(w) /\ Proceeds(w, FALSE)
    /\ UNCHANGED <<contract, now, memory, reuse, seen, leased, settled, vetoed>>

StrayLands ==
    \E s \in stray :
        /\ Accepts(s.rev) /\ Applied(s.worker, s.doc)
        /\ UNCHANGED <<contract, now, stage, reuse, seen, op, leased, settled, faults>>

-----------------------------------------------------------------------------
(* The life of a worker *)

\* System.register, when the worker's connection was made.
Register(w) ==
    /\ stage[w] = "new"
    /\ stage' = [stage EXCEPT ![w] = "seen"] /\ seen' = [seen EXCEPT ![w] = memory]
    /\ UNCHANGED <<contract, now, memory, reuse, op, stray, leased, settled, vetoed, faults>>

\* _first_fleet_acquisition_committed
Acquired(t) == \E w \in Workers : TaskOf(w) = t /\ stage[w] \notin {"new", "seen"}

\* Only the first acquisition of a task looks for a Fleet to reuse.
AssignSimilar(w) ==
    /\ stage[w] = "seen" /\ Eligible(w) /\ ~Acquired(TaskOf(w))
    /\ Matches(w, seen[w].doc)
    /\ reuse' = reuse \cup {w}
    /\ \E o \in Saving(w, seen[w], "running", FALSE) : op' = [op EXCEPT ![w] = o]
    /\ stage' = [stage EXCEPT ![w] = "boot"] /\ seen' = [seen EXCEPT ![w] = Unseen]
    /\ UNCHANGED <<contract, now, memory, stray, leased, settled, vetoed, faults>>

\* Any other routing.  _bootstrap_browser merges into the memory that the
\* registration shows, or reads it when the registration does not show it.
AssignOrdinary(w) ==
    /\ stage[w] = "seen"
    /\ seen' = [seen EXCEPT ![w] = Unseen]
    /\ \/ /\ op' = [op EXCEPT ![w] = Fetching("running", FALSE)]
          /\ stage' = [stage EXCEPT ![w] = "boot"]
       \/ /\ seen[w].doc = Foreign
          /\ stage' = [stage EXCEPT ![w] = "working"] /\ UNCHANGED op
       \/ /\ seen[w].doc # Foreign
          /\ \E o \in Saving(w, seen[w], "running", FALSE) : op' = [op EXCEPT ![w] = o]
          /\ stage' = [stage EXCEPT ![w] = "boot"]
    /\ UNCHANGED <<contract, now, memory, reuse, stray, leased, settled, vetoed, faults>>

\* _task_memory_heartbeat_loop: only a worker whose first lease was saved,
\* and that may be reused, has one.
Heartbeat(w) ==
    /\ stage[w] = "working" /\ op[w] = Idle
    /\ Eligible(w) /\ TTL > 0 /\ leased[w] # 0 /\ Clock(w) > leased[w]
    /\ op' = [op EXCEPT ![w] = Fetching("running", FALSE)]
    /\ UNCHANGED <<contract, now, memory, stage, reuse, seen, stray, leased, settled, vetoed, faults>>

\* run_browser_agent returns: the heartbeat is cancelled, then
\* _checkpoint_terminal_task_memory writes what the worker reached.
Returns(w) ==
    /\ stage[w] = "working"
    /\ Abandoned(w) /\ Leaves({w})
    /\ stage' = [stage EXCEPT ![w] = "closing"]
    /\ \E status \in {"completed", "failed"} : op' = [op EXCEPT ![w] = Fetching(status, FALSE)]
    /\ UNCHANGED <<contract, now, memory, seen, settled, vetoed, faults>>

\* It raises, or the worker is cancelled; a cancellation may also end the
\* first lease or the checkpoint.
Breaks(w) ==
    /\ Fault /\ Abandoned(w) /\ Leaves({w})
    /\ stage[w] \in {"boot", "working", "closing"}
    /\ op' = [op EXCEPT ![w] = Fetching("failed", FALSE)]
    /\ stage' = [stage EXCEPT ![w] = "handling"]
    /\ UNCHANGED <<contract, now, memory, seen, settled, vetoed>>

\* The process of the task dies, with what its workers had sent on the way.
ProcessDies(t) ==
    LET crew == {w \in Workers : TaskOf(w) = t}
    IN  /\ Fault
        /\ \E w \in crew : stage[w] \in {"boot", "working", "closing", "handling"}
        /\ \E W \in SUBSET crew : stray' = stray \cup Sent(W)
        /\ stage' = [w \in Workers |-> IF w \in crew /\ stage[w] \notin {"new", "ended"} THEN "dead" ELSE stage[w]]
        /\ op' = [w \in Workers |-> IF w \in crew THEN Idle ELSE op[w]]
        /\ seen' = [w \in Workers |-> IF w \in crew THEN Unseen ELSE seen[w]]
        /\ Leaves(crew)
        /\ UNCHANGED <<contract, now, memory, settled, vetoed>>

Tick ==
    /\ now < MaxTime /\ now' = now + 1
    /\ UNCHANGED <<contract, memory, stage, reuse, seen, op, stray, leased, settled, vetoed, faults>>

MemoryNext ==
    \/ \E w \in Workers :
          \/ Register(w) \/ AssignSimilar(w) \/ AssignOrdinary(w)
          \/ Fetched(w) \/ Saved(w) \/ Conflict(w) \/ Fails(w)
          \/ Heartbeat(w) \/ Returns(w) \/ Breaks(w)
    \/ \E t \in Tasks : ProcessDies(t)
    \/ StrayLands \/ Tick

MemorySpec == MemoryInit /\ [][MemoryNext]_memoryVars

-----------------------------------------------------------------------------
\* A lease counts until some process may think it is over.
Current(w) == leased[w] # 0 /\ (TTL = 0 \/ \A v \in Workers : Clock(v) - leased[w] < TTL)

\* A Fleet with a worker in it whose lease is current is not offered to
\* another task, whoever else wrote since and however many leases were folded
\* into the fence (compact_running_memory_records: "without forgetting that
\* overflow is active"; agent.py 646: "a terminal write can [not] evict
\* another live worker").
LiveLeaseClosesFleet ==
    \A w \in Workers : stage[w] = "working" /\ Current(w)
        => \A v \in Workers : ~Allowed(memory.doc, Clock(v))

\* A Fleet that a worker with a session key, a pin or isolation has recorded,
\* and one whose history has no policy, is never offered; foreign memory is
\* never overwritten (agent.py 529: "Never promote that unknown identity
\* merely because a later generic worker touched the Fleet").
NeverPromoted == vetoed => \A w \in Workers : ~Allowed(memory.doc, Clock(w))

\* A worker whose terminal write was confirmed is not listed as running
\* again by a heartbeat of its own that arrives late (spawner_worker.py 229,
\* runtime_config.py 888).
TerminalStands ==
    settled \cap DOMAIN memory.doc.running = {}

\* A task that a worker recorded as completed stays completed in the memory,
\* until twelve later tasks have pushed it out or that worker itself takes
\* its record back.
CompletedStands ==
    [][memory'.doc # memory.doc /\ memory.doc # Foreign =>
         \A e \in ToSet(memory.doc.history) : e.status = "completed" =>
            \/ \E f \in ToSet(memory'.doc.history) : f.task = e.task /\ f.status = "completed"
            \/ \E f \in ToSet(memory'.doc.history) : f.task = e.task /\ f.worker = e.worker
            \/ /\ Len(memory'.doc.history) = HistoryCap
               /\ \A f \in ToSet(memory'.doc.history) : f.task # e.task]_memory

\* A worker that enters a Fleet because of its history finds no live worker
\* of another task there.  It does not hold: a registration is as old as its
\* connection, and after a conflict the lease is merged into the new memory
\* without another look at Allowed (agent.py 380).
ReuseFindsItFree ==
    [][\A v, w \in Workers :
          /\ v \in reuse /\ stage[v] = "boot" /\ stage'[v] = "working"
          /\ TaskOf(v) # TaskOf(w) /\ stage[w] = "working"
          => ~Current(w)]_memoryVars
=============================================================================
