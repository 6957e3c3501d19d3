------------------------------ MODULE TaskControl ------------------------------
(***************************************************************************)
(* The life of a delegated task: the append-only ledger of assignments     *)
(* ("phases") the Lead writes, the status and the attempts of each, the    *)
(* workers that run them, the fence a fatal transport failure puts before  *)
(* every new start, and what survives the end of the process.              *)
(*                                                                         *)
(* The Lead runs one tool call at a time; each call awaits a reviewer, an  *)
(* operator, a sleep, a Fleet or a probe, and workers finish meanwhile.    *)
(* Everything in the section "persisted" is task_state.json and the plan;  *)
(* the rest belongs to the process and is gone after a crash.              *)
(***************************************************************************)
EXTENDS Naturals, Sequences, FiniteSets

CONSTANTS
  MaxPhases,     \* bound: assignments the Lead ever submits
  MaxWorkers,    \* bound: workers ever reserved, over all processes
  MaxRuns,       \* bound: processes that work on the task
  MaxLost,       \* bound: artifact files that vanish between two processes
  Limits,        \* max_attempts an assignment may declare; NoLimit: none
  NoLimit,
  Outcomes,      \* what a worker can bring back: a subset of Outcome
  ReviewEnabled, \* runtime.plan_validator.enabled
  MaxStartFailures  \* SPAWN_ACQUISITION_MAX_FAILURES

ASSUME ConstantsAssumption ==
  /\ MaxPhases \in Nat /\ MaxWorkers \in Nat /\ MaxRuns \in Nat /\ MaxLost \in Nat
  /\ Limits \subseteq Nat /\ NoLimit = 0
  /\ ReviewEnabled \in BOOLEAN
  /\ MaxStartFailures \in Nat \ {0}
  /\ Outcomes \subseteq [raw : {"done", "partial", "failed", "hitl_required",
                                "page_continuation_lost"},
                         verdict : {"done", "failed", "contract_invalid", "unchecked"},
                         fatal : BOOLEAN]

Phase  == 1..MaxPhases
Worker == 1..MaxWorkers
None   == 0

(***************************************************************************)
(* Phase statuses. "hitl_required" stands for the four statuses a resume   *)
(* reopens, "page_continuation_lost" for the other blockers, "failed" for  *)
(* the retryable statuses a worker's own outcome names; "partial" and      *)
(* "done" are neither terminal nor retryable.                              *)
(***************************************************************************)
Reactivatable == {"hitl_required"}
Terminal  == {"validated_done", "superseded", "phase_failed", "contract_invalid",
              "page_continuation_lost"} \cup Reactivatable
Retryable == {"validation_failed", "failed", "cancelled"}
Revalidatable == {"validation_failed", "partial", "done", "validated_done"}
Status == Terminal \cup Retryable \cup {"absent", "pending", "running", "partial", "done"}

AttemptStatus == {"none", "running", "interrupted", "cancelled", "done", "partial",
                  "failed", "hitl_required", "page_continuation_lost"}
Unbudgeted    == {"interrupted", "partial"}

Assignment == [deps: SUBSET Phase, replaces: Phase \cup {None},
               lineage: Phase, limit: Limits]
NoAttempt  == [phase |-> None, s |-> "none"]

VARIABLES
  \* persisted
  plan,      \* the accepted assignments, in order
  st,        \* status of every phase
  superseded,  \* phases whose superseded_by is set
  att,       \* the attempt a worker made: its phase and status
  evid,      \* validated_artifacts, each named by the worker that produced it
  ledger,    \* state["artifacts"]
  transport, \* transport_recovery.status
  starts,    \* spawn_acquisition_failures of the one route, by error signature
  lost,      \* artifacts whose file is missing or corrupt
  \* the process
  pc, cand, seen, cur,
  wk,        \* what each worker of this process is doing
  consent,   \* the operator's answer to the plan shown last
  born, runs

persisted == <<plan, st, superseded, att, evid, ledger, transport, starts, lost>>
process   == <<pc, cand, seen, cur, wk, consent, born, runs>>
vars      == <<persisted, process>>

WorkerState == {"none", "starting", "running", "returned", "returned_fatal", "seen"}
LeadState   == {"idle", "review", "approve", "dispatch", "pace", "start", "probe",
                "closing", "down"}
Transport   == {"none", "pending", "blocked", "ready"}
Signature   == {"fatal", "other"}
NoFailures  == [k \in Signature |-> 0]
NoCand == [deps |-> {}, replaces |-> None, lineage |-> 1, limit |-> NoLimit]

\* The execution evidence the reviewer is shown; its hash is in the receipt.
Evidence == [st |-> st, superseded |-> superseded, att |-> att, evid |-> evid]
Unseen   == "unseen"

Init ==
  /\ plan = <<>> /\ st = [p \in Phase |-> "absent"] /\ superseded = {}
  /\ att = [w \in Worker |-> NoAttempt] /\ evid = [p \in Phase |-> {}]
  /\ ledger = {} /\ transport = "none" /\ starts = NoFailures /\ lost = {}
  /\ pc = "idle" /\ cand = NoCand /\ seen = Unseen /\ cur = None
  /\ wk = [w \in Worker |-> "none"] /\ consent = "approved" /\ born = 0 /\ runs = 1

----------------------------------------------------------------------------
\* Reading the ledger

InPlan == 1..Len(plan)
Attempts(p) == {w \in Worker : att[w].phase = p}

\* _count_budgeted_phase_attempts
BudgetedAttempts(p) == {w \in Attempts(p) : att[w].s \notin Unbudgeted}

\* delegation_budget: every attempt of every version of the assignment
LineageOf(ps, l) == {q \in 1..Len(ps) : ps[q].lineage = l}
LineageAttempts(ps, l) == {w \in Worker : att[w].phase \in LineageOf(ps, l)}
LineageSpent_ThisVersion(ps, a) ==
  a.limit # NoLimit /\ Cardinality({w \in Worker : att[w].phase # None /\ ps[att[w].phase] = a})
                       >= a.limit
LineageSpent(ps, a) ==
  a.limit # NoLimit /\ Cardinality(LineageAttempts(ps, a.lineage)) >= a.limit

PhaseSpent(p) ==
  /\ plan[p].limit # NoLimit
  /\ Cardinality(BudgetedAttempts(p)) >= plan[p].limit
  /\ st[p] \in Retryable

DepsDone(a) == \A d \in a.deps : st[d] = "validated_done"

\* phase_start_rejection, when it returns None
Startable(p) ==
  /\ st[p] \notin Terminal /\ st[p] # "running"
  /\ ~PhaseSpent(p)
  /\ DepsDone(plan[p])

TransportOpen == transport \notin {"pending", "blocked"}

\* spawn_acquisition_rejection
RouteOpen == \A k \in Signature : starts[k] < MaxStartFailures

\* The status mark_phase_result gives the phase: o holds the worker's own status
\* and the verdict of the artifact check.
Validated(o) == o.raw = "done" /\ o.verdict = "done"
ResultStatus(o) ==
  IF Validated(o) THEN "validated_done"
  ELSE IF o.raw \in Terminal \/ o.verdict \in {"done", "unchecked"} THEN o.raw
  ELSE IF o.verdict = "contract_invalid" THEN "contract_invalid" ELSE "validation_failed"

----------------------------------------------------------------------------
\* One tool call of the Lead: submit an assignment

Idle == pc' = "idle" /\ cand' = NoCand /\ seen' = Unseen /\ cur' = None

\* A new submission answers an earlier request for a revision.
AskAgain == consent' = IF consent = "revision" THEN "approved" ELSE consent

Revisable(a) ==
  a.replaces # None => st[a.replaces] # "running" /\ a.replaces \notin superseded

\* dispatch_assignment up to the reviewer: the candidate must be dispatchable.
Propose(deps, replaces, limit) ==
  LET a == [deps |-> deps, replaces |-> replaces, limit |-> limit,
            lineage |-> IF replaces = None THEN Len(plan) + 1 ELSE plan[replaces].lineage]
  IN /\ pc = "idle" /\ Len(plan) < MaxPhases /\ born < MaxWorkers
     /\ deps \subseteq InPlan /\ replaces \in InPlan \cup {None}
     /\ Revisable(a) /\ DepsDone(a) /\ ~LineageSpent(Append(plan, a), a)
     /\ cand' = a
     /\ IF ReviewEnabled
        THEN pc' = "review" /\ seen' = Evidence /\ UNCHANGED consent
        ELSE pc' = "approve" /\ UNCHANGED seen /\ AskAgain
     /\ UNCHANGED <<persisted, cur, wk, born, runs>>

Fresh_AtReview == pc = "review" /\ ReviewEnabled => seen = Evidence
Fresh == ReviewEnabled => seen = Evidence

\* The review receipt arrives; accept_assignment(preflight=True) checks it
\* against the evidence of now, and the operator is asked.
ReviewApproved ==
  /\ pc = "review" /\ Revisable(cand) /\ Fresh
  /\ pc' = "approve" /\ AskAgain
  /\ UNCHANGED <<persisted, cand, seen, cur, wk, born, runs>>

\* The reviewer refuses or is unavailable, or its receipt is stale.
ReviewRefused ==
  /\ pc = "review" /\ Idle
  /\ UNCHANGED <<persisted, wk, consent, born, runs>>

\* initialize_task_state(preserve_execution=True): every replaced assignment of
\* the plan is marked again, and none of them may be running.
Replaced(ps) == {ps[i].replaces : i \in 1..Len(ps)} \ {None}

Committable(ps) == \A r \in Replaced(ps) : st[r] # "running"

Accept ==
  LET ps == Append(plan, cand)
  IN /\ pc = "approve" /\ Revisable(cand) /\ Fresh /\ Committable(ps)
     /\ plan' = ps
     /\ st' = [p \in Phase |-> IF p \in Replaced(ps) THEN "superseded"
                               ELSE IF p = Len(ps) THEN "pending" ELSE st[p]]
     /\ superseded' = superseded \cup Replaced(ps)
     /\ pc' = "dispatch" /\ cur' = Len(ps) /\ cand' = NoCand /\ seen' = Unseen
     /\ consent' = "approved"
     /\ UNCHANGED <<att, evid, ledger, transport, starts, lost, wk, born, runs>>

\* The operator wants a revision, cancels the plan, or the evidence moved while
\* the operator was reading.
NotAccepted ==
  /\ pc = "approve" /\ Idle
  /\ consent' \in {consent, "revision", "cancelled"}
  /\ UNCHANGED <<persisted, wk, born, runs>>

----------------------------------------------------------------------------
\* One tool call of the Lead: start a worker for an accepted assignment

Ready(p) ==
  /\ p \notin superseded /\ Startable(p) /\ ~LineageSpent(plan, plan[p])
  /\ consent = "approved"

\* mark_phase_exhausted_if_needed
Exhausted == {q \in InPlan : st[q] \notin Terminal /\ PhaseSpent(q)}
Marked == [q \in Phase |-> IF q \in Exhausted THEN "phase_failed" ELSE st[q]]

\* The gates of spawn_browser_agent are passed: the attempt is on record before
\* the first await of the start.
Reserve(p, status) ==
  LET w == born + 1
  IN /\ RouteOpen
     /\ born' = w
     /\ st' = [status EXCEPT ![p] = "running"]
     /\ att' = [att EXCEPT ![w] = [phase |-> p, s |-> "running"]]
     /\ wk' = [wk EXCEPT ![w] = "starting"]
     /\ pc' = "start" /\ cur' = p
     /\ UNCHANGED <<cand, seen>>

Refuse(status) == st' = status /\ Idle /\ UNCHANGED <<att, wk, born>>

Dispatch(p) ==
  /\ born < MaxWorkers /\ p \in InPlan
  /\ pc = "idle" \/ (pc = "dispatch" /\ p = cur)
  /\ Ready(p)
  /\ \/ ~TransportOpen /\ Refuse(Marked)
     \/ /\ TransportOpen /\ plan[p].deps # {}
        /\ st' = Marked /\ pc' = "pace" /\ cur' = p
        /\ UNCHANGED <<att, wk, born, cand, seen>>
     \/ TransportOpen /\ ~RouteOpen /\ Refuse(Marked)
     \/ TransportOpen /\ Reserve(p, Marked)
  /\ UNCHANGED <<plan, superseded, evid, ledger, transport, starts, lost, consent, runs>>

\* The pacing sleep is over; both gates are asked again.
PaceOver ==
  /\ pc = "pace"
  /\ IF Startable(cur) /\ TransportOpen /\ RouteOpen
     THEN Reserve(cur, st) ELSE Refuse(st)
  /\ UNCHANGED <<plan, superseded, evid, ledger, transport, starts, lost, consent, runs>>

StartSucceeds ==
  /\ pc = "start"
  /\ wk' = [wk EXCEPT ![born] = "running"]
  /\ starts' = NoFailures
  /\ Idle
  /\ UNCHANGED <<plan, st, superseded, att, evid, ledger, transport, lost, consent, born, runs>>

\* cancel_phase_running_reservation: the attempt is dropped and the phase is
\* pending again, whatever it was before.
Rollback_KeepsAttempt ==
  /\ UNCHANGED att
  /\ st' = [st EXCEPT ![cur] = "pending"]
  /\ wk' = [wk EXCEPT ![born] = "none"]
Rollback_WholePhase ==
  /\ att' = [w \in Worker |-> IF att[w].phase = cur THEN NoAttempt ELSE att[w]]
  /\ st' = [st EXCEPT ![cur] = "pending"]
  /\ wk' = [wk EXCEPT ![born] = "none"]
Rollback ==
  /\ att' = [att EXCEPT ![born] = NoAttempt]
  /\ st' = [st EXCEPT ![cur] = "pending"]
  /\ wk' = [wk EXCEPT ![born] = "none"]

\* No Fleet or slot for the worker: not a failure of the route.
StartRefused ==
  /\ pc = "start" /\ Rollback /\ Idle
  /\ UNCHANGED <<plan, superseded, evid, ledger, transport, starts, lost, consent, born, runs>>

\* The start raised. A fatal transport error is noted and probed in this call.
StartFails(k) ==
  /\ pc = "start" /\ Rollback
  /\ starts' = [starts EXCEPT ![k] = @ + 1]
  /\ IF k = "fatal"
     THEN transport' = "pending" /\ pc' = "probe" /\ cur' = None /\ UNCHANGED <<cand, seen>>
     ELSE UNCHANGED transport /\ Idle
  /\ UNCHANGED <<plan, superseded, evid, ledger, lost, consent, born, runs>>

----------------------------------------------------------------------------
\* Workers and the calls that collect them

WorkerReturns(w, o) ==
  LET p == att[w].phase
  IN /\ wk[w] = "running"
     /\ wk' = [wk EXCEPT ![w] = IF o.fatal THEN "returned_fatal" ELSE "returned"]
     /\ att' = [att EXCEPT ![w].s = o.raw]
     /\ st' = [st EXCEPT ![p] = ResultStatus(o)]
     /\ IF Validated(o)
        THEN evid' = [evid EXCEPT ![p] = @ \cup {w}] /\ ledger' = ledger \cup {w}
        ELSE UNCHANGED <<evid, ledger>>
     /\ UNCHANGED <<plan, superseded, transport, starts, lost, pc, cand, seen, cur, consent,
                    born, runs>>

\* wait_browser_agents consumes completions once; a batch with a fatal one closes
\* the transport fence and is probed before the Lead decides anything.
Wait(ws) ==
  /\ pc = "idle" /\ ws # {}
  /\ \A w \in ws : wk[w] \in {"returned", "returned_fatal"}
  /\ wk' = [w \in Worker |-> IF w \in ws THEN "seen" ELSE wk[w]]
  /\ IF \E w \in ws : wk[w] = "returned_fatal"
     THEN transport' = "pending" /\ pc' = "probe"
     ELSE UNCHANGED <<transport, pc>>
  /\ UNCHANGED <<plan, st, superseded, att, evid, ledger, starts, lost, cand, seen, cur,
                 consent, born, runs>>

\* list_browser_agents(refresh_connection=true)
Refresh ==
  /\ pc = "idle" /\ pc' = "probe"
  /\ UNCHANGED <<persisted, cand, seen, cur, wk, consent, born, runs>>

\* record_transport_recovery_probe; a ready probe forgets fatal start failures.
ProbeDone(ready) ==
  /\ pc = "probe" /\ Idle
  /\ transport' = IF transport = "none" THEN "none"
                  ELSE IF ready THEN "ready" ELSE "blocked"
  /\ starts' = IF ready THEN [starts EXCEPT !["fatal"] = 0] ELSE starts
  /\ UNCHANGED <<plan, st, superseded, att, evid, ledger, lost, wk, consent, born, runs>>

\* revalidate_phase_artifacts(decision="accept"): the Lead accepts artifacts that
\* the phase's finished workers left.
Revalidate(p, ws) ==
  /\ pc = "idle" /\ st[p] \in Revalidatable
  /\ ws # {} /\ ws \cap lost = {} /\ ws # evid[p]
  /\ \A w \in ws : att[w].phase = p /\ att[w].s \notin {"running", "interrupted"}
  /\ st' = [st EXCEPT ![p] = "validated_done"]
  /\ evid' = [evid EXCEPT ![p] = ws]
  /\ ledger' = ledger \cup ws
  /\ UNCHANGED <<plan, superseded, att, transport, starts, lost, process>>

----------------------------------------------------------------------------
\* The end of a process, and the next one

\* The Lead has answered, or its task is cancelled; a start is rolled back.
Shutdown ==
  /\ pc \notin {"dispatch", "closing", "down"}
  /\ pc' = "closing" /\ cand' = NoCand /\ seen' = Unseen /\ cur' = None
  /\ IF pc = "start" THEN Rollback ELSE UNCHANGED <<att, st, wk>>
  /\ UNCHANGED <<plan, superseded, evid, ledger, transport, starts, lost, consent, born, runs>>

\* A cancelled worker records its result.
CancelRecorded(w) ==
  /\ pc = "closing" /\ wk[w] = "running"
  /\ wk' = [wk EXCEPT ![w] = "seen"]
  /\ att' = [att EXCEPT ![w].s = "cancelled"]
  /\ st' = [st EXCEPT ![att[w].phase] = "cancelled"]
  /\ UNCHANGED <<plan, superseded, evid, ledger, transport, starts, lost, pc, cand, seen, cur,
                 consent, born, runs>>

\* The cancellation falls before the worker's first step or after its handlers:
\* nothing is recorded and the attempt stays "running" on disk.
CancelUnrecorded(w) ==
  /\ pc = "closing" /\ wk[w] = "running"
  /\ wk' = [wk EXCEPT ![w] = "seen"]
  /\ UNCHANGED <<persisted, pc, cand, seen, cur, consent, born, runs>>

Stopped ==
  /\ pc' = "down" /\ cand' = NoCand /\ seen' = Unseen /\ cur' = None
  /\ wk' = [w \in Worker |-> "none"]
  /\ UNCHANGED <<persisted, consent, born, runs>>

Closed == pc = "closing" /\ (\A w \in Worker : wk[w] # "running") /\ Stopped

Crash == pc # "down" /\ Stopped

LoseFile(w) ==
  /\ pc = "down" /\ w \in ledger /\ Cardinality(lost) < MaxLost
  /\ lost' = lost \cup {w}
  /\ UNCHANGED <<plan, st, superseded, att, evid, ledger, transport, starts, process>>

\* prepare_resume_state: phases with a missing artifact and every phase that
\* depends on one, however far.
Direct == {p \in InPlan : evid[p] \cap lost # {}}
Invalidated_DirectOnly == Direct
Invalidated ==
  {p \in InPlan : \A S \in SUBSET InPlan :
     (Direct \subseteq S /\ \A q \in InPlan : plan[q].deps \cap S # {} => q \in S) => p \in S}

Resume ==
  LET retired   == UNION {evid[p] : p \in Invalidated}
      remaining == UNION {evid[p] : p \in Phase \ Invalidated}
  IN /\ pc = "down" /\ runs < MaxRuns
     /\ runs' = runs + 1
     /\ st' = [p \in Phase |->
                 IF p \in Invalidated \/ st[p] \in {"running"} \cup Reactivatable
                 THEN "pending" ELSE st[p]]
     /\ superseded' = superseded \ Invalidated
     /\ att' = [w \in Worker |->
                  IF att[w].phase \in Invalidated THEN NoAttempt
                  ELSE IF att[w].s = "running" THEN [att[w] EXCEPT !.s = "interrupted"]
                  ELSE att[w]]
     /\ evid' = [p \in Phase |-> IF p \in Invalidated THEN {} ELSE evid[p]]
     /\ ledger' = {w \in ledger \ lost : w \in retired => w \in remaining}
     /\ consent' = "approved" /\ Idle
     /\ UNCHANGED <<plan, transport, starts, lost, wk, born>>

----------------------------------------------------------------------------
Next ==
  \/ \E deps \in SUBSET Phase, replaces \in Phase \cup {None}, limit \in Limits :
       Propose(deps, replaces, limit)
  \/ ReviewApproved \/ ReviewRefused \/ Accept \/ NotAccepted
  \/ \E p \in Phase : Dispatch(p)
  \/ PaceOver \/ StartSucceeds \/ StartRefused
  \/ \E k \in Signature : StartFails(k)
  \/ \E w \in Worker, o \in Outcomes : WorkerReturns(w, o)
  \/ \E ws \in SUBSET Worker : Wait(ws)
  \/ Refresh
  \/ \E ready \in BOOLEAN : ProbeDone(ready)
  \/ \E p \in Phase, ws \in SUBSET Worker : Revalidate(p, ws)
  \/ Shutdown \/ Closed \/ Crash \/ Resume
  \/ \E w \in Worker : CancelRecorded(w) \/ CancelUnrecorded(w) \/ LoseFile(w)

Spec == Init /\ [][Next]_vars

----------------------------------------------------------------------------
\* Properties

TypeOK ==
  /\ plan \in Seq(Assignment) /\ Len(plan) <= MaxPhases
  /\ st \in [Phase -> Status] /\ superseded \subseteq Phase
  /\ att \in [Worker -> [phase : Phase \cup {None}, s : AttemptStatus]]
  /\ evid \in [Phase -> SUBSET Worker] /\ ledger \subseteq Worker /\ lost \subseteq Worker
  /\ transport \in Transport /\ starts \in [Signature -> 0..MaxStartFailures]
  /\ pc \in LeadState /\ cand \in Assignment \cup {NoCand} /\ cur \in Phase \cup {None}
  /\ wk \in [Worker -> WorkerState] /\ consent \in {"approved", "revision", "cancelled"}
  /\ born \in 0..MaxWorkers /\ runs \in Nat

\* While a process is up, "running" on disk means one worker of this process: a
\* phase is running exactly when one attempt is, that attempt's worker is alive,
\* and no second worker has the phase.
RunningIsReal ==
  pc \notin {"closing", "down"} =>
    /\ \A w \in Worker : (att[w].s = "running") <=> (wk[w] \in {"starting", "running"})
    /\ \A p \in Phase : (st[p] = "running") <=> \E w \in Attempts(p) : att[w].s = "running"
    /\ \A v, w \in Worker :
         att[v].s = "running" /\ att[w].s = "running" /\ att[v].phase = att[w].phase => v = w

\* A phase is done on artifacts that are there: made by its own finished workers,
\* listed in the ledger, and, in a process that is up, none of them lost. And no
\* attempt stands on a producer that is not done: when a producer's evidence goes,
\* everything made from it goes too.
EvidenceStands ==
  /\ \A p \in Phase : st[p] = "validated_done" => evid[p] # {}
  /\ \A p \in Phase : \A w \in evid[p] :
       w \in ledger /\ att[w].phase = p /\ att[w].s \notin {"running", "interrupted"}
  /\ pc # "down" => \A p \in Phase : evid[p] \cap lost = {}
  /\ \A w \in Worker : att[w].phase # None =>
       \A d \in plan[att[w].phase].deps : st[d] \in {"validated_done", "superseded"}

\* All versions of an assignment together never have more attempts than the most
\* generous of them declared, however they were started, revised and resumed.
LineageBudget ==
  \A l \in Phase :
    \/ LineageAttempts(plan, l) = {}
    \/ \E q \in LineageOf(plan, l) :
         \/ plan[q].limit = NoLimit
         \/ Cardinality(LineageAttempts(plan, l)) <= plan[q].limit

\* An assignment is accepted only on a review of exactly the evidence of that
\* moment; an attempt begins only with its inputs done, the plan approved, no
\* fatal transport failure unprobed, its phase not yet taken.
DecisionsHold ==
  [][/\ plan' # plan => /\ ReviewEnabled => seen = Evidence
                      /\ \A r \in Replaced(plan') : st[r] # "running"
     /\ \A w \in Worker : att'[w].s = "running" /\ att[w].s # "running" =>
          LET p == att'[w].phase
          IN /\ \A d \in plan[p].deps : st[d] = "validated_done"
             /\ consent = "approved" /\ TransportOpen
             /\ \A v \in Attempts(p) : att[v].s # "running"]_vars

\* What a worker did stays on record, as it was, except where a resume withdraws
\* the phase because its evidence or its inputs' evidence is lost.
HistoryKept ==
  [][\A w \in Worker : att[w].s \notin {"none", "running"} =>
       att'[w] = att[w] \/ (pc = "down" /\ att[w].phase \in Invalidated)]_vars

\* delegation.py:131: "Continue the current assignment version"; two versions of
\* one assignment are never worked on at once.
OneLiveVersion ==
  \A v, w \in Worker :
    /\ att[v].s = "running" /\ att[w].s = "running"
    /\ plan[att[v].phase].lineage = plan[att[w].phase].lineage
    => v = w

=============================================================================
