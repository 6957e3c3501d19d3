--------------------------- MODULE TaskControlProofs ---------------------------
(***************************************************************************)
(* The ledger of assignments for any numbers of assignments, workers,      *)
(* processes and lost files, any limits and any outcomes of workers.       *)
(*                                                                         *)
(* The inductive invariant ties four records of the same fact together:    *)
(* the status of a phase, the status of its attempt, what the worker does, *)
(* and where the Lead is. The properties follow from it one by one.        *)
(***************************************************************************)
EXTENDS TaskControl, FiniteSetTheorems, TLAPS

Live == {"starting", "running"}

\* An assignment names only assignments before the end of the plan.
PlanShape ==
  \A i \in InPlan : plan[i].deps \subseteq InPlan /\ plan[i].replaces \in InPlan \cup {None}

\* Attempts are of accepted phases and belong to workers that were reserved; a
\* worker whose artifact is on record, or lost, is over.
AttemptShape ==
  \A w \in Worker :
    /\ att[w].phase \in InPlan \cup {None}
    /\ att[w].phase = None <=> att[w].s = "none"
    /\ w > born => att[w].phase = None
    /\ w \in ledger \cup lost => w <= born /\ att[w].s # "running"

\* Where the Lead is, and what its call in progress has already done.
LeadShape ==
  /\ pc \in {"review", "approve"} =>
       /\ cand \in Assignment /\ Len(plan) < MaxPhases
       /\ cand.deps \subseteq InPlan /\ cand.replaces \in InPlan \cup {None}
  /\ pc \in {"dispatch", "pace", "start"} => cur \in InPlan
  /\ pc = "pace" => born < MaxWorkers /\ consent = "approved" /\ ~LineageSpent(plan, plan[cur])
  /\ pc = "start" => /\ born \in Worker /\ RouteOpen
                     /\ wk[born] = "starting" /\ att[born] = [phase |-> cur, s |-> "running"]
  /\ \A w \in Worker : /\ wk[w] = "starting" => pc = "start" /\ w = born
                       /\ w > born => wk[w] = "none"
                       /\ pc = "down" => wk[w] = "none"

\* A running phase has one running attempt; a live worker's attempt is running,
\* and until the process closes a running attempt's worker is alive.
Running ==
  /\ \A p \in Phase : st[p] = "running" <=> \E w \in Worker : att[w].phase = p /\ att[w].s = "running"
  /\ \A v, w \in Worker :
       att[v].s = "running" /\ att[w].s = "running" /\ att[v].phase = att[w].phase => v = w
  /\ \A w \in Worker : /\ wk[w] \in Live => att[w].s = "running"
                       /\ pc \notin {"closing", "down"} /\ att[w].s = "running" => wk[w] \in Live

IInv == /\ TypeOK /\ PlanShape /\ AttemptShape /\ LeadShape
        /\ Running /\ EvidenceStands /\ LineageBudget

Books == <<plan, st, att, evid, ledger, lost, born>>

-----------------------------------------------------------------------------
\* What the records of assignments and attempts consist of.
LEMMA Entries ==
  ASSUME TypeOK
  PROVE  /\ \A i \in InPlan : /\ plan[i] \in Assignment /\ plan[i].lineage \in Phase
                              /\ plan[i].deps \subseteq Phase /\ plan[i].limit \in Nat
         /\ Len(plan) \in Nat /\ InPlan \subseteq Phase
         /\ \A w \in Worker : att[w] = [phase |-> att[w].phase, s |-> att[w].s]
         /\ MaxPhases \in Nat /\ MaxWorkers \in Nat
<1>1. Len(plan) \in Nat /\ MaxPhases \in Nat /\ MaxWorkers \in Nat /\ Limits \subseteq Nat
  BY ConstantsAssumption DEF TypeOK
<1>2. InPlan \subseteq Phase
  BY <1>1 DEF TypeOK, InPlan, Phase
<1>3. \A i \in InPlan : plan[i] \in Assignment
  BY DEF TypeOK, InPlan
<1>4. \A i \in InPlan : /\ plan[i].lineage \in Phase /\ plan[i].limit \in Nat
                        /\ plan[i].deps \subseteq Phase
  BY <1>1, <1>3 DEF Assignment
<1>5. \A w \in Worker : att[w] = [phase |-> att[w].phase, s |-> att[w].s]
  BY DEF TypeOK
<1>6. QED
  BY <1>1, <1>2, <1>3, <1>4, <1>5

\* A step that leaves the books alone keeps what the books must satisfy.
LEMMA BooksKept ==
  ASSUME IInv, UNCHANGED Books,
         pc = "down" => pc' = "down",
         pc' \notin {"closing", "down"} => pc \notin {"closing", "down"},
         \A w \in Worker : wk'[w] \in Live => wk[w] \in Live,
         pc' \notin {"closing", "down"} => \A w \in Worker : wk[w] \in Live => wk'[w] \in Live
  PROVE  (PlanShape /\ AttemptShape /\ Running /\ EvidenceStands /\ LineageBudget)'
<1>1. (PlanShape /\ AttemptShape)'
  BY DEF IInv, Books, PlanShape, AttemptShape, InPlan
<1>2. Running'
  BY DEF IInv, Books, Running, Live
<1>3. EvidenceStands'
  BY DEF IInv, Books, EvidenceStands
<1>4. LineageBudget'
  BY DEF IInv, Books, LineageBudget, LineageAttempts, LineageOf
<1>5. QED
  BY <1>1, <1>2, <1>3, <1>4

-----------------------------------------------------------------------------
\* The steps of a call that only read the books.

LEMMA ProposeHolds ==
  ASSUME IInv, NEW deps \in SUBSET Phase, NEW replaces \in Phase \cup {None}, NEW limit \in Limits,
         Propose(deps, replaces, limit)
  PROVE  IInv'
<1> DEFINE a == [deps |-> deps, replaces |-> replaces, limit |-> limit,
                 lineage |-> IF replaces = None THEN Len(plan) + 1 ELSE plan[replaces].lineage]
<1>1. a \in Assignment
  BY Entries DEF IInv, Propose, InPlan, Phase, None, Assignment
<1>2. /\ cand' = a /\ pc' \in {"review", "approve"} /\ pc = "idle"
      /\ UNCHANGED <<persisted, cur, wk, born, runs>>
      /\ consent' \in {consent, "approved"}
  BY DEF Propose, AskAgain
<1>3. TypeOK'
  BY <1>1, <1>2 DEF IInv, TypeOK, persisted, LeadState
<1>4. LeadShape'
  BY <1>1, <1>2 DEF IInv, LeadShape, Propose, persisted, InPlan
<1>5. QED
  BY <1>2, <1>3, <1>4, BooksKept DEF IInv, persisted, Books, Live

LEMMA ReviewHolds ==
  ASSUME IInv, ReviewApproved \/ ReviewRefused \/ NotAccepted
  PROVE  IInv'
<1>1. UNCHANGED <<persisted, wk, born, runs>> /\ pc \in {"review", "approve"}
  BY DEF ReviewApproved, ReviewRefused, NotAccepted
<1>2. \/ pc' = "approve" /\ cand' = cand /\ cur' = cur
      \/ pc' = "idle" /\ cand' = NoCand /\ cur' = None
  BY DEF ReviewApproved, ReviewRefused, NotAccepted, Idle
<1>3. consent' \in {"approved", "revision", "cancelled"}
  BY DEF ReviewApproved, ReviewRefused, NotAccepted, AskAgain, IInv, TypeOK
<1>4. TypeOK'
  BY <1>1, <1>2, <1>3 DEF IInv, TypeOK, persisted, LeadState
<1>5. LeadShape'
  BY <1>1, <1>2 DEF IInv, LeadShape, persisted, InPlan
<1>6. QED
  BY <1>1, <1>2, <1>4, <1>5, BooksKept DEF IInv, persisted, Books, Live

LEMMA WaitHolds ==
  ASSUME IInv, NEW ws \in SUBSET Worker, Wait(ws)
  PROVE  IInv'
<1>1. /\ UNCHANGED <<plan, st, superseded, att, evid, ledger, starts, lost, cand, cur,
                     consent, born, runs>>
      /\ pc = "idle" /\ pc' \in {"idle", "probe"} /\ transport' \in {transport, "pending"}
  BY DEF Wait
<1>2. wk' = [w \in Worker |-> IF w \in ws THEN "seen" ELSE wk[w]]
  BY DEF Wait
<1>3. \A w \in ws : wk[w] \notin Live /\ wk[w] # "none"
  BY DEF Wait, Live
<1>4. \A w \in Worker : wk'[w] = IF w \in ws THEN "seen" ELSE wk[w]
  BY <1>2
<1>5. TypeOK'
  <2>1. wk' \in [Worker -> WorkerState]
    BY <1>2 DEF IInv, TypeOK, WorkerState
  <2>2. QED
    BY <1>1, <2>1 DEF IInv, TypeOK, LeadState, Transport
<1>6. LeadShape'
  BY <1>1, <1>3, <1>4 DEF IInv, LeadShape, InPlan
<1>7. QED
  BY <1>1, <1>3, <1>4, <1>5, <1>6, BooksKept DEF IInv, Books, Live

LEMMA ProbeHolds ==
  ASSUME IInv, Refresh \/ \E ready \in BOOLEAN : ProbeDone(ready)
  PROVE  IInv'
<1>1. /\ UNCHANGED <<plan, st, superseded, att, evid, ledger, lost, wk, consent, born, runs>>
      /\ pc \in {"idle", "probe"} /\ pc' \in {"idle", "probe"} /\ transport' \in Transport
  BY DEF Refresh, ProbeDone, Idle, persisted, IInv, TypeOK, Transport
<1>2. starts' \in [Signature -> 0..MaxStartFailures] /\ cand' \in {cand, NoCand} /\ cur' \in {cur, None}
  BY ConstantsAssumption DEF Refresh, ProbeDone, Idle, persisted, IInv, TypeOK, Signature
<1>3. TypeOK'
  BY <1>1, <1>2 DEF IInv, TypeOK, LeadState
<1>4. LeadShape'
  BY <1>1 DEF IInv, LeadShape, InPlan
<1>5. QED
  BY <1>1, <1>3, <1>4, BooksKept DEF IInv, Books, Live

LEMMA StartSucceedsHolds ==
  ASSUME IInv, StartSucceeds
  PROVE  IInv'
<1>1. /\ UNCHANGED <<plan, st, superseded, att, evid, ledger, transport, lost, consent, born, runs>>
      /\ pc = "start" /\ pc' = "idle" /\ cand' = NoCand /\ cur' = None /\ starts' = NoFailures
      /\ wk' = [wk EXCEPT ![born] = "running"]
  BY DEF StartSucceeds, Idle
<1>2. born \in Worker /\ wk[born] = "starting"
  BY <1>1 DEF IInv, LeadShape
<1>3. TypeOK'
  BY <1>1, <1>2, ConstantsAssumption DEF IInv, TypeOK, LeadState, WorkerState, NoFailures
<1>4. \A w \in Worker : wk'[w] = IF w = born THEN "running" ELSE wk[w]
  BY <1>1, <1>2 DEF IInv, TypeOK
<1>5. LeadShape'
  BY <1>1, <1>2, <1>4, ConstantsAssumption DEF IInv, LeadShape, InPlan, Worker, TypeOK
<1>6. QED
  BY <1>1, <1>2, <1>3, <1>4, <1>5, BooksKept DEF IInv, Books, Live

-----------------------------------------------------------------------------
\* The end of a process.

LEMMA StopHolds ==
  ASSUME IInv, Crash \/ Closed \/ \E w \in Worker : CancelUnrecorded(w)
  PROVE  IInv'
<1>1. UNCHANGED <<persisted, consent, born, runs>>
  BY DEF Crash, Closed, CancelUnrecorded, Stopped
<1>2. CASE \E w \in Worker : CancelUnrecorded(w)
  <2>1. PICK w \in Worker : CancelUnrecorded(w)
    BY <1>2
  <2>2. /\ UNCHANGED <<pc, cand, seen, cur>> /\ pc = "closing" /\ wk[w] = "running"
        /\ \A v \in Worker : wk'[v] = IF v = w THEN "seen" ELSE wk[v]
    BY <2>1 DEF CancelUnrecorded, IInv, TypeOK
  <2>3. TypeOK'
    BY <1>1, <2>1, <2>2 DEF CancelUnrecorded, IInv, TypeOK, persisted, WorkerState
  <2>4. LeadShape'
    BY <1>1, <2>2 DEF IInv, LeadShape, persisted, InPlan
  <2>5. QED
    BY <1>1, <2>2, <2>3, <2>4, BooksKept DEF IInv, persisted, Books, Live
<1>3. CASE Crash \/ Closed
  <2>1. pc' = "down" /\ cand' = NoCand /\ cur' = None /\ wk' = [w \in Worker |-> "none"]
    BY <1>3 DEF Crash, Closed, Stopped
  <2>2. TypeOK'
    BY <1>1, <2>1 DEF IInv, TypeOK, persisted, LeadState, WorkerState
  <2>3. LeadShape'
    BY <1>1, <2>1 DEF IInv, LeadShape, persisted, InPlan
  <2>4. QED
    BY <1>1, <2>1, <2>2, <2>3, BooksKept DEF IInv, persisted, Books, Live
<1>4. QED
  BY <1>2, <1>3

LEMMA LoseFileHolds ==
  ASSUME IInv, NEW w \in Worker, LoseFile(w)
  PROVE  IInv'
<1>1. /\ UNCHANGED <<plan, st, superseded, att, evid, ledger, transport, starts, process>>
      /\ pc = "down" /\ w \in ledger /\ lost' = lost \cup {w}
  BY DEF LoseFile
<1>2. TypeOK' /\ PlanShape' /\ LeadShape'
  BY <1>1 DEF IInv, TypeOK, PlanShape, LeadShape, InPlan, process
<1>3. AttemptShape'
  BY <1>1 DEF IInv, AttemptShape, InPlan, process
<1>4. Running'
  BY <1>1 DEF IInv, Running, process
<1>5. EvidenceStands'
  BY <1>1 DEF IInv, EvidenceStands, process
<1>6. LineageBudget'
  BY <1>1 DEF IInv, LineageBudget, LineageAttempts, LineageOf
<1>7. QED
  BY <1>2, <1>3, <1>4, <1>5, <1>6 DEF IInv

-----------------------------------------------------------------------------
\* Starting a worker.

LEMMA OneMore ==
  ASSUME NEW S, NEW x, IsFiniteSet(S)
  PROVE  /\ Cardinality(S) \in Nat /\ Cardinality(S \cup {x}) \in Nat
         /\ Cardinality(S \cup {x}) <= Cardinality(S) + 1
<1>1. Cardinality(S) \in Nat
  BY FS_CardinalityType
<1>2. Cardinality(S \cup {x}) = IF x \in S THEN Cardinality(S) ELSE Cardinality(S) + 1
  BY FS_AddElement
<1>3. QED
  BY <1>1, <1>2

\* Sets of attempts are finite, so one more or fewer is a matter of counting.
LEMMA Countable ==
  ASSUME IInv, NEW l
  PROVE  /\ IsFiniteSet(LineageAttempts(plan, l)) /\ Cardinality(LineageAttempts(plan, l)) \in Nat
         /\ IsFiniteSet(Worker)
<1>1. IsFiniteSet(Worker)
  BY ConstantsAssumption, FS_Interval DEF Worker
<1>2. LineageAttempts(plan, l) \subseteq Worker
  BY DEF LineageAttempts
<1>3. QED
  BY <1>1, <1>2, FS_Subset, FS_CardinalityType

\* Withdrawing attempts costs no budget.
LEMMA FewerAttempts ==
  ASSUME IInv, UNCHANGED plan,
         \A w \in Worker : att'[w].phase = att[w].phase \/ att'[w].phase = None
  PROVE  LineageBudget'
<1>1. \A l \in Phase : /\ LineageOf(plan, l)' = LineageOf(plan, l)
                       /\ LineageAttempts(plan, l)' \subseteq LineageAttempts(plan, l)
  BY DEF LineageOf, LineageAttempts, None
<1>2. \A l \in Phase : \A k \in Nat :
        Cardinality(LineageAttempts(plan, l)) <= k => Cardinality(LineageAttempts(plan, l)') <= k
  <2>1. SUFFICES ASSUME NEW l \in Phase
                 PROVE  /\ Cardinality(LineageAttempts(plan, l)) \in Nat
                        /\ Cardinality(LineageAttempts(plan, l)') \in Nat
                        /\ Cardinality(LineageAttempts(plan, l)') <= Cardinality(LineageAttempts(plan, l))
    OBVIOUS
  <2>2. IsFiniteSet(LineageAttempts(plan, l))
    BY Countable
  <2>3. QED
    BY <1>1, <2>2, FS_Subset, FS_CardinalityType
<1>3. \A l \in Phase : \A q \in LineageOf(plan, l) : plan[q].limit \in Nat
  BY Entries DEF LineageOf, InPlan, IInv
<1>4. QED
  BY <1>1, <1>2, <1>3 DEF IInv, LineageBudget

\* mark_phase_exhausted_if_needed only touches phases that failed.
Exhausting(status) ==
  /\ status \in [Phase -> Status]
  /\ \A q \in Phase : status[q] = st[q] \/ (status[q] = "phase_failed" /\ st[q] \in Retryable)

LEMMA MarkedIsExhausting ==
  ASSUME IInv
  PROVE  Exhausting(Marked) /\ Exhausting(st)
<1>1. \A q \in Exhausted : st[q] \in Retryable
  BY DEF Exhausted, PhaseSpent
<1>2. QED
  BY <1>1 DEF Exhausting, Marked, IInv, TypeOK, Status, Terminal

\* A gate of the start refuses, or the pacing sleep begins.
LEMMA NoStartHolds ==
  ASSUME IInv, NEW status, Exhausting(status), st' = status,
         UNCHANGED <<plan, superseded, att, evid, ledger, transport, starts, lost,
                     wk, consent, born, runs>>,
         pc \in {"idle", "dispatch", "pace"},
         \/ Idle
         \/ /\ pc' = "pace" /\ cur' \in InPlan /\ UNCHANGED cand
            /\ born < MaxWorkers /\ consent = "approved" /\ ~LineageSpent(plan, plan[cur'])
  PROVE  IInv'
<1>1. pc' \in {"idle", "pace"} /\ cand' \in {cand, NoCand} /\ cur' \in InPlan \cup {None}
      /\ (pc' = "pace" => /\ cur' \in InPlan /\ born < MaxWorkers /\ consent = "approved"
                          /\ ~LineageSpent(plan, plan[cur']))
  BY DEF Idle
<1>2. TypeOK' /\ PlanShape' /\ AttemptShape'
  BY <1>1, Entries DEF IInv, TypeOK, PlanShape, AttemptShape, InPlan, Exhausting, LeadState
<1>3. ~LineageSpent(plan, plan[cur'])  => ~LineageSpent(plan, plan[cur])'
  BY DEF LineageSpent, LineageAttempts, LineageOf
<1>4. LeadShape'
  BY <1>1, <1>3 DEF IInv, LeadShape, InPlan
<1>5. \A q \in Phase : /\ st'[q] = "running" <=> st[q] = "running"
                       /\ st'[q] = "validated_done" <=> st[q] = "validated_done"
                       /\ st'[q] = "superseded" <=> st[q] = "superseded"
  BY DEF Exhausting, Retryable
<1>6. Running'
  BY <1>1, <1>5 DEF IInv, Running, Live
<1>7. EvidenceStands'
  <2>1. \A w \in Worker : att[w].phase # None => plan[att[w].phase].deps \subseteq Phase
    BY Entries DEF IInv, AttemptShape
  <2>2. QED
    BY <1>1, <1>5, <2>1 DEF IInv, EvidenceStands
<1>8. LineageBudget'
  BY DEF IInv, LineageBudget, LineageAttempts, LineageOf
<1>9. QED
  BY <1>2, <1>4, <1>6, <1>7, <1>8 DEF IInv

\* mark_phase_running: one more attempt, of a phase that has none running.
LEMMA ReserveHolds ==
  ASSUME IInv, NEW status, Exhausting(status), NEW p \in InPlan, Startable(p),
         ~LineageSpent(plan, plan[p]), born < MaxWorkers, Reserve(p, status),
         pc \in {"idle", "dispatch", "pace"},
         UNCHANGED <<plan, superseded, evid, ledger, transport, starts, lost, consent, runs>>
  PROVE  IInv'
<1> DEFINE w == born + 1
<1>1. /\ RouteOpen /\ born' = w /\ pc' = "start" /\ cur' = p /\ UNCHANGED cand
      /\ st' = [status EXCEPT ![p] = "running"]
      /\ att' = [att EXCEPT ![w] = [phase |-> p, s |-> "running"]]
      /\ wk' = [wk EXCEPT ![w] = "starting"]
  BY DEF Reserve
<1>2. w \in Worker /\ born \in Nat /\ p \in Phase /\ p # None
  BY Entries DEF IInv, TypeOK, Worker, Phase, None
<1>3. att[w].phase = None /\ att[w].s = "none" /\ w \notin ledger \cup lost
  BY <1>2, Entries DEF IInv, AttemptShape, TypeOK, Worker
<1>4. /\ \A v \in Worker : att'[v] = IF v = w THEN [phase |-> p, s |-> "running"] ELSE att[v]
      /\ \A v \in Worker : wk'[v] = IF v = w THEN "starting" ELSE wk[v]
      /\ \A q \in Phase : st'[q] = IF q = p THEN "running" ELSE status[q]
  BY <1>1, <1>2 DEF IInv, TypeOK, Exhausting
<1>5. st[p] \notin Terminal /\ st[p] # "running"
      /\ \A d \in plan[p].deps : st[d] = "validated_done" /\ d \in Phase /\ d # p
  BY Entries DEF Startable, DepsDone, IInv, Terminal
<1>6. TypeOK'
  <2>1. st' \in [Phase -> Status]
    BY <1>1 DEF Exhausting, Status
  <2>2. att' \in [Worker -> [phase : Phase \cup {None}, s : AttemptStatus]]
    BY <1>1, <1>2 DEF IInv, TypeOK, AttemptStatus
  <2>3. wk' \in [Worker -> WorkerState] /\ born' \in 0..MaxWorkers
    BY <1>1, <1>2 DEF IInv, TypeOK, WorkerState, Worker
  <2>4. QED
    BY <1>1, <1>2, <2>1, <2>2, <2>3 DEF IInv, TypeOK, LeadState
<1>7. PlanShape'
  BY DEF IInv, PlanShape, InPlan
<1>8. AttemptShape'
  BY <1>1, <1>2, <1>3, <1>4 DEF IInv, AttemptShape, InPlan, Worker
<1>9. LeadShape'
  BY <1>1, <1>2, <1>4 DEF IInv, LeadShape, InPlan, RouteOpen, Worker
<1>10. Running'
  <2>1. \A v \in Worker : att[v].s = "running" => att[v].phase # p
    BY <1>2, <1>5 DEF IInv, Running
  <2>2. \A q \in Phase : q # p => (st'[q] = "running" <=> st[q] = "running")
    BY <1>4 DEF Exhausting, Retryable
  <2>3. QED
    BY <1>1, <1>2, <1>3, <1>4, <2>1, <2>2 DEF IInv, Running, Live
<1>11. EvidenceStands'
  <2>1. \A q \in Phase : /\ st'[q] = "validated_done" => st[q] = "validated_done"
                         /\ st[q] \in {"validated_done", "superseded"} => st'[q] = st[q]
    BY <1>4, <1>5 DEF Exhausting, Retryable, Terminal
  <2>2. \A v \in Worker : att[v].phase # None => plan[att[v].phase].deps \subseteq Phase
    BY Entries DEF IInv, AttemptShape
  <2>3. \A q \in Phase : w \notin evid[q]
    BY <1>3 DEF IInv, EvidenceStands
  <2>4. \A v \in Worker : att'[v].phase # None =>
          \A d \in plan[att'[v].phase].deps : st'[d] \in {"validated_done", "superseded"}
    BY <1>2, <1>4, <1>5, <2>1, <2>2 DEF IInv, EvidenceStands
  <2>5. \A q \in Phase : \A v \in evid[q] : v \in Worker
    BY DEF IInv, TypeOK
  <2>6. QED
    BY <1>1, <1>4, <2>1, <2>3, <2>4, <2>5 DEF IInv, EvidenceStands
<1>12. LineageBudget'
  <2> DEFINE l == plan[p].lineage
  <2>1. LineageAttempts(plan, l)' = LineageAttempts(plan, l) \cup {w}
    BY <1>2, <1>3, <1>4 DEF LineageAttempts, LineageOf, InPlan, None
  <2>2. \A k \in Phase : k # l => LineageAttempts(plan, k)' = LineageAttempts(plan, k)
    BY <1>2, <1>3, <1>4 DEF LineageAttempts, LineageOf, InPlan, None
  <2>3. /\ Cardinality(LineageAttempts(plan, l)) \in Nat
        /\ Cardinality(LineageAttempts(plan, l) \cup {w}) \in Nat
        /\ Cardinality(LineageAttempts(plan, l) \cup {w})
             <= Cardinality(LineageAttempts(plan, l)) + 1
    <3>1. IsFiniteSet(LineageAttempts(plan, l)) /\ Cardinality(LineageAttempts(plan, l)) \in Nat
      BY Countable
    <3>2. QED
      BY <3>1, OneMore
  <2>4. p \in LineageOf(plan, l) /\ LineageOf(plan, l)' = LineageOf(plan, l)
    BY DEF LineageOf, InPlan
  <2>5. plan[p].limit = NoLimit \/ Cardinality(LineageAttempts(plan, l)) < plan[p].limit
    BY <2>3, Entries DEF LineageSpent, IInv
  <2>6. plan[p].limit = NoLimit \/ Cardinality(LineageAttempts(plan, l))' <= plan[p].limit
    <3>1. \/ plan[p].limit = NoLimit
          \/ Cardinality(LineageAttempts(plan, l) \cup {w}) <= plan[p].limit
      BY <2>3, <2>5, Entries DEF IInv
    <3>2. QED
      BY <3>1, <2>1
  <2>7. \A k \in Phase : LineageOf(plan, k)' = LineageOf(plan, k)
    BY DEF LineageOf
  <2>8. QED
    BY <2>2, <2>4, <2>6, <2>7 DEF IInv, LineageBudget
<1>13. QED
  BY <1>6, <1>7, <1>8, <1>9, <1>10, <1>11, <1>12 DEF IInv

LEMMA DispatchHolds ==
  ASSUME IInv, NEW p \in Phase, Dispatch(p)
  PROVE  IInv'
<1>1. /\ p \in InPlan /\ born < MaxWorkers /\ pc \in {"idle", "dispatch", "pace"}
      /\ Startable(p) /\ ~LineageSpent(plan, plan[p]) /\ consent = "approved"
      /\ UNCHANGED <<plan, superseded, evid, ledger, transport, starts, lost, consent, runs>>
  BY DEF Dispatch, Ready
<1>2. CASE Reserve(p, Marked)
  BY <1>1, <1>2, ReserveHolds, MarkedIsExhausting
<1>3. CASE Refuse(Marked)
  BY <1>1, <1>3, NoStartHolds, MarkedIsExhausting DEF Refuse
<1>4. CASE st' = Marked /\ pc' = "pace" /\ cur' = p /\ UNCHANGED <<att, wk, born, cand, seen>>
  BY <1>1, <1>4, NoStartHolds, MarkedIsExhausting
<1>5. QED
  BY <1>2, <1>3, <1>4 DEF Dispatch

LEMMA PaceOverHolds ==
  ASSUME IInv, PaceOver
  PROVE  IInv'
<1>1. /\ pc \in {"idle", "dispatch", "pace"} /\ cur \in InPlan
      /\ born < MaxWorkers /\ ~LineageSpent(plan, plan[cur])
      /\ UNCHANGED <<plan, superseded, evid, ledger, transport, starts, lost, consent, runs>>
  BY DEF PaceOver, IInv, LeadShape
<1>2. CASE Reserve(cur, st) /\ Startable(cur)
  BY <1>1, <1>2, ReserveHolds, MarkedIsExhausting
<1>3. CASE Refuse(st)
  BY <1>1, <1>3, NoStartHolds, MarkedIsExhausting DEF Refuse
<1>4. QED
  BY <1>2, <1>3 DEF PaceOver

\* cancel_phase_running_reservation: the attempt of a failed start is withdrawn.
LEMMA RollbackHolds ==
  ASSUME IInv, pc = "start", Rollback,
         UNCHANGED <<plan, superseded, evid, ledger, lost, consent, born, runs>>,
         transport' \in Transport, starts' \in [Signature -> 0..MaxStartFailures],
         pc' \in {"idle", "probe", "closing"}, cand' \in {cand, NoCand}, cur' = None
  PROVE  IInv'
<1>1. /\ born \in Worker /\ wk[born] = "starting" /\ cur \in InPlan /\ cur \in Phase
      /\ att[born].phase = cur /\ att[born].s = "running"
  BY Entries DEF IInv, LeadShape
<1>2. /\ \A v \in Worker : att'[v] = IF v = born THEN NoAttempt ELSE att[v]
      /\ \A v \in Worker : wk'[v] = IF v = born THEN "none" ELSE wk[v]
      /\ \A q \in Phase : st'[q] = IF q = cur THEN "pending" ELSE st[q]
  BY <1>1 DEF Rollback, IInv, TypeOK
<1>3. TypeOK'
  <2>1. att' \in [Worker -> [phase : Phase \cup {None}, s : AttemptStatus]]
    BY <1>1 DEF Rollback, IInv, TypeOK, AttemptStatus, NoAttempt
  <2>2. st' \in [Phase -> Status] /\ wk' \in [Worker -> WorkerState]
    BY <1>1 DEF Rollback, IInv, TypeOK, Status, WorkerState
  <2>3. QED
    BY <2>1, <2>2 DEF IInv, TypeOK, LeadState
<1>4. PlanShape'
  BY DEF IInv, PlanShape, InPlan
<1>5. AttemptShape'
  BY <1>1, <1>2 DEF IInv, AttemptShape, InPlan, NoAttempt
<1>6. LeadShape'
  BY <1>1, <1>2 DEF IInv, LeadShape
<1>7. st[cur] = "running"
  BY <1>1 DEF IInv, Running
<1>8. Running'
  BY <1>1, <1>2, <1>7 DEF IInv, Running, Live, NoAttempt
<1>9. EvidenceStands'
  <2>1. \A q \in Phase : /\ st'[q] = "validated_done" <=> st[q] = "validated_done"
                         /\ st'[q] = "superseded" <=> st[q] = "superseded"
    BY <1>2, <1>7
  <2>2. \A v \in Worker : att[v].phase # None => plan[att[v].phase].deps \subseteq Phase
    BY Entries DEF IInv, AttemptShape
  <2>3. \A q \in Phase : born \notin evid[q]
    BY <1>1 DEF IInv, EvidenceStands
  <2>4. \A q \in Phase : \A v \in evid[q] : v \in Worker
    BY DEF IInv, TypeOK
  <2>5. QED
    BY <1>2, <2>1, <2>2, <2>3, <2>4 DEF IInv, EvidenceStands, NoAttempt
<1>10. LineageBudget'
  BY <1>2, FewerAttempts DEF NoAttempt
<1>11. QED
  BY <1>3, <1>4, <1>5, <1>6, <1>8, <1>9, <1>10 DEF IInv

LEMMA StartEndsHolds ==
  ASSUME IInv, StartRefused \/ \E k \in Signature : StartFails(k)
  PROVE  IInv'
<1>1. /\ pc = "start" /\ Rollback
      /\ UNCHANGED <<plan, superseded, evid, ledger, lost, consent, born, runs>>
      /\ pc' \in {"idle", "probe"} /\ cand' \in {cand, NoCand} /\ cur' = None
      /\ transport' \in Transport
  BY DEF StartRefused, StartFails, Idle, IInv, TypeOK, Transport
<1>2. starts' \in [Signature -> 0..MaxStartFailures]
  <2>1. /\ starts \in [Signature -> 0..MaxStartFailures]
        /\ \A k \in Signature : starts[k] < MaxStartFailures
    BY <1>1 DEF IInv, TypeOK, LeadShape, RouteOpen
  <2>2. CASE StartRefused
    BY <2>1, <2>2 DEF StartRefused
  <2>3. CASE \E k \in Signature : StartFails(k)
    <3>1. PICK k \in Signature : starts' = [starts EXCEPT ![k] = starts[k] + 1]
      BY <2>3 DEF StartFails
    <3>2. starts[k] + 1 \in 0..MaxStartFailures
      BY ONLY <2>1, k \in Signature, ConstantsAssumption
    <3>3. QED
      BY ONLY <2>1, <3>1, <3>2, k \in Signature
  <2>4. QED
    BY <2>2, <2>3
<1>3. QED
  BY <1>1, <1>2, RollbackHolds

LEMMA ShutdownHolds ==
  ASSUME IInv, Shutdown
  PROVE  IInv'
<1>1. /\ pc \notin {"dispatch", "closing", "down"} /\ pc' = "closing" /\ cand' = NoCand /\ cur' = None
      /\ UNCHANGED <<plan, superseded, evid, ledger, transport, starts, lost, consent, born, runs>>
  BY DEF Shutdown
<1>2. CASE pc = "start"
  BY <1>1, <1>2, RollbackHolds DEF Shutdown, IInv, TypeOK
<1>3. CASE pc # "start"
  <2>1. UNCHANGED <<att, st, wk>>
    BY <1>3 DEF Shutdown
  <2>2. TypeOK'
    BY <1>1, <2>1 DEF IInv, TypeOK, LeadState
  <2>3. LeadShape'
    BY <1>1, <1>3, <2>1 DEF IInv, LeadShape
  <2>4. QED
    BY <1>1, <2>1, <2>2, <2>3, BooksKept DEF IInv, Books, Live
<1>4. QED
  BY <1>2, <1>3

-----------------------------------------------------------------------------
\* Accepting an assignment: the plan grows at its end, and what it replaces is
\* superseded, whatever it had become.
LEMMA AcceptHolds ==
  ASSUME IInv, Accept
  PROVE  IInv'
<1> DEFINE ps == Append(plan, cand)
           n == Len(plan) + 1
<1>1. /\ pc = "approve" /\ Committable(ps) /\ plan' = ps /\ pc' = "dispatch"
      /\ st' = [p \in Phase |-> IF p \in Replaced(ps) THEN "superseded"
                                ELSE IF p = Len(ps) THEN "pending" ELSE st[p]]
      /\ superseded' = superseded \cup Replaced(ps)
      /\ cur' = Len(ps) /\ cand' = NoCand /\ consent' = "approved"
      /\ UNCHANGED <<att, evid, ledger, transport, starts, lost, wk, born, runs>>
  BY DEF Accept
<1>2. cand \in Assignment /\ Len(plan) < MaxPhases /\ cand.deps \subseteq InPlan
      /\ cand.replaces \in InPlan \cup {None}
  BY <1>1 DEF IInv, LeadShape
<1>3. /\ Len(ps) = n /\ n \in Phase /\ n \notin InPlan /\ InPlan' = InPlan \cup {n}
      /\ \A i \in InPlan : plan'[i] = plan[i]
      /\ plan'[n] = cand /\ plan' \in Seq(Assignment)
  BY <1>1, <1>2, Entries DEF IInv, TypeOK, InPlan, Phase
<1>4. Replaced(ps) \subseteq InPlan
  BY <1>1, <1>2, <1>3 DEF Replaced, IInv, PlanShape, InPlan
<1>5. /\ \A q \in Replaced(ps) : st[q] # "running" /\ st'[q] = "superseded"
      /\ \A q \in Phase : q \notin Replaced(ps) => st'[q] = IF q = n THEN "pending" ELSE st[q]
  BY <1>1, <1>3, <1>4, Entries DEF Committable, IInv
<1>6. TypeOK'
  <2>1. st' \in [Phase -> Status] /\ superseded' \subseteq Phase
    BY <1>1, <1>4, Entries DEF IInv, TypeOK, Status, Terminal
  <2>2. Len(plan') <= MaxPhases /\ cur' \in Phase /\ plan' \in Seq(Assignment)
    BY <1>1, <1>2, <1>3, Entries DEF IInv
  <2>3. UNCHANGED <<att, evid, ledger, transport, starts, lost, wk, born, runs>>
        /\ pc' = "dispatch" /\ cand' = NoCand /\ consent' = "approved"
    BY <1>1
  <2>4. QED
    BY <2>1, <2>2, <2>3 DEF IInv, TypeOK, LeadState
<1>7. PlanShape'
  BY <1>2, <1>3 DEF IInv, PlanShape
<1>8. AttemptShape'
  BY <1>1, <1>3 DEF IInv, AttemptShape
<1>9. LeadShape'
  BY <1>1, <1>3 DEF IInv, LeadShape
<1>10. \A w \in Worker : att[w].phase # n
  BY <1>3 DEF IInv, AttemptShape, Phase, None
<1>11. Running'
  <2>1. \A q \in Phase : st'[q] = "running" <=> st[q] = "running"
    BY <1>3, <1>4, <1>5, <1>10 DEF IInv, Running
  <2>2. QED
    BY <1>1, <2>1 DEF IInv, Running, Live
<1>12. EvidenceStands'
  <2>1. \A q \in Phase : st'[q] = "validated_done" => st[q] = "validated_done"
    BY <1>4, <1>5, Entries DEF IInv
  <2>2. \A q \in InPlan : st[q] \in {"validated_done", "superseded"}
                            => st'[q] \in {"validated_done", "superseded"}
    BY <1>3, <1>5, Entries DEF IInv
  <2>3. \A w \in Worker : att[w].phase # None => /\ plan'[att[w].phase] = plan[att[w].phase]
                                                 /\ plan[att[w].phase].deps \subseteq InPlan
    BY <1>3 DEF IInv, AttemptShape, PlanShape
  <2>4. QED
    BY <1>1, <2>1, <2>2, <2>3 DEF IInv, EvidenceStands
<1>13. LineageBudget'
  <2>1. \A l \in Phase : /\ LineageOf(plan, l) \subseteq LineageOf(plan, l)'
                         /\ LineageAttempts(plan, l)' = LineageAttempts(plan, l)
    BY <1>1, <1>3, <1>10 DEF LineageOf, LineageAttempts, InPlan
  <2>2. \A l \in Phase : \A q \in LineageOf(plan, l) : plan'[q] = plan[q]
    BY <1>3 DEF LineageOf, InPlan
  <2>3. QED
    BY <2>1, <2>2 DEF IInv, LineageBudget
<1>14. QED
  BY <1>6, <1>7, <1>8, <1>9, <1>11, <1>12, <1>13 DEF IInv

-----------------------------------------------------------------------------
\* The end of an attempt.

\* A live worker's attempt ends: its phase takes a status that is not "running",
\* and is done only with the artifact the worker has just left.
LEMMA AttemptEndsHolds ==
  ASSUME IInv, NEW w \in Worker, wk[w] = "running", NEW now \in Status, NEW raw \in AttemptStatus,
         now # "running", raw \notin {"none", "running"},
         att' = [att EXCEPT ![w].s = raw], st' = [st EXCEPT ![att[w].phase] = now],
         NEW over \in WorkerState, over \notin Live \cup {"none"}, wk' = [wk EXCEPT ![w] = over],
         \/ UNCHANGED <<evid, ledger>> /\ now # "validated_done"
         \/ /\ raw # "interrupted"
            /\ evid' = [evid EXCEPT ![att[w].phase] = @ \cup {w}] /\ ledger' = ledger \cup {w},
         UNCHANGED <<plan, superseded, transport, starts, lost, pc, cand, cur, consent, born, runs>>
  PROVE  IInv'
<1> DEFINE p == att[w].phase
<1>1. att[w].s = "running" /\ p \in InPlan /\ p \in Phase /\ p # None /\ w <= born
      /\ w \notin ledger \cup lost /\ st[p] = "running"
  BY Entries DEF IInv, Running, AttemptShape, Live, TypeOK, Worker
<1>2. /\ \A v \in Worker : att'[v].phase = att[v].phase /\ att'[v].s = IF v = w THEN raw ELSE att[v].s
      /\ \A v \in Worker : wk'[v] = IF v = w THEN over ELSE wk[v]
      /\ \A q \in Phase : st'[q] = IF q = p THEN now ELSE st[q]
  BY <1>1 DEF IInv, TypeOK
<1>3. /\ ledger \subseteq ledger' /\ ledger' \subseteq ledger \cup {w}
      /\ \A q \in Phase : \A v \in evid'[q] : v \in evid[q] \/ (v = w /\ q = p /\ w \in ledger' /\ raw # "interrupted")
      /\ \A q \in Phase : evid[q] \subseteq evid'[q]
      /\ now = "validated_done" => w \in evid'[p]
      /\ evid' \in [Phase -> SUBSET Worker] /\ ledger' \subseteq Worker
  <2>1. CASE UNCHANGED <<evid, ledger>> /\ now # "validated_done"
    BY <2>1 DEF IInv, TypeOK
  <2>2. CASE /\ raw # "interrupted"
             /\ evid' = [evid EXCEPT ![p] = @ \cup {w}] /\ ledger' = ledger \cup {w}
    <3>1. \A q \in Phase : evid'[q] = IF q = p THEN evid[q] \cup {w} ELSE evid[q]
      BY <1>1, <2>2 DEF IInv, TypeOK
    <3>2. evid' \in [Phase -> SUBSET Worker] /\ ledger' \subseteq Worker
      BY <1>1, <2>2 DEF IInv, TypeOK
    <3>3. QED
      BY <1>1, <2>2, <3>1, <3>2
  <2>3. QED
    BY <2>1, <2>2
<1>4. TypeOK'
  <2>1. att' \in [Worker -> [phase : Phase \cup {None}, s : AttemptStatus]]
    BY DEF IInv, TypeOK
  <2>2. st' \in [Phase -> Status] /\ wk' \in [Worker -> WorkerState]
    BY DEF IInv, TypeOK
  <2>3. QED
    BY <1>3, <2>1, <2>2 DEF IInv, TypeOK
<1>5. PlanShape'
  BY DEF IInv, PlanShape, InPlan
<1>6. AttemptShape'
  BY <1>1, <1>2, <1>3 DEF IInv, AttemptShape, InPlan
<1>7. LeadShape'
  <2>1. pc # "start" \/ w # born
    BY DEF IInv, LeadShape
  <2>2. pc = "start" => att'[born] = att[born] /\ wk'[born] = wk[born]
    BY <1>2, <2>1 DEF IInv, LeadShape, TypeOK
  <2>3. ~LineageSpent(plan, plan[cur]) => ~LineageSpent(plan, plan[cur])'
    <3>1. \A l : LineageAttempts(plan, l)' = LineageAttempts(plan, l)
      BY <1>2 DEF LineageAttempts, LineageOf
    <3>2. QED
      BY <3>1 DEF LineageSpent
  <2>4. QED
    BY <1>1, <1>2, <2>2, <2>3 DEF IInv, LeadShape, InPlan, RouteOpen, Live
<1>8. Running'
  BY <1>1, <1>2 DEF IInv, Running, Live
<1>9. EvidenceStands'
  <2>1. \A v \in Worker : att[v].phase # None => plan[att[v].phase].deps \subseteq Phase
    BY Entries DEF IInv, AttemptShape
  <2>2. \A v \in Worker : att'[v].phase # None =>
          \A d \in plan[att'[v].phase].deps : st'[d] \in {"validated_done", "superseded"}
    BY <1>1, <1>2, <2>1 DEF IInv, EvidenceStands
  <2>3. \A q \in Phase : st'[q] = "validated_done" => evid'[q] # {}
    BY <1>2, <1>3 DEF IInv, EvidenceStands
  <2>4. \A q \in Phase : \A v \in evid'[q] :
          v \in ledger' /\ att'[v].phase = q /\ att'[v].s \notin {"running", "interrupted"}
    <3>1. \A q \in Phase : \A v \in evid[q] : v \in Worker /\ v # w
      BY <1>1 DEF IInv, EvidenceStands, TypeOK
    <3>2. QED
      BY <1>2, <1>3, <3>1 DEF IInv, EvidenceStands
  <2>5. pc # "down" => \A q \in Phase : evid'[q] \cap lost = {}
    BY <1>1, <1>3 DEF IInv, EvidenceStands
  <2>6. QED
    BY <2>2, <2>3, <2>4, <2>5 DEF EvidenceStands
<1>10. LineageBudget'
  BY <1>2, FewerAttempts
<1>11. QED
  BY <1>4, <1>5, <1>6, <1>7, <1>8, <1>9, <1>10 DEF IInv

LEMMA WorkerReturnsHolds ==
  ASSUME IInv, NEW w \in Worker, NEW o \in Outcomes, WorkerReturns(w, o)
  PROVE  IInv'
<1>1. /\ o.raw \in {"done", "partial", "failed", "hitl_required", "page_continuation_lost"}
      /\ o.verdict \in {"done", "failed", "contract_invalid", "unchecked"}
  BY ConstantsAssumption
<1>2. /\ ResultStatus(o) \in Status /\ ResultStatus(o) # "running"
      /\ o.raw \in AttemptStatus /\ o.raw \notin {"none", "running", "interrupted"}
      /\ ResultStatus(o) = "validated_done" => Validated(o)
  BY <1>1 DEF ResultStatus, Status, Terminal, Retryable, Reactivatable, AttemptStatus
<1>3. PICK over \in {"returned", "returned_fatal"} : wk' = [wk EXCEPT ![w] = over]
  BY DEF WorkerReturns
<1>4. over \in WorkerState /\ over \notin Live \cup {"none"}
  BY DEF WorkerState, Live
<1>5. CASE Validated(o)
  <2>1. /\ wk[w] = "running"
        /\ att' = [att EXCEPT ![w].s = o.raw] /\ st' = [st EXCEPT ![att[w].phase] = ResultStatus(o)]
        /\ UNCHANGED <<plan, superseded, transport, starts, lost, pc, cand, cur, consent, born, runs>>
    BY DEF WorkerReturns
  <2>2. evid' = [evid EXCEPT ![att[w].phase] = @ \cup {w}] /\ ledger' = ledger \cup {w}
    BY <1>5 DEF WorkerReturns
  <2>3. QED
    BY <1>2, <1>3, <1>4, <2>1, <2>2, AttemptEndsHolds
<1>6. CASE ~Validated(o)
  <2>1. /\ wk[w] = "running" /\ UNCHANGED <<evid, ledger>>
        /\ att' = [att EXCEPT ![w].s = o.raw] /\ st' = [st EXCEPT ![att[w].phase] = ResultStatus(o)]
        /\ UNCHANGED <<plan, superseded, transport, starts, lost, pc, cand, cur, consent, born, runs>>
    BY <1>6 DEF WorkerReturns
  <2>2. ResultStatus(o) # "validated_done"
    BY <1>2, <1>6
  <2>3. QED
    BY <1>2, <1>3, <1>4, <2>1, <2>2, AttemptEndsHolds
<1>7. QED
  BY <1>5, <1>6

LEMMA CancelRecordedHolds ==
  ASSUME IInv, NEW w \in Worker, CancelRecorded(w)
  PROVE  IInv'
<1>1. "cancelled" \in Status /\ "cancelled" \in AttemptStatus /\ "seen" \in WorkerState
      /\ "seen" \notin Live \cup {"none"}
  BY DEF Status, Retryable, AttemptStatus, WorkerState, Live
<1>2. QED
  BY <1>1, AttemptEndsHolds DEF CancelRecorded

LEMMA RevalidateHolds ==
  ASSUME IInv, NEW p \in Phase, NEW ws \in SUBSET Worker, Revalidate(p, ws)
  PROVE  IInv'
<1>1. /\ pc = "idle" /\ st[p] \in Revalidatable /\ ws # {} /\ ws \cap lost = {}
      /\ \A w \in ws : att[w].phase = p /\ att[w].s \notin {"running", "interrupted"}
      /\ st' = [st EXCEPT ![p] = "validated_done"]
      /\ evid' = [evid EXCEPT ![p] = ws] /\ ledger' = ledger \cup ws
      /\ UNCHANGED <<plan, superseded, att, transport, starts, lost, pc, cand, seen, cur,
                     wk, consent, born, runs>>
  BY DEF Revalidate, process
<1>2. /\ \A q \in Phase : st'[q] = IF q = p THEN "validated_done" ELSE st[q]
      /\ \A q \in Phase : evid'[q] = IF q = p THEN ws ELSE evid[q]
  BY <1>1 DEF IInv, TypeOK
<1>3. st[p] # "running" /\ p # None
  BY <1>1, ConstantsAssumption DEF Revalidatable, Phase, None
<1>4. TypeOK'
  <2>1. /\ st' \in [Phase -> Status] /\ evid' \in [Phase -> SUBSET Worker]
        /\ ledger' \subseteq Worker
    BY <1>1 DEF IInv, TypeOK, Status, Terminal
  <2>2. QED
    BY <1>1, <2>1 DEF IInv, TypeOK
<1>5. PlanShape' /\ LeadShape'
  BY <1>1 DEF IInv, PlanShape, LeadShape, InPlan
<1>6. AttemptShape'
  BY <1>1, <1>3 DEF IInv, AttemptShape, InPlan, Worker, TypeOK
<1>7. Running'
  BY <1>1, <1>2, <1>3 DEF IInv, Running
<1>8. EvidenceStands'
  <2>1. \A v \in Worker : att[v].phase # None => plan[att[v].phase].deps \subseteq Phase
    BY Entries DEF IInv, AttemptShape
  <2>2. QED
    BY <1>1, <1>2, <2>1 DEF IInv, EvidenceStands
<1>9. LineageBudget'
  BY <1>1, FewerAttempts
<1>10. QED
  BY <1>4, <1>5, <1>6, <1>7, <1>8, <1>9 DEF IInv

-----------------------------------------------------------------------------
\* The next process.

\* A phase that uses a withdrawn phase is withdrawn (_resume_downstream_map).
LEMMA Downstream ==
  /\ Direct \subseteq Invalidated /\ Invalidated \subseteq InPlan
  /\ \A q \in InPlan : plan[q].deps \cap Invalidated # {} => q \in Invalidated
<1>1. \A q \in InPlan : plan[q].deps \cap Invalidated # {} => q \in Invalidated
  <2>1. SUFFICES ASSUME NEW q \in InPlan, NEW d \in plan[q].deps \cap Invalidated,
                        NEW S \in SUBSET InPlan, Direct \subseteq S,
                        \A r \in InPlan : plan[r].deps \cap S # {} => r \in S
                 PROVE  q \in S
    BY DEF Invalidated
  <2>2. d \in S
    BY <2>1 DEF Invalidated
  <2>3. QED
    BY <2>1, <2>2
<1>2. Direct \subseteq Invalidated /\ Invalidated \subseteq InPlan
  BY DEF Direct, Invalidated
<1>3. QED
  BY <1>1, <1>2

LEMMA ResumeHolds ==
  ASSUME IInv, Resume
  PROVE  IInv'
<1>1. /\ pc = "down" /\ pc' = "idle" /\ cand' = NoCand /\ cur' = None /\ consent' = "approved"
      /\ runs' = runs + 1
      /\ st' = [p \in Phase |-> IF p \in Invalidated \/ st[p] \in {"running"} \cup Reactivatable
                                THEN "pending" ELSE st[p]]
      /\ superseded' = superseded \ Invalidated
      /\ att' = [w \in Worker |-> IF att[w].phase \in Invalidated THEN NoAttempt
                                  ELSE IF att[w].s = "running" THEN [att[w] EXCEPT !.s = "interrupted"]
                                  ELSE att[w]]
      /\ evid' = [p \in Phase |-> IF p \in Invalidated THEN {} ELSE evid[p]]
      /\ UNCHANGED <<plan, transport, starts, lost, wk, born>>
  BY DEF Resume, Idle
<1>2. /\ ledger' \subseteq ledger \ lost
      /\ \A p \in Phase \ Invalidated : \A w \in evid[p] : w \in ledger \ lost => w \in ledger'
  BY DEF Resume
<1>3. /\ \A p \in Phase : st'[p] = IF p \in Invalidated \/ st[p] \in {"running"} \cup Reactivatable
                                   THEN "pending" ELSE st[p]
      /\ \A p \in Phase : evid'[p] = IF p \in Invalidated THEN {} ELSE evid[p]
      /\ \A w \in Worker :
           \/ att[w].phase \in Invalidated /\ att'[w].phase = None /\ att'[w].s = "none"
           \/ /\ att[w].phase \notin Invalidated /\ att'[w].phase = att[w].phase
              /\ att'[w].s = IF att[w].s = "running" THEN "interrupted" ELSE att[w].s
  <2>1. ASSUME NEW w \in Worker
        PROVE  \/ att[w].phase \in Invalidated /\ att'[w].phase = None /\ att'[w].s = "none"
               \/ /\ att[w].phase \notin Invalidated /\ att'[w].phase = att[w].phase
                  /\ att'[w].s = IF att[w].s = "running" THEN "interrupted" ELSE att[w].s
    <3>1. att'[w] = IF att[w].phase \in Invalidated THEN NoAttempt
                    ELSE IF att[w].s = "running" THEN [att[w] EXCEPT !.s = "interrupted"]
                    ELSE att[w]
      BY <1>1
    <3>2. att[w] \in [phase : Phase \cup {None}, s : AttemptStatus]
      BY DEF IInv, TypeOK
    <3>3. QED
      BY <3>1, <3>2 DEF NoAttempt
  <2>2. QED
    BY <1>1, <2>1
<1>4. \A w \in Worker : wk[w] = "none"
  BY <1>1 DEF IInv, LeadShape
<1>5. \A w \in Worker : att'[w].s # "running"
                        /\ (att'[w].phase # None => /\ att'[w].phase = att[w].phase
                                                    /\ att[w].phase \in InPlan \ Invalidated)
  BY <1>3 DEF IInv, AttemptShape
<1>6. TypeOK'
  <2>1. st' \in [Phase -> Status] /\ superseded' \subseteq Phase
    BY <1>1 DEF IInv, TypeOK, Status
  <2>2. att' \in [Worker -> [phase : Phase \cup {None}, s : AttemptStatus]]
    <3>1. ASSUME NEW w \in Worker
          PROVE  (IF att[w].phase \in Invalidated THEN NoAttempt
                  ELSE IF att[w].s = "running" THEN [att[w] EXCEPT !.s = "interrupted"]
                  ELSE att[w]) \in [phase : Phase \cup {None}, s : AttemptStatus]
      <4>1. att[w] \in [phase : Phase \cup {None}, s : AttemptStatus]
        BY DEF IInv, TypeOK
      <4>2. QED
        BY <4>1 DEF AttemptStatus, NoAttempt
    <3>2. QED
      BY <1>1, <3>1
  <2>3. evid' \in [Phase -> SUBSET Worker] /\ ledger' \subseteq Worker
    BY <1>1, <1>2 DEF IInv, TypeOK
  <2>4. QED
    BY <1>1, <2>1, <2>2, <2>3 DEF IInv, TypeOK, LeadState
<1>7. PlanShape' /\ LeadShape'
  BY <1>1, <1>4 DEF IInv, PlanShape, LeadShape, InPlan
<1>8. AttemptShape'
  BY <1>1, <1>2, <1>3, <1>5 DEF IInv, AttemptShape, InPlan, NoAttempt
<1>9. Running'
  <2>1. \A p \in Phase : st'[p] # "running"
    BY <1>3
  <2>2. QED
    BY <1>1, <1>4, <1>5, <2>1 DEF Running, Live
<1>10. EvidenceStands'
  <2>1. \A p \in Phase : \A w \in evid'[p] :
          /\ w \in Worker /\ w \in evid[p] /\ p \notin Invalidated
          /\ w \in ledger /\ att[w].phase = p /\ att[w].s \notin {"running", "interrupted"}
    BY <1>3 DEF IInv, EvidenceStands, TypeOK
  <2>2. \A p \in Phase : \A w \in evid'[p] : p \in InPlan /\ w \notin lost
    <3>1. SUFFICES ASSUME NEW p \in Phase, NEW w \in evid'[p]
                   PROVE  p \in InPlan /\ w \notin lost
      OBVIOUS
    <3>2. p \in InPlan
      BY <2>1, ConstantsAssumption DEF IInv, AttemptShape, Phase, None
    <3>3. p \notin Direct
      BY <2>1, Downstream
    <3>4. QED
      BY <2>1, <3>2, <3>3 DEF Direct
  <2>3. \A p \in Phase : st'[p] = "validated_done" => evid'[p] # {}
    BY <1>3 DEF IInv, EvidenceStands
  <2>4. \A p \in Phase : \A w \in evid'[p] :
          w \in ledger' /\ att'[w].phase = p /\ att'[w].s \notin {"running", "interrupted"}
    BY <1>2, <1>3, <2>1, <2>2
  <2>5. \A w \in Worker : att'[w].phase # None =>
          \A d \in plan[att'[w].phase].deps : st'[d] \in {"validated_done", "superseded"}
    <3>1. SUFFICES ASSUME NEW w \in Worker, att'[w].phase # None,
                          NEW d \in plan[att'[w].phase].deps
                   PROVE  st'[d] \in {"validated_done", "superseded"}
      OBVIOUS
    <3>2. att'[w].phase = att[w].phase /\ att[w].phase \in InPlan \ Invalidated
      BY <1>5, <3>1
    <3>3. d \in Phase /\ d \notin Invalidated
      BY <3>2, Entries, Downstream DEF IInv
    <3>4. st[d] \in {"validated_done", "superseded"}
      BY <3>1, <3>2 DEF IInv, EvidenceStands
    <3>5. QED
      BY <1>3, <3>3, <3>4 DEF Reactivatable
  <2>6. QED
    BY <1>1, <2>2, <2>3, <2>4, <2>5 DEF EvidenceStands
<1>11. LineageBudget'
  BY <1>1, <1>5, FewerAttempts
<1>12. QED
  BY <1>6, <1>7, <1>8, <1>9, <1>10, <1>11 DEF IInv

-----------------------------------------------------------------------------
LEMMA InitHolds == Init => IInv
<1> SUFFICES ASSUME Init PROVE IInv
  OBVIOUS
<1>1. InPlan = {} /\ Len(plan) = 0
  BY DEF Init, InPlan
<1>2. TypeOK
  BY <1>1, ConstantsAssumption DEF Init, TypeOK, Status, Worker, Phase, None, NoAttempt, AttemptStatus, Transport,
     Signature, NoFailures, LeadState, WorkerState
<1>3. PlanShape /\ AttemptShape /\ LeadShape /\ Running /\ EvidenceStands
  BY <1>1 DEF Init, PlanShape, AttemptShape, LeadShape, Running, EvidenceStands, NoAttempt, Live, None
<1>4. LineageBudget
  BY <1>1 DEF Init, LineageBudget, LineageAttempts, LineageOf
<1>5. QED
  BY <1>2, <1>3, <1>4 DEF IInv

LEMMA StepHolds == IInv /\ [Next]_vars => IInv'
<1> SUFFICES ASSUME IInv, [Next]_vars PROVE IInv'
  OBVIOUS
<1>1. CASE \E deps \in SUBSET Phase, replaces \in Phase \cup {None}, limit \in Limits :
             Propose(deps, replaces, limit)
  BY <1>1, ProposeHolds
<1>2. CASE ReviewApproved \/ ReviewRefused \/ NotAccepted
  BY <1>2, ReviewHolds
<1>3. CASE Accept
  BY <1>3, AcceptHolds
<1>4. CASE \E p \in Phase : Dispatch(p)
  BY <1>4, DispatchHolds
<1>5. CASE PaceOver \/ StartSucceeds
  BY <1>5, PaceOverHolds, StartSucceedsHolds
<1>6. CASE StartRefused \/ \E k \in Signature : StartFails(k)
  BY <1>6, StartEndsHolds
<1>7. CASE \E w \in Worker, o \in Outcomes : WorkerReturns(w, o)
  BY <1>7, WorkerReturnsHolds
<1>8. CASE \E ws \in SUBSET Worker : Wait(ws)
  BY <1>8, WaitHolds
<1>9. CASE Refresh \/ \E ready \in BOOLEAN : ProbeDone(ready)
  BY <1>9, ProbeHolds
<1>10. CASE \E p \in Phase, ws \in SUBSET Worker : Revalidate(p, ws)
  BY <1>10, RevalidateHolds
<1>11. CASE Shutdown \/ Resume
  BY <1>11, ShutdownHolds, ResumeHolds
<1>12. CASE Closed \/ Crash \/ \E w \in Worker : CancelUnrecorded(w)
  BY <1>12, StopHolds
<1>13. CASE \E w \in Worker : CancelRecorded(w) \/ LoseFile(w)
  BY <1>13, CancelRecordedHolds, LoseFileHolds
<1>14. CASE UNCHANGED vars
  <2>1. TypeOK' /\ LeadShape'
    BY <1>14 DEF vars, persisted, process, IInv, TypeOK, LeadShape, InPlan, RouteOpen,
       LineageSpent, LineageAttempts, LineageOf
  <2>2. QED
    BY <1>14, <2>1, BooksKept DEF vars, persisted, process, Books, IInv
<1>15. QED
  BY <1>1, <1>2, <1>3, <1>4, <1>5, <1>6, <1>7, <1>8, <1>9, <1>10, <1>11, <1>12, <1>13, <1>14
  DEF Next

LEMMA Invariant == Spec => []IInv
  BY InitHolds, StepHolds, PTL DEF Spec

-----------------------------------------------------------------------------
(* The ledger, the attempts, the gates and the Lead keep their types.       *)
THEOREM TypeCorrect == Spec => []TypeOK
<1>1. IInv => TypeOK
  BY DEF IInv
<1>2. QED
  BY <1>1, Invariant, PTL

(* "running" on disk means a worker of this process, and one per phase      *)
(* (mark_phase_running, mark_phase_result, prepare_resume_state).           *)
THEOREM WorkersAreReal == Spec => []RunningIsReal
<1>1. IInv => RunningIsReal
  BY DEF IInv, Running, Live, RunningIsReal, Attempts
<1>2. QED
  BY <1>1, Invariant, PTL

(* A phase is done on artifacts that its own finished workers left and that *)
(* are still there, and nothing stands on an input that is not done         *)
(* (mark_phase_result, revalidate_phase_artifacts, prepare_resume_state).   *)
THEOREM EvidenceIsThere == Spec => []EvidenceStands
<1>1. IInv => EvidenceStands
  BY DEF IInv
<1>2. QED
  BY <1>1, Invariant, PTL

(* No sequence of starts, revisions and restarts gives an assignment more   *)
(* attempts than one of its versions declares (delegation_budget).          *)
THEOREM BudgetIsKept == Spec => []LineageBudget
<1>1. IInv => LineageBudget
  BY DEF IInv
<1>2. QED
  BY <1>1, Invariant, PTL

(* The steps that change the attempts.                                      *)
LEMMA AttMoves ==
  ASSUME [Next]_vars
  PROVE  \/ \E p \in Phase : Dispatch(p)
         \/ PaceOver \/ (pc = "start" /\ Rollback) \/ Resume
         \/ \E w \in Worker, o \in Outcomes : WorkerReturns(w, o)
         \/ \E w \in Worker : CancelRecorded(w)
         \/ UNCHANGED att
<1>1. CASE \/ \E deps \in SUBSET Phase, replaces \in Phase \cup {None}, limit \in Limits :
                Propose(deps, replaces, limit)
           \/ ReviewApproved \/ ReviewRefused \/ Accept \/ NotAccepted
  <2>1. CASE \E deps \in SUBSET Phase, replaces \in Phase \cup {None}, limit \in Limits :
                Propose(deps, replaces, limit)
    BY ONLY <2>1 DEF Propose, persisted, process
  <2>2. CASE ReviewApproved \/ ReviewRefused
    BY ONLY <2>2 DEF ReviewApproved, ReviewRefused, persisted, process
  <2>3. CASE Accept \/ NotAccepted
    BY ONLY <2>3 DEF Accept, NotAccepted, persisted, process
  <2>4. QED
    BY <1>1, <2>1, <2>2, <2>3
<1>2. CASE \/ \E ws \in SUBSET Worker : Wait(ws)
           \/ Refresh
           \/ \E ready \in BOOLEAN : ProbeDone(ready)
           \/ \E p \in Phase, ws \in SUBSET Worker : Revalidate(p, ws)
  BY ONLY <1>2 DEF Wait, Refresh, ProbeDone, Revalidate, persisted, process
<1>3. CASE Shutdown \/ Closed \/ Crash
  BY ONLY <1>3 DEF Shutdown, Closed, Crash, Stopped, persisted, process
<1>4. CASE StartSucceeds \/ \E w \in Worker : CancelUnrecorded(w) \/ LoseFile(w)
  BY ONLY <1>4 DEF StartSucceeds, CancelUnrecorded, LoseFile, persisted, process
<1>5. CASE StartRefused \/ \E k \in Signature : StartFails(k)
  BY ONLY <1>5 DEF StartRefused, StartFails
<1>6. CASE UNCHANGED vars
  BY ONLY <1>6 DEF vars, persisted
<1>7. QED
  BY <1>1, <1>2, <1>3, <1>4, <1>5, <1>6 DEF Next

(* The steps that change the plan.                                          *)
LEMMA PlanMoves ==
  ASSUME [Next]_vars
  PROVE  Accept \/ UNCHANGED plan
<1>1. CASE \/ \E deps \in SUBSET Phase, replaces \in Phase \cup {None}, limit \in Limits :
                Propose(deps, replaces, limit)
           \/ ReviewApproved \/ ReviewRefused \/ NotAccepted
  <2>1. CASE \E deps \in SUBSET Phase, replaces \in Phase \cup {None}, limit \in Limits :
                Propose(deps, replaces, limit)
    BY ONLY <2>1 DEF Propose, persisted, process
  <2>2. CASE ReviewApproved \/ ReviewRefused \/ NotAccepted
    BY ONLY <2>2 DEF ReviewApproved, ReviewRefused, NotAccepted, persisted, process
  <2>3. QED
    BY <1>1, <2>1, <2>2
<1>2. CASE (\E p \in Phase : Dispatch(p)) \/ PaceOver
  BY ONLY <1>2 DEF Dispatch, PaceOver, Refuse, Reserve, persisted, process
<1>3. CASE StartSucceeds \/ StartRefused \/ \E k \in Signature : StartFails(k)
  BY ONLY <1>3 DEF StartSucceeds, StartRefused, StartFails, persisted, process
<1>4. CASE \/ \E w \in Worker, o \in Outcomes : WorkerReturns(w, o)
           \/ \E ws \in SUBSET Worker : Wait(ws)
           \/ Refresh
           \/ \E ready \in BOOLEAN : ProbeDone(ready)
           \/ \E p \in Phase, ws \in SUBSET Worker : Revalidate(p, ws)
  BY ONLY <1>4 DEF WorkerReturns, Wait, Refresh, ProbeDone, Revalidate, persisted, process
<1>5. CASE Shutdown \/ Closed \/ Crash \/ Resume
  BY ONLY <1>5 DEF Shutdown, Closed, Crash, Stopped, Resume, persisted, process
<1>6. CASE \E w \in Worker : CancelRecorded(w) \/ CancelUnrecorded(w) \/ LoseFile(w)
  BY ONLY <1>6 DEF CancelRecorded, CancelUnrecorded, LoseFile, persisted, process
<1>7. CASE UNCHANGED vars
  BY ONLY <1>7 DEF vars, persisted
<1>8. QED
  BY <1>1, <1>2, <1>3, <1>4, <1>5, <1>6, <1>7 DEF Next

(* Where an attempt begins: the gates of a start hold at that very step,    *)
(* also after a pacing sleep (spawn_browser_agent).                         *)
LEMMA Begins ==
  ASSUME IInv, [Next]_vars, NEW w \in Worker, att'[w].s = "running", att[w].s # "running"
  PROVE  \E p \in InPlan : /\ att'[w].phase = p /\ Startable(p)
                           /\ consent = "approved" /\ TransportOpen
<1>1. CASE \E p \in Phase : Dispatch(p)
  <2>1. PICK p \in Phase : Dispatch(p)
    BY <1>1
  <2>2. p \in InPlan /\ Startable(p) /\ consent = "approved"
    BY <2>1 DEF Dispatch, Ready
  <2>3. TransportOpen /\ att' = [att EXCEPT ![born + 1] = [phase |-> p, s |-> "running"]]
    BY <2>1 DEF Dispatch, Refuse, Reserve
  <2>4. QED
    BY <2>2, <2>3 DEF IInv, TypeOK
<1>2. CASE PaceOver
  <2>1. /\ Startable(cur) /\ TransportOpen
        /\ att' = [att EXCEPT ![born + 1] = [phase |-> cur, s |-> "running"]]
    BY <1>2 DEF PaceOver, Refuse, Reserve
  <2>2. cur \in InPlan /\ consent = "approved"
    BY <1>2 DEF PaceOver, IInv, LeadShape
  <2>3. QED
    BY <2>1, <2>2 DEF IInv, TypeOK
<1>3. CASE Resume
  BY <1>3 DEF Resume, IInv, TypeOK, NoAttempt
<1>4. CASE Rollback
  BY <1>4 DEF Rollback, IInv, TypeOK, NoAttempt
<1>5. CASE UNCHANGED att
  BY <1>5
<1>6. CASE \E v \in Worker, o \in Outcomes : WorkerReturns(v, o)
  <2>1. PICK v \in Worker, o \in Outcomes : att' = [att EXCEPT ![v].s = o.raw]
    BY <1>6 DEF WorkerReturns
  <2>2. o.raw # "running"
    BY ConstantsAssumption
  <2>3. QED
    BY <2>1, <2>2 DEF IInv, TypeOK
<1>7. CASE \E v \in Worker : CancelRecorded(v)
  BY <1>7 DEF CancelRecorded, IInv, TypeOK
<1>8. QED
  BY <1>1, <1>2, <1>3, <1>4, <1>5, <1>6, <1>7, AttMoves

(* An assignment is accepted on a review of the evidence of that moment, and*)
(* an attempt begins with its inputs done, approved, the transport open and *)
(* its phase free (accept_assignment, phase_start_rejection).               *)
THEOREM DecisionsAreCurrent == Spec => DecisionsHold
<1> DEFINE Accepting == plan' # plan => /\ ReviewEnabled => seen = Evidence
                                        /\ \A r \in Replaced(plan') : st[r] # "running"
           Beginning(w) == att'[w].s = "running" /\ att[w].s # "running" =>
             LET p == att'[w].phase
             IN /\ \A d \in plan[p].deps : st[d] = "validated_done"
                /\ consent = "approved" /\ TransportOpen
                /\ \A v \in Attempts(p) : att[v].s # "running"
<1>1. ASSUME IInv, [Next]_vars
      PROVE  Accepting
  <2>1. CASE Accept
    BY <2>1 DEF Accept, Fresh, Committable
  <2>2. CASE plan' = plan
    BY <2>2
  <2>3. QED
    BY <1>1, <2>1, <2>2, PlanMoves
<1>2. ASSUME IInv, [Next]_vars, NEW w \in Worker
      PROVE  Beginning(w)
  <2>1. SUFFICES ASSUME att'[w].s = "running", att[w].s # "running"
                 PROVE  /\ \A d \in plan[att'[w].phase].deps : st[d] = "validated_done"
                        /\ consent = "approved" /\ TransportOpen
                        /\ \A v \in Attempts(att'[w].phase) : att[v].s # "running"
    OBVIOUS
  <2>2. PICK p \in InPlan : /\ att'[w].phase = p /\ Startable(p)
                            /\ consent = "approved" /\ TransportOpen
    BY <1>2, <2>1, Begins
  <2>3. p \in Phase
    BY <1>2, Entries DEF IInv
  <2>4. QED
    BY <1>2, <2>2, <2>3 DEF Startable, DepsDone, Attempts, IInv, Running
<1>3. IInv /\ [Next]_vars => [Accepting /\ \A w \in Worker : Beginning(w)]_vars
  BY <1>1, <1>2
<1>4. QED
  BY <1>3, Invariant, PTL DEF Spec, DecisionsHold

(* What an attempt came to is never overwritten or dropped, except where a  *)
(* resume withdraws its phase (cancel_phase_running_reservation,            *)
(* prepare_resume_state).                                                   *)
THEOREM HistoryIsKept == Spec => HistoryKept
<1> DEFINE Kept(w) == att[w].s \notin {"none", "running"} =>
                        att'[w] = att[w] \/ (pc = "down" /\ att[w].phase \in Invalidated)
<1>1. ASSUME IInv, [Next]_vars, NEW w \in Worker, att[w].s \notin {"none", "running"}
      PROVE  att'[w] = att[w] \/ (pc = "down" /\ att[w].phase \in Invalidated)
  <2>1. w <= born
    BY <1>1 DEF IInv, AttemptShape, Worker, TypeOK
  <2>2. CASE \E p \in Phase : Dispatch(p)
    <3>1. UNCHANGED att \/ \E p \in Phase : att' = [att EXCEPT ![born + 1] = [phase |-> p, s |-> "running"]]
      BY <2>2 DEF Dispatch, Refuse, Reserve
    <3>2. w # born + 1
      BY <1>1, <2>1, ConstantsAssumption DEF IInv, TypeOK, Worker
    <3>3. QED
      BY <1>1, <3>1, <3>2 DEF IInv, TypeOK
  <2>3. CASE PaceOver
    <3>1. UNCHANGED att \/ att' = [att EXCEPT ![born + 1] = [phase |-> cur, s |-> "running"]]
      BY <2>3 DEF PaceOver, Refuse, Reserve
    <3>2. w # born + 1
      BY <1>1, <2>1, ConstantsAssumption DEF IInv, TypeOK, Worker
    <3>3. QED
      BY <1>1, <3>1, <3>2 DEF IInv, TypeOK
  <2>4. CASE pc = "start" /\ Rollback
    BY <1>1, <2>4 DEF Rollback, IInv, TypeOK, LeadShape
  <2>5. CASE \E v \in Worker, o \in Outcomes : WorkerReturns(v, o)
    BY <1>1, <2>5 DEF WorkerReturns, IInv, TypeOK, Running, Live
  <2>6. CASE \E v \in Worker : CancelRecorded(v)
    BY <1>1, <2>6 DEF CancelRecorded, IInv, TypeOK, Running, Live
  <2>7. CASE Resume
    BY <1>1, <2>7 DEF Resume, IInv, TypeOK
  <2>8. CASE UNCHANGED att
    BY <2>8
  <2>9. QED
    BY <1>1, <2>2, <2>3, <2>4, <2>5, <2>6, <2>7, <2>8, AttMoves
<1>2. IInv /\ [Next]_vars => [\A w \in Worker : Kept(w)]_vars
  BY <1>1
<1>3. QED
  BY <1>2, Invariant, PTL DEF Spec, HistoryKept
================================================================================
