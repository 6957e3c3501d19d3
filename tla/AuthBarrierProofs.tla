-------------------------- MODULE AuthBarrierProofs --------------------------
(* Theorems about AuthBarrier for every set of workers, pages and methods.  *)
EXTENDS AuthBarrier, TLAPS

(* What is needed of the records that stand for calls.                      *)
LEMMA NoCallFacts ==
  NoCall \in Call /\ NoCall.method = "none" /\ NoCall.clean
  BY DEF NoCall, Call

LEMMA NewCallFacts ==
  ASSUME TypeOK, NEW m \in AllMethods \cup {"none"}, NEW p \in Pages \cup {NoPage}
  PROVE  /\ NewCall(m, p) \in Call
         /\ NewCall(m, p).method = m /\ NewCall(m, p).clean
         /\ m = "Workflow.execute" => NewCall(m, p).started = generation
<1>1. generation \in Nat /\ epoch \in Nat
  BY DEF TypeOK, GateTypes, GhostTypes
<1>2. QED
  BY <1>1 DEF NewCall, Call

LEMMA SulliedFacts ==
  ASSUME call \in [Workers -> Call]
  PROVE  /\ Sullied(call) \in [Workers -> Call]
         /\ \A w \in Workers : /\ Sullied(call)[w].method = call[w].method
                               /\ Sullied(call)[w].started = call[w].started
                               /\ Sullied(call)[w].clean => call[w].clean
                               /\ Sullied(call)[w].clean /\ call[w].method = "Workflow.execute"
                                    => resolving
                               /\ resolving => Sullied(call)[w] = call[w]
<1>1. ASSUME NEW c \in Call
      PROVE  /\ [c EXCEPT !.clean = FALSE] \in Call
             /\ [c EXCEPT !.clean = FALSE].method = c.method
             /\ [c EXCEPT !.clean = FALSE].started = c.started
             /\ ~[c EXCEPT !.clean = FALSE].clean
  BY DEF Call
<1>2. QED
  BY <1>1 DEF Sullied

LEMMA LatchedFacts ==
  ASSUME LatchTypes, NEW w \in Workers
  PROVE  Latched(w) \in SUBSET Reads
  BY DEF LatchTypes, Latched

LEMMA ReadsHasPage == \A m \in Reads, p \in Pages \cup {NoPage} :
                        <<m, p>> \in Reads \X (Pages \cup {NoPage})
  OBVIOUS

LEMMA TypeInit == Init => TypeOK
<1> SUFFICES ASSUME Init
             PROVE  TypeOK
  OBVIOUS
<1>1. GateTypes
  BY DEF Init, GateTypes
<1>2. LatchTypes
  BY DEF Init, LatchTypes
<1>3. CallTypes
  BY NoCallFacts DEF Init, CallTypes, Phases
<1>4. GhostTypes
  BY DEF Init, GhostTypes
<1>5. QED
  BY <1>1, <1>2, <1>3, <1>4 DEF TypeOK

(* Admission changes the latch and the worker's own call.                   *)
LEMMA AdmitTypes ==
  ASSUME TypeOK, NEW w \in Workers, NEW m \in AllMethods \cup {"none"}, NEW p \in Pages \cup {NoPage},
         Admit(w, m, p)
  PROVE  /\ LatchTypes'
         /\ phase' \in [Workers -> Phases] /\ call' \in [Workers -> Call]
<1> DEFINE pend == pending[w] \/ Relatch(w)
           turns == pend /\ PageTurns(w, m, p)
<1>1. phase' \in [Workers -> Phases] /\ call' \in [Workers -> Call]
  BY NewCallFacts, NoCallFacts DEF TypeOK, CallTypes, Admit, Finish, Goto, Phases
<1>2. CASE resolving /\ resolver = NoWorker
  BY <1>1, <1>2 DEF TypeOK, LatchTypes, Admit, latchVars
<1>3. CASE ~(resolving /\ resolver = NoWorker)
  <2>1. /\ pending' = [pending EXCEPT ![w] = pend]
        /\ target' = [target EXCEPT ![w] = IF Relatch(w) THEN generation ELSE @]
        /\ readPage' = [readPage EXCEPT ![w] = IF turns THEN p ELSE @]
        /\ reads' = [reads EXCEPT ![w] = IF turns THEN {} ELSE Latched(w)]
        /\ seen' = seen
    BY <1>3 DEF Admit
  <2>2. LatchTypes /\ generation \in Nat
    BY DEF TypeOK, GateTypes
  <2>3. pend \in BOOLEAN
    BY <2>2 DEF LatchTypes, Relatch
  <2>4. QED
    BY <1>1, <2>1, <2>2, <2>3, LatchedFacts DEF LatchTypes
<1>4. QED
  BY <1>2, <1>3

LEMMA ResolveTypes ==
  ASSUME GateTypes, NEW w \in Workers, Resolve(w)
  PROVE  GateTypes' /\ generation' \in Nat
<1>1. resolving' = FALSE /\ resolver' = NoWorker /\ generation' = generation + 1 /\ asleep' = {}
  BY DEF Resolve
<1>2. generation \in Nat
  BY DEF GateTypes
<1>3. generation' \in Nat
  BY <1>1, <1>2
<1>4. QED
  BY <1>1, <1>3 DEF GateTypes

LEMMA TypeStep ==
  ASSUME TypeOK, [Next]_vars
  PROVE  TypeOK'
<1> USE NoCallFacts
    DEF TypeOK, GateTypes, LatchTypes, CallTypes, GhostTypes, gateVars, latchVars, ghostVars,
        Finish, Goto, Phases, Reads
<1>1. ASSUME NEW w \in Workers, Start(w)
      PROVE  TypeOK'
  BY <1>1 DEF Start
<1>2. ASSUME NEW w \in Workers, Recheck(w)
      PROVE  TypeOK'
  <2>1. CASE resolving /\ resolver # NoWorker
    BY <1>2, <2>1 DEF Recheck
  <2>2. CASE ~(resolving /\ resolver # NoWorker)
    <3>1. call[w].method \in AllMethods \cup {"none"} /\ call[w].page \in Pages \cup {NoPage}
      BY DEF Call
    <3>2. LatchTypes' /\ phase' \in [Workers -> Phases] /\ call' \in [Workers -> Call]
      BY <1>2, <2>2, <3>1, AdmitTypes DEF Recheck
    <3>3. QED
      BY <1>2, <2>2, <3>2 DEF Recheck
  <2>3. QED
    BY <2>1, <2>2
<1>3. ASSUME NEW w \in Workers, GateTimeout(w)
      PROVE  TypeOK'
  BY <1>3 DEF GateTimeout
<1>4. ASSUME NEW w \in Workers, SendPlain(w)
      PROVE  TypeOK'
  BY <1>4 DEF SendPlain
<1>5. ASSUME NEW w \in Workers, SendCreate(w)
      PROVE  TypeOK'
  <2>1. [call[w] EXCEPT !.takeover = TRUE] \in Call
    BY DEF Call
  <2>2. call' \in [Workers -> Call]
    BY <1>5, <2>1 DEF SendCreate
  <2>3. QED
    BY <1>5, <2>2 DEF SendCreate
<1>6. ASSUME NEW w \in Workers, SendPause(w)
      PROVE  TypeOK'
  BY <1>6, SulliedFacts DEF SendPause, Claim, Close
<1>7. ASSUME NEW w \in Workers, Refuse(w)
      PROVE  TypeOK'
  BY <1>7 DEF Refuse
<1>8. ASSUME NEW w \in Workers, RefusePause(w)
      PROVE  TypeOK'
  BY <1>8 DEF RefusePause, Drop
<1>9. ASSUME NEW w \in Workers, ReadAnswered(w)
      PROVE  TypeOK'
  <2>1. call[w].method \in Reads /\ call[w].page \in Pages \cup {NoPage}
    BY <1>9 DEF ReadAnswered, Call
  <2>2. LatchTypes'
    <3> DEFINE got == reads[w] \cup {call[w].method}
    <3>1. got \in SUBSET Reads
      BY <2>1
    <3>2. reads' \in [Workers -> SUBSET Reads]
      BY <1>9, <3>1 DEF ReadAnswered, Latch
    <3>3. seen' \in [Workers -> Nat] /\ pending' \in [Workers -> BOOLEAN]
      BY <1>9 DEF ReadAnswered, Latch
    <3>4. target' = target /\ readPage' = readPage
      BY <1>9 DEF ReadAnswered, Latch
    <3>5. QED
      BY <3>2, <3>3, <3>4
  <2>3. GhostTypes'
    <3>1. <<call[w].method, call[w].page>> \in Reads \X (Pages \cup {NoPage})
      BY <2>1, ReadsHasPage
    <3>2. glimpsed[w] \cup {<<call[w].method, call[w].page>>}
            \in SUBSET (Reads \X (Pages \cup {NoPage}))
      BY <3>1
    <3>3. glimpsed' \in [Workers -> SUBSET (Reads \X (Pages \cup {NoPage}))]
      BY <1>9, <3>2 DEF ReadAnswered, Notice
    <3>4. fresh' \in SUBSET Workers /\ UNCHANGED <<epoch, tainted>>
      BY <1>9 DEF ReadAnswered, Notice
    <3>5. QED
      BY <3>3, <3>4
  <2>4. QED
    BY <1>9, <2>2, <2>3 DEF ReadAnswered
<1>10. ASSUME NEW w \in Workers, Answered(w)
      PROVE  TypeOK'
  BY <1>10 DEF Answered
<1>11. ASSUME NEW w \in Workers, CreateFailed(w)
      PROVE  TypeOK'
  BY <1>11 DEF CreateFailed, Drop
<1>12. ASSUME NEW w \in Workers, PauseFailed(w)
      PROVE  TypeOK'
  BY <1>12 DEF PauseFailed, Drop
<1>13. ASSUME NEW w \in Workers, PauseGranted(w)
      PROVE  TypeOK'
  BY <1>13 DEF PauseGranted
<1>14. ASSUME NEW w \in Workers, HumanResumes(w)
      PROVE  TypeOK'
  BY <1>14 DEF HumanResumes
<1>15. ASSUME NEW w \in Workers, HumanGone(w)
      PROVE  TypeOK'
  BY <1>15 DEF HumanGone
<1>16. ASSUME NEW w \in Workers, WorkflowAnswered(w)
      PROVE  TypeOK'
  BY <1>16 DEF WorkflowAnswered
<1>17. ASSUME NEW w \in Workers, WorkflowFailed(w)
      PROVE  TypeOK'
  BY <1>17 DEF WorkflowFailed
<1>18. ASSUME NEW w \in Workers, WorkflowFenced(w)
      PROVE  TypeOK'
  BY <1>18 DEF WorkflowFenced
<1>19. ASSUME NEW w \in Workers, Detect(w)
      PROVE  TypeOK'
  BY <1>19, SulliedFacts DEF Detect, Claim, Close
<1>20. ASSUME NEW w \in Workers, ObserverClaim(w)
      PROVE  TypeOK'
  BY <1>20, SulliedFacts DEF ObserverClaim, Claim, Close
<1>21. ASSUME NEW w \in Workers, LateClaim(w)
      PROVE  TypeOK'
  BY <1>21, SulliedFacts DEF LateClaim, Claim, Close
<1>22. ASSUME NEW w \in Workers, TombstoneExpires(w)
      PROVE  TypeOK'
  BY <1>22 DEF TombstoneExpires
<1>23. ASSUME NEW w \in Workers, CaptchaCleared(w)
      PROVE  TypeOK'
  BY <1>23 DEF CaptchaCleared
<1>24. ASSUME NEW w \in Workers, Verified(w)
      PROVE  TypeOK'
  <2>1. CallTypes'
    BY <1>24 DEF Verified, AfterVerify
  <2>2. GateTypes' /\ GhostTypes'
    <3>1. GateTypes'
      BY <1>24, ResolveTypes DEF Verified
    <3>2. glimpsed' \in [Workers -> SUBSET (Reads \X (Pages \cup {NoPage}))]
      BY <1>24 DEF Verified
    <3>3. epoch' \in Nat /\ fresh' \in SUBSET Workers /\ tainted' = tainted
      BY <1>24 DEF Verified, Resolve
    <3>4. QED
      BY <3>1, <3>2, <3>3
  <2>3. LatchTypes'
    BY <1>24, <2>2 DEF Verified
  <2>4. QED
    BY <2>1, <2>2, <2>3
<1>25. ASSUME NEW w \in Workers, NotVerified(w)
      PROVE  TypeOK'
  BY <1>25 DEF NotVerified, AfterVerify
<1>26. ASSUME NEW w \in Workers, End(w)
      PROVE  TypeOK'
  BY <1>26 DEF End
<1>27. ASSUME NEW w \in Workers, AbandonWorker(w)
      PROVE  TypeOK'
  BY <1>27 DEF AbandonWorker, Abandon, Drop
<1>28. ASSUME NEW w \in Workers, NEW m \in Methods, NEW p \in Pages, Issue(w, m, p)
      PROVE  TypeOK'
  <2>1. m \in AllMethods
    BY MethodsAssumption
  <2>2. CASE MustWait(w)
    BY <1>28, <2>1, <2>2, NewCallFacts DEF Issue
  <2>3. CASE ~MustWait(w)
    BY <1>28, <2>1, <2>3, AdmitTypes DEF Issue
  <2>4. QED
    BY <2>2, <2>3
<1>29. ASSUME NEW w \in Workers, NEW p \in Pages, IssueWorkflow(w, p)
      PROVE  TypeOK'
  BY <1>29, MethodsAssumption, NewCallFacts DEF IssueWorkflow
<1>30. ASSUME OperatorReset \/ DiscardInactive
      PROVE  TypeOK'
  <2>1. Forget
    BY <1>30 DEF OperatorReset, DiscardInactive
  <2>2. GateTypes'
    BY <2>1 DEF Forget
  <2>3. UNCHANGED <<latchVars, phase, call, tombstones, ghostVars>>
    BY <2>1 DEF Forget
  <2>4. QED
    BY <2>2, <2>3
<1>31. CASE UNCHANGED vars
  BY <1>31 DEF vars
<1>32. QED
  BY <1>1, <1>2, <1>3, <1>4, <1>5, <1>6, <1>7, <1>8, <1>9, <1>10, <1>11, <1>12, <1>13, <1>14,
     <1>15, <1>16, <1>17, <1>18, <1>19, <1>20, <1>21, <1>22, <1>23, <1>24, <1>25, <1>26, <1>27,
     <1>28, <1>29, <1>30, <1>31
  DEF Next

(* The barrier's state, the agents' latches and the workers' calls keep     *)
(* their types in every reachable state.                                    *)
THEOREM TypeCorrect == Spec => []TypeOK
<1>1. Init => TypeOK
  BY TypeInit
<1>2. TypeOK /\ [Next]_vars => TypeOK'
  BY TypeStep
<1>3. QED
  BY <1>1, <1>2, PTL DEF Spec

-----------------------------------------------------------------------------
(* Who holds the gate.  With LateEvents the gate may be claimed for a dead  *)
(* worker, so the third part is only claimed without them.                  *)
GateInv == ResolverHolds /\ NoLostWakeup /\ (~LateEvents => ResolverAlive)

LEMMA GateInit == Init => GateInv
  BY AbsentAssumption DEF Init, GateInv, ResolverHolds, AsksOrVerifies, NoLostWakeup, ResolverAlive

LEMMA GateStep ==
  ASSUME TypeOK, GateInv, [Next]_vars
  PROVE  GateInv'
<1> USE AbsentAssumption, NoCallFacts
    DEF TypeOK, GateTypes, CallTypes, GateInv, ResolverHolds, AsksOrVerifies, NoLostWakeup,
        ResolverAlive, Running, Phases, Goto, gateVars
<1>1. ASSUME NEW w \in Workers, Start(w)
      PROVE  GateInv'
  BY <1>1 DEF Start
<1>2. ASSUME NEW w \in Workers, Recheck(w)
      PROVE  GateInv'
  BY <1>2 DEF Recheck, Admit, Finish, NewCall
<1>3. ASSUME NEW w \in Workers, GateTimeout(w)
      PROVE  GateInv'
  BY <1>3 DEF GateTimeout, Finish
<1>4. ASSUME NEW w \in Workers, SendPlain(w)
      PROVE  GateInv'
  BY <1>4 DEF SendPlain
<1>5. ASSUME NEW w \in Workers, SendCreate(w)
      PROVE  GateInv'
  BY <1>5 DEF SendCreate
<1>6. ASSUME NEW w \in Workers, SendPause(w)
      PROVE  GateInv'
  BY <1>6, SulliedFacts DEF SendPause, Claim, Claimable, Close
<1>7. ASSUME NEW w \in Workers, Refuse(w)
      PROVE  GateInv'
  BY <1>7 DEF Refuse, Finish
<1>8. ASSUME NEW w \in Workers, RefusePause(w)
      PROVE  GateInv'
  BY <1>8 DEF RefusePause, Finish, Drop
<1>9. ASSUME NEW w \in Workers, ReadAnswered(w)
      PROVE  GateInv'
  BY <1>9 DEF ReadAnswered, Finish
<1>10. ASSUME NEW w \in Workers, Answered(w)
      PROVE  GateInv'
  BY <1>10 DEF Answered, Finish
<1>11. ASSUME NEW w \in Workers, CreateFailed(w)
      PROVE  GateInv'
  BY <1>11 DEF CreateFailed, Finish, Drop
<1>12. ASSUME NEW w \in Workers, PauseFailed(w)
      PROVE  GateInv'
  BY <1>12 DEF PauseFailed, Finish, Drop
<1>13. ASSUME NEW w \in Workers, PauseGranted(w)
      PROVE  GateInv'
  BY <1>13 DEF PauseGranted
<1>14. ASSUME NEW w \in Workers, HumanResumes(w)
      PROVE  GateInv'
  BY <1>14 DEF HumanResumes
<1>15. ASSUME NEW w \in Workers, HumanGone(w)
      PROVE  GateInv'
  BY <1>15 DEF HumanGone, Finish
<1>16. ASSUME NEW w \in Workers, WorkflowAnswered(w)
      PROVE  GateInv'
  BY <1>16 DEF WorkflowAnswered
<1>17. ASSUME NEW w \in Workers, WorkflowFailed(w)
      PROVE  GateInv'
  BY <1>17 DEF WorkflowFailed
<1>18. ASSUME NEW w \in Workers, WorkflowFenced(w)
      PROVE  GateInv'
  BY <1>18 DEF WorkflowFenced, Finish
<1>19. ASSUME NEW w \in Workers, Detect(w)
      PROVE  GateInv'
  BY <1>19, SulliedFacts DEF Detect, Claim, Claimable, Close
<1>20. ASSUME NEW w \in Workers, ObserverClaim(w)
      PROVE  GateInv'
  BY <1>20, SulliedFacts DEF ObserverClaim, Claim, Claimable, Close
<1>21. ASSUME NEW w \in Workers, LateClaim(w)
      PROVE  GateInv'
  BY <1>21, SulliedFacts DEF LateClaim, Claim, Claimable, Close
<1>22. ASSUME NEW w \in Workers, TombstoneExpires(w)
      PROVE  GateInv'
  BY <1>22 DEF TombstoneExpires
<1>23. ASSUME NEW w \in Workers, CaptchaCleared(w)
      PROVE  GateInv'
  BY <1>23 DEF CaptchaCleared
<1>24. ASSUME NEW w \in Workers, Verified(w)
      PROVE  GateInv'
  BY <1>24 DEF Verified, AfterVerify, Finish, Resolve
<1>25. ASSUME NEW w \in Workers, NotVerified(w)
      PROVE  GateInv'
  BY <1>25 DEF NotVerified, AfterVerify, Finish
<1>26. ASSUME NEW w \in Workers, End(w)
      PROVE  GateInv'
  BY <1>26 DEF End
<1>27. ASSUME NEW w \in Workers, AbandonWorker(w)
      PROVE  GateInv'
  BY <1>27 DEF AbandonWorker, Abandon, Drop
<1>28. ASSUME NEW w \in Workers, NEW m \in Methods, NEW p \in Pages, Issue(w, m, p)
      PROVE  GateInv'
  BY <1>28 DEF Issue, MustWait, Admit, Finish
<1>29. ASSUME NEW w \in Workers, NEW p \in Pages, IssueWorkflow(w, p)
      PROVE  GateInv'
  BY <1>29 DEF IssueWorkflow
<1>30. ASSUME OperatorReset \/ DiscardInactive
      PROVE  GateInv'
  BY <1>30 DEF OperatorReset, DiscardInactive, Forget, NobodyRuns
<1>31. CASE UNCHANGED vars
  BY <1>31 DEF vars
<1>32. QED
  BY <1>1, <1>2, <1>3, <1>4, <1>5, <1>6, <1>7, <1>8, <1>9, <1>10, <1>11, <1>12, <1>13, <1>14, <1>15, <1>16, <1>17, <1>18, <1>19, <1>20, <1>21, <1>22, <1>23, <1>24, <1>25, <1>26, <1>27, <1>28, <1>29, <1>30, <1>31 DEF Next
THEOREM GateCorrect == Spec => [](TypeOK /\ GateInv)
<1>1. Init => TypeOK /\ GateInv
  BY TypeInit, GateInit
<1>2. TypeOK /\ GateInv /\ [Next]_vars => (TypeOK /\ GateInv)'
  BY TypeStep, GateStep
<1>3. QED
  BY <1>1, <1>2, PTL DEF Spec

(* Whoever asks a human or verifies a clearance owns the closed gate: two   *)
(* workers never recover the same Fleet's authentication at once.           *)
THEOREM ResolverAlwaysHolds == Spec => []ResolverHolds
<1>1. GateInv => ResolverHolds
  BY DEF GateInv
<1>2. QED
  BY <1>1, GateCorrect, PTL

(* notify_all is never missed: nobody sleeps at an open or ownerless gate.  *)
THEOREM WakeupsReachAll == Spec => []NoLostWakeup
<1>1. GateInv => NoLostWakeup
  BY DEF GateInv
<1>2. QED
  BY <1>1, GateCorrect, PTL

(* Without late Workflow events, the resolver of a gate always still runs.  *)
THEOREM ResolverStaysAlive ==
  ASSUME ~LateEvents
  PROVE  Spec => []ResolverAlive
<1>1. GateInv => ResolverAlive
  BY DEF GateInv
<1>2. QED
  BY <1>1, GateCorrect, PTL

(* Only verified clearance by the resolver opens a gate while workers run.  *)
THEOREM StaysClosed == Spec => FailClosed
<1> DEFINE Opens == resolving /\ ~resolving' =>
                      NobodyRuns \/ \E w \in Workers : resolver = w /\ phase[w] = "verify"
<1>1. [Next]_vars => [Opens]_vars
  <2> SUFFICES ASSUME Next
               PROVE  Opens
    OBVIOUS
  <2>1. CASE resolving' = resolving
    BY <2>1
  <2>2. CASE OperatorReset \/ DiscardInactive
    BY <2>2 DEF OperatorReset, DiscardInactive
  <2>3. ASSUME NEW w \in Workers, Verified(w)
        PROVE  Opens
    BY <2>3 DEF Verified, Resolve
  <2>4. ASSUME NEW w \in Workers, Claim(w)
        PROVE  Opens
    BY <2>4 DEF Claim, Close
  <2>5. ASSUME NEW w \in Workers,
               \/ Start(w) \/ Recheck(w) \/ GateTimeout(w)
               \/ SendPlain(w) \/ SendCreate(w) \/ Refuse(w) \/ RefusePause(w)
               \/ ReadAnswered(w) \/ Answered(w) \/ CreateFailed(w)
               \/ PauseFailed(w) \/ PauseGranted(w) \/ HumanResumes(w) \/ HumanGone(w)
               \/ WorkflowAnswered(w) \/ WorkflowFailed(w) \/ WorkflowFenced(w)
               \/ TombstoneExpires(w) \/ CaptchaCleared(w) \/ NotVerified(w)
               \/ End(w) \/ AbandonWorker(w)
               \/ (\E m \in Methods, p \in Pages : Issue(w, m, p))
               \/ (\E p \in Pages : IssueWorkflow(w, p))
        PROVE  resolving' = resolving
    BY <2>5 DEF Start, Recheck, GateTimeout, SendPlain, SendCreate, Refuse, RefusePause,
       ReadAnswered, Answered, CreateFailed, PauseFailed, PauseGranted, HumanResumes, HumanGone,
       WorkflowAnswered, WorkflowFailed, WorkflowFenced, TombstoneExpires, CaptchaCleared,
       NotVerified, End, AbandonWorker, Abandon, Drop, Issue, IssueWorkflow, gateVars
  <2>6. ASSUME NEW w \in Workers, SendPause(w) \/ Detect(w) \/ ObserverClaim(w) \/ LateClaim(w)
        PROVE  Claim(w)
    BY <2>6 DEF SendPause, Detect, ObserverClaim, LateClaim
  <2>7. QED
    BY <2>1, <2>2, <2>3, <2>4, <2>5, <2>6 DEF Next
<1>2. QED
  BY <1>1, PTL DEF Spec, FailClosed

-----------------------------------------------------------------------------
(* A Workflow under way started in a generation that is not over; once the  *)
(* gate closed on it, it stays closed until the generation moves on.        *)
TrustInv ==
  /\ WorkflowTrust
  /\ \A w \in Workers : phase[w] = "settled" => call[w].method = "Workflow.execute"
  /\ \A w \in Workers :
       call[w].method = "Workflow.execute" =>
         /\ phase[w] \in {"admitted", "sent", "verify", "settled"}
         /\ call[w].started <= generation
         /\ ~call[w].clean => resolving \/ call[w].started < generation

LEMMA TrustInit == Init => TrustInv
  BY NoCallFacts DEF Init, TrustInv, WorkflowTrust

LEMMA CallFacts ==
  ASSUME TypeOK, NEW w \in Workers
  PROVE  /\ call[w].method \in AllMethods \cup {"none"} /\ call[w].page \in Pages \cup {NoPage}
         /\ call[w].started \in Nat /\ generation \in Nat
         /\ [call[w] EXCEPT !.takeover = TRUE].method = call[w].method
  BY DEF TypeOK, CallTypes, GateTypes, Call

(* Admission gives the worker no call, or a new clean one.                  *)
LEMMA AdmitTrust ==
  ASSUME TypeOK, NEW w \in Workers, NEW m \in AllMethods \cup {"none"},
         NEW p \in Pages \cup {NoPage}, Admit(w, m, p)
  PROVE  \/ phase' = [phase EXCEPT ![w] = "admitted"] /\ call' = [call EXCEPT ![w] = NewCall(m, p)]
         \/ phase' = [phase EXCEPT ![w] = "idle"] /\ call' = [call EXCEPT ![w] = NoCall]
  BY DEF Admit, Goto, Finish

LEMMA TrustStep ==
  ASSUME ~SharedSlots, TypeOK, TrustInv, [Next]_vars
  PROVE  TrustInv'
<1> USE AbsentAssumption, NoCallFacts, CallFacts
    DEF GateTypes, CallTypes, GhostTypes, TrustInv, WorkflowTrust, Running, Phases, Goto, gateVars,
        ghostVars
<1> GateTypes /\ CallTypes /\ GhostTypes
  BY DEF TypeOK
<1>1. ASSUME NEW w \in Workers, Start(w)
      PROVE  TrustInv'
  BY <1>1 DEF Start
<1>2. ASSUME NEW w \in Workers, Recheck(w)
      PROVE  TrustInv'
  <2>1. CASE resolving /\ resolver # NoWorker
    BY <1>2, <2>1 DEF Recheck
  <2>2. CASE ~(resolving /\ resolver # NoWorker)
    <3>1. call[w].method # "Workflow.execute"
      BY <1>2 DEF Recheck
    <3>2. UNCHANGED <<resolving, generation, tainted>>
      BY <1>2 DEF Recheck
    <3>3. Admit(w, call[w].method, call[w].page)
      BY <1>2, <2>2 DEF Recheck
    <3>4. /\ call'[w].method # "Workflow.execute" /\ phase'[w] # "settled"
          /\ \A u \in Workers \ {w} : phase'[u] = phase[u] /\ call'[u] = call[u]
      <4> DEFINE m == call[w].method
                 p == call[w].page
      <4>1. m \in AllMethods \cup {"none"} /\ p \in Pages \cup {NoPage}
        BY CallFacts
      <4> HIDE DEF m, p
      <4>2. \/ phase' = [phase EXCEPT ![w] = "admitted"] /\ call' = [call EXCEPT ![w] = NewCall(m, p)]
            \/ phase' = [phase EXCEPT ![w] = "idle"] /\ call' = [call EXCEPT ![w] = NoCall]
        BY <3>3, <4>1, AdmitTrust DEF m, p
      <4>3. NewCall(m, p).method # "Workflow.execute"
        <5>1. NewCall(m, p).method = m
          BY ONLY TypeOK, <4>1, NewCallFacts
        <5>2. QED
          BY ONLY <5>1, <3>1 DEF m
      <4>4. QED
        BY <4>2, <4>3
    <3>5. QED
      BY <3>2, <3>4
  <2>3. QED
    BY <2>1, <2>2
<1>3. ASSUME NEW w \in Workers, GateTimeout(w)
      PROVE  TrustInv'
  BY <1>3 DEF GateTimeout, Finish
<1>4. ASSUME NEW w \in Workers, SendPlain(w)
      PROVE  TrustInv'
  BY <1>4 DEF SendPlain
<1>5. ASSUME NEW w \in Workers, SendCreate(w)
      PROVE  TrustInv'
  <2>1. /\ call'[w].method = call[w].method /\ phase'[w] = "sent"
        /\ \A u \in Workers \ {w} : phase'[u] = phase[u] /\ call'[u] = call[u]
    BY <1>5 DEF SendCreate
  <2>2. call[w].method # "Workflow.execute" /\ tainted' = tainted
        /\ generation' = generation /\ resolving' = resolving
    BY <1>5 DEF SendCreate
  <2>3. QED
    BY <2>1, <2>2
<1>6. ASSUME NEW w \in Workers, SendPause(w)
      PROVE  TrustInv'
  BY <1>6, SulliedFacts DEF SendPause, Claim, Claimable, Close
<1>7. ASSUME NEW w \in Workers, Refuse(w)
      PROVE  TrustInv'
  BY <1>7 DEF Refuse, Finish
<1>8. ASSUME NEW w \in Workers, RefusePause(w)
      PROVE  TrustInv'
  BY <1>8 DEF RefusePause, Finish, Drop
<1>9. ASSUME NEW w \in Workers, ReadAnswered(w)
      PROVE  TrustInv'
  BY <1>9 DEF ReadAnswered, Finish
<1>10. ASSUME NEW w \in Workers, Answered(w)
      PROVE  TrustInv'
  BY <1>10 DEF Answered, Finish
<1>11. ASSUME NEW w \in Workers, CreateFailed(w)
      PROVE  TrustInv'
  BY <1>11 DEF CreateFailed, Finish, Drop
<1>12. ASSUME NEW w \in Workers, PauseFailed(w)
      PROVE  TrustInv'
  BY <1>12 DEF PauseFailed, Finish, Drop
<1>13. ASSUME NEW w \in Workers, PauseGranted(w)
      PROVE  TrustInv'
  BY <1>13 DEF PauseGranted
<1>14. ASSUME NEW w \in Workers, HumanResumes(w)
      PROVE  TrustInv'
  BY <1>14 DEF HumanResumes
<1>15. ASSUME NEW w \in Workers, HumanGone(w)
      PROVE  TrustInv'
  BY <1>15 DEF HumanGone, Finish
<1>16. ASSUME NEW w \in Workers, WorkflowAnswered(w)
      PROVE  TrustInv'
  BY <1>16 DEF WorkflowAnswered
<1>17. ASSUME NEW w \in Workers, WorkflowFailed(w)
      PROVE  TrustInv'
  BY <1>17 DEF WorkflowFailed
<1>18. ASSUME NEW w \in Workers, WorkflowFenced(w)
      PROVE  TrustInv'
  <2>1. call[w].method = "Workflow.execute"
    BY <1>18 DEF WorkflowFenced
  <2>2. UNCHANGED <<resolving, generation>>
    BY <1>18 DEF WorkflowFenced
  <2>3. FenceAfter(w) => call[w].clean
    BY <2>1 DEF FenceAfter
  <2>4. ~tainted'
    BY <1>18, <2>3 DEF WorkflowFenced
  <2>5. QED
    BY <1>18, <2>2, <2>4 DEF WorkflowFenced, Finish
<1>19. ASSUME NEW w \in Workers, Detect(w)
      PROVE  TrustInv'
  BY <1>19, SulliedFacts DEF Detect, Claim, Claimable, Close
<1>20. ASSUME NEW w \in Workers, ObserverClaim(w)
      PROVE  TrustInv'
  BY <1>20, SulliedFacts DEF ObserverClaim, Claim, Claimable, Close
<1>21. ASSUME NEW w \in Workers, LateClaim(w)
      PROVE  TrustInv'
  BY <1>21, SulliedFacts DEF LateClaim, Claim, Claimable, Close
<1>22. ASSUME NEW w \in Workers, TombstoneExpires(w)
      PROVE  TrustInv'
  BY <1>22 DEF TombstoneExpires
<1>23. ASSUME NEW w \in Workers, CaptchaCleared(w)
      PROVE  TrustInv'
  BY <1>23 DEF CaptchaCleared
<1>24. ASSUME NEW w \in Workers, Verified(w)
      PROVE  TrustInv'
  BY <1>24 DEF Verified, AfterVerify, Finish, Resolve
<1>25. ASSUME NEW w \in Workers, NotVerified(w)
      PROVE  TrustInv'
  BY <1>25 DEF NotVerified, AfterVerify, Finish
<1>26. ASSUME NEW w \in Workers, End(w)
      PROVE  TrustInv'
  BY <1>26 DEF End
<1>27. ASSUME NEW w \in Workers, AbandonWorker(w)
      PROVE  TrustInv'
  BY <1>27 DEF AbandonWorker, Abandon, Drop
<1>28. ASSUME NEW w \in Workers, NEW m \in Methods, NEW p \in Pages, Issue(w, m, p)
      PROVE  TrustInv'
  <2>1. m \in AllMethods /\ m # "Workflow.execute" /\ UNCHANGED <<resolving, generation, tainted>>
    BY <1>28, MethodsAssumption DEF Issue
  <2>2. CASE MustWait(w)
    BY <1>28, <2>1, <2>2, NewCallFacts DEF Issue
  <2>3. CASE ~MustWait(w)
    BY <1>28, <2>1, <2>3, AdmitTrust, NewCallFacts DEF Issue
  <2>4. QED
    BY <2>2, <2>3
<1>29. ASSUME NEW w \in Workers, NEW p \in Pages, IssueWorkflow(w, p)
      PROVE  TrustInv'
  BY <1>29, MethodsAssumption, NewCallFacts DEF IssueWorkflow
<1>30. ASSUME OperatorReset \/ DiscardInactive
      PROVE  TrustInv'
  BY <1>30 DEF OperatorReset, DiscardInactive, Forget, NobodyRuns
<1>31. CASE UNCHANGED vars
  BY <1>31 DEF vars
<1>32. QED
  BY <1>1, <1>2, <1>3, <1>4, <1>5, <1>6, <1>7, <1>8, <1>9, <1>10, <1>11, <1>12, <1>13, <1>14, <1>15, <1>16, <1>17, <1>18, <1>19, <1>20, <1>21, <1>22, <1>23, <1>24, <1>25, <1>26, <1>27, <1>28, <1>29, <1>30, <1>31 DEF Next

(* As long as the barrier of a Fleet in use is not discarded, no Workflow's *)
(* result is trusted although the gate closed while it ran.                 *)
THEOREM WorkflowsStayTrusted ==
  ASSUME ~SharedSlots
  PROVE  Spec => []WorkflowTrust
<1>1. Init => TypeOK /\ TrustInv
  BY TypeInit, TrustInit
<1>2. TypeOK /\ TrustInv /\ [Next]_vars => (TypeOK /\ TrustInv)'
  BY TypeStep, TrustStep
<1>3. TrustInv => WorkflowTrust
  BY DEF TrustInv
<1>4. QED
  BY <1>1, <1>2, <1>3, PTL DEF Spec

-----------------------------------------------------------------------------
(* The barrier with its waiters, workers and Workflows does to the gate only*)
(* what AuthEpoch allows; what relies on AuthEpoch may rely on the barrier. *)
THEOREM ImplementsEpochs == Spec => KeepsEpochs
<1>1. Init => Epoch!Init
  BY DEF Init, Epoch!Init
<1>2. [Next]_vars => [Epoch!Next]_Epoch!vars
  <2> SUFFICES ASSUME [Next]_vars
               PROVE  Epoch!Next \/ UNCHANGED <<resolving, resolver, generation>>
    BY DEF Epoch!vars
  <2>1. ASSUME NEW w \in Workers, Claim(w)
        PROVE  Epoch!Next
    <3>1. Epoch!Close(w)
      BY <2>1 DEF Claim, Claimable, Close, Epoch!Close
    <3>2. QED
      BY <3>1 DEF Epoch!Next
  <2>2. ASSUME NEW w \in Workers, SendPause(w) \/ Detect(w) \/ ObserverClaim(w) \/ LateClaim(w)
        PROVE  Claim(w)
    BY <2>2 DEF SendPause, Detect, ObserverClaim, LateClaim
  <2>3. ASSUME NEW w \in Workers, Drop(w)
        PROVE  Epoch!Next \/ UNCHANGED <<resolving, resolver, generation>>
    <3>1. CASE resolver = w
      <4>1. Epoch!Drop(w)
        BY <2>3, <3>1 DEF Drop, Epoch!Drop
      <4>2. QED
        BY <4>1 DEF Epoch!Next
    <3>2. CASE resolver # w
      BY <2>3, <3>2 DEF Drop
    <3>3. QED
      BY <3>1, <3>2
  <2>4. ASSUME NEW w \in Workers,
               RefusePause(w) \/ CreateFailed(w) \/ PauseFailed(w) \/ AbandonWorker(w)
        PROVE  Drop(w)
    BY <2>4 DEF RefusePause, CreateFailed, PauseFailed, AbandonWorker, Abandon
  <2>5. ASSUME NEW w \in Workers, Verified(w)
        PROVE  Epoch!Next
    <3>1. Epoch!Open(w)
      BY <2>5 DEF Verified, Resolve, Epoch!Open
    <3>2. QED
      BY <3>1 DEF Epoch!Next
  <2>6. ASSUME NEW w \in Workers, SendCreate(w)
        PROVE  Epoch!Next \/ UNCHANGED <<resolving, resolver, generation>>
    <3>1. CASE resolving /\ resolver = NoWorker
      <4>1. Epoch!Close(w)
        BY <2>6, <3>1 DEF SendCreate, Epoch!Close
      <4>2. QED
        BY <4>1 DEF Epoch!Next
    <3>2. CASE ~(resolving /\ resolver = NoWorker)
      BY <2>6, <3>2 DEF SendCreate
    <3>3. QED
      BY <3>1, <3>2
  <2>7. CASE OperatorReset \/ DiscardInactive
    <3>1. Epoch!Discard
      BY <2>7 DEF OperatorReset, DiscardInactive, Forget, Epoch!Discard
    <3>2. QED
      BY <3>1 DEF Epoch!Next
  <2>8. ASSUME NEW w \in Workers,
               \/ Start(w) \/ Recheck(w) \/ GateTimeout(w) \/ SendPlain(w) \/ Refuse(w)
               \/ ReadAnswered(w) \/ Answered(w)
               \/ PauseGranted(w) \/ HumanResumes(w) \/ HumanGone(w)
               \/ WorkflowAnswered(w) \/ WorkflowFailed(w) \/ WorkflowFenced(w)
               \/ TombstoneExpires(w) \/ CaptchaCleared(w) \/ NotVerified(w) \/ End(w)
               \/ (\E m \in Methods, p \in Pages : Issue(w, m, p))
               \/ (\E p \in Pages : IssueWorkflow(w, p))
        PROVE  UNCHANGED <<resolving, resolver, generation>>
    BY <2>8 DEF Start, Recheck, GateTimeout, SendPlain, Refuse, ReadAnswered, Answered,
       PauseGranted, HumanResumes, HumanGone, WorkflowAnswered, WorkflowFailed, WorkflowFenced,
       TombstoneExpires, CaptchaCleared, NotVerified, End, Issue, IssueWorkflow, gateVars
  <2>9. CASE UNCHANGED vars
    BY <2>9 DEF vars, gateVars
  <2>10. QED
    BY <2>1, <2>2, <2>3, <2>4, <2>5, <2>6, <2>7, <2>8, <2>9 DEF Next
<1>3. QED
  BY <1>1, <1>2, PTL DEF Spec, KeepsEpochs, Epoch!Spec

-----------------------------------------------------------------------------
(* What a running worker's latch says of the epoch it is in.  The reads it  *)
(* has ticked off were seen on the page it stands for, and a read under way *)
(* for the present generation was issued in the present epoch.              *)
Informed(w) ==
  /\ seen[w] <= generation /\ target[w] <= generation
  /\ seen[w] = generation => w \in fresh
  /\ target[w] = generation /\ pending[w] => \A m \in reads[w] : <<m, readPage[w]>> \in glimpsed[w]
  /\ target[w] = generation /\ phase[w] \in {"admitted", "sent"} /\ call[w].method \in Reads
       => call[w].epoch = epoch

FreshInv ==
  \A w \in Workers : /\ phase[w] = "new" => ~pending[w]
                     /\ phase[w] \in Running => Informed(w)

(* Nobody has become busy with a read between the states of the step.       *)
NoNewRead ==
  \A w \in Workers :
    /\ phase'[w] = "new" => phase[w] = "new"
    /\ phase'[w] \in Running => phase[w] \in Running
    /\ phase'[w] \in {"admitted", "sent"} /\ call'[w].method \in Reads =>
         /\ phase[w] \in {"admitted", "sent"} /\ call[w].method \in Reads
         /\ call'[w].epoch = call[w].epoch

LEMMA CallEpochs ==
  ASSUME TypeOK
  PROVE  /\ NoCall.method \notin Reads
         /\ \A m \in AllMethods \cup {"none"}, p \in Pages \cup {NoPage} :
              /\ NewCall(m, p).method = m
              /\ m \in Reads => NewCall(m, p).epoch = epoch /\ NewCall(m, p).page = p
         /\ \A w \in Workers :
              /\ [call[w] EXCEPT !.takeover = TRUE].method = call[w].method
              /\ Sullied(call)[w].method = call[w].method
              /\ Sullied(call)[w].epoch = call[w].epoch
<1>1. call \in [Workers -> Call]
  BY DEF TypeOK, CallTypes
<1>2. ASSUME NEW c \in Call
      PROVE  /\ [c EXCEPT !.clean = FALSE].method = c.method
             /\ [c EXCEPT !.clean = FALSE].epoch = c.epoch
             /\ [c EXCEPT !.takeover = TRUE].method = c.method
  BY DEF Call
<1>3. NoCall.method \notin Reads
  BY DEF NoCall, Reads
<1>4. \A m \in AllMethods \cup {"none"}, p \in Pages \cup {NoPage} :
        /\ NewCall(m, p).method = m
        /\ m \in Reads => NewCall(m, p).epoch = epoch /\ NewCall(m, p).page = p
  BY DEF NewCall
<1>5. \A w \in Workers : /\ Sullied(call)[w].method = call[w].method
                         /\ Sullied(call)[w].epoch = call[w].epoch
  BY <1>1, <1>2 DEF Sullied
<1>6. QED
  BY <1>1, <1>2, <1>3, <1>4, <1>5

LEMMA NoNewReadKeeps ==
  ASSUME TypeOK, FreshInv, NoNewRead,
         UNCHANGED <<latchVars, generation, epoch, glimpsed, fresh>>
  PROVE  FreshInv'
BY DEF FreshInv, Informed, NoNewRead, latchVars

LEMMA StartKeeps ==
  ASSUME TypeOK, FreshInv, NEW w \in Workers, Start(w)
  PROVE  FreshInv'
BY DEF FreshInv, Informed, Start, Goto, TypeOK, GateTypes, LatchTypes, CallTypes, gateVars, Running, Phases

(* An admitted worker's latch stands for the present generation; one that   *)
(* may change pages or run a Workflow is up to date.                        *)
LEMMA AdmitInforms ==
  ASSUME TypeOK, FreshInv, NEW w \in Workers, phase[w] \in Running,
         NEW m \in AllMethods \cup {"none"}, NEW p \in Pages \cup {NoPage}, Admit(w, m, p),
         UNCHANGED <<generation, epoch, glimpsed, fresh>>
  PROVE  /\ FreshInv'
         /\ phase'[w] = "admitted" /\ call'[w].method \in {"business", "Workflow.execute"} => w \in fresh
<1> USE DEF latchVars, Goto, Finish
<1>1. Informed(w) /\ generation \in Nat /\ seen[w] \in Nat /\ target[w] \in Nat
  BY DEF FreshInv, TypeOK, GateTypes, LatchTypes
<1>2. /\ \A u \in Workers \ {w} :
           /\ phase'[u] = phase[u] /\ call'[u] = call[u] /\ pending'[u] = pending[u]
           /\ target'[u] = target[u] /\ readPage'[u] = readPage[u] /\ reads'[u] = reads[u]
      /\ seen' = seen
  BY DEF Admit, TypeOK, LatchTypes, CallTypes
<1>3. \A u \in Workers \ {w} : (phase[u] = "new" => ~pending[u])' /\ (phase[u] \in Running => Informed(u))'
  BY <1>2 DEF FreshInv, Informed
<1>4. \/ phase'[w] = "admitted" /\ call'[w] = NewCall(m, p)
      \/ phase'[w] = "idle" /\ call'[w] = NoCall
  BY DEF Admit, TypeOK, CallTypes
<1>5. phase'[w] \in {"admitted", "sent"} /\ call'[w].method \in Reads => call'[w].epoch = epoch
  BY <1>4, CallEpochs
<1>6. /\ target'[w] <= generation
      /\ target'[w] = generation /\ pending'[w] =>
           \A r \in reads'[w] : <<r, readPage'[w]>> \in glimpsed[w]
  <2>1. CASE resolving /\ resolver = NoWorker
    BY <1>1, <2>1 DEF Admit, Informed
  <2>2. CASE ~(resolving /\ resolver = NoWorker) /\ Relatch(w)
    <3>1. target'[w] = generation /\ reads'[w] = {}
      BY <2>2 DEF Admit, Latched, TypeOK, LatchTypes
    <3>2. QED
      BY <1>1, <3>1
  <2>3. CASE ~(resolving /\ resolver = NoWorker) /\ ~Relatch(w)
    <3>1. /\ target'[w] = target[w] /\ (pending'[w] => pending[w])
          /\ reads'[w] = {} \/ (reads'[w] = reads[w] /\ readPage'[w] = readPage[w])
      BY <2>3 DEF Admit, Latched, TypeOK, LatchTypes
    <3>2. QED
      BY <1>1, <3>1 DEF Informed
  <2>4. QED
    BY <2>1, <2>2, <2>3
<1>7. Informed(w)' /\ phase'[w] # "new"
  BY <1>1, <1>2, <1>4, <1>5, <1>6 DEF Informed
<1>8. FreshInv'
  BY <1>3, <1>7 DEF FreshInv
<1>9. ASSUME phase'[w] = "admitted", call'[w].method \in {"business", "Workflow.execute"}
      PROVE  w \in fresh
  <2>1. m \in {"business", "Workflow.execute"}
    BY <1>4, <1>9, CallEpochs
  <2>2. ~(resolving /\ resolver = NoWorker)
    BY <1>4, <1>9, <2>1 DEF Admit, Diagnosis, Reads, TypeOK, CallTypes
  <2>3. ~pending[w] /\ ~Relatch(w)
    BY <1>9, <2>1, <2>2 DEF Admit, AllowedStale, TypeOK, CallTypes
  <2>4. seen[w] = generation
    BY <2>3 DEF Relatch
  <2>5. QED
    BY <1>1, <2>4 DEF Informed
<1>10. QED
  BY <1>8, <1>9

(* The read that completes the latch completes what the worker has seen.    *)
LEMMA ReadAnsweredKeeps ==
  ASSUME TypeOK, FreshInv, NEW w \in Workers, ReadAnswered(w)
  PROVE  FreshInv'
<1> USE DEF Goto, Finish, latchVars, gateVars
<1>1. PICK c : c = call[w]
  OBVIOUS
<1>2. /\ Informed(w) /\ phase[w] = "sent" /\ c.method \in Reads /\ phase'[w] = "idle"
      /\ generation' = generation /\ epoch' = epoch /\ generation \in Nat
      /\ seen[w] \in Nat /\ target[w] \in Nat
  BY <1>1 DEF FreshInv, ReadAnswered, Running, Phases, TypeOK, GateTypes, LatchTypes, CallTypes
<1>3. /\ target' = target /\ readPage' = readPage
      /\ \A u \in Workers \ {w} :
           /\ phase'[u] = phase[u] /\ call'[u] = call[u] /\ pending'[u] = pending[u]
           /\ seen'[u] = seen[u] /\ reads'[u] = reads[u] /\ glimpsed'[u] = glimpsed[u]
      /\ fresh \subseteq fresh'
      /\ glimpsed[w] \subseteq glimpsed'[w]
  BY DEF ReadAnswered, Latch, Notice, TypeOK, LatchTypes, CallTypes, GhostTypes
<1>4. \A u \in Workers \ {w} : (phase[u] = "new" => ~pending[u])' /\ (phase[u] \in Running => Informed(u))'
  BY <1>2, <1>3 DEF FreshInv, Informed
<1>5. CASE ~pending[w]
  <2>1. pending'[w] = pending[w] /\ seen'[w] = seen[w]
    BY <1>5 DEF ReadAnswered, Latch
  <2>2. Informed(w)'
    BY <1>2, <1>3, <1>5, <2>1 DEF Informed
  <2>3. QED
    BY <1>2, <1>4, <2>2 DEF FreshInv
<1>6. CASE pending[w] /\ (Stale(w) \/ c.page # readPage[w])
  <2>1. pending' = pending /\ seen' = seen /\ (reads'[w] = {} \/ reads' = reads)
    BY <1>1, <1>6 DEF ReadAnswered, Latch, TypeOK, LatchTypes
  <2>2. Informed(w)'
    BY <1>2, <1>3, <2>1 DEF Informed
  <2>3. QED
    BY <1>2, <1>4, <2>2 DEF FreshInv
<1>7. CASE pending[w] /\ ~Stale(w) /\ c.page = readPage[w]
  <2> DEFINE got == reads[w] \cup {c.method}
  <2>1. target[w] = generation /\ c.epoch = epoch
    BY <1>1, <1>2, <1>7 DEF Stale, Informed
  <2>2. /\ reads'[w] = got
        /\ IF got = Reads THEN seen'[w] = target[w] /\ ~pending'[w]
                          ELSE seen' = seen /\ pending' = pending
    BY <1>1, <1>7 DEF ReadAnswered, Latch, TypeOK, LatchTypes
  <2>3. /\ glimpsed'[w] = glimpsed[w] \cup {<<c.method, c.page>>}
        /\ Reads \X {c.page} \subseteq glimpsed'[w] => w \in fresh'
    BY <1>1, <2>1 DEF ReadAnswered, Notice, TypeOK, GhostTypes
  <2>4. \A m \in got : <<m, readPage[w]>> \in glimpsed'[w]
    BY <1>2, <1>7, <2>1, <2>3 DEF Informed
  <2>5. got = Reads => w \in fresh'
    BY <1>7, <2>3, <2>4
  <2> HIDE DEF got
  <2>6. Informed(w)'
    BY <1>2, <1>3, <1>7, <2>1, <2>2, <2>4, <2>5 DEF Informed
  <2>7. QED
    BY <1>2, <1>4, <2>6 DEF FreshInv
<1>8. QED
  BY <1>5, <1>6, <1>7

(* A new generation leaves everybody behind but the worker that opened it.  *)
LEMMA VerifiedKeeps ==
  ASSUME TypeOK, FreshInv, NEW w \in Workers, Verified(w)
  PROVE  FreshInv'
<1>1. generation \in Nat /\ generation' = generation + 1 /\ target' = target /\ fresh' = {w}
  BY DEF Verified, Resolve, TypeOK, GateTypes
<1>2. /\ phase[w] = "verify" /\ phase'[w] \in {"idle", "settled"}
      /\ seen'[w] = generation' /\ ~pending'[w]
      /\ \A u \in Workers \ {w} : /\ phase'[u] = phase[u] /\ seen'[u] = seen[u]
                                  /\ pending'[u] = pending[u]
  BY DEF Verified, AfterVerify, Goto, Finish, TypeOK, LatchTypes, CallTypes
<1>3. \A u \in Workers : seen[u] \in Nat /\ target[u] \in Nat
  BY DEF TypeOK, LatchTypes
<1>4. \A u \in Workers : phase[u] \in Running => seen[u] <= generation /\ target[u] <= generation
  BY DEF FreshInv, Informed
<1>5. "verify" \in Running
  BY DEF Running, Phases
<1>6. Informed(w)' /\ phase'[w] # "new"
  BY <1>1, <1>2, <1>3, <1>4, <1>5 DEF Informed
<1>7. ASSUME NEW u \in Workers \ {w}
      PROVE  (phase[u] = "new" => ~pending[u])' /\ (phase[u] \in Running => Informed(u))'
  BY <1>1, <1>2, <1>3, <1>4 DEF FreshInv, Informed
<1>8. QED
  BY <1>6, <1>7 DEF FreshInv

(* Steps that admit nobody and read nothing.                                *)
LEMMA QuietSteps ==
  ASSUME TypeOK, NEW w \in Workers,
         \/ GateTimeout(w) \/ SendPlain(w) \/ SendCreate(w) \/ SendPause(w) \/ Refuse(w)
         \/ RefusePause(w) \/ Answered(w) \/ CreateFailed(w) \/ PauseFailed(w) \/ PauseGranted(w)
         \/ HumanResumes(w) \/ HumanGone(w) \/ WorkflowAnswered(w) \/ WorkflowFailed(w)
         \/ WorkflowFenced(w) \/ Detect(w) \/ ObserverClaim(w) \/ LateClaim(w)
         \/ TombstoneExpires(w) \/ CaptchaCleared(w) \/ NotVerified(w) \/ End(w) \/ AbandonWorker(w)
  PROVE  /\ NoNewRead /\ UNCHANGED <<latchVars, generation, epoch, glimpsed, fresh>>
         /\ \A u \in Workers : phase'[u] = "admitted" => phase[u] = "admitted"
<1> USE CallEpochs DEF NoNewRead, Goto, Finish, ghostVars, gateVars, Running, Phases, Reads
<1>1. phase \in [Workers -> Phases] /\ call \in [Workers -> Call]
  BY DEF TypeOK, CallTypes
<1>2. CASE GateTimeout(w) \/ SendPlain(w) \/ Refuse(w) \/ Answered(w) \/ PauseGranted(w)
           \/ HumanResumes(w) \/ HumanGone(w)
  BY <1>1, <1>2 DEF GateTimeout, SendPlain, Refuse, Answered, PauseGranted, HumanResumes, HumanGone
<1>3. CASE SendPause(w) \/ Detect(w) \/ ObserverClaim(w) \/ LateClaim(w)
  <2>1. CASE SendPause(w)
    BY <1>1, <2>1 DEF SendPause, Claim, Close
  <2>2. CASE Detect(w)
    BY <1>1, <2>2 DEF Detect, Claim, Close
  <2>3. CASE ObserverClaim(w) \/ LateClaim(w)
    BY <1>1, <2>3 DEF ObserverClaim, LateClaim, Claim, Close
  <2>4. QED
    BY <1>3, <2>1, <2>2, <2>3
<1>4. CASE RefusePause(w) \/ CreateFailed(w) \/ PauseFailed(w) \/ AbandonWorker(w)
  BY <1>1, <1>4 DEF RefusePause, CreateFailed, PauseFailed, AbandonWorker, Abandon, Drop
<1>5. CASE WorkflowAnswered(w) \/ WorkflowFailed(w) \/ WorkflowFenced(w) \/ TombstoneExpires(w)
           \/ CaptchaCleared(w) \/ End(w)
  BY <1>1, <1>5 DEF WorkflowAnswered, WorkflowFailed, WorkflowFenced, TombstoneExpires,
     CaptchaCleared, End
<1>6. CASE SendCreate(w)
  BY <1>1, <1>6 DEF SendCreate
<1>7. CASE NotVerified(w)
  BY <1>1, <1>7 DEF NotVerified, AfterVerify
<1>8. QED
  BY <1>2, <1>3, <1>4, <1>5, <1>6, <1>7

(* What an admission step guarantees, for FreshPerception.                  *)
AdmittedFresh ==
  \A w \in Workers :
    /\ phase[w] # "admitted" /\ phase'[w] = "admitted"
    /\ call'[w].method \in {"business", "Workflow.execute"}
    => w \in fresh

LEMMA IssueKeeps ==
  ASSUME TypeOK, FreshInv, NEW w \in Workers, NEW m \in Methods, NEW p \in Pages, Issue(w, m, p)
  PROVE  FreshInv' /\ AdmittedFresh
<1>1. phase[w] = "idle" /\ phase[w] \in Running /\ m \in AllMethods
      /\ UNCHANGED <<generation, epoch, glimpsed, fresh>>
  BY MethodsAssumption DEF Issue, Running, Phases, ghostVars
<1>2. CASE Admit(w, m, p)
  <2>1. \A u \in Workers \ {w} : phase'[u] = phase[u]
    BY <1>2 DEF Admit, Goto, Finish, TypeOK, CallTypes
  <2>2. QED
    BY <1>1, <1>2, <2>1, AdmitInforms DEF AdmittedFresh
<1>3. CASE phase' = [phase EXCEPT ![w] = "gated"] /\ call' = [call EXCEPT ![w] = NewCall(m, p)]
           /\ UNCHANGED latchVars
  <2>1. NoNewRead /\ \A u \in Workers : phase'[u] = "admitted" => phase[u] = "admitted"
    BY <1>1, <1>3 DEF NoNewRead, TypeOK, CallTypes
  <2>2. QED
    BY <1>1, <1>3, <2>1, NoNewReadKeeps DEF AdmittedFresh
<1>4. QED
  BY <1>2, <1>3 DEF Issue, Goto

LEMMA RecheckKeeps ==
  ASSUME TypeOK, FreshInv, NEW w \in Workers, Recheck(w)
  PROVE  FreshInv' /\ AdmittedFresh
<1>1. phase[w] = "gated" /\ phase[w] \in Running
      /\ UNCHANGED <<generation, epoch, glimpsed, fresh>>
  BY DEF Recheck, Running, Phases, ghostVars
<1>2. PICK m, p : m = call[w].method /\ p = call[w].page
  OBVIOUS
<1>3. m \in AllMethods \cup {"none"} /\ p \in Pages \cup {NoPage}
  BY <1>2, CallFacts
<1>4. CASE Admit(w, m, p)
  <2>1. \A u \in Workers \ {w} : phase'[u] = phase[u]
    BY <1>4 DEF Admit, Goto, Finish, TypeOK, CallTypes
  <2>2. QED
    BY <1>1, <1>3, <1>4, <2>1, AdmitInforms DEF AdmittedFresh
<1>5. CASE UNCHANGED <<latchVars, phase, call>>
  BY <1>1, <1>5, NoNewReadKeeps DEF AdmittedFresh, NoNewRead
<1>6. QED
  BY <1>2, <1>4, <1>5 DEF Recheck

LEMMA IssueWorkflowKeeps ==
  ASSUME TypeOK, FreshInv, NEW w \in Workers, NEW p \in Pages, IssueWorkflow(w, p)
  PROVE  FreshInv' /\ AdmittedFresh
<1>1. /\ phase[w] = "idle" /\ phase[w] \in Running /\ seen[w] = generation
      /\ phase' = [phase EXCEPT ![w] = "admitted"]
      /\ call' = [call EXCEPT ![w] = NewCall("Workflow.execute", p)]
      /\ UNCHANGED <<latchVars, generation, epoch, glimpsed, fresh>>
  BY DEF IssueWorkflow, FenceBefore, Goto, Running, Phases, ghostVars, gateVars
<1>2. phase \in [Workers -> Phases] /\ call \in [Workers -> Call]
  BY DEF TypeOK, CallTypes
<1>3. NewCall("Workflow.execute", p).method = "Workflow.execute"
  BY DEF NewCall
<1>4. NoNewRead
  BY <1>1, <1>2, <1>3 DEF NoNewRead, Reads
<1>5. w \in fresh
  BY <1>1 DEF FreshInv, Informed
<1>6. AdmittedFresh
  BY <1>1, <1>2, <1>5 DEF AdmittedFresh
<1>7. QED
  BY <1>1, <1>4, <1>6, NoNewReadKeeps

LEMMA FreshStep ==
  ASSUME ~SharedSlots, TypeOK, FreshInv, [Next]_vars
  PROVE  FreshInv' /\ [AdmittedFresh]_vars
<1>1. ASSUME NEW w \in Workers,
             \/ GateTimeout(w) \/ SendPlain(w) \/ SendCreate(w) \/ SendPause(w) \/ Refuse(w)
             \/ RefusePause(w) \/ Answered(w) \/ CreateFailed(w) \/ PauseFailed(w) \/ PauseGranted(w)
             \/ HumanResumes(w) \/ HumanGone(w) \/ WorkflowAnswered(w) \/ WorkflowFailed(w)
             \/ WorkflowFenced(w) \/ Detect(w) \/ ObserverClaim(w) \/ LateClaim(w)
             \/ TombstoneExpires(w) \/ CaptchaCleared(w) \/ NotVerified(w) \/ End(w) \/ AbandonWorker(w)
      PROVE  FreshInv' /\ AdmittedFresh
  BY <1>1, QuietSteps, NoNewReadKeeps DEF AdmittedFresh
<1>2. ASSUME NEW w \in Workers, Start(w) \/ ReadAnswered(w) \/ Verified(w)
      PROVE  FreshInv' /\ AdmittedFresh
  <2>1. \A u \in Workers : phase'[u] = "admitted" => phase[u] = "admitted"
    BY <1>2 DEF Start, ReadAnswered, Verified, AfterVerify, Finish, Goto, TypeOK, CallTypes
  <2>2. QED
    BY <1>2, <2>1, StartKeeps, ReadAnsweredKeeps, VerifiedKeeps DEF AdmittedFresh
<1>3. ASSUME OperatorReset \/ DiscardInactive
      PROVE  FreshInv' /\ AdmittedFresh
  BY <1>3 DEF OperatorReset, DiscardInactive, Forget, NobodyRuns, FreshInv, AdmittedFresh, latchVars
<1>4. CASE UNCHANGED vars
  BY <1>4, NoNewReadKeeps DEF vars, gateVars, ghostVars, NoNewRead
<1>5. QED
  BY <1>1, <1>2, <1>3, <1>4, IssueKeeps, RecheckKeeps, IssueWorkflowKeeps DEF Next

(* As long as the barrier of a Fleet in use is not discarded, a worker that *)
(* does business or starts a Workflow has read one whole page in the present*)
(* authentication epoch, started in it or opened it, for any number of      *)
(* pages (_fleet_auth_barrier_before_call, _fleet_auth_barrier_after_call). *)
THEOREM PerceptionIsFresh ==
  ASSUME ~SharedSlots
  PROVE  Spec => FreshPerception
<1>1. Init => TypeOK /\ FreshInv
  BY TypeInit DEF Init, FreshInv, Running, Phases
<1>2. TypeOK /\ FreshInv /\ [Next]_vars => (TypeOK /\ FreshInv)' /\ [AdmittedFresh]_vars
  BY TypeStep, FreshStep
<1>3. QED
  BY <1>1, <1>2, PTL DEF Spec, FreshPerception, AdmittedFresh
=============================================================================
