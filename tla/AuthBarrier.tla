------------------------------ MODULE AuthBarrier ------------------------------
(***************************************************************************)
(* FleetAuthBarrier of harness/fleet/runtime.py for one Fleet, and the     *)
(* worker's side of it in harness/tools/browser_tools: the gate in front of*)
(* every browser call, the claims before HITL, verified clearance, and the *)
(* re-reading of a page after the shared authentication changed.           *)
(*                                                                         *)
(* Each operation of the barrier runs under its Condition without awaiting *)
(* inside, so it is one step; a waiter of before_call is in phase "gated", *)
(* and in asleep until notify_all.  A worker is one task: its calls follow *)
(* each other.                                                             *)
(***************************************************************************)
EXTENDS Integers, FiniteSets

CONSTANTS
  Workers, Pages,
  Methods,       \* the classes of calls a worker makes, a part of AllMethods
  MaxEpoch,      \* bounds how often the barrier may be opened after a claim
  LateEvents,    \* may Hitl.paused arrive after its Workflow returned?
  Readers,       \* the workers whose fate the liveness property follows
  SharedSlots,   \* may a broken slot that also lists this Fleet be cleaned up?
  NoWorker, NoPage

Reads == {"Page.getState", "DOM.getAXTree"}
AllMethods == Reads \cup {"Page.list", "Page.create", "Hitl.requestPause",
                          "Workflow.execute", "business"}

ASSUME MethodsAssumption == Methods \subseteq AllMethods
ASSUME ReadersAssumption == Readers \subseteq Workers
ASSUME MaxEpochAssumption == MaxEpoch \in Nat
ASSUME FlagsAssumption == LateEvents \in BOOLEAN /\ SharedSlots \in BOOLEAN
ASSUME AbsentAssumption == NoWorker \notin Workers /\ NoPage \notin Pages

VARIABLES
  resolving, resolver, generation,  \* _AuthBarrierState; a missing one is fresh
  asleep,        \* waiters of before_call that notify_all has not woken
  seen,          \* fleet_barrier_generation of the agent
  pending,       \* fleet_reperception_pending
  target,        \* fleet_reperception_generation
  reads,         \* which of .._state_seen and .._tree_seen are set
  readPage,      \* fleet_reperception_page_id
  phase, call,   \* where a worker is, and the call it makes
  tombstones,    \* workers with a retired Workflow in the FleetClickGate
  epoch,         \* ghost: openings so far; never reset, unlike generation
  glimpsed,      \* ghost: the reads a worker issued and got in this epoch
  fresh,         \* ghost: workers that know a whole page as of this epoch
  tainted        \* ghost: a Workflow result was trusted although the gate closed

gateVars == <<resolving, resolver, generation, asleep>>
latchVars == <<seen, pending, target, reads, readPage>>
ghostVars == <<epoch, glimpsed, fresh, tainted>>
vars == <<gateVars, latchVars, phase, call, tombstones, ghostVars>>

Phases == {"new", "idle", "gated", "admitted", "sent", "human", "verify",
           "settled", "ending", "off"}
Running == Phases \ {"new", "off"}

Call == [method : AllMethods \cup {"none"}, page : Pages \cup {NoPage}, started : Nat,
         takeover : BOOLEAN, epoch : Nat, clean : BOOLEAN]
NoCall == [method |-> "none", page |-> NoPage, started |-> 0, takeover |-> FALSE,
           epoch |-> 0, clean |-> TRUE]

GateTypes ==
  /\ resolving \in BOOLEAN
  /\ resolver \in Workers \cup {NoWorker}
  /\ generation \in Nat
  /\ asleep \in SUBSET Workers

LatchTypes ==
  /\ seen \in [Workers -> Nat]
  /\ pending \in [Workers -> BOOLEAN]
  /\ target \in [Workers -> Nat]
  /\ reads \in [Workers -> SUBSET Reads]
  /\ readPage \in [Workers -> Pages \cup {NoPage}]

CallTypes ==
  /\ phase \in [Workers -> Phases]
  /\ call \in [Workers -> Call]
  /\ tombstones \in SUBSET Workers

GhostTypes ==
  /\ epoch \in Nat
  /\ glimpsed \in [Workers -> SUBSET (Reads \X (Pages \cup {NoPage}))]
  /\ fresh \in SUBSET Workers
  /\ tainted \in BOOLEAN

TypeOK == GateTypes /\ LatchTypes /\ CallTypes /\ GhostTypes

Init ==
  /\ resolving = FALSE /\ resolver = NoWorker /\ generation = 0
  /\ asleep = {} /\ tombstones = {}
  /\ seen = [w \in Workers |-> 0] /\ target = [w \in Workers |-> 0]
  /\ pending = [w \in Workers |-> FALSE]
  /\ reads = [w \in Workers |-> {}]
  /\ readPage = [w \in Workers |-> NoPage]
  /\ phase = [w \in Workers |-> "new"]
  /\ call = [w \in Workers |-> NoCall]
  /\ epoch = 0 /\ tainted = FALSE
  /\ glimpsed = [w \in Workers |-> {}]
  /\ fresh = {}

-----------------------------------------------------------------------------
(* Operators with an underscore in their names are faulty variants of the   *)
(* one that follows; no action uses them.                                   *)

Goto(w, ph) == phase' = [phase EXCEPT ![w] = ph]
Finish(w) == Goto(w, "idle") /\ call' = [call EXCEPT ![w] = NoCall]

(* claim: close the gate, or take one over that has no resolver.            *)
Claimable_Anyhow(w) == TRUE
Claimable(w) == ~resolving \/ resolver \in {NoWorker, w}

Close(w) == resolving' = TRUE /\ resolver' = w /\ UNCHANGED generation

Claim(w) ==
  /\ Claimable(w)
  /\ Close(w)
  /\ asleep' = IF resolver = w THEN asleep ELSE {}

(* Workflows under way when the gate closes can no longer be trusted.       *)
Sullied(calls) ==
  [w \in Workers |-> IF resolving \/ calls[w].method # "Workflow.execute"
                     THEN calls[w]
                     ELSE [calls[w] EXCEPT !.clean = FALSE]]

(* relinquish and abandon_worker: the gate stays shut, without a resolver.  *)
Drop_Silent(w) ==
  resolver' = (IF resolver = w THEN NoWorker ELSE resolver)
  /\ UNCHANGED <<resolving, generation, asleep>>

Drop(w) ==
  /\ IF resolver = w THEN resolver' = NoWorker /\ asleep' = {}
                     ELSE UNCHANGED <<resolver, asleep>>
  /\ UNCHANGED <<resolving, generation>>

(* resolve: open the gate in a new generation.                              *)
Resolve(w) ==
  /\ resolving /\ resolver = w
  /\ epoch < MaxEpoch
  /\ resolving' = FALSE /\ resolver' = NoWorker
  /\ generation' = generation + 1 /\ epoch' = epoch + 1
  /\ asleep' = {}

-----------------------------------------------------------------------------
(* _run_browser_worker binds a fresh agent to the current generation.        *)
Start(w) ==
  /\ phase[w] = "new"
  /\ Goto(w, "idle")
  /\ seen' = [seen EXCEPT ![w] = generation]
  /\ target' = [target EXCEPT ![w] = generation]
  /\ fresh' = fresh \cup {w}
  /\ UNCHANGED <<gateVars, pending, reads, readPage, call, tombstones, epoch,
                 glimpsed, tainted>>

(* A generation the agent has not seen is latched once; int(0 or -1) never  *)
(* equals generation 0, so that one is latched again by every call.         *)
Relatch_Always(w) == seen[w] # generation

Relatch(w) ==
  /\ seen[w] # generation
  /\ ~pending[w] \/ target[w] # generation \/ target[w] = 0

PageTurns(w, m, p) == m \in Reads /\ p # readPage[w]

Latched_Keep(w) == reads[w]

Latched(w) == IF Relatch(w) THEN {} ELSE reads[w]

(* _REPERCEPTION_ALLOWED_METHODS, and the calls that pass an ownerless gate.*)
AllowedStale(m) == m \notin {"Workflow.execute", "business"}
Diagnosis(m) == m \in Reads \cup {"Page.create", "Hitl.requestPause"}

NewCall(m, p) ==
  [method |-> m, page |-> IF m \in Reads THEN p ELSE NoPage,
   started |-> IF m = "Workflow.execute" THEN generation ELSE 0,
   epoch |-> IF m \in Reads THEN epoch ELSE 0, takeover |-> FALSE, clean |-> TRUE]

(* What follows before_call once it does not wait (any more).               *)
Admit(w, m, p) ==
  IF resolving /\ resolver = NoWorker
  THEN /\ IF Diagnosis(m) THEN /\ Goto(w, "admitted")
                               /\ call' = [call EXCEPT ![w] = NewCall(m, p)]
                          ELSE Finish(w)
       /\ UNCHANGED latchVars
  ELSE LET pend == pending[w] \/ Relatch(w)
           turns == pend /\ PageTurns(w, m, p)
       IN  /\ pending' = [pending EXCEPT ![w] = pend]
           /\ target' = [target EXCEPT ![w] = IF Relatch(w) THEN generation ELSE @]
           /\ readPage' = [readPage EXCEPT ![w] = IF turns THEN p ELSE @]
           /\ reads' = [reads EXCEPT ![w] = IF turns THEN {} ELSE Latched(w)]
           /\ UNCHANGED seen
           /\ IF pend /\ ~AllowedStale(m)
              THEN Finish(w)
              ELSE /\ Goto(w, "admitted")
                   /\ call' = [call EXCEPT ![w] = NewCall(m, p)]

(* _fleet_auth_barrier_before_call for everything but a Workflow.           *)
MustWait(w) == resolving /\ resolver \notin {NoWorker, w}

Issue(w, m, p) ==
  /\ phase[w] = "idle"
  /\ m # "Workflow.execute"
  /\ \/ /\ MustWait(w)
        /\ Goto(w, "gated")
        /\ call' = [call EXCEPT ![w] = NewCall(m, p)]
        /\ asleep' = asleep \cup {w}
        /\ UNCHANGED latchVars
     \/ /\ ~MustWait(w)
        /\ Admit(w, m, p)
        /\ UNCHANGED asleep
  /\ UNCHANGED <<resolving, resolver, generation, tombstones, ghostVars>>

(* A woken waiter looks again.                                              *)
Recheck(w) ==
  /\ phase[w] = "gated" /\ w \notin asleep
  /\ IF resolving /\ resolver # NoWorker
     THEN asleep' = asleep \cup {w} /\ UNCHANGED <<latchVars, phase, call>>
     ELSE Admit(w, call[w].method, call[w].page) /\ UNCHANGED asleep
  /\ UNCHANGED <<resolving, resolver, generation, tombstones, ghostVars>>

(* wait_for ran out: the caller gets fleet_auth_gated, the gate stays shut. *)
GateTimeout(w) ==
  /\ phase[w] = "gated"
  /\ Finish(w)
  /\ asleep' = asleep \ {w}
  /\ UNCHANGED <<resolving, resolver, generation, latchVars, tombstones, ghostVars>>

(* workflow_fence_before: a Workflow never waits and needs a seen generation*)
FenceBefore(w) == ~resolving /\ seen[w] = generation

IssueWorkflow(w, p) ==
  /\ phase[w] = "idle"
  /\ "Workflow.execute" \in Methods
  /\ FenceBefore(w)
  /\ Goto(w, "admitted")
  /\ call' = [call EXCEPT ![w] = NewCall("Workflow.execute", p)]
  /\ UNCHANGED <<gateVars, latchVars, tombstones, ghostVars>>

-----------------------------------------------------------------------------
(* An admitted call waits for guards and leases, then is sent.  Page.create *)
(* may first take over an ownerless gate, Hitl.requestPause must own it.    *)
SendPlain(w) ==
  /\ phase[w] = "admitted"
  /\ call[w].method \notin {"Page.create", "Hitl.requestPause"}
  /\ Goto(w, "sent")
  /\ UNCHANGED <<gateVars, latchVars, call, tombstones, ghostVars>>

SendCreate(w) ==
  /\ phase[w] = "admitted" /\ call[w].method = "Page.create"
  /\ ~resolving \/ resolver \in {NoWorker, w}
  /\ Goto(w, "sent")
  /\ IF resolving /\ resolver = NoWorker
     THEN /\ resolver' = w
          /\ call' = [call EXCEPT ![w].takeover = TRUE]
     ELSE UNCHANGED <<resolver, call>>
  /\ UNCHANGED <<resolving, generation, asleep, latchVars, tombstones, ghostVars>>

SendPause(w) ==
  /\ phase[w] = "admitted" /\ call[w].method = "Hitl.requestPause"
  /\ Claim(w)
  /\ Goto(w, "sent")
  /\ call' = Sullied(call)
  /\ UNCHANGED <<latchVars, tombstones, ghostVars>>

(* A guard after admission, or a claim that another worker won.             *)
Refuse(w) ==
  /\ phase[w] = "admitted"
  /\ call[w].method # "Hitl.requestPause" \/ ~Claimable(w)
  /\ Finish(w)
  /\ UNCHANGED <<gateVars, latchVars, tombstones, ghostVars>>

(* _refuse_hitl: unattended or out of budget; ownership is handed back.     *)
RefusePause(w) ==
  /\ \/ phase[w] = "admitted" /\ call[w].method = "Hitl.requestPause"
     \/ phase[w] = "idle"
  /\ Finish(w)
  /\ Drop(w)
  /\ UNCHANGED <<latchVars, tombstones, ghostVars>>

-----------------------------------------------------------------------------
(* _fleet_auth_barrier_after_call on a successful read.                     *)
Stale(w) == target[w] # generation

Latch(w) ==
  LET m == call[w].method
      got == reads[w] \cup {m}
  IN  IF ~pending[w] THEN UNCHANGED latchVars
      ELSE /\ UNCHANGED <<target, readPage>>
           /\ IF Stale(w)
              THEN reads' = [reads EXCEPT ![w] = {}] /\ UNCHANGED <<seen, pending>>
              ELSE IF call[w].page # readPage[w]
              THEN UNCHANGED <<seen, pending, reads>>
              ELSE /\ reads' = [reads EXCEPT ![w] = got]
                   /\ IF got = Reads
                      THEN /\ seen' = [seen EXCEPT ![w] = target[w]]
                           /\ pending' = [pending EXCEPT ![w] = FALSE]
                      ELSE UNCHANGED <<seen, pending>>

(* What the worker really knows: state and tree of one page, both issued    *)
(* and answered in one epoch.                                               *)
Notice(w) ==
  LET c == call[w]
      got == glimpsed[w] \cup {<<c.method, c.page>>}
  IN  IF c.epoch # epoch THEN UNCHANGED <<glimpsed, fresh>>
      ELSE /\ glimpsed' = [glimpsed EXCEPT ![w] = got]
           /\ fresh' = IF Reads \X {c.page} \subseteq got THEN fresh \cup {w} ELSE fresh

ReadAnswered(w) ==
  /\ phase[w] = "sent" /\ call[w].method \in Reads
  /\ Latch(w)
  /\ Notice(w)
  /\ Finish(w)
  /\ UNCHANGED <<gateVars, tombstones, epoch, tainted>>

(* Any other answer, and a failed read.                                     *)
Answered(w) ==
  /\ phase[w] = "sent"
  /\ call[w].method \notin {"Hitl.requestPause", "Workflow.execute"}
  /\ Finish(w)
  /\ UNCHANGED <<gateVars, latchVars, tombstones, ghostVars>>

(* A recovery page that could not be created hands ownership back.          *)
CreateFailed(w) ==
  /\ phase[w] = "sent" /\ call[w].method = "Page.create" /\ call[w].takeover
  /\ Finish(w)
  /\ Drop(w)
  /\ UNCHANGED <<latchVars, tombstones, ghostVars>>

PauseFailed(w) ==
  /\ phase[w] = "sent" /\ call[w].method = "Hitl.requestPause"
  /\ Finish(w)
  /\ Drop(w)
  /\ UNCHANGED <<latchVars, tombstones, ghostVars>>

PauseGranted(w) ==
  /\ phase[w] = "sent" /\ call[w].method = "Hitl.requestPause"
  /\ Goto(w, "human")
  /\ UNCHANGED <<gateVars, latchVars, call, tombstones, ghostVars>>

(* The human resumed the page, or the wait ended otherwise.                 *)
HumanResumes(w) ==
  /\ phase[w] = "human"
  /\ Goto(w, "verify")
  /\ UNCHANGED <<gateVars, latchVars, call, tombstones, ghostVars>>

HumanGone(w) ==
  /\ phase[w] = "human"
  /\ Finish(w)
  /\ UNCHANGED <<gateVars, latchVars, tombstones, ghostVars>>

(* A Workflow's response: its lease leaves a tombstone; if Hitl.paused came *)
(* meanwhile this worker owns the gate and settles the HITL first.          *)
WorkflowAnswered(w) ==
  /\ phase[w] = "sent" /\ call[w].method = "Workflow.execute"
  /\ Goto(w, IF resolving /\ resolver = w THEN "verify" ELSE "settled")
  /\ tombstones' = tombstones \cup {w}
  /\ UNCHANGED <<gateVars, latchVars, call, ghostVars>>

(* An error response keeps the gate shut; its result is fenced all the same.*)
WorkflowFailed(w) ==
  /\ phase[w] = "sent" /\ call[w].method = "Workflow.execute"
  /\ Goto(w, "settled")
  /\ tombstones' = tombstones \cup {w}
  /\ UNCHANGED <<gateVars, latchVars, call, ghostVars>>

(* workflow_fence_after: trusted, or quarantined.                           *)
FenceAfter_Generation(w) == call[w].started = generation
FenceAfter(w) == ~resolving /\ call[w].started = generation

WorkflowFenced(w) ==
  /\ phase[w] = "settled"
  /\ tainted' = (tainted \/ (FenceAfter(w) /\ ~call[w].clean))
  /\ Finish(w)
  /\ UNCHANGED <<gateVars, latchVars, tombstones, epoch, glimpsed, fresh>>

-----------------------------------------------------------------------------
(* A challenge found by a worker, before it pauses or solves a CAPTCHA.     *)
Detect(w) ==
  /\ phase[w] = "idle"
  /\ Claim(w)
  /\ call' = Sullied(call)
  /\ UNCHANGED <<latchVars, phase, tombstones, ghostVars>>

(* Hitl.paused while the worker's Workflow is under way.                    *)
ObserverClaim(w) ==
  /\ phase[w] = "sent" /\ call[w].method = "Workflow.execute"
  /\ Claim(w)
  /\ call' = Sullied(call)
  /\ UNCHANGED <<latchVars, phase, tombstones, ghostVars>>

(* claim_workflow_hitl with provenance "retired": the event comes late, and *)
(* the gate is claimed for the worker whose Workflow it was.                *)
LateClaim(w) ==
  /\ LateEvents /\ w \in tombstones
  /\ Claim(w)
  /\ call' = Sullied(call)
  /\ UNCHANGED <<latchVars, phase, tombstones, ghostVars>>

TombstoneExpires(w) ==
  /\ w \in tombstones
  /\ tombstones' = tombstones \ {w}
  /\ UNCHANGED <<gateVars, latchVars, phase, call, ghostVars>>

(* The CAPTCHA is gone; go and verify.                                      *)
CaptchaCleared(w) ==
  /\ phase[w] = "idle" /\ resolving /\ resolver = w
  /\ Goto(w, "verify")
  /\ UNCHANGED <<gateVars, latchVars, call, tombstones, ghostVars>>

(* _verify_and_open_fleet_auth_barrier: the page was read, so the resolver  *)
(* itself is up to date.  A Workflow's result still has to be fenced.       *)
AfterVerify(w) ==
  IF call[w].method = "Workflow.execute" THEN Goto(w, "settled") /\ UNCHANGED call
                                         ELSE Finish(w)

Verified(w) ==
  /\ phase[w] = "verify"
  /\ Resolve(w)
  /\ AfterVerify(w)
  /\ seen' = [seen EXCEPT ![w] = generation']
  /\ pending' = [pending EXCEPT ![w] = FALSE]
  /\ reads' = [reads EXCEPT ![w] = Reads]
  /\ fresh' = {w}
  /\ glimpsed' = [u \in Workers |-> {}]
  /\ UNCHANGED <<target, readPage, tombstones, tainted>>

NotVerified(w) ==
  /\ phase[w] = "verify"
  /\ AfterVerify(w)
  /\ UNCHANGED <<gateVars, latchVars, tombstones, ghostVars>>

-----------------------------------------------------------------------------
(* A worker ends, or is cancelled anywhere; its slot is idle before         *)
(* abandon_worker has run.                                                  *)
End(w) ==
  /\ phase[w] \in Running \ {"ending"}
  /\ Goto(w, "ending")
  /\ call' = [call EXCEPT ![w] = NoCall]
  /\ asleep' = asleep \ {w}
  /\ tombstones' = IF phase[w] = "sent" /\ call[w].method = "Workflow.execute"
                   THEN tombstones \cup {w} ELSE tombstones
  /\ UNCHANGED <<resolving, resolver, generation, latchVars, ghostVars>>

Abandon_Nobody(w) == UNCHANGED gateVars
Abandon_Opens(w) ==
  /\ IF resolver = w THEN resolver' = NoWorker /\ resolving' = FALSE /\ asleep' = {}
                     ELSE UNCHANGED <<resolver, resolving, asleep>>
  /\ UNCHANGED generation
Abandon(w) == Drop(w)

AbandonWorker(w) ==
  /\ phase[w] = "ending"
  /\ Goto(w, "off")
  /\ Abandon(w)
  /\ UNCHANGED <<latchVars, call, tombstones, ghostVars>>

(* discard_fleet(force) by the operator's reset, refused while a worker uses*)
(* the Fleet; discard_inactive when a retired slot is cleaned up, which only*)
(* looks at that slot's own worker.                                         *)
NobodyRuns == \A w \in Workers : phase[w] \notin Running

Forget ==
  /\ resolving' = FALSE /\ resolver' = NoWorker /\ generation' = 0
  /\ asleep' = {}
  /\ UNCHANGED <<latchVars, phase, call, tombstones, ghostVars>>

OperatorReset == NobodyRuns /\ Forget

(* A waiter that was woken but has not looked yet may still hold the old    *)
(* state object; clean-up is taken when there is none.                      *)
DiscardInactive ==
  /\ ~resolving
  /\ \/ NobodyRuns
     \/ SharedSlots /\ \A w \in Workers : phase[w] # "gated"
  /\ Forget

Next ==
  \/ \E w \in Workers, m \in Methods, p \in Pages : Issue(w, m, p)
  \/ \E w \in Workers, p \in Pages : IssueWorkflow(w, p)
  \/ \E w \in Workers :
       \/ Start(w) \/ Recheck(w) \/ GateTimeout(w)
       \/ SendPlain(w) \/ SendCreate(w) \/ SendPause(w) \/ Refuse(w) \/ RefusePause(w)
       \/ ReadAnswered(w) \/ Answered(w) \/ CreateFailed(w)
       \/ PauseFailed(w) \/ PauseGranted(w) \/ HumanResumes(w) \/ HumanGone(w)
       \/ WorkflowAnswered(w) \/ WorkflowFailed(w) \/ WorkflowFenced(w)
       \/ Detect(w) \/ ObserverClaim(w) \/ LateClaim(w) \/ TombstoneExpires(w)
       \/ CaptchaCleared(w) \/ Verified(w) \/ NotVerified(w)
       \/ End(w) \/ AbandonWorker(w)
  \/ OperatorReset \/ DiscardInactive

Spec == Init /\ [][Next]_vars

(* The event loop runs every ready task; RPCs, waits for a human, waits at  *)
(* the gate and verification are all bounded by timeouts.                   *)
Proceeds(w) ==
  \/ Recheck(w) \/ GateTimeout(w)
  \/ SendPlain(w) \/ SendCreate(w) \/ SendPause(w) \/ Refuse(w)
  \/ Answered(w) \/ PauseFailed(w) \/ HumanGone(w) \/ NotVerified(w)
  \/ WorkflowFailed(w) \/ WorkflowFenced(w) \/ AbandonWorker(w)

(* A worker told to read its page again does so, and keeps trying.          *)
KeepsReading(w) ==
  \A m \in Reads : /\ \A p \in Pages : SF_vars(Issue(w, m, p))
                   /\ SF_vars(SendPlain(w) /\ call[w].method = m)
                   /\ SF_vars(ReadAnswered(w) /\ call[w].method = m)

FairSpec == Spec /\ \A w \in Readers : WF_vars(Proceeds(w)) /\ KeepsReading(w)

-----------------------------------------------------------------------------
(* Class docstring: one resolver.  Whoever asks a human, or verifies that   *)
(* the challenge is gone, owns the gate for as long as that takes.          *)
AsksOrVerifies(w) ==
  \/ phase[w] \in {"human", "verify"}
  \/ phase[w] = "sent" /\ call[w].method = "Hitl.requestPause"

ResolverHolds == \A w \in Workers : AsksOrVerifies(w) => resolving /\ resolver = w

(* abandon_worker: a dead resolver is removed.  A resolver that is no       *)
(* running worker would never open the gate nor hand it back.               *)
ResolverAlive == \A w \in Workers : resolver = w => phase[w] \in Running

(* notify_all reaches every waiter: one that sleeps would have to wait.     *)
NoLostWakeup == asleep # {} => resolving /\ resolver # NoWorker

(* The result of an opaque Workflow is used only if the gate stayed open    *)
(* from its preflight to the fence behind it.                               *)
WorkflowTrust == ~tainted

(* Business calls and Workflows are admitted only for a worker that started *)
(* in, verified, or read one whole page in the present authentication epoch.*)
FreshPerception ==
  [][\A w \in Workers :
       /\ phase[w] # "admitted" /\ phase'[w] = "admitted"
       /\ call'[w].method \in {"business", "Workflow.execute"}
       => w \in fresh]_vars

(* Class docstring: fail-closed.  No timeout, refusal, failure or death of a*)
(* worker opens the gate, only verified clearance by its resolver.          *)
FailClosed ==
  [][resolving /\ ~resolving' =>
       NobodyRuns \/ \E w \in Workers : resolver = w /\ phase[w] = "verify"]_vars

(* What the gate promises to everybody else, in AuthEpoch: one resolver at a*)
(* time, opened by its resolver only, and each opening a new generation.    *)
Epoch == INSTANCE AuthEpoch WITH closed <- resolving
KeepsEpochs == Epoch!Spec

(* A worker that has to read a page again and keeps reading gets through,   *)
(* once the gate stays open.                                                *)
ReperceptionEnds ==
  \A w \in Readers :
    <>[](~resolving) => (pending[w] ~> ~pending[w] \/ phase[w] = "off")
=============================================================================
