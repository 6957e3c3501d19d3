------------------------------ MODULE HitlWait ------------------------------
(***************************************************************************)
(* One worker asking a human for help on one page: the request and its     *)
(* budget (bindings.py, browser_tools/hitl.py), the wait that races page   *)
(* notifications with the terminal (runtime/hitl.py), the confirmation     *)
(* that the pause is gone, and the recovery loop that looks at the page    *)
(* again and pauses it anew while the challenge is still there.            *)
(*                                                                         *)
(* The person, the page and the platform are the environment: they may     *)
(* press resume, type, retitle, load, answer or refuse in any order.  Time *)
(* is not counted: the deadline of a wait may pass whenever the code looks *)
(* at it, and an event leaves the five-second replay window at any moment. *)
(***************************************************************************)
EXTENDS Naturals

CONSTANTS
    Budget,     \* pause rounds, of the page or the worker; 0: unlimited
    MaxRounds,  \* hitl_post_resume_confirm_max_rounds
    MaxCalls,   \* _SETTLEMENT_VERIFIER_MAX_CALLS
    MaxPolls,   \* Page.getState reads of one confirmation
    MaxTries    \* Hitl.resolvePause retries of one confirmation

ASSUME HitlAssumption ==
    /\ Budget \in Nat /\ MaxRounds \in Nat \ {0} /\ MaxCalls \in Nat
    /\ MaxPolls \in Nat \ {0} /\ MaxTries \in Nat

VARIABLES
    pc,        \* what the worker is doing
    paused,    \* the platform's pause flag of the page
    pauseNo,   \* pauses the platform has accepted
    charged,   \* pause rounds charged to the budget
    pressed,   \* the human has pressed resume on the current pause
    replay,    \* pauses whose Hitl.resumed is in the replay window
    wait,      \* the locals of the running wait
    input,     \* the terminal reader
    typed,     \* pauses for which the terminal reader returned a text
    heard,     \* pauses whose text is in an outcome
    checks,    \* what the recovery loop will look at after a resume
    assist,    \* the pause asks for help in the browser, not for an answer
    round,     \* round of the recovery loop, 0 before it
    found,     \* what was seen on the page since it was last released
    outcome    \* hitl_wait.status

request == <<charged, checks, assist>>
person  == <<pressed, replay>>
vars == <<pc, paused, pauseNo, charged, pressed, replay, wait, input, typed,
          heard, checks, assist, round, found, outcome>>

Pause == 1 .. pauseNo

Listening  == {"listen", "wait"}              \* inside via_notification
Adjudging  == {"verify", "resolve", "confirm", "retry"}
Waiting    == Listening \cup Adjudging \cup {"return"}
Recovering == {"check", "vision", "ask", "repause"}

Gates == {"none", "explicit", "terminal", "vision", "title"}

FreshWait == [calls |-> 0, seen |-> FALSE, title |-> FALSE, gate |-> "none",
              polls |-> 0, tries |-> 0]

Init ==
    /\ pc = "idle" /\ paused = FALSE /\ pauseNo = 0 /\ charged = 0
    /\ pressed = FALSE /\ replay = {} /\ wait = FreshWait /\ input = "off"
    /\ typed = {} /\ heard = {} /\ checks = {} /\ assist = FALSE
    /\ round = 0 /\ found = "none" /\ outcome = "none"

-----------------------------------------------------------------------------
(* Asking for help *)

\* A new pause is in place and its wait begins: both readers are started.
BeginWait ==
    /\ pc' = "listen" /\ paused' = TRUE /\ pauseNo' = pauseNo + 1
    /\ pressed' = FALSE /\ wait' = FreshWait /\ input' = "reading"
    /\ found' = "none" /\ outcome' = "none"

\* _hitl_admission, of an attended worker with one page.
Admitted == Budget > 0 => charged < Budget

\* The admission and the charge of the dispatch guard, then the request.
Request ==
    /\ pc = "idle" /\ Admitted
    /\ charged' = charged + 1
    /\ assist' \in BOOLEAN
    /\ checks' \in IF assist' THEN SUBSET {"structural", "vision"} ELSE {{}}
    /\ round' = 0
    /\ \/ BeginWait
       \/ outcome' = "none" /\ UNCHANGED <<pc, paused, pauseNo, pressed, wait, input, found>>
    /\ UNCHANGED <<replay, typed, heard>>

-----------------------------------------------------------------------------
(* The event reader *)

\* via_notification scans the replay window before it registers a waiter.
Listen ==
    /\ pc = "listen"
    /\ IF replay # {}
         THEN pc' = "confirm" /\ wait' = [wait EXCEPT !.gate = "explicit"]
         ELSE pc' = "wait" /\ UNCHANGED wait
    /\ UNCHANGED <<paused, pauseNo, input, typed, heard, round, found,
                   outcome, request, person>>

\* A title event is cached as evidence and answers nothing.
TitleUpdated(clears) ==
    /\ pc = "wait" /\ assist
    /\ pc' = "listen" /\ wait' = [wait EXCEPT !.title = clears]
    /\ UNCHANGED <<paused, pauseNo, input, typed, heard, round, found,
                   outcome, request, person>>

\* What the wait makes of a page that has settled, when the verifier has
\* not cleared it: a title counts only when the verifier may not run any
\* more, and never after it saw the challenge.
TitlePasses_NoLatch(ran) == ~ran /\ wait.title

TitlePasses(ran) == ~wait.seen /\ ~ran /\ wait.title

\* The page has loaded or moved to another address.
Settled ==
    /\ pc = "wait" /\ assist
    /\ IF wait.calls < MaxCalls
         THEN pc' = "verify" /\ wait' = [wait EXCEPT !.calls = @ + 1]
         ELSE IF TitlePasses(FALSE)
         THEN pc' = "resolve" /\ wait' = [wait EXCEPT !.gate = "title"]
         ELSE pc' = "listen" /\ UNCHANGED wait
    /\ UNCHANGED <<paused, pauseNo, input, typed, heard, round, found,
                   outcome, request, person>>

\* The visual verifier answers; "unavailable" and "uncertain" are one case.
Verdict(v) ==
    /\ pc = "verify"
    /\ CASE v = "challenge" -> pc' = "listen" /\ wait' = [wait EXCEPT !.seen = TRUE]
         [] v = "clear"     -> pc' = "resolve" /\ wait' = [wait EXCEPT !.gate = "vision"]
         [] OTHER -> IF TitlePasses(TRUE)
                       THEN pc' = "resolve" /\ wait' = [wait EXCEPT !.gate = "title"]
                       ELSE pc' = "listen" /\ UNCHANGED wait
    /\ UNCHANGED <<paused, pauseNo, input, typed, heard, round, found,
                   outcome, request, person>>

Ended(o) == pc' = "return" /\ outcome' = o

TimedOut_PerWait ==
    /\ pc = "wait" /\ Ended("timeout")
    /\ UNCHANGED <<paused, pauseNo, wait, input, typed, heard, round, found,
                   request, person>>

\* The deadline passes, or the notification branch fails.
TimedOut ==
    /\ pc \in Listening /\ Ended("timeout")
    /\ UNCHANGED <<paused, pauseNo, wait, input, typed, heard, round, found,
                   request, person>>

-----------------------------------------------------------------------------
(* Releasing the pause *)

\* The platform's answer to Hitl.resolvePause: done, refused because the
\* page is paused, or another error; an answer need not mean an effect.
PlatformResolves(a) ==
    paused' \in IF a = "ok" THEN {paused, FALSE} ELSE {paused}

\* _resolve_after_verified_settlement: one resolvePause before any read.
Resolve(a) ==
    /\ pc = "resolve" /\ PlatformResolves(a)
    /\ IF a = "refused" THEN Ended("deadlock")
                        ELSE pc' = "confirm" /\ UNCHANGED outcome
    /\ UNCHANGED <<pauseNo, wait, input, typed, heard, round, found, request, person>>

ConfirmedBy(s) == s = "free"

\* One Page.getState of _confirm_unpaused_after_settlement.  The page is
\* free, still held, free but showing a challenge, or not readable.
Poll(s) ==
    /\ pc = "confirm" /\ wait.polls < MaxPolls
    /\ s = "free" => ~paused
    /\ s = "held" => paused
    /\ wait' = [wait EXCEPT !.polls = @ + 1]
    /\ IF ConfirmedBy(s) THEN Ended("resumed")
       ELSE /\ pc' = IF s = "held" /\ wait.tries < MaxTries THEN "retry" ELSE "confirm"
            /\ UNCHANGED outcome
    /\ UNCHANGED <<paused, pauseNo, input, typed, heard, round, found, request, person>>

\* resolve_once, when the state still reports the pause.
Retry(a) ==
    /\ pc = "retry" /\ PlatformResolves(a)
    /\ wait' = [wait EXCEPT !.tries = @ + 1]
    /\ IF a = "refused" THEN Ended("deadlock")
                        ELSE pc' = "confirm" /\ UNCHANGED outcome
    /\ UNCHANGED <<pauseNo, input, typed, heard, round, found, request, person>>

\* The reads are used up, or the deadline of the confirmation has passed;
\* after a resolvePause a grace period leaves time for one read at least.
GiveUp ==
    /\ pc = "confirm"
    /\ wait.polls = MaxPolls \/ wait.polls > 0 \/ wait.gate = "explicit"
    /\ Ended("page_settled_after_hitl")
    /\ UNCHANGED <<paused, pauseNo, wait, input, typed, heard, round, found,
                   request, person>>

-----------------------------------------------------------------------------
(* The terminal reader and the race *)

\* The handler returns a text, or nothing usable.
InputEnds(text) ==
    /\ pc \in Waiting /\ input = "reading"
    /\ input' = IF text THEN "text" ELSE "empty"
    /\ typed' = IF text THEN typed \cup {pauseNo} ELSE typed
    /\ UNCHANGED <<pc, paused, pauseNo, wait, heard, round, found, outcome,
                   request, person>>

\* wait_for_hitl_resume wakes with a text while the event reader is still
\* at work: the reader is cancelled, in the middle of a call perhaps, and
\* the pause is resolved on the person's word.
TextTakesOver ==
    /\ input = "text" /\ pc \in Listening \cup Adjudging /\ wait.gate # "terminal"
    /\ paused' \in IF pc \in {"resolve", "retry"} THEN {paused, FALSE} ELSE {paused}
    /\ pc' = "resolve"
    /\ wait' = [wait EXCEPT !.gate = "terminal", !.polls = 0, !.tries = 0]
    /\ UNCHANGED <<pauseNo, input, typed, heard, round, found, outcome,
                   request, person>>

\* Which outcomes carry the text that was typed.
Attaches_TerminalOnly == input = "text" /\ wait.gate = "terminal"

Attaches == input = "text"

\* The loop is over when its rounds are.
LastRound_OneMore == round > MaxRounds

LastRound == round >= MaxRounds

\* The wait returns; a text that came in meanwhile is kept, the reader that
\* is still open is cancelled, and the caller goes on with what it got.
Return ==
    /\ pc = "return"
    /\ heard' = IF Attaches THEN heard \cup {pauseNo} ELSE heard
    /\ input' = "off"
    /\ IF outcome = "resumed" /\ checks # {} /\ round < MaxRounds
         THEN round' = round + 1
              /\ pc' = IF "structural" \in checks THEN "check" ELSE "vision"
         ELSE UNCHANGED round
              /\ pc' \in IF outcome = "deadlock" THEN {"idle", "gone"} ELSE {"idle"}
    /\ UNCHANGED <<paused, pauseNo, wait, typed, found, outcome, request, person>>

-----------------------------------------------------------------------------
(* The recovery loop *)

Finish(o) == pc' = "idle" /\ outcome' = o

\* A fresh look at the structure of the page.
StructuralCheck(r) ==
    /\ pc = "check"
    /\ found' = r
    /\ CASE r = "present" ->
              IF LastRound THEN Finish("still_challenge_after_hitl")
                           ELSE pc' = "repause" /\ UNCHANGED outcome
         [] r = "failed"  ->
              IF "vision" \in checks THEN pc' = "vision" /\ UNCHANGED outcome
                                     ELSE Finish("browser_error_after_hitl")
         [] r = "cleared" ->
              IF "vision" \in checks THEN pc' = "vision" /\ UNCHANGED outcome
                                     ELSE Finish("resumed")
    /\ UNCHANGED <<paused, pauseNo, wait, input, typed, heard, round, request, person>>

\* A fresh look at a screenshot; what is uncertain is accepted as it is.
VisualCheck(r) ==
    /\ pc = "vision"
    /\ found' = r
    /\ IF r = "present" THEN pc' = "ask" /\ UNCHANGED outcome ELSE Finish("resumed")
    /\ UNCHANGED <<paused, pauseNo, wait, input, typed, heard, round, request, person>>

\* The person is asked whether the page is really still blocked.
Asked(d) ==
    /\ pc = "ask"
    /\ CASE d = "yes"   -> Finish("resumed") /\ found' = "overridden"
         [] d = "error" -> Finish("browser_error_after_hitl") /\ UNCHANGED found
         [] d = "no"    -> /\ IF LastRound THEN Finish("still_challenge_after_hitl")
                                           ELSE pc' = "repause" /\ UNCHANGED outcome
                           /\ UNCHANGED found
    /\ UNCHANGED <<paused, pauseNo, wait, input, typed, heard, round, request, person>>

\* The same page is paused again, after a refresh in the visual case; a
\* call that fails ends the recovery, a lost answer may leave the pause on.
Repause ==
    /\ pc = "repause"
    /\ \/ BeginWait
       \/ /\ Finish("browser_error_after_hitl") /\ paused' \in {paused, TRUE}
          /\ UNCHANGED <<pauseNo, pressed, wait, input, found>>
    /\ UNCHANGED <<replay, typed, heard, round, request>>

-----------------------------------------------------------------------------
(* The person at the panel, and the replay window *)

\* Resume is pressed: the event is published, the flag may or may not clear,
\* and a waiter that is registered takes it at once.
HumanResumes ==
    /\ paused /\ ~pressed /\ pauseNo > 0 /\ pc # "gone"
    /\ pressed' = TRUE /\ replay' = replay \cup {pauseNo}
    /\ paused' \in {TRUE, FALSE}
    /\ IF pc = "wait"
         THEN pc' = "confirm" /\ wait' = [wait EXCEPT !.gate = "explicit"]
         ELSE UNCHANGED <<pc, wait>>
    /\ UNCHANGED <<pauseNo, input, typed, heard, round, found, outcome, request>>

Age(n) ==
    /\ n \in replay /\ replay' = replay \ {n}
    /\ UNCHANGED <<pc, paused, pauseNo, pressed, wait, input, typed, heard,
                   round, found, outcome, request>>

-----------------------------------------------------------------------------
Wakes == \/ Listen \/ TimedOut \/ TextTakesOver \/ Return \/ GiveUp
         \/ \E v \in {"challenge", "clear", "uncertain"} : Verdict(v)
         \/ \E a \in {"ok", "refused", "error"} : Resolve(a) \/ Retry(a)
         \/ \E s \in {"free", "held", "surface", "error"} : Poll(s)

Recovers == \/ \E r \in {"present", "failed", "cleared"} : StructuralCheck(r)
            \/ \E r \in {"present", "uncertain", "cleared"} : VisualCheck(r)
            \/ Repause

Environment == \/ Request \/ HumanResumes \/ Settled
               \/ \E c \in BOOLEAN : TitleUpdated(c) \/ InputEnds(c)
               \/ \E d \in {"yes", "no", "error"} : Asked(d)
               \/ \E n \in replay : Age(n)

Next == Wakes \/ Recovers \/ Environment

Spec == Init /\ [][Next]_vars

\* The loop runs what is ready: calls return, timers fire, tasks are woken.
\* Nothing is assumed of the person or of the page.
FairSpec == /\ Spec
            /\ WF_vars(TimedOut)
            /\ WF_vars(pc \in Adjudging \cup {"listen", "return"} /\ Wakes)
            /\ WF_vars(Recovers)

-----------------------------------------------------------------------------
(* Properties *)

TypeOK ==
    /\ pc \in {"idle", "gone"} \cup Waiting \cup Recovering
    /\ paused \in BOOLEAN /\ pressed \in BOOLEAN /\ assist \in BOOLEAN
    /\ charged \in Nat /\ (Budget > 0 => charged <= Budget) /\ pauseNo \in Nat
    /\ replay \subseteq Pause /\ typed \subseteq Pause /\ heard \subseteq Pause
    /\ wait \in [calls : 0 .. MaxCalls, seen : BOOLEAN, title : BOOLEAN,
                 gate : Gates, polls : 0 .. MaxPolls, tries : 0 .. MaxTries]
    /\ input \in {"off", "reading", "text", "empty"}
    /\ checks \subseteq {"structural", "vision"}
    /\ round \in 0 .. MaxRounds
    /\ found \in {"none", "present", "failed", "uncertain", "cleared", "overridden"}
    /\ outcome \in {"none", "resumed", "timeout", "deadlock",
                    "page_settled_after_hitl", "still_challenge_after_hitl",
                    "browser_error_after_hitl"}

\* A worker that is told to go on, or that looks at the page again, works on
\* a page that is not paused: whatever the readers, the retries and the
\* repauses did in between (runtime/hitl.py, _confirm_unpaused_after_settlement).
ResumedIsReleased ==
    (outcome = "resumed" /\ pc # "gone") => ~paused

\* A pause is lifted by the person at the panel, or by the harness on the
\* person's word, on a resume event, on a visual clearance, or on a title
\* when the verifier has spent its calls; never on a title once the verifier
\* has seen the challenge during this pause (runtime/hitl.py 903-949).  Which
\* pause a resume event was for is not asked: the code does not ask it.
LiftedOnEvidence ==
    [][(paused /\ ~paused' /\ pressed' = pressed)
         => \/ wait.gate \in {"explicit", "terminal", "vision"}
            \/ wait.gate' = "terminal"
            \/ wait.gate = "title" /\ ~wait.seen /\ wait.calls = MaxCalls]_vars

\* "resumed" is reported after a re-pause only when the page was looked at
\* again since its last release and no challenge was seen, or a person
\* overruled what was seen (browser_tools/hitl.py, _post_hitl_recovery_loop).
LookedAtAgain ==
    (pc = "idle" /\ outcome = "resumed" /\ checks # {})
        => found \in {"uncertain", "cleared", "overridden"}

\* A worker goes on with a page that is free and that was looked at.
GoesOnSafely == ResumedIsReleased /\ LookedAtAgain

\* A text typed for a pause reaches the outcome of its own wait, whichever
\* reader ended it (wait_for_hitl_resume keeps text that arrives late).  What
\* the recovery loop passes on of the waits it began is not claimed.
OperatorHeard == pc \notin Waiting => typed \subseteq heard

\* A wait comes to an end, whatever the page emits and whatever the person
\* leaves undone: only the yes/no question has no time limit.
WaitReturns == (pc \in Waiting) ~> (pc \in {"idle", "gone", "ask"})

\* bindings.py 819: "Every `Hitl.requestPause` ... passes through here, so
\* this is where attendance and the cumulative pause budget are ENFORCED and
\* ACCOUNTED."  The pauses of the recovery loop do not.
EveryPauseCharged == pauseNo <= charged
=============================================================================
