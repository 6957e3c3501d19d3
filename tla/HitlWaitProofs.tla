--------------------------- MODULE HitlWaitProofs ---------------------------
(***************************************************************************)
(* One request for help, for any pause budget, any number of recovery      *)
(* rounds, verifier calls, reads and retries.                              *)
(*                                                                         *)
(* Each property is a promise about the moment the wait is over.  The      *)
(* inductive invariant says what already holds while it is under way: what *)
(* the gate in force rests on, where a typed text still is, which rounds   *)
(* may still be entered, and how many pauses are paid for.                 *)
(***************************************************************************)
EXTENDS HitlWait, TLAPS

Locals == [calls : 0 .. MaxCalls, seen : BOOLEAN, title : BOOLEAN,
           gate : Gates, polls : 0 .. MaxPolls, tries : 0 .. MaxTries]

Types ==
  /\ pc \in {"idle", "gone"} \cup Waiting \cup Recovering
  /\ paused \in BOOLEAN /\ pressed \in BOOLEAN
  /\ charged \in Nat /\ (Budget > 0 => charged <= Budget) /\ pauseNo \in Nat
  /\ wait \in Locals /\ (pc = "retry" => wait.tries < MaxTries)
  /\ input \in {"off", "reading", "text", "empty"}
  /\ round \in 0 .. MaxRounds

\* The worker was told to go on, or is on its way to look at the page again.
Released ==
  /\ pc \in Recovering => outcome = "resumed"
  /\ outcome = "resumed" => ~paused

\* A pause that is being released has a gate, and a title alone is one only
\* under the two conditions of the notification loop.
Grounded ==
  pc \in {"resolve", "confirm", "retry"} =>
    \/ wait.gate \in {"explicit", "terminal", "vision"}
    \/ wait.gate = "title" /\ ~wait.seen /\ wait.calls = MaxCalls

\* A text that is in no outcome yet is the running wait's.
Kept ==
  \/ typed \subseteq heard
  \/ pc \in Waiting /\ input = "text" /\ typed \subseteq heard \cup {pauseNo}

\* A wait of the recovery loop leaves a round in which the page is looked at.
Rounds ==
  /\ pc \in Waiting \cup {"repause"} => round < MaxRounds
  /\ LookedAtAgain

\* The pauses of the request that is being served: one for each round begun.
Served == IF pc \in Waiting THEN round + 1 ELSE round

\* Each charged request pays for MaxRounds pauses and no more; one that is
\* still being served has not used those of the rounds ahead.
Paid ==
  /\ pauseNo <= charged * MaxRounds
  /\ pc \in Waiting \cup Recovering => pauseNo + (MaxRounds - Served) <= charged * MaxRounds

HitlInv == Types /\ Released /\ Grounded /\ Kept /\ Rounds /\ Paid

-----------------------------------------------------------------------------
\* A further request pays for as many pauses as there are rounds.
LEMMA OneMoreRequest ==
  ASSUME NEW a \in Nat, NEW b \in Nat
  PROVE  (a + 1) * b = a * b + b
BY SMT

\* A charge within the budget pays for no more pauses than the budget does.
LEMMA WithinBudget ==
  ASSUME NEW a \in Nat, NEW b \in Nat, NEW c \in Nat, c <= a
  PROVE  c * b <= a * b
BY SMT

\* The locals of a wait, as they begin.
LEMMA Fresh == FreshWait \in Locals
BY HitlAssumption DEF Locals, FreshWait, Gates

\* What each step may assign of them.
LEMMA Assigned ==
  ASSUME wait \in Locals
  PROVE  /\ \A g \in Gates : [wait EXCEPT !.gate = g] \in Locals
         /\ \A b \in BOOLEAN : /\ [wait EXCEPT !.title = b] \in Locals
                               /\ [wait EXCEPT !.seen = b] \in Locals
         /\ [wait EXCEPT !.gate = "terminal", !.polls = 0, !.tries = 0] \in Locals
         /\ wait.tries < MaxTries => [wait EXCEPT !.tries = @ + 1] \in Locals
         /\ wait.polls < MaxPolls => [wait EXCEPT !.polls = @ + 1] \in Locals
         /\ wait.calls < MaxCalls => [wait EXCEPT !.calls = @ + 1] \in Locals
<1>1. \A g \in Gates : [wait EXCEPT !.gate = g] \in Locals
  BY DEF Locals
<1>2. \A b \in BOOLEAN : [wait EXCEPT !.title = b] \in Locals /\ [wait EXCEPT !.seen = b] \in Locals
  BY DEF Locals
<1>3. \A w \in Locals : [w EXCEPT !.polls = 0] \in Locals
  BY HitlAssumption DEF Locals
<1>4. \A w \in Locals : [w EXCEPT !.tries = 0] \in Locals
  BY HitlAssumption DEF Locals
<1>5. [[[wait EXCEPT !.gate = "terminal"] EXCEPT !.polls = 0] EXCEPT !.tries = 0] \in Locals
  BY <1>1, <1>3, <1>4 DEF Gates
<1>6. wait.tries < MaxTries => [wait EXCEPT !.tries = @ + 1] \in Locals
  BY HitlAssumption DEF Locals
<1>7. wait.polls < MaxPolls => [wait EXCEPT !.polls = @ + 1] \in Locals
  BY HitlAssumption DEF Locals
<1>8. wait.calls < MaxCalls => [wait EXCEPT !.calls = @ + 1] \in Locals
  BY HitlAssumption DEF Locals
<1>9. QED
  BY <1>1, <1>2, <1>5, <1>6, <1>7, <1>8

LEMMA InitHolds == Init => HitlInv
<1> SUFFICES ASSUME Init PROVE HitlInv
  OBVIOUS
<1>1. Types
  <2>1. wait \in Locals
    BY Fresh DEF Init
  <2>2. paused \in BOOLEAN /\ pressed \in BOOLEAN
    BY DEF Init
  <2>3. /\ charged \in Nat /\ (Budget > 0 => charged <= Budget)
        /\ pauseNo \in Nat /\ round \in 0 .. MaxRounds
    BY HitlAssumption DEF Init
  <2>4. QED
    BY <2>1, <2>2, <2>3 DEF Init, Types
<1>2. pauseNo <= charged * MaxRounds
  BY HitlAssumption DEF Init
<1>3. QED
  BY <1>1, <1>2 DEF Init, HitlInv, Released, Grounded, Kept, Rounds, LookedAtAgain, Paid,
                    Waiting, Listening, Adjudging, Recovering

-----------------------------------------------------------------------------
\* The step of each operation, conjunct by conjunct.

LEMMA StepTypes == HitlInv /\ Next => Types'
<1> SUFFICES ASSUME HitlInv, Next PROVE Types'
  OBVIOUS
<1> USE HitlAssumption, Fresh, Assigned DEF HitlInv, Types, Gates, Waiting, Listening, Adjudging, Recovering, request, person
<1>1. CASE Listen
  BY <1>1 DEF Listen
<1>2. CASE TimedOut
  BY <1>2 DEF TimedOut, Ended
<1>3. CASE TextTakesOver
  BY <1>3 DEF TextTakesOver
<1>4. CASE Return
  BY <1>4 DEF Return
<1>5. CASE GiveUp
  BY <1>5 DEF GiveUp, Ended
<1>6. CASE \E v \in {"challenge", "clear", "uncertain"} : Verdict(v)
  BY <1>6 DEF Verdict, TitlePasses
<1>7. CASE \E a \in {"ok", "refused", "error"} : Resolve(a)
  BY <1>7 DEF Resolve, PlatformResolves, Ended
<1>8. CASE \E a \in {"ok", "refused", "error"} : Retry(a)
  BY <1>8 DEF Retry, PlatformResolves, Ended
<1>9. CASE \E s \in {"free", "held", "surface", "error"} : Poll(s)
  BY <1>9 DEF Poll, ConfirmedBy, Ended
<1>10. CASE \E r \in {"present", "failed", "cleared"} : StructuralCheck(r)
  BY <1>10 DEF StructuralCheck, LastRound, Finish
<1>11. CASE \E r \in {"present", "uncertain", "cleared"} : VisualCheck(r)
  BY <1>11 DEF VisualCheck, Finish
<1>12. CASE Repause
  <2>1. wait' \in Locals
    BY <1>12 DEF Repause, BeginWait
  <2>2. paused' \in BOOLEAN /\ pressed' \in BOOLEAN
    BY <1>12 DEF Repause, BeginWait
  <2>3. UNCHANGED <<charged, round>>
    BY <1>12 DEF Repause
  <2>4. pauseNo' \in Nat /\ pc' \in {"listen", "idle"} /\ input' \in {"off", "reading", "text", "empty"}
    <3>1. CASE BeginWait
      BY <3>1 DEF BeginWait
    <3>2. CASE Finish("browser_error_after_hitl") /\ UNCHANGED <<pauseNo, input>>
      BY <3>2 DEF Finish
    <3>3. QED
      BY <1>12, <3>1, <3>2 DEF Repause
  <2>5. QED
    BY <2>1, <2>2, <2>3, <2>4
<1>13. CASE Request
  <2>1. wait' \in Locals
    BY <1>13 DEF Request, BeginWait
  <2>2. charged' \in Nat /\ (Budget > 0 => charged' <= Budget) /\ round' \in 0 .. MaxRounds
    BY <1>13 DEF Request, Admitted
  <2>3. paused' \in BOOLEAN /\ pressed' \in BOOLEAN
    BY <1>13 DEF Request, BeginWait
  <2>4. QED
    BY <1>13, <2>1, <2>2, <2>3 DEF Request, BeginWait
<1>14. CASE HumanResumes
  BY <1>14 DEF HumanResumes
<1>15. CASE Settled
  BY <1>15 DEF Settled, TitlePasses
<1>16. CASE \E c \in BOOLEAN : TitleUpdated(c)
  BY <1>16 DEF TitleUpdated
<1>17. CASE \E c \in BOOLEAN : InputEnds(c)
  BY <1>17 DEF InputEnds
<1>18. CASE \E d \in {"yes", "no", "error"} : Asked(d)
  BY <1>18 DEF Asked, LastRound, Finish
<1>19. CASE \E n \in replay : Age(n)
  BY <1>19 DEF Age
<1>20. QED
  BY <1>1, <1>2, <1>3, <1>4, <1>5, <1>6, <1>7, <1>8, <1>9, <1>10, <1>11, <1>12, <1>13, <1>14, <1>15, <1>16, <1>17, <1>18, <1>19 DEF Next, Wakes, Recovers, Environment

LEMMA StepReleased == HitlInv /\ Next => Released'
<1> SUFFICES ASSUME HitlInv, Next PROVE Released'
  OBVIOUS
<1> USE DEF HitlInv, Types, Released, Waiting, Listening, Adjudging, Recovering, request, person
<1>1. CASE Listen
  BY <1>1 DEF Listen
<1>2. CASE TimedOut
  BY <1>2 DEF TimedOut, Ended
<1>3. CASE TextTakesOver
  BY <1>3 DEF TextTakesOver
<1>4. CASE Return
  BY <1>4 DEF Return
<1>5. CASE GiveUp
  BY <1>5 DEF GiveUp, Ended
<1>6. CASE \E v \in {"challenge", "clear", "uncertain"} : Verdict(v)
  BY <1>6 DEF Verdict, TitlePasses
<1>7. CASE \E a \in {"ok", "refused", "error"} : Resolve(a)
  BY <1>7 DEF Resolve, PlatformResolves, Ended
<1>8. CASE \E a \in {"ok", "refused", "error"} : Retry(a)
  BY <1>8 DEF Retry, PlatformResolves, Ended
<1>9. CASE \E s \in {"free", "held", "surface", "error"} : Poll(s)
  BY <1>9 DEF Poll, ConfirmedBy, Ended
<1>10. CASE \E r \in {"present", "failed", "cleared"} : StructuralCheck(r)
  <2>1. CASE StructuralCheck("present")
    BY <2>1 DEF StructuralCheck, LastRound, Finish
  <2>2. CASE StructuralCheck("failed")
    BY <2>2 DEF StructuralCheck, Finish
  <2>3. CASE StructuralCheck("cleared")
    BY <2>3 DEF StructuralCheck, Finish
  <2>4. QED
    BY <1>10, <2>1, <2>2, <2>3
<1>11. CASE \E r \in {"present", "uncertain", "cleared"} : VisualCheck(r)
  BY <1>11 DEF VisualCheck, Finish
<1>12. CASE Repause
  BY <1>12 DEF Repause, BeginWait, FreshWait, Finish
<1>13. CASE Request
  BY <1>13 DEF Request, Admitted, BeginWait, FreshWait
<1>14. CASE HumanResumes
  BY <1>14 DEF HumanResumes
<1>15. CASE Settled
  BY <1>15 DEF Settled, TitlePasses
<1>16. CASE \E c \in BOOLEAN : TitleUpdated(c)
  BY <1>16 DEF TitleUpdated
<1>17. CASE \E c \in BOOLEAN : InputEnds(c)
  BY <1>17 DEF InputEnds
<1>18. CASE \E d \in {"yes", "no", "error"} : Asked(d)
  <2>1. CASE Asked("yes")
    BY <2>1 DEF Asked, Finish
  <2>2. CASE Asked("no")
    BY <2>2 DEF Asked, LastRound, Finish
  <2>3. CASE Asked("error")
    BY <2>3 DEF Asked, Finish
  <2>4. QED
    BY <1>18, <2>1, <2>2, <2>3
<1>19. CASE \E n \in replay : Age(n)
  BY <1>19 DEF Age
<1>20. QED
  BY <1>1, <1>2, <1>3, <1>4, <1>5, <1>6, <1>7, <1>8, <1>9, <1>10, <1>11, <1>12, <1>13, <1>14, <1>15, <1>16, <1>17, <1>18, <1>19 DEF Next, Wakes, Recovers, Environment

LEMMA StepGrounded == HitlInv /\ Next => Grounded'
<1> SUFFICES ASSUME HitlInv, Next PROVE Grounded'
  OBVIOUS
<1> USE HitlAssumption DEF HitlInv, Types, Locals, Grounded, Waiting, Listening, Adjudging, Recovering, request, person
<1>1. CASE Listen
  BY <1>1 DEF Listen
<1>2. CASE TimedOut
  BY <1>2 DEF TimedOut, Ended
<1>3. CASE TextTakesOver
  BY <1>3 DEF TextTakesOver
<1>4. CASE Return
  BY <1>4 DEF Return
<1>5. CASE GiveUp
  BY <1>5 DEF GiveUp, Ended
<1>6. CASE \E v \in {"challenge", "clear", "uncertain"} : Verdict(v)
  BY <1>6 DEF Verdict, TitlePasses
<1>7. CASE \E a \in {"ok", "refused", "error"} : Resolve(a)
  BY <1>7 DEF Resolve, PlatformResolves, Ended
<1>8. CASE \E a \in {"ok", "refused", "error"} : Retry(a)
  BY <1>8 DEF Retry, PlatformResolves, Ended
<1>9. CASE \E s \in {"free", "held", "surface", "error"} : Poll(s)
  BY <1>9 DEF Poll, ConfirmedBy, Ended
<1>10. CASE \E r \in {"present", "failed", "cleared"} : StructuralCheck(r)
  <2>1. CASE StructuralCheck("present")
    BY <2>1 DEF StructuralCheck, LastRound, Finish
  <2>2. CASE StructuralCheck("failed")
    BY <2>2 DEF StructuralCheck, Finish
  <2>3. CASE StructuralCheck("cleared")
    BY <2>3 DEF StructuralCheck, Finish
  <2>4. QED
    BY <1>10, <2>1, <2>2, <2>3
<1>11. CASE \E r \in {"present", "uncertain", "cleared"} : VisualCheck(r)
  BY <1>11 DEF VisualCheck, Finish
<1>12. CASE Repause
  BY <1>12 DEF Repause, BeginWait, FreshWait, Finish
<1>13. CASE Request
  BY <1>13 DEF Request, Admitted, BeginWait, FreshWait
<1>14. CASE HumanResumes
  BY <1>14 DEF HumanResumes
<1>15. CASE Settled
  BY <1>15 DEF Settled, TitlePasses
<1>16. CASE \E c \in BOOLEAN : TitleUpdated(c)
  BY <1>16 DEF TitleUpdated
<1>17. CASE \E c \in BOOLEAN : InputEnds(c)
  BY <1>17 DEF InputEnds
<1>18. CASE \E d \in {"yes", "no", "error"} : Asked(d)
  <2>1. CASE Asked("yes")
    BY <2>1 DEF Asked, Finish
  <2>2. CASE Asked("no")
    BY <2>2 DEF Asked, LastRound, Finish
  <2>3. CASE Asked("error")
    BY <2>3 DEF Asked, Finish
  <2>4. QED
    BY <1>18, <2>1, <2>2, <2>3
<1>19. CASE \E n \in replay : Age(n)
  BY <1>19 DEF Age
<1>20. QED
  BY <1>1, <1>2, <1>3, <1>4, <1>5, <1>6, <1>7, <1>8, <1>9, <1>10, <1>11, <1>12, <1>13, <1>14, <1>15, <1>16, <1>17, <1>18, <1>19 DEF Next, Wakes, Recovers, Environment

LEMMA StepKept == HitlInv /\ Next => Kept'
<1> SUFFICES ASSUME HitlInv, Next PROVE Kept'
  OBVIOUS
<1> USE DEF HitlInv, Types, Kept, Waiting, Listening, Adjudging, Recovering, request, person
<1>1. CASE Listen
  BY <1>1 DEF Listen
<1>2. CASE TimedOut
  BY <1>2 DEF TimedOut, Ended
<1>3. CASE TextTakesOver
  BY <1>3 DEF TextTakesOver
<1>4. CASE Return
  BY <1>4 DEF Return, Attaches
<1>5. CASE GiveUp
  BY <1>5 DEF GiveUp, Ended
<1>6. CASE \E v \in {"challenge", "clear", "uncertain"} : Verdict(v)
  BY <1>6 DEF Verdict, TitlePasses
<1>7. CASE \E a \in {"ok", "refused", "error"} : Resolve(a)
  BY <1>7 DEF Resolve, PlatformResolves, Ended
<1>8. CASE \E a \in {"ok", "refused", "error"} : Retry(a)
  BY <1>8 DEF Retry, PlatformResolves, Ended
<1>9. CASE \E s \in {"free", "held", "surface", "error"} : Poll(s)
  BY <1>9 DEF Poll, ConfirmedBy, Ended
<1>10. CASE \E r \in {"present", "failed", "cleared"} : StructuralCheck(r)
  BY <1>10 DEF StructuralCheck, LastRound, Finish
<1>11. CASE \E r \in {"present", "uncertain", "cleared"} : VisualCheck(r)
  BY <1>11 DEF VisualCheck, Finish
<1>12. CASE Repause
  BY <1>12 DEF Repause, BeginWait, FreshWait, Finish
<1>13. CASE Request
  BY <1>13 DEF Request, Admitted, BeginWait, FreshWait
<1>14. CASE HumanResumes
  BY <1>14 DEF HumanResumes
<1>15. CASE Settled
  BY <1>15 DEF Settled, TitlePasses
<1>16. CASE \E c \in BOOLEAN : TitleUpdated(c)
  BY <1>16 DEF TitleUpdated
<1>17. CASE \E c \in BOOLEAN : InputEnds(c)
  BY <1>17 DEF InputEnds
<1>18. CASE \E d \in {"yes", "no", "error"} : Asked(d)
  BY <1>18 DEF Asked, LastRound, Finish
<1>19. CASE \E n \in replay : Age(n)
  BY <1>19 DEF Age
<1>20. QED
  BY <1>1, <1>2, <1>3, <1>4, <1>5, <1>6, <1>7, <1>8, <1>9, <1>10, <1>11, <1>12, <1>13, <1>14, <1>15, <1>16, <1>17, <1>18, <1>19 DEF Next, Wakes, Recovers, Environment

LEMMA StepRounds == HitlInv /\ Next => Rounds'
<1> SUFFICES ASSUME HitlInv, Next PROVE Rounds'
  OBVIOUS
<1> USE HitlAssumption DEF HitlInv, Types, Locals, Rounds, LookedAtAgain, Waiting, Listening, Adjudging, Recovering, request, person
<1>1. CASE Listen
  BY <1>1 DEF Listen
<1>2. CASE TimedOut
  BY <1>2 DEF TimedOut, Ended
<1>3. CASE TextTakesOver
  BY <1>3 DEF TextTakesOver
<1>4. CASE Return
  BY <1>4 DEF Return
<1>5. CASE GiveUp
  BY <1>5 DEF GiveUp, Ended
<1>6. CASE \E v \in {"challenge", "clear", "uncertain"} : Verdict(v)
  BY <1>6 DEF Verdict, TitlePasses
<1>7. CASE \E a \in {"ok", "refused", "error"} : Resolve(a)
  BY <1>7 DEF Resolve, PlatformResolves, Ended
<1>8. CASE \E a \in {"ok", "refused", "error"} : Retry(a)
  BY <1>8 DEF Retry, PlatformResolves, Ended
<1>9. CASE \E s \in {"free", "held", "surface", "error"} : Poll(s)
  BY <1>9 DEF Poll, ConfirmedBy, Ended
<1>10. CASE \E r \in {"present", "failed", "cleared"} : StructuralCheck(r)
  <2>1. CASE StructuralCheck("present")
    BY <2>1 DEF StructuralCheck, LastRound, Finish
  <2>2. CASE StructuralCheck("failed")
    BY <2>2 DEF StructuralCheck, Finish
  <2>3. CASE StructuralCheck("cleared")
    BY <2>3 DEF StructuralCheck, Finish
  <2>4. QED
    BY <1>10, <2>1, <2>2, <2>3
<1>11. CASE \E r \in {"present", "uncertain", "cleared"} : VisualCheck(r)
  BY <1>11 DEF VisualCheck, Finish
<1>12. CASE Repause
  BY <1>12 DEF Repause, BeginWait, FreshWait, Finish
<1>13. CASE Request
  BY <1>13 DEF Request, Admitted, BeginWait, FreshWait
<1>14. CASE HumanResumes
  BY <1>14 DEF HumanResumes
<1>15. CASE Settled
  BY <1>15 DEF Settled, TitlePasses
<1>16. CASE \E c \in BOOLEAN : TitleUpdated(c)
  BY <1>16 DEF TitleUpdated
<1>17. CASE \E c \in BOOLEAN : InputEnds(c)
  BY <1>17 DEF InputEnds
<1>18. CASE \E d \in {"yes", "no", "error"} : Asked(d)
  <2>1. CASE Asked("yes")
    BY <2>1 DEF Asked, Finish
  <2>2. CASE Asked("no")
    BY <2>2 DEF Asked, LastRound, Finish
  <2>3. CASE Asked("error")
    BY <2>3 DEF Asked, Finish
  <2>4. QED
    BY <1>18, <2>1, <2>2, <2>3
<1>19. CASE \E n \in replay : Age(n)
  BY <1>19 DEF Age
<1>20. QED
  BY <1>1, <1>2, <1>3, <1>4, <1>5, <1>6, <1>7, <1>8, <1>9, <1>10, <1>11, <1>12, <1>13, <1>14, <1>15, <1>16, <1>17, <1>18, <1>19 DEF Next, Wakes, Recovers, Environment

LEMMA StepPaid == HitlInv /\ Next => Paid'
<1> SUFFICES ASSUME HitlInv, Next PROVE Paid'
  OBVIOUS
<1> USE HitlAssumption DEF HitlInv, Types, Paid, Served, Rounds, Waiting, Listening, Adjudging,
        Recovering, request, person
<1> DEFINE paid == charged * MaxRounds
<1>1. paid \in Nat
  OBVIOUS
<1>2. CASE Wakes
  <2>1. UNCHANGED <<pauseNo, charged>>
    BY <1>2 DEF Wakes, Listen, TimedOut, TextTakesOver, Return, GiveUp, Verdict, Resolve, Retry, Poll
  <2>2. paid' = paid
    BY <2>1
  <2>3. pauseNo' <= paid /\ (pc' \in Waiting \cup Recovering => pauseNo' + (MaxRounds - Served') <= paid)
    <3> HIDE DEF paid
    <3>1. pauseNo <= paid /\ (pc \in Waiting \cup Recovering => pauseNo + (MaxRounds - Served) <= paid)
      BY DEF paid
    <3>2. QED
      BY <1>1, <1>2, <2>1, <3>1 DEF Wakes, Listen, TimedOut, TextTakesOver, Return, GiveUp, Verdict, Resolve, Retry, Poll, Ended
  <2>4. QED
    BY <2>2, <2>3
<1>3. CASE Recovers
  <2>1. UNCHANGED charged
    BY <1>3 DEF Recovers, StructuralCheck, VisualCheck, Repause, BeginWait
  <2>2. paid' = paid
    BY <2>1
  <2>3. pauseNo' <= paid /\ (pc' \in Waiting \cup Recovering => pauseNo' + (MaxRounds - Served') <= paid)
    <3> HIDE DEF paid
    <3>1. pauseNo <= paid /\ (pc \in Waiting \cup Recovering => pauseNo + (MaxRounds - Served) <= paid)
      BY DEF paid
    <3>2. CASE Repause
      <4>1. pc = "repause" /\ UNCHANGED round
        BY <3>2 DEF Repause
      <4>2. CASE BeginWait
        BY <1>1, <2>1, <3>1, <4>1, <4>2 DEF BeginWait
      <4>3. CASE Finish("browser_error_after_hitl") /\ UNCHANGED pauseNo
        BY <1>1, <2>1, <3>1, <4>1, <4>3 DEF Finish
      <4>4. QED
        BY <3>2, <4>2, <4>3 DEF Repause
    <3>3. CASE ~Repause
      <4>1. pc \in Recovering /\ pc' \in Recovering \cup {"idle"} /\ UNCHANGED <<pauseNo, round>>
        BY <1>3, <3>3 DEF Recovers, StructuralCheck, VisualCheck, Finish
      <4>2. QED
        BY <1>1, <2>1, <3>1, <4>1
    <3>4. QED
      BY <3>2, <3>3
  <2>4. QED
    BY <2>2, <2>3
<1>4. CASE Request
  <2>1. paid' = paid + MaxRounds
    BY <1>4, OneMoreRequest DEF Request
  <2>2. pauseNo' <= paid + MaxRounds
        /\ (pc' \in Waiting \cup Recovering => pauseNo' + (MaxRounds - Served') <= paid + MaxRounds)
    <3> HIDE DEF paid
    <3>1. pauseNo <= paid
      BY DEF paid
    <3>2. QED
      BY <1>1, <1>4, <3>1 DEF Request, BeginWait
  <2>3. QED
    BY <2>1, <2>2
<1>5. CASE Environment /\ ~Request
  <2>1. UNCHANGED <<pauseNo, charged>>
    BY <1>5 DEF Environment, HumanResumes, Settled, TitleUpdated, InputEnds, Asked, Age
  <2>2. paid' = paid
    BY <2>1
  <2>3. pauseNo' <= paid /\ (pc' \in Waiting \cup Recovering => pauseNo' + (MaxRounds - Served') <= paid)
    <3> HIDE DEF paid
    <3>1. pauseNo <= paid /\ (pc \in Waiting \cup Recovering => pauseNo + (MaxRounds - Served) <= paid)
      BY DEF paid
    <3>2. QED
      BY <1>1, <1>5, <2>1, <3>1 DEF Environment, HumanResumes, Settled, TitleUpdated, InputEnds, Asked, Finish, Age
  <2>4. QED
    BY <2>2, <2>3
<1>6. QED
  BY <1>2, <1>3, <1>4, <1>5 DEF Next, Environment

LEMMA Inductive == HitlInv /\ [Next]_vars => HitlInv'
<1>1. ASSUME HitlInv, Next PROVE HitlInv'
  BY <1>1, StepTypes, StepReleased, StepGrounded, StepKept, StepRounds, StepPaid DEF HitlInv
<1>2. ASSUME HitlInv, UNCHANGED vars PROVE HitlInv'
  BY <1>2 DEF vars, request, person, HitlInv, Types, Released, Grounded, Kept, Rounds, LookedAtAgain,
              Paid, Served, Waiting, Listening, Adjudging, Recovering
<1>3. QED
  BY <1>1, <1>2

LEMMA Invariant == Spec => []HitlInv
BY InitHolds, Inductive, PTL DEF Spec

-----------------------------------------------------------------------------
(* The worker never goes on, or looks at the page, while it is paused       *)
(* (runtime/hitl.py, _confirm_unpaused_after_settlement and its callers).   *)
THEOREM ReleasedWhenResumed == Spec => []ResumedIsReleased
<1>1. HitlInv => ResumedIsReleased
  BY DEF HitlInv, Released, ResumedIsReleased
<1>2. QED
  BY <1>1, Invariant, PTL

(* "resumed" after a re-pause rests on what was seen since the last release *)
(* (browser_tools/hitl.py, _post_hitl_recovery_loop).                       *)
THEOREM LooksAgain == Spec => []LookedAtAgain
<1>1. HitlInv => LookedAtAgain
  BY DEF HitlInv, Rounds
<1>2. QED
  BY <1>1, Invariant, PTL

(* A worker that goes on has a page that is free and was looked at.         *)
THEOREM SafeToGoOn == Spec => []GoesOnSafely
BY ReleasedWhenResumed, LooksAgain, PTL DEF GoesOnSafely

(* What the operator types is in the outcome of the pause it was typed for  *)
(* (wait_for_hitl_resume, retain_feedback).                                 *)
THEOREM NothingUnheard == Spec => []OperatorHeard
<1>1. HitlInv => OperatorHeard
  BY DEF HitlInv, Kept, OperatorHeard
<1>2. QED
  BY <1>1, Invariant, PTL

(* The harness lifts a pause on evidence only (the notification loop of     *)
(* _wait_for_hitl_events and _resolve_after_verified_settlement).           *)
THEOREM OnlyOnEvidence == Spec => LiftedOnEvidence
<1> DEFINE Lifts == (paused /\ ~paused' /\ pressed' = pressed)
                      => \/ wait.gate \in {"explicit", "terminal", "vision"}
                         \/ wait.gate' = "terminal"
                         \/ wait.gate = "title" /\ ~wait.seen /\ wait.calls = MaxCalls
<1>1. ASSUME HitlInv, [Next]_vars PROVE Lifts
  <2> USE <1>1 DEF HitlInv, Types, Grounded, request, person
  <2>1. CASE Wakes
    BY <2>1 DEF Wakes, Listen, TimedOut, TextTakesOver, Return, GiveUp, Verdict, Resolve, Retry, Poll
  <2>2. CASE Recovers
    BY <2>2 DEF Recovers, StructuralCheck, VisualCheck, Repause, BeginWait
  <2>3. CASE Environment
    <3>1. CASE Request
      BY <3>1 DEF Request, BeginWait
    <3>2. CASE HumanResumes
      BY <3>2 DEF HumanResumes
    <3>3. CASE UNCHANGED paused
      BY <3>3
    <3>4. QED
      BY <2>3, <3>1, <3>2, <3>3 DEF Environment, Settled, TitleUpdated, InputEnds, Asked, Age
  <2>4. CASE UNCHANGED vars
    BY <2>4 DEF vars
  <2>5. QED
    BY <1>1, <2>1, <2>2, <2>3, <2>4 DEF Next
<1>2. HitlInv /\ [Next]_vars => [Lifts]_vars
  BY <1>1
<1>3. QED
  BY <1>2, Invariant, PTL DEF Spec, LiftedOnEvidence

(* What a budget does bound (_hitl_admission; a budget of 0 is none): the   *)
(* recovery loop's own pauses are not charged (EveryPauseCharged fails),    *)
(* yet one page is never paused more often than the budget times the rounds *)
(* of a recovery.                                                           *)
THEOREM PausesBounded ==
  ASSUME Budget > 0
  PROVE  Spec => [](pauseNo <= Budget * MaxRounds)
<1>1. HitlInv => pauseNo <= Budget * MaxRounds
  <2> SUFFICES ASSUME HitlInv PROVE pauseNo <= Budget * MaxRounds
    OBVIOUS
  <2>1. charged \in Nat /\ charged <= Budget /\ pauseNo \in Nat /\ pauseNo <= charged * MaxRounds
    BY HitlAssumption DEF HitlInv, Types, Paid
  <2>2. charged * MaxRounds <= Budget * MaxRounds
    BY HitlAssumption, <2>1, WithinBudget
  <2>3. charged * MaxRounds \in Nat /\ Budget * MaxRounds \in Nat
    BY HitlAssumption, <2>1
  <2>4. QED
    BY ONLY <2>1, <2>2, <2>3
<1>2. QED
  BY <1>1, Invariant, PTL
=============================================================================
