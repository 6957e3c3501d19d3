---------------------------- MODULE DurableProofs ----------------------------
(***************************************************************************)
(* Proofs about what outlives a process: the lock of a run (RunLock), the  *)
(* plan and state of a task (TaskStorage) and the memory of a Fleet        *)
(* (FleetMemory), for every number of processes, workers, versions and     *)
(* crashes, every time to live and every error of the clocks.              *)
(***************************************************************************)
EXTENDS RunLock, TaskStorage, FleetMemory, FiniteSetTheorems, WellFoundedInduction, TLAPS

-----------------------------------------------------------------------------
(* The lock of a run.                                                       *)

(* A process that is inside the directory: it made it and has not published *)
(* its owner, holds it, or is taking it apart.                              *)
Inside == {"publish", "undo", "rmdir", "clearing"} \cup Holding

(* What a process knows of the lock at the point where it is.               *)
Knows(p) ==
  /\ pc[p] \in {"publish", "undo", "rmdir", "clearing"} => there /\ owner = Nobody /\ ~aged
  /\ pc[p] \in Holding => owner = p
  /\ pc[p] = "remove" => there /\ owner = Nobody /\ aged
  /\ pc[p] = "unlink" => owner # Nobody /\ owner = existing[p] /\ pc[owner] \in Over
  /\ pc[p] \in {"probe", "recheck"} => existing[p] # Nobody
  /\ pc[p] = "recheck" => pc[existing[p]] \in Over
  /\ pc[p] = "restat" /\ owner = Nobody /\ there /\ p \notin outdated => aged

(* At most one process is inside, and none while another takes a stale lock *)
(* apart.                                                                   *)
OneInside ==
  \A p, q \in Processes :
    pc[p] \in Inside \cup Removing /\ pc[q] \in Inside \cup Removing => p = q

(* The lock does not outlive the last process unless one was killed.        *)
Kept ==
  there => crashes > 0 \/ \E p \in Processes : pc[p] \in Inside

LockInv == TypeOK /\ OneInside /\ Kept /\ \A p \in Processes : Knows(p)

-----------------------------------------------------------------------------
(* One lemma for each action: it keeps the invariant.                       *)
USE NobodyAssumption, LimitAssumption
    DEF Inside, Removing, Holding, Trying, Over, Goes, Keeps, Aside, lockVars, LockInv

(* The directory is kept as long as somebody inside is left inside.         *)
LEMMA KeptBy ==
  ASSUME NEW p \in Processes, pc'[p] \in Inside
  PROVE  Kept'
  BY DEF Kept

LEMMA KeptWithout ==
  ASSUME LockInv, NEW p \in Processes, pc[p] \notin Inside, there' = there, crashes' = crashes,
         \A q \in Processes \ {p} : pc'[q] = pc[q]
  PROVE  Kept'
<1>1. there => crashes > 0 \/ \E q \in Processes : pc[q] \in Inside
  BY DEF Kept
<1>2. \A q \in Processes : pc[q] \in Inside => pc'[q] = pc[q]
  OBVIOUS
<1>3. QED
  BY ONLY <1>1, <1>2, there' = there, crashes' = crashes DEF Kept

LEMMA StartHolds ==
  ASSUME LockInv, NEW p \in Processes, Start(p)
  PROVE  LockInv'
<1> USE DEF Start, Running
<1>1. TypeOK'
  BY DEF TypeOK
<1>2. OneInside'
  BY DEF TypeOK, OneInside, Knows
<1>3. Kept'
  BY DEF TypeOK, OneInside, Knows, Kept
<1>4. ASSUME NEW q \in Processes PROVE Knows(q)'
  BY <1>4 DEF TypeOK, OneInside, Knows
<1>5. QED
  BY <1>1, <1>2, <1>3, <1>4

LEMMA MkdirHolds ==
  ASSUME LockInv, NEW p \in Processes, Mkdir(p)
  PROVE  LockInv'
<1> USE DEF Mkdir, Becomes
<1>1. TypeOK'
  <2>1. CASE there
    BY <2>1 DEF TypeOK
  <2>2. CASE ~there
    BY <2>2 DEF TypeOK
  <2>3. QED
    BY <2>1, <2>2
<1>2. OneInside'
  BY DEF TypeOK, OneInside, Knows
<1>3. Kept'
  <2>1. CASE there
    <3>1. pc[p] \notin Inside /\ there' = there /\ crashes' = crashes
      BY <2>1
    <3>2. \A q \in Processes \ {p} : pc'[q] = pc[q]
      BY <2>1 DEF TypeOK
    <3>3. QED
      BY <3>1, <3>2, KeptWithout
  <2>2. CASE ~there
    <3>1. pc'[p] \in Inside
      BY <2>2 DEF TypeOK
    <3>2. QED
      BY <3>1, KeptBy
  <2>3. QED
    BY <2>1, <2>2
<1>4. ASSUME NEW q \in Processes PROVE Knows(q)'
  BY <1>4 DEF TypeOK, OneInside, Knows
<1>5. QED
  BY <1>1, <1>2, <1>3, <1>4

LEMMA ReadLockOwnerHolds ==
  ASSUME LockInv, NEW p \in Processes, ReadLockOwner(p)
  PROVE  LockInv'
<1> USE DEF ReadLockOwner
<1>1. TypeOK'
  BY DEF TypeOK
<1>2. OneInside'
  BY DEF TypeOK, OneInside, Knows
<1>3. Kept'
  BY DEF TypeOK, OneInside, Knows, Kept
<1>4. ASSUME NEW q \in Processes PROVE Knows(q)'
  BY <1>4 DEF TypeOK, OneInside, Knows
<1>5. QED
  BY <1>1, <1>2, <1>3, <1>4

LEMMA ProbeHolds ==
  ASSUME LockInv, NEW p \in Processes, Probe(p)
  PROVE  LockInv'
<1> USE DEF Probe, PidIsAlive
<1>1. TypeOK'
  BY DEF TypeOK
<1>2. OneInside'
  BY DEF TypeOK, OneInside, Knows
<1>3. Kept'
  BY DEF TypeOK, OneInside, Knows, Kept
<1>4. ASSUME NEW q \in Processes PROVE Knows(q)'
  BY <1>4 DEF TypeOK, OneInside, Knows
<1>5. QED
  BY <1>1, <1>2, <1>3, <1>4

LEMMA RecheckHolds ==
  ASSUME LockInv, SoleTakeover, NEW p \in Processes, Recheck(p)
  PROVE  LockInv'
<1> USE DEF Recheck, Taking
<1>1. TypeOK'
  BY DEF TypeOK
<1>2. OneInside'
  BY DEF TypeOK, OneInside, Knows
<1>3. Kept'
  BY DEF TypeOK, OneInside, Knows, Kept
<1>4. ASSUME NEW q \in Processes PROVE Knows(q)'
  BY <1>4 DEF TypeOK, OneInside, Knows
<1>5. QED
  BY <1>1, <1>2, <1>3, <1>4

LEMMA UnlinkHolds ==
  ASSUME LockInv, NEW p \in Processes, Unlink(p)
  PROVE  LockInv'
<1> USE DEF Unlink, Becomes
<1>1. TypeOK'
  BY DEF TypeOK
<1>2. OneInside'
  BY DEF TypeOK, OneInside, Knows
<1>3. Kept'
  BY DEF TypeOK, OneInside, Knows, Kept
<1>4. ASSUME NEW q \in Processes PROVE Knows(q)'
  BY <1>4 DEF TypeOK, OneInside, Knows
<1>5. QED
  BY <1>1, <1>2, <1>3, <1>4

LEMMA RemoveStaleHolds ==
  ASSUME LockInv, NEW p \in Processes, RemoveStale(p)
  PROVE  LockInv'
<1> USE DEF RemoveStale, Rmdir, Becomes
<1>1. TypeOK'
  BY DEF TypeOK
<1>2. OneInside'
  BY DEF TypeOK, OneInside, Knows
<1>3. Kept'
  BY DEF TypeOK, OneInside, Knows, Kept
<1>4. ASSUME NEW q \in Processes PROVE Knows(q)'
  BY <1>4 DEF TypeOK, OneInside, Knows
<1>5. QED
  BY <1>1, <1>2, <1>3, <1>4

LEMMA InspectHolds ==
  ASSUME LockInv, NEW p \in Processes, Inspect(p)
  PROVE  LockInv'
<1> USE DEF Inspect, Verdict
<1>1. TypeOK'
  BY DEF TypeOK
<1>2. OneInside'
  BY DEF TypeOK, OneInside, Knows
<1>3. Kept'
  BY DEF TypeOK, OneInside, Knows, Kept
<1>4. ASSUME NEW q \in Processes PROVE Knows(q)'
  BY <1>4 DEF TypeOK, OneInside, Knows
<1>5. QED
  BY <1>1, <1>2, <1>3, <1>4

LEMMA RestatHolds ==
  ASSUME LockInv, SoleTakeover, NEW p \in Processes, Restat(p)
  PROVE  LockInv'
<1> USE DEF Restat, Taking
<1>1. TypeOK'
  BY DEF TypeOK
<1>2. OneInside'
  BY DEF TypeOK, OneInside, Knows
<1>3. Kept'
  BY DEF TypeOK, OneInside, Knows, Kept
<1>4. ASSUME NEW q \in Processes PROVE Knows(q)'
  BY <1>4 DEF TypeOK, OneInside, Knows
<1>5. QED
  BY <1>1, <1>2, <1>3, <1>4

LEMMA PublishHolds ==
  ASSUME LockInv, NEW p \in Processes, Publish(p)
  PROVE  LockInv'
<1> USE DEF Publish, Becomes
<1>1. TypeOK'
  <2>1. CASE there /\ Goes(p, "held") /\ Becomes(TRUE, p)
    BY <2>1 DEF TypeOK
  <2>2. CASE Goes(p, "undo") /\ Keeps
    BY <2>2 DEF TypeOK
  <2>3. QED
    BY <2>1, <2>2
<1>2. OneInside'
  BY DEF TypeOK, OneInside, Knows
<1>3. Kept'
  <2>1. pc'[p] \in {"held", "undo"}
    BY DEF TypeOK
  <2>2. QED
    BY <2>1, KeptBy
<1>4. ASSUME NEW q \in Processes PROVE Knows(q)'
  BY <1>4 DEF TypeOK, OneInside, Knows
<1>5. QED
  BY <1>1, <1>2, <1>3, <1>4

LEMMA UndoHolds ==
  ASSUME LockInv, NEW p \in Processes, Undo(p)
  PROVE  LockInv'
<1> USE DEF Undo, Rmdir, Becomes
<1>1. TypeOK'
  BY DEF TypeOK
<1>2. OneInside'
  BY DEF TypeOK, OneInside, Knows
<1>3. Kept'
  BY DEF TypeOK, OneInside, Knows, Kept
<1>4. ASSUME NEW q \in Processes PROVE Knows(q)'
  BY <1>4 DEF TypeOK, OneInside, Knows
<1>5. QED
  BY <1>1, <1>2, <1>3, <1>4

LEMMA ReleaseHolds ==
  ASSUME LockInv, NEW p \in Processes, Release(p)
  PROVE  LockInv'
<1> USE DEF Release
<1>1. TypeOK'
  BY DEF TypeOK
<1>2. OneInside'
  BY DEF TypeOK, OneInside, Knows
<1>3. Kept'
  BY DEF TypeOK, OneInside, Knows, Kept
<1>4. ASSUME NEW q \in Processes PROVE Knows(q)'
  BY <1>4 DEF TypeOK, OneInside, Knows
<1>5. QED
  BY <1>1, <1>2, <1>3, <1>4

LEMMA ReleaseUnlinkHolds ==
  ASSUME LockInv, NEW p \in Processes, ReleaseUnlink(p)
  PROVE  LockInv'
<1> USE DEF ReleaseUnlink, Becomes
<1>1. TypeOK'
  BY DEF TypeOK
<1>2. OneInside'
  BY DEF TypeOK, OneInside, Knows
<1>3. Kept'
  <2>1. owner = p /\ owner # Nobody
    BY DEF Knows
  <2>2. pc'[p] = "clearing"
    BY <2>1 DEF TypeOK
  <2>3. QED
    BY <2>2, KeptBy
<1>4. ASSUME NEW q \in Processes PROVE Knows(q)'
  BY <1>4 DEF TypeOK, OneInside, Knows
<1>5. QED
  BY <1>1, <1>2, <1>3, <1>4

LEMMA ReleaseRmdirHolds ==
  ASSUME LockInv, NEW p \in Processes, ReleaseRmdir(p)
  PROVE  LockInv'
<1> USE DEF ReleaseRmdir, Rmdir, Becomes
<1>1. TypeOK'
  BY DEF TypeOK
<1>2. OneInside'
  BY DEF TypeOK, OneInside, Knows
<1>3. Kept'
  BY DEF TypeOK, OneInside, Knows, Kept
<1>4. ASSUME NEW q \in Processes PROVE Knows(q)'
  BY <1>4 DEF TypeOK, OneInside, Knows
<1>5. QED
  BY <1>1, <1>2, <1>3, <1>4

LEMMA CrashHolds ==
  ASSUME LockInv, NEW p \in Processes, Crash(p)
  PROVE  LockInv'
<1> USE DEF Crash, Running
<1>1. TypeOK'
  BY DEF TypeOK
<1>2. OneInside'
  BY DEF TypeOK, OneInside, Knows
<1>3. Kept'
  BY DEF TypeOK, OneInside, Knows, Kept
<1>4. ASSUME NEW q \in Processes PROVE Knows(q)'
  BY <1>4 DEF TypeOK, OneInside, Knows
<1>5. QED
  BY <1>1, <1>2, <1>3, <1>4

LEMMA AgeHolds ==
  ASSUME LockInv, Age
  PROVE  LockInv'
<1> USE DEF Age
<1>1. TypeOK'
  BY DEF TypeOK
<1>2. OneInside'
  BY DEF TypeOK, OneInside, Knows
<1>3. Kept'
  BY DEF TypeOK, OneInside, Knows, Kept
<1>4. ASSUME NEW q \in Processes PROVE Knows(q)'
  BY <1>4 DEF TypeOK, OneInside, Knows
<1>5. QED
  BY <1>1, <1>2, <1>3, <1>4

(* No takeover of a stale lock overlaps another.                            *)
LEMMA LockInvariant == ASSUME SoleTakeover PROVE Spec => []LockInv
<1>1. Init => LockInv
  <2> SUFFICES ASSUME Init PROVE LockInv
    OBVIOUS
  <2>1. TypeOK
    <3>1. pc \in [Processes -> Trying \cup Holding \cup Over \cup {"idle", "clearing"}]
      BY DEF Init
    <3>2. 0 \in 0..MaxCrashes
      OBVIOUS
    <3>3. QED
      BY <3>1, <3>2 DEF Init, TypeOK
  <2>2. OneInside /\ Kept /\ \A p \in Processes : Knows(p)
    BY DEF Init, OneInside, Kept, Knows
  <2>3. QED
    BY <2>1, <2>2
<1>2. LockInv /\ [Next]_vars => LockInv'
  <2> SUFFICES ASSUME LockInv, [Next]_vars
               PROVE  LockInv'
    OBVIOUS
  <2>1. CASE Age
    BY <2>1, AgeHolds
  <2>2. ASSUME NEW p \in Processes, Start(p) \/ Release(p) \/ Crash(p)
        PROVE  LockInv'
    BY <2>2, StartHolds, ReleaseHolds, CrashHolds
  <2>3. ASSUME NEW p \in Processes, Step(p)
        PROVE  LockInv'
    BY <2>3, MkdirHolds, ReadLockOwnerHolds, ProbeHolds, RecheckHolds, UnlinkHolds, RemoveStaleHolds,
       InspectHolds, RestatHolds, PublishHolds, UndoHolds, ReleaseUnlinkHolds, ReleaseRmdirHolds
       DEF Step
  <2>4. CASE UNCHANGED vars
    BY <2>4 DEF vars, TypeOK, OneInside, Kept, Knows
  <2>5. QED
    BY <2>1, <2>2, <2>3, <2>4 DEF Next
<1>3. QED
  BY <1>1, <1>2, PTL DEF Spec

(* The types hold, and only a directory without an owner grows old, while   *)
(* takeovers of a stale lock do not overlap.                                *)
THEOREM TypeCorrect == ASSUME SoleTakeover PROVE Spec => []TypeOK
<1>1. LockInv => TypeOK
  OBVIOUS
<1>2. QED
  BY <1>1, LockInvariant, PTL

(* The mutex of acquire_run_lock: two processes never hold the run lock,    *)
(* while takeovers of a stale lock do not overlap.                          *)
THEOREM LockExcludes == ASSUME SoleTakeover PROVE Spec => []MutualExclusion
<1>1. LockInv => MutualExclusion
  BY DEF OneInside, MutualExclusion
<1>2. QED
  BY <1>1, LockInvariant, PTL

(* The steps on the directory and the file, and the deaths between them,    *)
(* are steps of a mutex that a process asks for once (TaskMutex), or change *)
(* nothing of it: its state is where each process stands, and a step takes  *)
(* one process on.                                                          *)
LEMMA TurnFacts ==
  /\ TurnAt("idle") = "idle" /\ TurnAt("clearing") = "over"
  /\ \A phase \in Trying : TurnAt(phase) = "trying"
  /\ \A phase \in Holding : TurnAt(phase) = "holding"
  /\ \A phase \in Over : TurnAt(phase) = "over"
  BY DEF TurnAt

LEMMA TurnMoves ==
  ASSUME TypeOK, NEW p \in Processes, NEW phase, Goes(p, phase)
  PROVE  /\ TurnAt(phase) = TurnAt(pc[p]) => UNCHANGED Turn
         /\ Mutex!Moves(p, TurnAt(pc[p]), TurnAt(phase))
<1>1. pc \in [Processes -> Trying \cup Holding \cup Over \cup {"idle", "clearing"}]
  BY DEF TypeOK
<1>2. pc' = [pc EXCEPT ![p] = phase]
  OBVIOUS
<1>3. Turn' = [Turn EXCEPT ![p] = TurnAt(phase)]
  BY ONLY <1>1, <1>2, p \in Processes DEF Turn
<1>4. Turn[p] = TurnAt(pc[p])
  BY DEF Turn
<1>5. TurnAt(phase) = TurnAt(pc[p]) => Turn' = Turn
  BY ONLY <1>3, <1>4 DEF Turn
<1>6. QED
  BY <1>3, <1>4, <1>5 DEF Mutex!Moves

(* The run lock is the mutex its users take it for (acquire_run_lock,       *)
(* release_run_lock), as long as no two processes take over a stale lock at *)
(* once; the code does not ensure that, and the mutex fails without it.     *)
THEOREM ImplementsMutex == ASSUME SoleTakeover PROVE Spec => KeepsMutex
<1>1. Init => Mutex!Init
  BY TurnFacts DEF Init, Mutex!Init, Turn
<1>2. LockInv /\ [Next]_vars => [Mutex!Next]_Turn
  <2> SUFFICES ASSUME LockInv, [Next]_vars
               PROVE  Mutex!Next \/ UNCHANGED Turn
    OBVIOUS
  <2>1. ASSUME NEW p \in Processes, Start(p)
        PROVE  Mutex!Next
    <3>1. Mutex!Start(p)
      BY <2>1, TurnMoves, TurnFacts DEF Start, Mutex!Start
    <3>2. QED
      BY <3>1 DEF Mutex!Next
  <2>2. ASSUME NEW p \in Processes, NEW phase \in Trying \cup {"refused", "failed", "dead"},
               pc[p] \in Trying, Goes(p, phase)
        PROVE  Mutex!Next \/ UNCHANGED Turn
    <3>1. CASE phase \in Trying
      BY <2>2, <3>1, TurnMoves, TurnFacts
    <3>2. CASE phase \notin Trying
      <4>1. TurnAt(pc[p]) = "trying" /\ TurnAt(phase) = "over"
        BY <2>2, <3>2, TurnFacts
      <4>2. Mutex!GiveUp(p)
        BY <2>2, <4>1, TurnMoves DEF Mutex!GiveUp
      <4>3. QED
        BY <4>2 DEF Mutex!Next
    <3>3. QED
      BY <3>1, <3>2
  <2>3. ASSUME NEW p \in Processes, Publish(p)
        PROVE  Mutex!Next \/ UNCHANGED Turn
    <3>1. CASE Goes(p, "undo")
      BY <2>2, <2>3, <3>1 DEF Publish
    <3>2. CASE Goes(p, "held")
      <4>1. \A q \in Processes : pc[q] \notin Holding
        BY <2>3 DEF Publish, OneInside
      <4>2. ASSUME NEW q \in Processes PROVE Turn[q] # "holding"
        <5>1. pc[q] \in Trying \cup Over \cup {"idle", "clearing"}
          BY <4>1 DEF TypeOK
        <5>2. TurnAt(pc[q]) \in {"trying", "over", "idle"}
          BY <5>1, TurnFacts
        <5>3. QED
          BY <5>2 DEF Turn
      <4>3. TurnAt(pc[p]) = "trying" /\ TurnAt("held") = "holding"
        BY <2>3, TurnFacts DEF Publish
      <4>4. Mutex!Moves(p, "trying", "holding")
        BY <3>2, <4>3, TurnMoves
      <4>5. QED
        BY <4>2, <4>4 DEF Mutex!Enter, Mutex!Next
    <3>3. QED
      BY <2>3, <3>1, <3>2 DEF Publish
  <2>4. ASSUME NEW p \in Processes, NEW phase \in {"unlinking", "left", "clearing", "dead"},
               pc[p] \in Holding \cup {"clearing"}, Goes(p, phase),
               phase = "unlinking" => pc[p] \in Holding
        PROVE  Mutex!Next \/ UNCHANGED Turn
    <3>1. CASE TurnAt(phase) = TurnAt(pc[p])
      BY <2>4, <3>1, TurnMoves
    <3>2. CASE TurnAt(phase) # TurnAt(pc[p])
      <4>1. TurnAt(pc[p]) = "holding" /\ TurnAt(phase) = "over"
        BY <2>4, <3>2, TurnFacts
      <4>2. Mutex!Leave(p)
        BY <2>4, <4>1, TurnMoves DEF Mutex!Leave
      <4>3. QED
        BY <4>2 DEF Mutex!Next
    <3>3. QED
      BY <3>1, <3>2
  <2>5. ASSUME NEW p \in Processes,
               \/ Mkdir(p) \/ ReadLockOwner(p) \/ Probe(p) \/ Recheck(p) \/ Unlink(p)
               \/ RemoveStale(p) \/ Inspect(p) \/ Restat(p) \/ Undo(p)
        PROVE  Mutex!Next \/ UNCHANGED Turn
    <3>1. pc[p] \in Trying
      BY <2>5 DEF Mkdir, ReadLockOwner, Probe, Recheck, Unlink, RemoveStale, Inspect, Restat, Undo
    <3>2. \E phase \in Trying \cup {"refused", "failed", "dead"} : Goes(p, phase)
      BY ONLY <2>5 DEF Mkdir, ReadLockOwner, Probe, Recheck, Unlink, RemoveStale, Inspect, Restat, Undo,
         Verdict, Trying, Removing
    <3>3. QED
      BY <2>2, <3>1, <3>2
  <2>6. ASSUME NEW p \in Processes, Release(p) \/ ReleaseUnlink(p) \/ ReleaseRmdir(p)
        PROVE  Mutex!Next \/ UNCHANGED Turn
    <3>1. pc[p] \in Holding \cup {"clearing"}
      BY <2>6 DEF Release, ReleaseUnlink, ReleaseRmdir
    <3>2. \E phase \in {"unlinking", "left", "clearing", "dead"} :
             Goes(p, phase) /\ (phase = "unlinking" => pc[p] \in Holding)
      BY <2>6 DEF Release, ReleaseUnlink, ReleaseRmdir
    <3>3. QED
      BY <2>4, <3>1, <3>2
  <2>7. ASSUME NEW p \in Processes, Crash(p)
        PROVE  Mutex!Next \/ UNCHANGED Turn
    <3>1. Goes(p, "dead") /\ pc[p] \in Trying \cup Holding \cup {"clearing"}
      BY <2>7 DEF Crash, Running, TypeOK
    <3>2. QED
      BY <2>2, <2>4, <3>1
  <2>8. CASE Age \/ UNCHANGED vars
    BY <2>8 DEF Age, vars, Turn
  <2>9. QED
    BY <2>1, <2>3, <2>5, <2>6, <2>7, <2>8 DEF Next, Step
<1>3. QED
  BY <1>1, <1>2, LockInvariant, PTL DEF Spec, KeepsMutex, Mutex!Spec

(* A refusal, a failed rename and a release leave no lock directory behind, *)
(* while takeovers of a stale lock do not overlap.                          *)
THEOREM LockGoes == ASSUME SoleTakeover PROVE Spec => []NothingLeftBehind
<1>1. LockInv => NothingLeftBehind
  BY DEF Kept, NothingLeftBehind, Running
<1>2. QED
  BY <1>1, LockInvariant, PTL

-----------------------------------------------------------------------------
(* What a process that runs alone finds: the lock of a dead process, or a   *)
(* directory without an owner, which nobody changes under its hands.        *)
Undisturbed(p) ==
  /\ \A q \in Processes \ {p} : ~Running(q)
  /\ pc[p] \in {"probe", "recheck"} => owner = existing[p]
  /\ pc[p] \in {"inspect", "restat"} => owner = Nobody

(* An owner has started, and a process that still tries is not the owner.   *)
Known(p) ==
  /\ owner # Nobody => pc[owner] # "idle"
  /\ pc[p] \in Trying \cup {"idle"} => owner # p

AloneInv == \A p \in Processes : Known(p) /\ (p \in alone => Undisturbed(p))

LEMMA AloneInvariant == ASSUME SoleTakeover PROVE Spec => []AloneInv
<1>1. Init => AloneInv
  BY DEF Init, AloneInv, Known
<1>2. LockInv /\ AloneInv /\ [Next]_vars => AloneInv'
  <2> SUFFICES ASSUME LockInv, AloneInv, [Next]_vars, NEW p \in Processes
               PROVE  Known(p)' /\ (p \in alone' => Undisturbed(p)')
    BY DEF AloneInv
  <2> USE DEF AloneInv, Known, Undisturbed, Running, TypeOK, Knows
  <2>1. CASE Age
    BY <2>1 DEF Age
  <2>2. ASSUME NEW q \in Processes, Start(q) \/ Release(q) \/ Crash(q)
        PROVE  Known(p)' /\ (p \in alone' => Undisturbed(p)')
    BY <2>2 DEF Start, Release, Crash
  <2>3. ASSUME NEW q \in Processes, Mkdir(q) \/ Publish(q)
        PROVE  Known(p)' /\ (p \in alone' => Undisturbed(p)')
    BY <2>3 DEF Mkdir, Publish, Becomes
  <2>4. ASSUME NEW q \in Processes, ReadLockOwner(q) \/ Probe(q) \/ Recheck(q)
        PROVE  Known(p)' /\ (p \in alone' => Undisturbed(p)')
    <3>1. CASE ReadLockOwner(q)
      BY <3>1 DEF ReadLockOwner
    <3>2. CASE Probe(q)
      BY <3>2 DEF Probe
    <3>3. CASE Recheck(q)
      BY <3>3 DEF Recheck
    <3>4. QED
      BY <2>4, <3>1, <3>2, <3>3
  <2>5. ASSUME NEW q \in Processes, Inspect(q) \/ Restat(q)
        PROVE  Known(p)' /\ (p \in alone' => Undisturbed(p)')
    BY <2>5 DEF Inspect, Verdict, Restat
  <2>6. ASSUME NEW q \in Processes, Unlink(q) \/ ReleaseUnlink(q)
        PROVE  Known(p)' /\ (p \in alone' => Undisturbed(p)')
    BY <2>6 DEF Unlink, ReleaseUnlink, Becomes
  <2>7. ASSUME NEW q \in Processes, RemoveStale(q) \/ Undo(q) \/ ReleaseRmdir(q)
        PROVE  Known(p)' /\ (p \in alone' => Undisturbed(p)')
    BY <2>7 DEF RemoveStale, Undo, ReleaseRmdir, Rmdir, Becomes
  <2>8. CASE UNCHANGED vars
    BY <2>8 DEF vars
  <2>9. QED
    BY <2>1, <2>2, <2>3, <2>4, <2>5, <2>6, <2>7, <2>8 DEF Next, Step
<1>3. QED
  BY <1>1, <1>2, LockInvariant, PTL DEF Spec

(* A crash never locks a task for good: the only refusal of a process that  *)
(* runs alone is the grace period of a directory without an owner, while    *)
(* takeovers of a stale lock do not overlap.                                *)
THEOREM CrashIsSurvived == ASSUME SoleTakeover PROVE Spec => AloneGetsIn
<1> DEFINE Young == there /\ owner = Nobody /\ ~aged
<1>1. ASSUME LockInv, AloneInv, [Next]_vars, NEW p \in alone, pc[p] # "refused", pc'[p] = "refused"
      PROVE  Young
  <2>1. PICK q \in Processes : Start(q) \/ Step(q) \/ Release(q) \/ Crash(q)
    BY <1>1 DEF Next, Age, vars
  <2>2. q = p /\ p \in Processes
    BY <1>1, <2>1 DEF TypeOK, Step, Start, Release, Crash, Mkdir, ReadLockOwner, Probe, Recheck, Unlink,
       RemoveStale, Inspect, Restat, Publish, Undo, ReleaseUnlink, ReleaseRmdir
  <2> USE DEF TypeOK, AloneInv, Known, Undisturbed, Running, Knows
  <2>3. Probe(p) \/ Recheck(p) \/ RemoveStale(p) \/ Inspect(p) \/ Restat(p)
    <3>1. /\ pc'[p] = "refused" /\ pc[p] # "refused"
          /\ pc \in [Processes -> Trying \cup Holding \cup Over \cup {"idle", "clearing"}]
      BY <1>1
    <3>2. ~Start(p) /\ ~Release(p) /\ ~Crash(p)
      BY ONLY <2>2, <3>1 DEF Start, Release, Crash, Goes
    <3>3. ~Mkdir(p) /\ ~ReadLockOwner(p)
      BY ONLY <2>2, <3>1 DEF Mkdir, ReadLockOwner, Goes
    <3>4. ~Unlink(p) /\ ~Publish(p)
      BY ONLY <2>2, <3>1 DEF Unlink, Publish, Goes
    <3>5. ~Undo(p) /\ ~ReleaseUnlink(p) /\ ~ReleaseRmdir(p)
      BY ONLY <2>2, <3>1 DEF Undo, ReleaseUnlink, ReleaseRmdir, Goes
    <3>6. QED
      BY <2>1, <2>2, <3>2, <3>3, <3>4, <3>5 DEF Step
  <2>4. CASE Inspect(p)
    BY <1>1, <2>2, <2>4 DEF Inspect, Verdict
  <2>5. ~Probe(p) /\ ~Recheck(p)
    BY <1>1, <2>2 DEF Probe, PidIsAlive, Recheck
  <2>6. ~RemoveStale(p) /\ ~Restat(p)
    BY <1>1, <2>2 DEF RemoveStale, Restat
  <2>7. QED
    BY <2>3, <2>4, <2>5, <2>6
<1>2. LockInv /\ AloneInv /\ [Next]_vars => [\A p \in alone : pc[p] # "refused" /\ pc'[p] = "refused" => Young]_vars
  BY <1>1
<1>3. QED
  BY <1>2, LockInvariant, AloneInvariant, PTL DEF Spec, AloneGetsIn

HIDE DEF Inside, Removing, Holding, Trying, Over, Goes, Keeps, Aside, lockVars, LockInv

-----------------------------------------------------------------------------
(* A set of numbers with a bound has a maximum.                             *)
LEMMA BoundedHasMaximum ==
  ASSUME NEW S \in SUBSET Nat, S # {}, NEW b \in Nat, \A x \in S : x <= b
  PROVE  \E m \in S : \A x \in S : x <= m
<1> DEFINE Bounds == {u \in Nat : \A x \in S : x <= u}
<1>1. Bounds \subseteq Nat /\ Bounds # {}
  OBVIOUS
<1>2. PICK m \in Bounds : \A u \in Bounds : ~(<<u, m>> \in OpToRel(<, Nat))
  BY <1>1, WFMin, NatLessThanWellFounded
<1>3. \A u \in Bounds : m <= u
  <2>1. OpToRel(<, Nat) = {ss \in Nat \X Nat : ss[1] < ss[2]}
    BY DEF OpToRel
  <2>2. ASSUME NEW u \in Bounds PROVE ~(u < m)
    BY <1>2, <2>1
  <2>3. QED
    BY <2>2
<1>4. m \in S
  <2> SUFFICES ASSUME m \notin S PROVE FALSE
    OBVIOUS
  <2>1. PICK x \in S : TRUE
    OBVIOUS
  <2>2. m - 1 \in Bounds
    BY <2>1
  <2>3. QED
    BY <1>3, <2>2
<1>5. QED
  BY <1>4

-----------------------------------------------------------------------------
(* The plan and state of a task.                                            *)

(* What a version of the history that a state names must satisfy.           *)
Sound(s) == Holds(s, s.state.ver) /\ s.hist[s.state.ver] = s.state.plan

(* The store a process would start on: the worktree until the database has  *)
(* been promoted.                                                           *)
Authority == IF marker THEN db ELSE files

Active == doing \in {"resume", "up", "alias", "state", "mirror"}

(* Where the process is, it is on the store of its mode, with the state     *)
(* that store holds.                                                        *)
Placed ==
  /\ marker => mode = "db"
  /\ mode = "db" /\ Active => marker
  /\ doing = "mirror" => mode = "dual"
  /\ doing \in {"alias", "state"} =>
       mode # "db" /\ Holds(files, next.ver) /\ files.hist[next.ver] = next.plan

(* The operator never goes back from the database to files.                 *)
MovesForward == \A c \in ModeChange : c[1] = "db" => c[2] = "db"

StorageInv ==
  /\ StorageTypeOK /\ Placed
  /\ Authority.state = saved /\ Sound(Authority)
  /\ RunsOnLastSave
  /\ doing = "resume" => Own(mode).plan = held.plan

(* The number a commit takes is not on record (FileStore._next_sequence).   *)
LEMMA NextVersionIsNew ==
  ASSUME NEW s \in Store
  PROVE  ~Holds(s, NextVersion(s))
<1> DEFINE used == {v \in Version : s.hist[v] # NoPlan}
<1>1. used = {} => NextVersion(s) = 1
  BY DEF NextVersion
<1>2. ASSUME used # {} PROVE NextVersion(s) \notin used
  <2>1. used \in SUBSET Nat /\ MaxVersion \in Nat /\ \A v \in used : v <= MaxVersion
    BY StorageAssumption DEF Version
  <2>2. \E m \in used : \A u \in used : u <= m
    BY <1>2, <2>1, BoundedHasMaximum
  <2> DEFINE top == CHOOSE v \in used : \A u \in used : u <= v
  <2>3. top \in used /\ \A u \in used : u <= top
    BY <2>2
  <2>4. NextVersion(s) = top + 1
    BY <1>2 DEF NextVersion
  <2> HIDE DEF top
  <2>5. QED
    BY <2>1, <2>3, <2>4
<1>3. QED
  BY <1>1, <1>2 DEF Holds

(* A process enters with the state and the version of its store.            *)
LEMMA EnterHolds ==
  ASSUME StorageTypeOK, NEW m \in Mode, NEW s, s = (IF m = "db" THEN db ELSE files),
         Enter(m, s)
  PROVE  /\ files' \in Store /\ db' \in Store /\ held' \in State
         /\ doing' \in {"resume", "refused"}
         /\ m = "db" => files' = files
         /\ m # "db" => db' = db
         /\ (IF m = "db" THEN db' ELSE files').state = s.state
         /\ (IF m = "db" THEN db' ELSE files').hist = s.hist
         /\ doing' = "resume" =>
              held' = s.state /\ (IF m = "db" THEN db' ELSE files').plan = s.state.plan
<1>1. s \in Store /\ s.state \in State
  BY DEF StorageTypeOK, Store
<1>2. Repaired(s) \in Store /\ Repaired(s).state = s.state
      /\ Repaired(s).hist = s.hist /\ Repaired(s).plan = s.state.plan
  BY <1>1 DEF Repaired, Store, State
<1> HIDE DEF Repaired
<1>3. CASE Readable(s) /\ (Consistent(s) \/ Torn(s))
  BY <1>1, <1>2, <1>3 DEF Enter, StorageTypeOK
<1>4. CASE ~(Readable(s) /\ (Consistent(s) \/ Torn(s)))
  BY <1>1, <1>4 DEF Enter, StorageTypeOK
<1>5. QED
  BY <1>3, <1>4

LEMMA TypesKept ==
  ASSUME StorageTypeOK, [StorageNext]_storageVars
  PROVE  StorageTypeOK'
<1> USE StorageAssumption
<1>1. ASSUME NEW m \in Mode, Resume(m) PROVE StorageTypeOK'
  <2>1. mode' \in Mode /\ marker' \in BOOLEAN /\ UNCHANGED <<next, saved>>
    BY <1>1 DEF Resume, StorageTypeOK
  <2>2. runs' \in 0 .. MaxRuns
    <3>1. runs < MaxRuns /\ runs' = runs + 1
      BY <1>1 DEF Resume
    <3>2. QED
      BY <3>1 DEF StorageTypeOK
  <2> DEFINE s == IF m = "db" THEN db ELSE files
  <2>3. \/ doing' = "refused" /\ UNCHANGED <<files, db, held>>
        \/ Enter(m, s)
    BY <1>1 DEF Resume, Own
  <2>4. files' \in Store /\ db' \in Store /\ held' \in State /\ doing' \in {"resume", "refused"}
    <3>1. CASE Enter(m, s)
      BY <3>1, EnterHolds
    <3>2. CASE doing' = "refused" /\ UNCHANGED <<files, db, held>>
      BY <3>2 DEF StorageTypeOK
    <3>3. QED
      BY <2>3, <3>1, <3>2
  <2>5. QED
    BY <2>1, <2>2, <2>4 DEF StorageTypeOK
<1>2. ASSUME NEW w \in 0 .. MaxWork, SaveState(w) PROVE StorageTypeOK'
  <2>1. held' \in State /\ held' = [held EXCEPT !.work = w]
    BY <1>2 DEF SaveState, StorageTypeOK, State
  <2>2. [files EXCEPT !.state = held'] \in Store /\ [db EXCEPT !.state = held'] \in Store
    BY <2>1 DEF StorageTypeOK, Store
  <2>3. files' \in Store /\ db' \in Store
    BY <1>2, <2>2 DEF SaveState, Written, Own, StorageTypeOK
  <2>4. QED
    BY <1>2, <2>1, <2>3 DEF SaveState, Mirrored, NoCommit, StorageTypeOK, State
<1>3. ASSUME NEW p \in Plan, CommitDb(p) PROVE StorageTypeOK'
  <2> DEFINE v == NextVersion(db)
  <2>1. v \in Version
    BY <1>3 DEF CommitDb
  <2> HIDE DEF v
  <2>2. [held EXCEPT !.ver = v, !.plan = p] \in State
    <3>1. held \in State /\ v \in 0 .. MaxVersion
      BY <2>1 DEF StorageTypeOK, Version
    <3>2. QED
      BY <3>1 DEF State
  <2>3. Committed(db, v, p) \in Store
    BY <2>1, <2>2 DEF Committed, StorageTypeOK, Store
  <2>4. QED
    BY <1>3, <2>2, <2>3 DEF CommitDb, StorageTypeOK, v
<1>4. ASSUME NEW p \in Plan, CommitHistory(p) PROVE StorageTypeOK'
  <2> DEFINE v == NextVersion(files)
  <2>1. v \in Version
    BY <1>4 DEF CommitHistory
  <2>2. files' = [files EXCEPT !.hist[v] = p] /\ next' = [op |-> "commit", ver |-> v, plan |-> p]
    BY <1>4 DEF CommitHistory
  <2> HIDE DEF v
  <2>3. files' \in Store
    BY <2>1, <2>2 DEF StorageTypeOK, Store
  <2>4. QED
    BY <1>4, <2>1, <2>2, <2>3 DEF CommitHistory, StorageTypeOK, Version
<1>5. CASE CommitAlias
  BY <1>5 DEF CommitAlias, StorageTypeOK, Store
<1>6. CASE CommitState
  <2>1. held' \in State
    BY <1>6 DEF CommitState, StorageTypeOK, State
  <2>2. files' \in Store
    BY <1>6, <2>1 DEF CommitState, StorageTypeOK, Store
  <2>3. QED
    BY <1>6, <2>1, <2>2 DEF CommitState, Mirrored, NoCommit, StorageTypeOK
<1>7. CASE Mirror
  <2>1. [db EXCEPT !.state = held] \in Store
    BY DEF StorageTypeOK, Store
  <2>2. ASSUME Holds(files, next.ver) \/ next.ver \in Version PROVE Committed(db, next.ver, next.plan) \in Store
    BY <2>2 DEF Committed, Holds, StorageTypeOK, Store, State
  <2>3. ASSUME next.ver \notin Version PROVE Committed(db, next.ver, next.plan) \in Store
    BY <2>3 DEF Committed, StorageTypeOK, Store, State
  <2>4. db' \in Store
    BY <1>7, <2>1, <2>2, <2>3 DEF Mirror, StorageTypeOK
  <2>5. QED
    BY <1>7, <2>4 DEF Mirror, NoCommit, StorageTypeOK
<1>8. CASE CommitFails \/ MirrorFails \/ Stop
  BY <1>8 DEF CommitFails, MirrorFails, Stop, NoCommit, NoState, StorageTypeOK, State
<1>9. CASE UNCHANGED storageVars
  BY <1>9 DEF storageVars, StorageTypeOK
<1>10. QED
  BY <1>1, <1>2, <1>3, <1>4, <1>5, <1>6, <1>7, <1>8, <1>9 DEF StorageNext

(* The stores, the process's state and the commit under way keep their      *)
(* types, however the operator moves between the backends.                  *)
THEOREM StorageTypeCorrect == StorageSpec => []StorageTypeOK
<1>1. StorageInit => StorageTypeOK
  <2> SUFFICES ASSUME StorageInit PROVE StorageTypeOK
    OBVIOUS
  <2> USE StorageAssumption DEF State, Version
  <2>1. NoState \in State /\ FirstState \in State
    BY DEF NoState, FirstState
  <2>2. Empty \in Store /\ Created \in Store
    BY <2>1 DEF Empty, Created, Store
  <2>3. QED
    BY <2>1, <2>2 DEF StorageInit, StorageTypeOK, NoCommit, Mode
<1>2. QED
  BY <1>1, TypesKept, PTL DEF StorageSpec

(* A version that is on record keeps its plan in the worktree and in the    *)
(* database: a commit after a torn one takes a number of its own, and the   *)
(* mirror refuses a number that is taken (FileStore._next_sequence,         *)
(* SqliteStore.commit_accepted_plan).                                       *)
THEOREM HistoryStands == StorageSpec => HistoryIsImmutable
<1> DEFINE Stands(v) == /\ Holds(files, v) => files'.hist[v] = files.hist[v]
                        /\ Holds(db, v) => db'.hist[v] = db.hist[v]
<1>1. ASSUME StorageTypeOK, [StorageNext]_storageVars, NEW v \in Version
      PROVE  Stands(v)
  <2> USE <1>1 DEF StorageTypeOK
  <2>1. ASSUME NEW m \in Mode, Resume(m) PROVE Stands(v)
    <3> DEFINE s == IF m = "db" THEN db ELSE files
    <3>1. \/ UNCHANGED <<files, db>>
          \/ Enter(m, s)
      BY <2>1 DEF Resume, Own
    <3>2. ASSUME Enter(m, s) PROVE Stands(v)
      BY <3>2, EnterHolds
    <3>3. QED
      BY <3>1, <3>2
  <2>2. ASSUME NEW p \in Plan, CommitDb(p) PROVE Stands(v)
    <3> DEFINE u == NextVersion(db)
    <3>1. ~Holds(db, u)
      BY NextVersionIsNew
    <3>2. files' = files /\ db' = Committed(db, u, p)
      BY <2>2 DEF CommitDb
    <3> HIDE DEF u
    <3>3. QED
      BY <3>1, <3>2 DEF Committed, Store
  <2>3. ASSUME NEW p \in Plan, CommitHistory(p) PROVE Stands(v)
    <3> DEFINE u == NextVersion(files)
    <3>1. ~Holds(files, u)
      BY NextVersionIsNew
    <3>2. db' = db /\ files' = [files EXCEPT !.hist[u] = p]
      BY <2>3 DEF CommitHistory
    <3> HIDE DEF u
    <3>3. QED
      BY <3>1, <3>2 DEF Store
  <2>4. CASE Mirror
    <3>1. files' = files /\ \/ db' = [db EXCEPT !.state = held]
                            \/ ~Holds(db, next.ver) /\ db' = Committed(db, next.ver, next.plan)
                            \/ db' = db
      BY <2>4 DEF Mirror
    <3>2. QED
      BY <3>1 DEF Committed, Store
  <2>5. ASSUME NEW w \in 0 .. MaxWork, SaveState(w) PROVE Stands(v)
    <3>1. files'.hist = files.hist /\ db'.hist = db.hist
      BY <2>5 DEF SaveState, Written, Own, Store
    <3>2. QED
      BY <3>1
  <2>6. CASE CommitAlias \/ CommitState
    BY <2>6 DEF CommitAlias, CommitState, Store
  <2>7. CASE CommitFails \/ MirrorFails \/ Stop \/ UNCHANGED storageVars
    BY <2>7 DEF CommitFails, MirrorFails, Stop, storageVars
  <2>8. QED
    BY <2>1, <2>2, <2>3, <2>4, <2>5, <2>6, <2>7 DEF StorageNext
<1>2. StorageTypeOK /\ [StorageNext]_storageVars => [\A v \in Version : Stands(v)]_storageVars
  BY <1>1
<1>3. QED
  BY <1>2, StorageTypeCorrect, PTL DEF StorageSpec, HistoryIsImmutable

-----------------------------------------------------------------------------
(* What a process trusts.  The invariant says which store is the authority  *)
(* and that it is whole: its state is the last one saved and the history    *)
(* holds the plan the state names.  MovesForward makes it inductive: after  *)
(* a return from the database the marker would name a store left behind.    *)

LEMMA ResumeKeeps ==
  ASSUME StorageInv, MovesForward, NEW m \in Mode, Resume(m), StorageTypeOK'
  PROVE  StorageInv'
<1> USE DEF StorageInv
<1>1. marker => m = "db"
  BY DEF Resume, MovesForward, Placed
<1>2. CASE m = "db" /\ ~marker /\ ~Promotable
  <2>1. /\ doing' = "refused" /\ mode' = "db"
        /\ UNCHANGED <<marker, files, db, held, next, saved>>
    BY <1>2 DEF Resume
  <2>2. QED
    BY <1>2, <2>1 DEF Placed, Authority, Sound, Holds, RunsOnLastSave, Active
<1>3. CASE m = "db" /\ ~marker /\ Promotable
  <2>1. db.state = files.state /\ Sound(db)
    BY <1>3 DEF Promotable, PromotionAgrees, Authority, Sound, Holds
  <2>2. Enter(m, db) /\ marker' /\ mode' = "db" /\ saved' = saved /\ next' = next
    BY <1>3 DEF Resume
  <2>3. /\ files' = files /\ doing' \in {"resume", "refused"}
        /\ db'.state = db.state /\ db'.hist = db.hist
        /\ doing' = "resume" => held' = db.state /\ db'.plan = db.state.plan
    BY <1>3, <2>2, EnterHolds
  <2>4. Sound(db)'
    BY <2>1, <2>3 DEF Sound, Holds
  <2>5. QED
    BY <1>3, <2>1, <2>2, <2>3, <2>4 DEF Placed, Authority, RunsOnLastSave, Active, Own
<1>4. CASE ~(m = "db" /\ ~marker)
  <2>1. Authority = Own(m)
    BY <1>1, <1>4 DEF Authority, Own
  <2>2. Enter(m, Own(m)) /\ marker' = marker /\ mode' = m /\ saved' = saved /\ next' = next
    BY <1>4 DEF Resume
  <2>3. /\ doing' \in {"resume", "refused"}
        /\ Own(m)'.state = Own(m).state /\ Own(m)'.hist = Own(m).hist
        /\ doing' = "resume" => held' = Own(m).state /\ Own(m)'.plan = Own(m).state.plan
    BY <2>2, EnterHolds DEF Own
  <2>4. Own(m)' = Authority'
    BY <1>1, <1>4, <2>2 DEF Authority, Own
  <2>5. Sound(Authority)' /\ Authority'.state = saved'
    BY <2>1, <2>2, <2>3, <2>4 DEF Sound, Holds
  <2>6. QED
    BY <1>1, <1>4, <2>1, <2>2, <2>3, <2>4, <2>5 DEF Placed, RunsOnLastSave, Active, Own
<1>5. QED
  BY <1>2, <1>3, <1>4

LEMMA SaveStateKeeps ==
  ASSUME StorageInv, NEW w \in 0 .. MaxWork, SaveState(w), StorageTypeOK'
  PROVE  StorageInv'
<1> USE DEF StorageInv
<1>1. Active /\ Authority = Own(mode)
  BY DEF SaveState, Active, Placed, Authority, Own
<1>2. /\ held' = [held EXCEPT !.work = w] /\ saved' = held'
      /\ UNCHANGED <<marker, mode>>
      /\ doing' = IF mode = "dual" THEN "mirror" ELSE "up"
  BY DEF SaveState, Mirrored
<1>3. Authority' = [Authority EXCEPT !.state = held']
  BY <1>1, <1>2 DEF SaveState, Written, Own, Placed, Authority
<1>4. Authority \in Store /\ held \in State
  BY DEF StorageTypeOK, Authority
<1>5. held'.ver = saved.ver /\ held'.plan = saved.plan
  BY <1>1, <1>2, <1>4 DEF RunsOnLastSave, Active, State
<1>6. Authority'.state = held' /\ Authority'.hist = Authority.hist
  BY <1>3, <1>4 DEF Store
<1>7. Sound(Authority)'
  BY <1>5, <1>6 DEF Sound, Holds
<1>8. QED
  BY <1>1, <1>2, <1>6, <1>7 DEF Placed, RunsOnLastSave, Active

LEMMA CommitDbKeeps ==
  ASSUME StorageInv, NEW p \in Plan, CommitDb(p), StorageTypeOK'
  PROVE  StorageInv'
<1> USE DEF StorageInv
<1> DEFINE v == NextVersion(db)
<1>1. v \in Version /\ p # NoPlan
  BY StorageAssumption DEF CommitDb
<1>2. marker /\ Authority = db
  BY DEF CommitDb, Placed, Active, Authority
<1>3. /\ db' = Committed(db, v, p) /\ held' = [held EXCEPT !.ver = v, !.plan = p]
      /\ saved' = held' /\ UNCHANGED <<files, marker, mode, doing, next>> /\ doing = "up"
  BY DEF CommitDb
<1> HIDE DEF v
<1>4. held' = [held EXCEPT !.ver = v, !.plan = p] /\ held \in State /\ db \in Store
  BY <1>3 DEF StorageTypeOK
<1>5. held'.ver = v /\ held'.plan = p
  BY <1>4 DEF State
<1>6. db'.state = held' /\ db'.hist[v] = p
  BY <1>1, <1>3, <1>4 DEF Committed, Store
<1>7. Authority' = db' /\ Sound(db)'
  BY <1>1, <1>2, <1>3, <1>5, <1>6 DEF Authority, Sound, Holds
<1>8. QED
  BY <1>2, <1>3, <1>6, <1>7 DEF Placed, RunsOnLastSave, Active

LEMMA CommitHistoryKeeps ==
  ASSUME StorageInv, NEW p \in Plan, CommitHistory(p), StorageTypeOK'
  PROVE  StorageInv'
<1> USE DEF StorageInv
<1> DEFINE v == NextVersion(files)
<1>1. v \in Version /\ p # NoPlan
  BY StorageAssumption DEF CommitHistory
<1>2. ~Holds(files, v)
  BY NextVersionIsNew DEF StorageTypeOK
<1>3. ~marker /\ Authority = files
  BY DEF CommitHistory, Placed, Authority
<1>4. /\ files' = [files EXCEPT !.hist[v] = p]
      /\ next' = [op |-> "commit", ver |-> v, plan |-> p]
      /\ doing' = "alias" /\ doing = "up" /\ mode # "db"
      /\ UNCHANGED <<marker, mode, held, saved>>
  BY DEF CommitHistory
<1> HIDE DEF v
<1>5. /\ files'.state = files.state /\ files'.hist[v] = p
      /\ \A u \in Version : u # v => files'.hist[u] = files.hist[u]
  BY <1>1, <1>4 DEF StorageTypeOK, Store
<1>6. Sound(files)'
  BY <1>2, <1>3, <1>5 DEF Sound, Holds
<1>7. QED
  BY <1>1, <1>3, <1>4, <1>5, <1>6 DEF Placed, Authority, Holds, RunsOnLastSave, Active

LEMMA CommitStateKeeps ==
  ASSUME StorageInv, CommitState, StorageTypeOK'
  PROVE  StorageInv'
<1> USE DEF StorageInv
<1>1. ~marker /\ mode # "db" /\ Authority = files /\ Holds(files, next.ver)
      /\ files.hist[next.ver] = next.plan
  BY DEF CommitState, Placed, Authority
<1>2. /\ held' = [held EXCEPT !.ver = next.ver, !.plan = next.plan] /\ held \in State
      /\ files' = [files EXCEPT !.state = held'] /\ files \in Store
      /\ saved' = held' /\ UNCHANGED <<marker, mode>>
      /\ doing' = IF mode = "dual" THEN "mirror" ELSE "up"
  BY DEF CommitState, Mirrored, StorageTypeOK
<1>3. held'.ver = next.ver /\ held'.plan = next.plan
  BY <1>2 DEF State
<1>4. files'.state = held' /\ files'.hist = files.hist
  BY <1>2 DEF Store
<1>5. Sound(files)'
  BY <1>1, <1>3, <1>4 DEF Sound, Holds
<1>6. QED
  BY <1>1, <1>2, <1>4, <1>5 DEF Placed, Authority, RunsOnLastSave, Active

LEMMA OtherStepsKeep ==
  ASSUME StorageInv, StorageTypeOK',
         CommitAlias \/ CommitFails \/ Mirror \/ MirrorFails \/ Stop
  PROVE  StorageInv'
<1> USE DEF StorageInv
<1>1. CASE CommitAlias
  <2>1. files'.state = files.state /\ files'.hist = files.hist
    BY <1>1 DEF CommitAlias, StorageTypeOK, Store
  <2>2. ~marker
    BY <1>1 DEF CommitAlias, Placed
  <2>3. QED
    BY <1>1, <2>1, <2>2 DEF CommitAlias, Placed, Authority, Sound, Holds, RunsOnLastSave, Active
<1>2. CASE Mirror
  <2>1. ~marker
    BY <1>2 DEF Mirror, Placed
  <2>2. QED
    BY <1>2, <2>1 DEF Mirror, Placed, Authority, Sound, Holds, RunsOnLastSave, Active
<1>3. CASE CommitFails \/ MirrorFails \/ Stop
  BY <1>3 DEF CommitFails, MirrorFails, Stop, Placed, Authority, Sound, Holds, RunsOnLastSave, Active
<1>4. QED
  BY <1>1, <1>2, <1>3

(* Wherever a commit, an import or a promotion stops, the store a process   *)
(* would start on has the state saved last and the plan it names            *)
(* (commit_accepted_plan, promote_legacy_task_to_database).                 *)
THEOREM StorageInvariant == ASSUME MovesForward PROVE StorageSpec => []StorageInv
<1>1. StorageInit /\ StorageTypeOK => StorageInv
  <2> SUFFICES ASSUME StorageInit, StorageTypeOK PROVE StorageInv
    OBVIOUS
  <2>1. Authority = Created
    BY DEF StorageInit, Authority
  <2>2. Created.state = FirstState /\ Sound(Created)
    BY StorageAssumption DEF Created, FirstState, Sound, Holds, Version
  <2>3. QED
    BY <2>1, <2>2 DEF StorageInit, StorageInv, Placed, Active, RunsOnLastSave
<1>2. StorageInv /\ StorageTypeOK' /\ [StorageNext]_storageVars => StorageInv'
  <2> SUFFICES ASSUME StorageInv, StorageTypeOK', [StorageNext]_storageVars PROVE StorageInv'
    OBVIOUS
  <2>1. CASE UNCHANGED storageVars
    BY <2>1 DEF storageVars, StorageInv, Placed, Authority, Sound, Holds, RunsOnLastSave, Active, Own
  <2>2. QED
    BY <2>1, ResumeKeeps, SaveStateKeeps, CommitDbKeeps, CommitHistoryKeeps, CommitStateKeeps,
       OtherStepsKeep DEF StorageNext
<1>3. QED
  BY <1>1, <1>2, StorageTypeCorrect, PTL DEF StorageSpec

(* A process works on the state that was saved last, whatever crashed and   *)
(* whichever mirror write was lost (promote_legacy_task_to_database).       *)
THEOREM LastSaveRuns == ASSUME MovesForward PROVE StorageSpec => []RunsOnLastSave
<1>1. StorageInv => RunsOnLastSave
  BY DEF StorageInv
<1>2. QED
  BY <1>1, StorageInvariant, PTL

(* A process that enters finds one plan: in the alias, in the state and in  *)
(* the history (reconcile_torn_plan_alias).                                 *)
THEOREM PlanAgrees == ASSUME MovesForward PROVE StorageSpec => []PlanIsOfState
<1>1. StorageInv => PlanIsOfState
  <2> SUFFICES ASSUME StorageInv, doing = "resume"
               PROVE  /\ Own(mode).plan = held.plan
                      /\ Holds(Own(mode), held.ver) /\ Own(mode).hist[held.ver] = held.plan
    BY DEF PlanIsOfState
  <2>1. Own(mode) = Authority
    BY DEF StorageInv, Placed, Active, Own, Authority
  <2>2. held = saved
    BY DEF StorageInv, RunsOnLastSave
  <2>3. QED
    BY <2>1, <2>2 DEF StorageInv, Sound
<1>2. QED
  BY <1>1, StorageInvariant, PTL

-----------------------------------------------------------------------------
(* The memory of a Fleet.                                                   *)

Statuses == {"running", "completed", "failed"}
Stages == {"new", "seen", "boot", "working", "closing", "handling", "ended", "dead"}

(* Leases are times of workers; a fence is a time, Forever or none.         *)
Timed(doc) ==
  /\ DOMAIN doc.running \subseteq Workers
  /\ \A v \in DOMAIN doc.running : doc.running[v] \in Nat
  /\ doc.fence \in Nat \cup {NoFence}

(* Whatever is derived from this document is not open.                      *)
Barred(doc) == doc = Foreign \/ doc.policy = "blocked" \/ (doc.policy = "none" /\ doc.history # <<>>)

(* A lease confirmed at time l is listed, or the fence stands for it.       *)
Covers(doc, w, l) ==
  \/ w \in DOMAIN doc.running /\ doc.running[w] >= l
  \/ doc.fence = Forever \/ doc.fence >= l

(* The leases of doc when worker w has written at time t, before they are   *)
(* compacted; those that count; those of a clock that is ahead.             *)
Leases(doc, w, status, t) ==
  [v \in OtherLeases(doc.running, w) \cup (IF status = "running" THEN {w} ELSE {}) |->
     IF v = w THEN t ELSE doc.running[v]]

Live(running, t) ==
  {v \in DOMAIN running : TTL = 0 \/ (running[v] <= t /\ t - running[v] < TTL)}

Future(running, t) == {v \in DOMAIN running : TTL > 0 /\ running[v] > t}

(* Document d lists the leases of the workers in K and fences the others.   *)
Compacts(running, fence, t, K, d) ==
  /\ K \subseteq Live(running, t)
  /\ d.running = [v \in K |-> running[v]]
  /\ d.fence = Fence(fence, Future(running, t), {running[v] : v \in Live(running, t) \ K}, t)

(* What is kept of doc in a document d that was merged from it.             *)
Follows(doc, d, w, status, t) ==
  /\ doc # Foreign
  /\ Barred(doc) => d.policy = "blocked"
  /\ \E K \in SUBSET Workers : Compacts(Leases(doc, w, status, t), doc.fence, t, K, d)

(* A document that a save at the present revision may put in memory's place. *)
Fits(doc, w, status, t) ==
  /\ Follows(memory.doc, doc, w, status, t)
  /\ ~Eligible(w) => doc.policy = "blocked"

IsWrite(o) ==
  /\ o.step \in {"idle", "get", "save"} /\ o.status \in Statuses
  /\ o.at \in Nat /\ o.rev \in Nat

MemoryTypeOK ==
  /\ contract \in [Workers -> [task : Tasks, eligible : BOOLEAN]]
  /\ now \in Nat /\ memory.rev \in Nat /\ Timed(memory.doc)
  /\ stage \in [Workers -> Stages] /\ leased \in [Workers -> Nat]
  /\ DOMAIN op = Workers /\ DOMAIN seen = Workers
  /\ \A w \in Workers : IsWrite(op[w]) /\ seen[w].rev \in Nat /\ Timed(seen[w].doc)
  /\ settled \subseteq Workers /\ vetoed \in BOOLEAN

(* What a worker has seen, leased and is about to save.  A save at the      *)
(* present revision was made from the present document.                     *)
Abreast(w) ==
  /\ stage[w] = "seen" => seen[w].rev <= memory.rev
       /\ (seen[w].rev = memory.rev => seen[w].doc = memory.doc)
  /\ op[w].step # "idle" =>
       IF op[w].status = "running" THEN stage[w] \in {"boot", "working"}
                                   ELSE stage[w] \in {"closing", "handling"}
  /\ op[w].step = "save" => leased[w] <= op[w].at /\ op[w].at <= Clock(w) /\ op[w].rev <= memory.rev
       /\ (op[w].rev = memory.rev => Fits(op[w].doc, w, op[w].status, op[w].at))
  /\ leased[w] <= Clock(w) /\ (leased[w] # 0 => stage[w] = "working")
  /\ w \in settled => stage[w] \in {"handling", "ended", "dead"}

(* A save without a caller: made from the present document too, by a worker *)
(* that has not ended in between.                                           *)
Late(s) ==
  /\ s.worker \in Workers /\ s.rev = memory.rev
  /\ \E status \in Statuses, t \in 0 .. Clock(s.worker) :
       /\ Fits(s.doc, s.worker, status, t) /\ leased[s.worker] <= t
       /\ leased[s.worker] # 0 => status = "running"
       /\ s.worker \in settled => status # "running"

MemoryInv ==
  /\ MemoryTypeOK
  /\ \A w \in Workers : Abreast(w)
  /\ \A s \in stray : Late(s)
  /\ \A w \in Workers : Current(w) => Covers(memory.doc, w, leased[w])
  /\ vetoed => Barred(memory.doc)
  /\ TerminalStands

-----------------------------------------------------------------------------
(* What compaction and a merge do to a document.                            *)
LEMMA FenceStands ==
  ASSUME NEW old \in Nat \cup {NoFence}, NEW future, NEW omitted \in SUBSET Nat, NEW t \in Nat,
         TTL = 0 \/ \A x \in omitted : x <= t
  PROVE  /\ Fence(old, future, omitted, t) \in Nat \cup {NoFence}
         /\ future # {} \/ old = Forever \/ old > t => Fence(old, future, omitted, t) = Forever
         /\ \A x \in omitted : \/ Fence(old, future, omitted, t) = Forever
                               \/ Fence(old, future, omitted, t) >= x
         /\ old # NoFence /\ (TTL = 0 \/ t - old < TTL) =>
              \/ Fence(old, future, omitted, t) = Forever
              \/ Fence(old, future, omitted, t) >= old
<1> USE MemoryAssumption DEF NoFence, Forever
<1> DEFINE spent == TTL > 0 /\ old # Forever /\ old <= t /\ t - old >= TTL
           ends == omitted \cup (IF old = NoFence \/ spent THEN {} ELSE {old})
           endless == future # {} \/ old = Forever \/ old > t \/ (TTL = 0 /\ ends # {})
           fence == Fence(old, future, omitted, t)
<1>1. fence = IF endless THEN Forever ELSE IF ends = {} THEN NoFence ELSE Max(ends)
  BY DEF Fence
<1>2. ends \in SUBSET Nat
  OBVIOUS
<1>3. ASSUME ~endless, ends # {}
      PROVE  Max(ends) \in ends /\ \A x \in ends : Max(ends) >= x
  <2>1. \A x \in ends : x <= t
    BY <1>3
  <2>2. \E m \in ends : \A x \in ends : x <= m
    BY <1>2, <1>3, <2>1, BoundedHasMaximum
  <2>3. \E m \in ends : \A x \in ends : m >= x
    BY <1>2, <2>2
  <2> HIDE DEF ends
  <2>4. QED
    BY <2>3 DEF Max
<1>4. old # NoFence /\ (TTL = 0 \/ t - old < TTL) => old \in ends \/ endless
  OBVIOUS
<1>5. omitted \subseteq ends /\ (future # {} \/ old = Forever \/ old > t => endless)
  OBVIOUS
<1> HIDE DEF ends, endless, fence
<1>6. /\ fence \in Nat \cup {NoFence}
      /\ endless => fence = Forever
      /\ \A x \in ends : fence = Forever \/ fence >= x
  <2>1. CASE endless
    BY <1>1, <2>1
  <2>2. CASE ~endless /\ ends = {}
    BY <1>1, <2>2
  <2>3. CASE ~endless /\ ends # {}
    BY <1>1, <1>2, <1>3, <2>3
  <2>4. QED
    BY <2>1, <2>2, <2>3
<1>7. QED
  BY <1>4, <1>5, <1>6 DEF fence

(* Every document a worker may save follows the one it has read.            *)
LEMMA MergedFollows ==
  ASSUME NEW doc, Timed(doc), doc # Foreign, NEW w \in Workers, NEW status, NEW t \in Nat,
         NEW d \in Merged(doc, w, status, t)
  PROVE  Follows(doc, d, w, status, t) /\ (~Eligible(w) => d.policy = "blocked")
<1> DEFINE running == Leases(doc, w, status, t)
<1>1. PICK c \in Compacted(running, doc.fence, t) :
        d = [policy |-> Policy(doc, w), history |-> Remembered(doc.history, w, status),
             running |-> c.running, fence |-> c.fence]
  BY DEF Merged, Leases
<1>2. DOMAIN running \subseteq Workers
  BY DEF Leases, OtherLeases, Timed
<1> HIDE DEF running
<1>3. PICK K \in SUBSET Live(running, t) :
        c = [running |-> [v \in K |-> running[v]],
             fence |-> Fence(doc.fence, Future(running, t),
                             {running[v] : v \in Live(running, t) \ K}, t)]
  BY <1>1 DEF Compacted, Live, Future
<1>4. K \in SUBSET Workers
  BY <1>2 DEF Live
<1>5. Compacts(running, doc.fence, t, K, d)
  BY <1>1, <1>3 DEF Compacts
<1>6. d.policy = Policy(doc, w)
  BY <1>1
<1>7. Barred(doc) \/ ~Eligible(w) => d.policy = "blocked"
  BY <1>6 DEF Barred, Policy
<1>8. QED
  BY <1>4, <1>5, <1>7 DEF Follows, running

LEMMA LeasesOf ==
  ASSUME NEW doc, Timed(doc), NEW w \in Workers, NEW status, NEW t \in Nat
  PROVE  /\ \A v : v \in DOMAIN Leases(doc, w, status, t) <=>
                    (v \in DOMAIN doc.running /\ v # w) \/ (v = w /\ status = "running")
         /\ \A v \in DOMAIN Leases(doc, w, status, t) :
              /\ v \in Workers /\ Leases(doc, w, status, t)[v] \in Nat
              /\ Leases(doc, w, status, t)[v] = IF v = w THEN t ELSE doc.running[v]
BY DEF Leases, OtherLeases, Timed

(* A merge yields a document, and lists no worker that the old one did not  *)
(* list but the writer, if it still runs.                                   *)
LEMMA FollowerIsTimed ==
  ASSUME NEW doc, Timed(doc), NEW w \in Workers, NEW status, NEW t \in Nat,
         NEW d, Follows(doc, d, w, status, t)
  PROVE  /\ Timed(d)
         /\ \A v \in DOMAIN d.running :
              (v \in DOMAIN doc.running /\ v # w) \/ (v = w /\ status = "running")
<1> DEFINE running == Leases(doc, w, status, t)
           live == Live(running, t)
           future == Future(running, t)
<1>1. PICK K : Compacts(running, doc.fence, t, K, d)
  BY DEF Follows
<1>2. /\ \A v : v \in DOMAIN running <=>
                 (v \in DOMAIN doc.running /\ v # w) \/ (v = w /\ status = "running")
      /\ \A v \in DOMAIN running : v \in Workers /\ running[v] \in Nat
  BY LeasesOf
<1>3. live \subseteq DOMAIN running /\ \A v \in live : TTL = 0 \/ running[v] <= t
  BY DEF Live, Future
<1> DEFINE omitted == {running[v] : v \in live \ K}
<1> HIDE DEF running
<1>4. omitted \in SUBSET Nat /\ (TTL = 0 \/ \A x \in omitted : x <= t)
  BY <1>1, <1>2, <1>3 DEF Compacts
<1>5. doc.fence \in Nat \cup {NoFence}
  BY DEF Timed
<1>6. d.fence \in Nat \cup {NoFence}
  <2>1. d.fence = Fence(doc.fence, future, omitted, t)
    BY ONLY <1>1 DEF Compacts
  <2> HIDE DEF future, omitted
  <2>2. Fence(doc.fence, future, omitted, t) \in Nat \cup {NoFence}
    BY ONLY <1>4, <1>5, FenceStands, t \in Nat
  <2>3. QED
    BY ONLY <2>1, <2>2
<1>7. DOMAIN d.running = K /\ \A v \in K : d.running[v] = running[v]
  BY <1>1 DEF Compacts
<1>8. QED
  BY <1>1, <1>2, <1>3, <1>6, <1>7 DEF Timed, Compacts

(* A merge at a time when lease l still counts keeps it covered, and covers *)
(* the lease it writes.                                                     *)
LEMMA FollowerCovers ==
  ASSUME NEW doc, Timed(doc), NEW w \in Workers, NEW status, NEW t \in Nat,
         NEW d, Follows(doc, d, w, status, t),
         NEW v \in Workers, NEW l \in Nat, l # 0, TTL = 0 \/ t - l < TTL,
         \/ v = w /\ status = "running" /\ l <= t
         \/ Covers(doc, v, l) /\ (v = w => status = "running" /\ l <= t)
  PROVE  Covers(d, v, l)
<1> USE MemoryAssumption
<1> DEFINE running == Leases(doc, w, status, t)
           live == Live(running, t)
           future == Future(running, t)
<1>1. PICK K : Compacts(running, doc.fence, t, K, d)
  BY DEF Follows
<1>2. /\ \A u : u \in DOMAIN running <=>
                 (u \in DOMAIN doc.running /\ u # w) \/ (u = w /\ status = "running")
      /\ \A u \in DOMAIN running : running[u] = IF u = w THEN t ELSE doc.running[u]
      /\ \A u \in DOMAIN running : u \in Workers /\ running[u] \in Nat
  BY LeasesOf
<1>3. /\ live = {u \in DOMAIN running : TTL = 0 \/ (running[u] <= t /\ t - running[u] < TTL)}
      /\ future = {u \in DOMAIN running : TTL > 0 /\ running[u] > t}
  BY DEF Live, Future
<1> DEFINE omitted == {running[u] : u \in live \ K}
<1> HIDE DEF running
<1>4. omitted \in SUBSET Nat /\ (TTL = 0 \/ \A x \in omitted : x <= t)
  BY <1>1, <1>2, <1>3 DEF Compacts
<1>5. doc.fence \in Nat \cup {NoFence}
  BY DEF Timed
<1>6. d.fence = Fence(doc.fence, future, omitted, t)
  BY <1>1 DEF Compacts
<1> HIDE DEF omitted, live, future
<1>7. /\ d.fence \in Nat \cup {NoFence}
      /\ future # {} \/ doc.fence = Forever \/ doc.fence > t => d.fence = Forever
      /\ \A x \in omitted : d.fence = Forever \/ d.fence >= x
      /\ doc.fence # NoFence /\ (TTL = 0 \/ t - doc.fence < TTL)
           => d.fence = Forever \/ d.fence >= doc.fence
  <2> DEFINE fence == Fence(doc.fence, future, omitted, t)
  <2>1. /\ fence \in Nat \cup {NoFence}
        /\ future # {} \/ doc.fence = Forever \/ doc.fence > t => fence = Forever
        /\ \A x \in omitted : fence = Forever \/ fence >= x
        /\ doc.fence # NoFence /\ (TTL = 0 \/ t - doc.fence < TTL)
             => fence = Forever \/ fence >= doc.fence
    BY ONLY <1>4, <1>5, FenceStands, t \in Nat
  <2> HIDE DEF fence
  <2>2. QED
    BY <1>6, <2>1 DEF fence
<1>8. DOMAIN d.running = K /\ \A u \in K : d.running[u] = running[u]
  BY <1>1 DEF Compacts
<1>9. CASE v \in DOMAIN running /\ running[v] >= l
  <2>1. CASE v \in future
    BY <1>7, <2>1 DEF Covers
  <2>2. CASE v \notin future
    <3>1. v \in live
      BY <1>2, <1>3, <1>9, <2>2
    <3>2. CASE v \in K
      BY <1>8, <1>9, <3>2 DEF Covers
    <3>3. CASE v \notin K
      <4>1. running[v] \in omitted
        BY <3>1, <3>3 DEF omitted
      <4>2. QED
        BY <1>2, <1>7, <1>9, <4>1 DEF Covers, NoFence
    <3>4. QED
      BY <3>2, <3>3
  <2>3. QED
    BY <2>1, <2>2
<1>10. CASE doc.fence = Forever
  BY <1>7, <1>10 DEF Covers
<1>11. CASE doc.fence >= l /\ doc.fence # Forever
  BY <1>5, <1>7, <1>11 DEF Covers, NoFence, Forever
<1>12. QED
  BY <1>2, <1>9, <1>10, <1>11 DEF Covers

(* A covered lease that is current shuts the Fleet, and so does a bar.      *)
LEMMA CoveredIsShut ==
  ASSUME MemoryTypeOK, NEW w \in Workers, Current(w), Covers(memory.doc, w, leased[w]),
         NEW v \in Workers
  PROVE  ~Allowed(memory.doc, Clock(v))
<1> USE MemoryAssumption DEF MemoryTypeOK, Timed
<1>1. leased[w] \in Nat /\ leased[w] # 0 /\ (TTL = 0 \/ Clock(v) - leased[w] < TTL)
  BY DEF Current
<1>2. Clock(v) \in Nat
  BY DEF Clock
<1>3. CASE w \in DOMAIN memory.doc.running /\ memory.doc.running[w] >= leased[w]
  <2>1. Blocks(memory.doc.running[w], Clock(v))
    BY <1>1, <1>2, <1>3 DEF Blocks
  <2>2. QED
    BY <1>3, <2>1 DEF Allowed
<1>4. CASE memory.doc.fence = Forever \/ memory.doc.fence >= leased[w]
  <2>1. memory.doc.fence # NoFence
    BY <1>1, <1>4 DEF NoFence, Forever
  <2>2. Blocks(memory.doc.fence, Clock(v))
    BY <1>1, <1>2, <1>4, <2>1 DEF Blocks
  <2>3. QED
    BY <2>1, <2>2 DEF Allowed
<1>5. QED
  BY <1>3, <1>4 DEF Covers

LEMMA BarredIsShut ==
  ASSUME NEW doc, Barred(doc), NEW t
  PROVE  ~Allowed(doc, t)
BY DEF Barred, Allowed

-----------------------------------------------------------------------------
(* Steps of one worker that leave the memory alone.                         *)
LEMMA SavingFollows ==
  ASSUME MemoryTypeOK, NEW w \in Workers, NEW record, Timed(record.doc), record.doc # Foreign,
         record.rev \in Nat, NEW status \in Statuses, NEW again,
         NEW o \in Saving(w, record, status, again)
  PROVE  /\ IsWrite(o) /\ o.step = "save" /\ o.status = status /\ o.at = Clock(w) /\ o.rev = record.rev
         /\ Follows(record.doc, o.doc, w, status, Clock(w))
         /\ ~Eligible(w) => o.doc.policy = "blocked"
<1>1. Clock(w) \in Nat
  BY MemoryAssumption DEF Clock, MemoryTypeOK
<1>2. PICK d \in Merged(record.doc, w, status, Clock(w)) :
        o = [step |-> "save", status |-> status, again |-> again, at |-> Clock(w),
             rev |-> record.rev, doc |-> d]
  BY DEF Saving
<1>3. Follows(record.doc, d, w, status, Clock(w)) /\ (~Eligible(w) => d.policy = "blocked")
  BY <1>1, <1>2, MergedFollows
<1>4. QED
  BY <1>1, <1>2, <1>3 DEF IsWrite

LEMMA IdleIsWrite == IsWrite(Idle) /\ Idle.step = "idle"
BY DEF IsWrite, Idle, Statuses

LEMMA UnseenIsTimed == Timed(Unseen.doc) /\ Unseen.rev = 0
BY DEF Timed, Unseen, Blank, NoLease, NoFence

LEMMA FetchingIsWrite ==
  ASSUME NEW status \in Statuses, NEW again
  PROVE  /\ IsWrite(Fetching(status, again))
         /\ Fetching(status, again).step = "get" /\ Fetching(status, again).status = status
BY DEF IsWrite, Idle, Fetching

(* What all these steps have in common.                                     *)
OwnStep(w) ==
  /\ UNCHANGED <<contract, now, memory, settled, vetoed>>
  /\ stage' \in [Workers -> Stages] /\ leased' \in [Workers -> Nat]
  /\ DOMAIN op' = Workers /\ DOMAIN seen' = Workers
  /\ IsWrite(op'[w]) /\ seen'[w].rev \in Nat /\ Timed(seen'[w].doc)
  /\ \A v \in Workers \ {w} : /\ stage'[v] = stage[v] /\ op'[v] = op[v]
                              /\ seen'[v] = seen[v] /\ leased'[v] = leased[v]
  /\ leased'[w] \in {0, leased[w]}
  /\ stray' \subseteq stray \cup Sent({w})

(* A save that is given up fits, if it may be accepted at all.              *)
LEMMA SentIsLate ==
  ASSUME MemoryInv, LaxCreate = FALSE, NEW w \in Workers, NEW s \in Sent({w})
  PROVE  s.worker = w /\ Late(s)
<1>1. s = [worker |-> w, rev |-> op[w].rev, doc |-> op[w].doc]
      /\ op[w].step = "save" /\ op[w].rev = memory.rev
  BY DEF Sent, Accepts
<1>2. Abreast(w) /\ op[w].status \in Statuses /\ op[w].at \in Nat /\ leased[w] \in Nat
  BY DEF MemoryInv, MemoryTypeOK, IsWrite
<1>3. /\ Fits(op[w].doc, w, op[w].status, op[w].at)
      /\ leased[w] <= op[w].at /\ op[w].at <= Clock(w)
      /\ leased[w] # 0 => op[w].status = "running"
      /\ w \in settled => op[w].status # "running"
  BY <1>1, <1>2 DEF Abreast
<1>4. Clock(w) \in Nat
  BY MemoryAssumption DEF Clock, MemoryInv, MemoryTypeOK
<1>5. op[w].at \in 0 .. Clock(w)
  BY <1>2, <1>3, <1>4
<1>6. QED
  BY <1>1, <1>2, <1>3, <1>5 DEF Late

LEMMA OwnStepKeeps ==
  ASSUME MemoryInv, LaxCreate = FALSE, NEW w \in Workers, OwnStep(w), Abreast(w)'
  PROVE  MemoryInv'
<1> USE DEF OwnStep
<1>1. MemoryTypeOK'
  BY DEF MemoryInv, MemoryTypeOK
<1>2. ASSUME NEW v \in Workers PROVE Abreast(v)'
  <2>1. CASE v # w
    BY <2>1 DEF MemoryInv, Abreast, Clock, Fits, Eligible
  <2>2. QED
    BY <2>1
<1>3. ASSUME NEW s \in stray' PROVE Late(s)'
  <2>1. Late(s)
    BY SentIsLate DEF MemoryInv
  <2>2. s.worker \in Workers /\ leased[s.worker] \in Nat
        /\ leased'[s.worker] \in {0, leased[s.worker]}
    BY <2>1 DEF Late, MemoryInv, MemoryTypeOK
  <2>3. QED
    BY <2>1, <2>2 DEF Late, Clock, Fits, Eligible
<1>4. ASSUME NEW v \in Workers, Current(v)' PROVE Covers(memory.doc, v, leased[v])'
  <2>1. leased'[v] = leased[v] /\ Current(v)
    BY <1>4 DEF Current, Clock
  <2>2. QED
    BY <2>1 DEF MemoryInv, Covers
<1>5. (vetoed => Barred(memory.doc))' /\ TerminalStands'
  BY DEF MemoryInv, TerminalStands, Barred
<1>6. QED
  BY <1>1, <1>2, <1>3, <1>4, <1>5 DEF MemoryInv

(* Where a worker goes with the receipt of its write.                       *)
LEMMA ProceedsTo ==
  ASSUME MemoryTypeOK, NEW w \in Workers, Abreast(w), op[w].step # "idle",
         NEW saved_ \in BOOLEAN, Proceeds(w, saved_)
  PROVE  /\ stage' \in [Workers -> Stages] /\ DOMAIN op' = Workers
         /\ \A v \in Workers \ {w} : stage'[v] = stage[v] /\ op'[v] = op[v]
         /\ \/ op'[w] = Idle
            \/ op'[w] = Fetching("failed", FALSE) /\ stage'[w] = "handling"
         /\ stage[w] = "working" => stage'[w] = "working"
         /\ stage[w] \in {"closing", "handling"} => stage'[w] \in {"handling", "ended"}
         /\ stage'[w] \in {"working", "handling", "ended"}
         /\ op[w].status = "running" /\ saved_ => stage'[w] = "working"
<1>1. stage[w] \in {"boot", "working", "closing", "handling"}
      /\ (op[w].status = "running" => stage[w] \in {"boot", "working"})
  BY DEF Abreast
<1>2. CASE stage[w] = "boot"
  BY <1>2 DEF Proceeds, MemoryTypeOK, Stages
<1>3. CASE stage[w] = "working"
  BY <1>3 DEF Proceeds, MemoryTypeOK, Stages
<1>4. CASE stage[w] = "closing"
  BY <1>1, <1>4 DEF Proceeds, MemoryTypeOK, Stages
<1>5. CASE stage[w] = "handling"
  BY <1>1, <1>5 DEF Proceeds, MemoryTypeOK, Stages
<1>6. QED
  BY <1>1, <1>2, <1>3, <1>4, <1>5

LEMMA FetchedKeeps ==
  ASSUME MemoryInv, LaxCreate = FALSE, NEW w \in Workers, Fetched(w)
  PROVE  MemoryInv'
<1>1. Abreast(w) /\ MemoryTypeOK /\ IsWrite(op[w]) /\ op[w].step = "get"
  BY DEF MemoryInv, MemoryTypeOK, Fetched
<1>2. UNCHANGED <<contract, now, memory, seen, stray, leased, settled, vetoed>>
  BY DEF Fetched
<1>3. CASE memory.doc = Foreign
  <2>1. Proceeds(w, FALSE)
    BY <1>3 DEF Fetched
  <2>2. /\ stage' \in [Workers -> Stages] /\ DOMAIN op' = Workers
        /\ \A v \in Workers \ {w} : stage'[v] = stage[v] /\ op'[v] = op[v]
        /\ op'[w] = Idle \/ (op'[w] = Fetching("failed", FALSE) /\ stage'[w] = "handling")
        /\ stage[w] = "working" => stage'[w] = "working"
        /\ stage[w] \in {"closing", "handling"} => stage'[w] \in {"handling", "ended"}
        /\ stage'[w] \in {"working", "handling", "ended"}
    BY <1>1, <2>1, ProceedsTo
  <2>3. IsWrite(op'[w]) /\ op'[w].step # "save"
        /\ (op'[w].step # "idle" => op'[w].status = "failed" /\ stage'[w] = "handling")
    BY <2>2, IdleIsWrite, FetchingIsWrite DEF Statuses
  <2>4. OwnStep(w)
    BY <1>1, <1>2, <2>2, <2>3 DEF OwnStep, MemoryTypeOK
  <2>5. Abreast(w)'
    BY <1>1, <1>2, <2>2, <2>3 DEF Abreast, Clock
  <2>6. QED
    BY <2>4, <2>5, OwnStepKeeps
<1>4. CASE memory.doc # Foreign
  <2>1. PICK o \in Saving(w, memory, op[w].status, op[w].again) : op' = [op EXCEPT ![w] = o]
    BY <1>4 DEF Fetched
  <2>2. /\ IsWrite(o) /\ o.step = "save" /\ o.status = op[w].status
        /\ o.at = Clock(w) /\ o.rev = memory.rev
        /\ Fits(o.doc, w, o.status, o.at)
    BY <1>1, <1>4, <2>1, SavingFollows DEF MemoryTypeOK, IsWrite, Fits
  <2>3. stage' = stage
    BY <1>4 DEF Fetched
  <2>4. OwnStep(w)
    BY <1>1, <1>2, <2>1, <2>2, <2>3 DEF OwnStep, MemoryTypeOK
  <2>5. op'[w] = o
    BY <1>1, <2>1 DEF MemoryTypeOK
  <2>6. Fits(o.doc, w, o.status, o.at)'
    BY <1>2, <2>1, <2>2 DEF Fits, Eligible
  <2>7. Abreast(w)'
    BY <1>1, <1>2, <2>2, <2>3, <2>5, <2>6 DEF Abreast, Clock, Fits, Eligible, IsWrite, MemoryTypeOK
  <2>8. QED
    BY <2>4, <2>7, OwnStepKeeps
<1>5. QED
  BY <1>3, <1>4

LEMMA ConflictKeeps ==
  ASSUME MemoryInv, LaxCreate = FALSE, NEW w \in Workers, Conflict(w) \/ Fails(w)
  PROVE  MemoryInv'
<1>1. Abreast(w) /\ MemoryTypeOK /\ IsWrite(op[w]) /\ op[w].step # "idle"
  BY DEF MemoryInv, MemoryTypeOK, Conflict, Fails
<1>2. UNCHANGED <<contract, now, memory, seen, leased, settled, vetoed>>
      /\ stray' \subseteq stray \cup Sent({w})
  BY DEF Conflict, Fails, Abandoned
<1>3. \/ Proceeds(w, FALSE)
      \/ op' = [op EXCEPT ![w] = Fetching(op[w].status, TRUE)] /\ stage' = stage
  BY DEF Conflict, Fails
<1>4. CASE Proceeds(w, FALSE)
  <2>1. /\ stage' \in [Workers -> Stages] /\ DOMAIN op' = Workers
        /\ \A v \in Workers \ {w} : stage'[v] = stage[v] /\ op'[v] = op[v]
        /\ op'[w] = Idle \/ (op'[w] = Fetching("failed", FALSE) /\ stage'[w] = "handling")
        /\ stage[w] = "working" => stage'[w] = "working"
        /\ stage[w] \in {"closing", "handling"} => stage'[w] \in {"handling", "ended"}
        /\ stage'[w] \in {"working", "handling", "ended"}
    BY <1>1, <1>4, ProceedsTo
  <2>2. IsWrite(op'[w]) /\ op'[w].step # "save"
        /\ (op'[w].step # "idle" => op'[w].status = "failed" /\ stage'[w] = "handling")
    BY <2>1, IdleIsWrite, FetchingIsWrite DEF Statuses
  <2>3. OwnStep(w)
    BY <1>1, <1>2, <2>1, <2>2 DEF OwnStep, MemoryTypeOK
  <2>4. Abreast(w)'
    BY <1>1, <1>2, <2>1, <2>2 DEF Abreast, Clock
  <2>5. QED
    BY <2>3, <2>4, OwnStepKeeps
<1>5. CASE op' = [op EXCEPT ![w] = Fetching(op[w].status, TRUE)] /\ stage' = stage
  <2>1. PICK status \in Statuses : status = op[w].status
    BY <1>1 DEF IsWrite
  <2>2. PICK o : /\ op' = [op EXCEPT ![w] = o]
                 /\ IsWrite(o) /\ o.step = "get" /\ o.status = op[w].status
    BY <1>5, <2>1, FetchingIsWrite
  <2>3. OwnStep(w)
    BY <1>1, <1>2, <1>5, <2>2 DEF OwnStep, MemoryTypeOK
  <2>4. op'[w] = o
    BY <1>1, <2>2 DEF MemoryTypeOK
  <2>5. Abreast(w)'
    BY <1>1, <1>2, <1>5, <2>2, <2>4 DEF Abreast, Clock
  <2>6. QED
    BY <2>3, <2>5, OwnStepKeeps
<1>6. QED
  BY <1>3, <1>4, <1>5

LEMMA RegisterKeeps ==
  ASSUME MemoryInv, LaxCreate = FALSE, NEW w \in Workers, Register(w)
  PROVE  MemoryInv'
<1> USE DEF MemoryInv, MemoryTypeOK, Register
<1>1. Abreast(w) /\ op[w].step = "idle" /\ IsWrite(op[w])
  BY DEF Abreast, IsWrite
<1>2. /\ stage'[w] = "seen" /\ seen'[w] = memory /\ op' = op /\ leased' = leased
      /\ memory' = memory /\ settled' = settled
  OBVIOUS
<1>3. leased[w] = 0 /\ w \notin settled
  BY DEF Abreast
<1>4. OwnStep(w)
  BY <1>1, <1>2 DEF OwnStep, Stages
<1>5. Abreast(w)'
  BY <1>1, <1>2, <1>3, <1>4 DEF Abreast, Clock, OwnStep
<1>6. QED
  BY <1>4, <1>5, OwnStepKeeps

(* The first write of a worker that was given a Fleet with its memory.      *)
LEMMA AssignKeeps ==
  ASSUME MemoryInv, LaxCreate = FALSE, NEW w \in Workers, AssignSimilar(w) \/ AssignOrdinary(w)
  PROVE  MemoryInv'
<1>1. /\ stage[w] = "seen" /\ Abreast(w) /\ MemoryTypeOK /\ op[w].step = "idle" /\ IsWrite(op[w])
      /\ leased[w] = 0 /\ w \notin settled
  BY DEF MemoryInv, MemoryTypeOK, AssignSimilar, AssignOrdinary, Abreast, IsWrite
<1>2. /\ UNCHANGED <<contract, now, memory, stray, leased, settled, vetoed>>
      /\ seen' = [seen EXCEPT ![w] = Unseen]
  BY DEF AssignSimilar, AssignOrdinary
<1>3. CASE /\ op' = [op EXCEPT ![w] = Fetching("running", FALSE)]
           /\ stage' = [stage EXCEPT ![w] = "boot"]
  <2>1. IsWrite(op'[w]) /\ op'[w].step = "get" /\ op'[w].status = "running"
    BY <1>1, <1>3, FetchingIsWrite DEF MemoryTypeOK, Statuses
  <2>2. OwnStep(w)
    BY <1>1, <1>2, <1>3, <2>1, UnseenIsTimed DEF OwnStep, MemoryTypeOK, Stages
  <2>3. Abreast(w)'
    BY <1>1, <1>2, <1>3, <2>1 DEF Abreast, Clock, MemoryTypeOK
  <2>4. QED
    BY <2>2, <2>3, OwnStepKeeps
<1>4. CASE stage' = [stage EXCEPT ![w] = "working"] /\ op' = op
  <2>1. OwnStep(w)
    BY <1>1, <1>2, <1>4, UnseenIsTimed DEF OwnStep, MemoryTypeOK, Stages
  <2>2. Abreast(w)'
    BY <1>1, <1>2, <1>4 DEF Abreast, Clock, MemoryTypeOK
  <2>3. QED
    BY <2>1, <2>2, OwnStepKeeps
<1>5. CASE /\ \E o \in Saving(w, seen[w], "running", FALSE) : op' = [op EXCEPT ![w] = o]
           /\ stage' = [stage EXCEPT ![w] = "boot"] /\ seen[w].doc # Foreign
  <2>1. PICK o \in Saving(w, seen[w], "running", FALSE) : op' = [op EXCEPT ![w] = o]
    BY <1>5
  <2>2. PICK r : r = seen[w] /\ Timed(r.doc) /\ r.rev \in Nat /\ r.doc # Foreign
    BY <1>1, <1>5 DEF MemoryTypeOK
  <2>3. /\ IsWrite(o) /\ o.step = "save" /\ o.status = "running"
        /\ o.at = Clock(w) /\ o.rev = seen[w].rev
        /\ Follows(seen[w].doc, o.doc, w, "running", Clock(w))
        /\ ~Eligible(w) => o.doc.policy = "blocked"
    <3>1. "running" \in Statuses
      BY DEF Statuses
    <3>2. PICK again : o \in Saving(w, r, "running", again)
      BY <2>1, <2>2
    <3>3. /\ IsWrite(o) /\ o.step = "save" /\ o.status = "running"
          /\ o.at = Clock(w) /\ o.rev = r.rev
          /\ Follows(r.doc, o.doc, w, "running", Clock(w))
          /\ ~Eligible(w) => o.doc.policy = "blocked"
      <4>1. MemoryTypeOK /\ Timed(r.doc) /\ r.rev \in Nat /\ r.doc # Foreign
        BY <1>1, <2>2
      <4>2. QED
        BY <4>1, <3>1, <3>2, SavingFollows
    <3>4. QED
      BY <2>2, <3>3
  <2>4. o.rev <= memory.rev /\ (o.rev = memory.rev => Fits(o.doc, w, o.status, o.at))
    BY <1>1, <2>3 DEF Abreast, Fits
  <2>5. op'[w] = o /\ stage'[w] = "boot"
    BY <1>1, <1>5, <2>1 DEF MemoryTypeOK
  <2>6. OwnStep(w)
    BY <1>1, <1>2, <1>5, <2>1, <2>3, UnseenIsTimed DEF OwnStep, MemoryTypeOK, Stages
  <2>7. o.at \in Nat
    BY <2>3 DEF IsWrite
  <2>8. Abreast(w)'
    BY <1>1, <1>2, <2>3, <2>4, <2>5, <2>7 DEF Abreast, Clock, Fits, Eligible
  <2>9. QED
    BY <2>6, <2>8, OwnStepKeeps
<1>6. \/ op' = [op EXCEPT ![w] = Fetching("running", FALSE)] /\ stage' = [stage EXCEPT ![w] = "boot"]
      \/ stage' = [stage EXCEPT ![w] = "working"] /\ op' = op
      \/ /\ \E o \in Saving(w, seen[w], "running", FALSE) : op' = [op EXCEPT ![w] = o]
         /\ stage' = [stage EXCEPT ![w] = "boot"] /\ seen[w].doc # Foreign
  BY DEF AssignSimilar, AssignOrdinary, Matches, Allowed
<1>7. QED
  BY <1>3, <1>4, <1>5, <1>6

LEMMA HeartbeatKeeps ==
  ASSUME MemoryInv, LaxCreate = FALSE, NEW w \in Workers, Heartbeat(w)
  PROVE  MemoryInv'
<1>1. /\ stage[w] = "working" /\ Abreast(w) /\ MemoryTypeOK
      /\ op' = [op EXCEPT ![w] = Fetching("running", FALSE)]
      /\ UNCHANGED <<contract, now, memory, stage, seen, stray, leased, settled, vetoed>>
  BY DEF MemoryInv, Heartbeat
<1>2. IsWrite(op'[w]) /\ op'[w].step = "get" /\ op'[w].status = "running"
  BY <1>1, FetchingIsWrite DEF MemoryTypeOK, Statuses
<1>3. OwnStep(w)
  BY <1>1, <1>2 DEF OwnStep, MemoryTypeOK
<1>4. Abreast(w)'
  BY <1>1, <1>2 DEF Abreast, Clock
<1>5. QED
  BY <1>3, <1>4, OwnStepKeeps

LEMMA LeavingKeeps ==
  ASSUME MemoryInv, LaxCreate = FALSE, NEW w \in Workers, Returns(w) \/ Breaks(w)
  PROVE  MemoryInv'
<1>1. /\ stage[w] \in {"boot", "working", "closing"} /\ Abreast(w) /\ MemoryTypeOK
      /\ UNCHANGED <<contract, now, memory, seen, settled, vetoed>>
      /\ stray' \subseteq stray \cup Sent({w})
      /\ leased' = [v \in Workers |-> IF v = w THEN 0 ELSE leased[v]]
  BY DEF MemoryInv, Returns, Breaks, Leaves, Abandoned
<1>2. PICK status \in {"completed", "failed"}, to \in {"closing", "handling"} :
        op' = [op EXCEPT ![w] = Fetching(status, FALSE)] /\ stage' = [stage EXCEPT ![w] = to]
  BY DEF Returns, Breaks
<1>3. PICK o : o = op'[w] /\ IsWrite(o) /\ o.step = "get" /\ o.status = status
  <2>1. PICK again : op'[w] = Fetching(status, again)
    BY <1>1, <1>2 DEF MemoryTypeOK
  <2>2. status \in Statuses
    BY DEF Statuses
  <2>3. QED
    BY <2>1, <2>2, FetchingIsWrite
<1>4. OwnStep(w)
  BY <1>1, <1>2, <1>3 DEF OwnStep, MemoryTypeOK, Stages
<1>5. w \notin settled
  BY <1>1 DEF Abreast
<1>6. leased'[w] = 0 /\ stage'[w] \in {"closing", "handling"}
  BY <1>1, <1>2 DEF MemoryTypeOK
<1>7. Clock(w)' \in Nat
  BY <1>1, MemoryAssumption DEF MemoryTypeOK, Clock
<1>8. op'[w] = o /\ o.step = "get" /\ o.status # "running"
  BY <1>3
<1>9. Abreast(w)'
  BY <1>1, <1>5, <1>6, <1>7, <1>8 DEF Abreast
<1>10. QED
  BY <1>4, <1>9, OwnStepKeeps

-----------------------------------------------------------------------------
(* Steps that change the memory: a save that fits is accepted.              *)
LEMMA AppliedKeeps ==
  ASSUME MemoryInv, LaxCreate = FALSE, NEW w \in Workers, NEW doc, NEW status \in Statuses,
         NEW t \in Nat, t <= Clock(w), Fits(doc, w, status, t), leased[w] <= t,
         leased[w] # 0 => status = "running", w \in settled => status # "running",
         Applied(w, doc)
  PROVE  /\ memory'.doc = doc /\ memory'.rev = memory.rev + 1 /\ Timed(doc)
         /\ stray' = {} /\ vetoed' \in BOOLEAN /\ (vetoed' => Barred(doc))
         /\ \A v \in settled : v \notin DOMAIN doc.running
         /\ status # "running" => w \notin DOMAIN doc.running
         /\ \A v \in Workers : Current(v) => Covers(doc, v, leased[v])
         /\ status = "running" /\ t # 0 => Covers(doc, w, t)
<1>1. MemoryTypeOK /\ Timed(memory.doc) /\ Follows(memory.doc, doc, w, status, t)
  BY DEF MemoryInv, MemoryTypeOK, Fits
<1>2. /\ Timed(doc)
      /\ \A v \in DOMAIN doc.running :
           (v \in DOMAIN memory.doc.running /\ v # w) \/ (v = w /\ status = "running")
  BY <1>1, FollowerIsTimed
<1>3. memory'.doc = doc /\ memory'.rev = memory.rev + 1 /\ stray' = {}
      /\ vetoed' = (vetoed \/ ~Eligible(w))
  BY DEF Applied
<1>4. vetoed' \in BOOLEAN
  BY <1>3
<1>5. ASSUME vetoed' PROVE Barred(doc)
  <2>1. Barred(memory.doc) \/ ~Eligible(w)
    BY <1>3, <1>5 DEF MemoryInv
  <2>2. doc.policy = "blocked"
    BY <2>1 DEF Fits, Follows
  <2>3. QED
    BY <2>2 DEF Barred
<1>6. \A v \in settled : v \notin DOMAIN doc.running
  BY <1>2 DEF MemoryInv, TerminalStands
<1>7. status # "running" => w \notin DOMAIN doc.running
  BY <1>2
<1>8. ASSUME NEW v \in Workers, Current(v) PROVE Covers(doc, v, leased[v])
  <2>1. PICK l \in Nat : l = leased[v]
    BY <1>1 DEF MemoryTypeOK
  <2>2. Clock(w) \in Nat
    BY <1>1, MemoryAssumption DEF Clock, MemoryTypeOK
  <2>3. l # 0 /\ (TTL = 0 \/ t - l < TTL)
    BY <1>8, <2>1, <2>2, MemoryAssumption DEF Current
  <2>4. Covers(memory.doc, v, l)
    BY <1>8, <2>1 DEF MemoryInv
  <2>5. v = w => status = "running" /\ l <= t
    BY <2>1, <2>3
  <2>6. Covers(doc, v, l)
    BY <1>1, <2>3, <2>4, <2>5, FollowerCovers
  <2>7. QED
    BY <2>1, <2>6
<1>9. ASSUME status = "running", t # 0 PROVE Covers(doc, w, t)
  <2>1. TTL = 0 \/ t - t < TTL
    BY MemoryAssumption
  <2>2. QED
    BY <1>1, <1>9, <2>1, FollowerCovers
<1>10. QED
  BY <1>2, <1>3, <1>4, <1>5, <1>6, <1>7, <1>8, <1>9

(* What was read of an older revision is of no consequence.                 *)
LEMMA OutdatedStaysAbreast ==
  ASSUME MemoryTypeOK, NEW v \in Workers, Abreast(v), memory'.rev = memory.rev + 1,
         stage'[v] = stage[v], op'[v] = op[v], seen'[v] = seen[v], leased'[v] = leased[v],
         UNCHANGED <<contract, now>>, v \in settled' => v \in settled
  PROVE  Abreast(v)'
<1>1. memory.rev \in Nat /\ seen[v].rev \in Nat /\ op[v].rev \in Nat
  BY DEF MemoryTypeOK, IsWrite
<1>2. stage'[v] = "seen" => seen'[v].rev < memory'.rev
  BY <1>1 DEF Abreast
<1>3. op'[v].step = "save" => op'[v].rev < memory'.rev
  BY <1>1 DEF Abreast
<1>4. QED
  BY <1>1, <1>2, <1>3 DEF Abreast, Clock

LEMMA SavedKeeps ==
  ASSUME MemoryInv, LaxCreate = FALSE, NEW w \in Workers, Saved(w)
  PROVE  MemoryInv'
<1>1. MemoryTypeOK /\ Abreast(w) /\ op[w].step = "save"
  BY DEF MemoryInv, Saved
<1>2. PICK o : o = op[w]
  OBVIOUS
<1>3. /\ IsWrite(o) /\ o.step = "save" /\ o.rev = memory.rev
      /\ Applied(w, o.doc) /\ Proceeds(w, TRUE)
  BY <1>1, <1>2 DEF Saved, Accepts, MemoryTypeOK
<1>4. /\ o.status \in Statuses /\ o.at \in Nat /\ o.at <= Clock(w) /\ leased[w] <= o.at
      /\ Fits(o.doc, w, o.status, o.at)
  BY <1>1, <1>2, <1>3 DEF Abreast, IsWrite
<1>5. /\ o.status = "running" => stage[w] \in {"boot", "working"} /\ w \notin settled
      /\ o.status # "running" => stage[w] \in {"closing", "handling"} /\ leased[w] = 0
  BY <1>1, <1>2, <1>3 DEF Abreast
<1>6. /\ memory'.doc = o.doc /\ memory'.rev = memory.rev + 1 /\ Timed(o.doc)
      /\ stray' = {} /\ vetoed' \in BOOLEAN /\ (vetoed' => Barred(o.doc))
      /\ \A v \in settled : v \notin DOMAIN o.doc.running
      /\ o.status # "running" => w \notin DOMAIN o.doc.running
      /\ \A v \in Workers : Current(v) => Covers(o.doc, v, leased[v])
      /\ o.status = "running" /\ o.at # 0 => Covers(o.doc, w, o.at)
  BY <1>3, <1>4, <1>5, AppliedKeeps
<1>7. /\ stage' \in [Workers -> Stages] /\ DOMAIN op' = Workers
      /\ \A v \in Workers \ {w} : stage'[v] = stage[v] /\ op'[v] = op[v]
      /\ op'[w] = Idle \/ (op'[w] = Fetching("failed", FALSE) /\ stage'[w] = "handling")
      /\ stage[w] \in {"closing", "handling"} => stage'[w] \in {"handling", "ended"}
      /\ op[w].status = "running" => stage'[w] = "working"
  BY <1>1, <1>3, ProceedsTo
<1>8. PICK q : /\ q = op'[w] /\ IsWrite(q) /\ q.step # "save"
               /\ (q.step # "idle" => q.status = "failed" /\ stage'[w] = "handling")
  BY <1>7, IdleIsWrite, FetchingIsWrite DEF Statuses
<1>9. /\ UNCHANGED <<contract, now, seen>>
      /\ \/ o.status = "running" /\ leased' = [leased EXCEPT ![w] = o.at] /\ settled' = settled
         \/ o.status # "running" /\ leased' = leased /\ settled' = settled \cup {w}
  BY <1>2 DEF Saved
<1>10. /\ leased' \in [Workers -> Nat]
       /\ \A v \in Workers \ {w} : leased'[v] = leased[v]
       /\ leased'[w] = IF o.status = "running" THEN o.at ELSE 0
  BY <1>1, <1>4, <1>5, <1>9 DEF MemoryTypeOK
<1>11. MemoryTypeOK'
  BY <1>1, <1>6, <1>7, <1>8, <1>9, <1>10 DEF MemoryTypeOK
<1>12. Abreast(w)'
  <2>1. leased'[w] <= Clock(w)'
    BY <1>1, <1>4, <1>9, <1>10, MemoryAssumption DEF Clock, MemoryTypeOK
  <2>2. CASE o.status = "running"
    <3>1. stage'[w] = "working" /\ w \notin settled'
      BY <1>2, <1>5, <1>7, <1>9, <2>2
    <3>2. QED
      BY <1>8, <2>1, <3>1 DEF Abreast
  <2>3. CASE o.status # "running"
    <3>1. stage'[w] \in {"handling", "ended"} /\ leased'[w] = 0
      BY <1>5, <1>7, <1>10, <2>3
    <3>2. QED
      BY <1>8, <2>1, <3>1 DEF Abreast
  <2>4. QED
    BY <2>2, <2>3
<1>13. ASSUME NEW v \in Workers, Current(v)' PROVE Covers(memory.doc, v, leased[v])'
  <2>1. CASE v # w
    <3>1. leased'[v] = leased[v] /\ Current(v)
      BY <1>9, <1>10, <1>13, <2>1 DEF Current, Clock
    <3>2. QED
      BY <1>6, <3>1 DEF Covers
  <2>2. CASE v = w
    <3>1. leased'[w] # 0
      BY <1>13, <2>2 DEF Current
    <3>2. o.status = "running" /\ leased'[w] = o.at
      BY <1>10, <3>1
    <3>3. QED
      BY <1>6, <2>2, <3>1, <3>2 DEF Covers
  <2>3. QED
    BY <2>1, <2>2
<1>14. (vetoed => Barred(memory.doc))'
  BY <1>6 DEF Barred
<1>15. TerminalStands'
  BY <1>6, <1>9 DEF TerminalStands
<1>16. \A s \in stray' : Late(s)'
  BY <1>6
<1>17. \A v \in Workers \ {w} : Abreast(v)'
  BY <1>1, <1>6, <1>7, <1>9, <1>10, OutdatedStaysAbreast DEF MemoryInv
<1>18. QED
  BY <1>11, <1>12, <1>17, <1>13, <1>14, <1>15, <1>16 DEF MemoryInv

LEMMA StrayLandsKeeps ==
  ASSUME MemoryInv, LaxCreate = FALSE, StrayLands
  PROVE  MemoryInv'
<1>1. PICK s \in stray : Accepts(s.rev) /\ Applied(s.worker, s.doc)
  BY DEF StrayLands
<1>2. UNCHANGED <<contract, now, stage, seen, op, leased, settled>>
  BY DEF StrayLands
<1>3. PICK w \in Workers : w = s.worker
  BY <1>1 DEF MemoryInv, Late
<1>4. PICK status \in Statuses, t \in 0 .. Clock(w) :
        /\ Fits(s.doc, w, status, t) /\ leased[w] <= t
        /\ leased[w] # 0 => status = "running"
        /\ w \in settled => status # "running"
  BY <1>1, <1>3 DEF MemoryInv, Late
<1>5. PICK doc : doc = s.doc
  OBVIOUS
<1>6. /\ status \in Statuses /\ t \in Nat /\ t <= Clock(w)
      /\ Applied(w, doc) /\ Fits(doc, w, status, t) /\ leased[w] <= t
      /\ leased[w] # 0 => status = "running"
      /\ w \in settled => status # "running"
  <2>1. Clock(w) \in Nat
    BY MemoryAssumption DEF Clock, MemoryInv, MemoryTypeOK
  <2>2. QED
    BY <1>1, <1>3, <1>4, <1>5, <2>1
<1>7. /\ memory'.doc = doc /\ memory'.rev = memory.rev + 1 /\ Timed(doc)
      /\ stray' = {} /\ vetoed' \in BOOLEAN /\ (vetoed' => Barred(doc))
      /\ \A v \in settled : v \notin DOMAIN doc.running
      /\ status # "running" => w \notin DOMAIN doc.running
      /\ \A v \in Workers : Current(v) => Covers(doc, v, leased[v])
      /\ status = "running" /\ t # 0 => Covers(doc, w, t)
  BY <1>6, AppliedKeeps
<1>8. MemoryTypeOK'
  BY <1>2, <1>7 DEF MemoryInv, MemoryTypeOK
<1>9. \A v \in Workers : Abreast(v)'
  BY <1>2, <1>7, OutdatedStaysAbreast DEF MemoryInv
<1>10. ASSUME NEW v \in Workers, Current(v)' PROVE Covers(memory.doc, v, leased[v])'
  <2>1. Current(v)
    BY <1>2, <1>10 DEF Current, Clock
  <2>2. QED
    BY <1>2, <1>7, <2>1 DEF Covers
<1>11. (vetoed => Barred(memory.doc))' /\ TerminalStands' /\ \A s_ \in stray' : Late(s_)'
  BY <1>2, <1>7 DEF Barred, TerminalStands
<1>12. QED
  BY <1>8, <1>9, <1>10, <1>11 DEF MemoryInv

(* Steps of many workers at once: a process dies, or time goes on.          *)
LEMMA ProcessDiesKeeps ==
  ASSUME MemoryInv, LaxCreate = FALSE, NEW t, ProcessDies(t)
  PROVE  MemoryInv'
<1> DEFINE crew == {w \in Workers : TaskOf(w) = t}
<1>1. /\ UNCHANGED <<contract, now, memory, settled, vetoed>>
      /\ stage' = [w \in Workers |-> IF w \in crew /\ stage[w] \notin {"new", "ended"}
                                       THEN "dead" ELSE stage[w]]
      /\ op' = [w \in Workers |-> IF w \in crew THEN Idle ELSE op[w]]
      /\ seen' = [w \in Workers |-> IF w \in crew THEN Unseen ELSE seen[w]]
      /\ leased' = [w \in Workers |-> IF w \in crew THEN 0 ELSE leased[w]]
      /\ \E W \in SUBSET crew : stray' = stray \cup Sent(W)
  BY DEF ProcessDies, Leaves
<1>2. MemoryTypeOK
  BY DEF MemoryInv
<1> HIDE DEF crew
<1>3. /\ stage' \in [Workers -> Stages] /\ leased' \in [Workers -> Nat]
      /\ \A w \in Workers : leased'[w] \in {0, leased[w]}
  BY <1>1, <1>2 DEF MemoryTypeOK, Stages
<1>4. ASSUME NEW w \in Workers PROVE IsWrite(op'[w]) /\ seen'[w].rev \in Nat /\ Timed(seen'[w].doc)
  <2>1. CASE w \in crew
    <3>1. op'[w] = Idle /\ seen'[w] = Unseen
      BY <1>1, <2>1
    <3>2. QED
      BY <3>1, IdleIsWrite, UnseenIsTimed
  <2>2. CASE w \notin crew
    <3>1. op'[w] = op[w] /\ seen'[w] = seen[w]
      BY <1>1, <2>2
    <3>2. QED
      BY <1>2, <3>1 DEF MemoryTypeOK
  <2>3. QED
    BY <2>1, <2>2
<1>5. MemoryTypeOK'
  BY <1>1, <1>2, <1>3, <1>4 DEF MemoryTypeOK
<1>6. ASSUME NEW w \in Workers PROVE Abreast(w)'
  <2>1. Abreast(w)
    BY DEF MemoryInv
  <2>2. CASE w \in crew
    <3>1. PICK q : q = op'[w] /\ q.step = "idle"
      BY <1>1, <2>2, IdleIsWrite
    <3>2. leased'[w] = 0 /\ stage'[w] \in {"new", "ended", "dead"}
          /\ (stage'[w] = "new" => stage[w] = "new")
      BY <1>1, <2>2
    <3>3. w \in settled' => stage'[w] \in {"ended", "dead"}
      BY <1>1, <2>1, <3>2 DEF Abreast
    <3>4. Clock(w)' \in Nat
      BY <1>5, MemoryAssumption DEF MemoryTypeOK, Clock
    <3>5. QED
      BY <3>1, <3>2, <3>3, <3>4 DEF Abreast
  <2>3. CASE w \notin crew
    <3>1. op'[w] = op[w] /\ seen'[w] = seen[w] /\ stage'[w] = stage[w] /\ leased'[w] = leased[w]
      BY <1>1, <2>3
    <3>2. QED
      BY <1>1, <2>1, <3>1 DEF Abreast, Clock, Fits, Eligible
  <2>4. QED
    BY <2>2, <2>3
<1>7. ASSUME NEW s \in stray' PROVE Late(s)'
  <2>1. Late(s)
    <3>1. CASE s \in stray
      BY <3>1 DEF MemoryInv
    <3>2. CASE s \notin stray
      <4>1. PICK W \in SUBSET crew : s \in Sent(W)
        BY <1>1, <3>2
      <4>2. PICK w \in W : s \in Sent({w})
        BY <4>1 DEF Sent
      <4>3. w \in Workers
        BY <4>1, <4>2 DEF crew
      <4>4. QED
        BY <4>2, <4>3, SentIsLate
    <3>3. QED
      BY <3>1, <3>2
  <2>2. s.worker \in Workers /\ leased[s.worker] \in Nat
        /\ leased'[s.worker] \in {0, leased[s.worker]}
    BY <1>2, <1>3, <2>1 DEF Late, MemoryTypeOK
  <2>3. QED
    BY <1>1, <2>1, <2>2 DEF Late, Clock, Fits, Eligible
<1>8. ASSUME NEW v \in Workers, Current(v)' PROVE Covers(memory.doc, v, leased[v])'
  <2>1. leased'[v] = leased[v] /\ Current(v)
    BY <1>1, <1>3, <1>8 DEF Current, Clock
  <2>2. QED
    BY <1>1, <2>1 DEF MemoryInv, Covers
<1>9. (vetoed => Barred(memory.doc))' /\ TerminalStands'
  BY <1>1 DEF MemoryInv, TerminalStands, Barred
<1>10. QED
  BY <1>5, <1>6, <1>7, <1>8, <1>9 DEF MemoryInv

LEMMA TickKeeps ==
  ASSUME MemoryInv, Tick
  PROVE  MemoryInv'
<1>1. /\ now' = now + 1 /\ now \in Nat
      /\ UNCHANGED <<contract, memory, stage, seen, op, stray, leased, settled, vetoed>>
  BY DEF Tick, MemoryInv, MemoryTypeOK
<1>2. MemoryTypeOK'
  BY <1>1 DEF MemoryInv, MemoryTypeOK
<1>3. \A w \in Workers : Clock(w) \in Nat /\ Clock(w)' = Clock(w) + 1 /\ leased[w] \in Nat
                         /\ op[w].at \in Nat
  BY <1>1, MemoryAssumption DEF Clock, MemoryInv, MemoryTypeOK, IsWrite
<1>4. ASSUME NEW w \in Workers PROVE Abreast(w)'
  <2>1. Abreast(w) /\ leased[w] <= Clock(w)'
        /\ (op[w].step = "save" => op[w].at <= Clock(w)')
    BY <1>3 DEF MemoryInv, Abreast
  <2>2. QED
    BY <1>1, <2>1 DEF Abreast, Fits, Eligible
<1>5. ASSUME NEW s \in stray' PROVE Late(s)'
  <2>1. Late(s) /\ s.worker \in Workers
    BY <1>1 DEF MemoryInv, Late
  <2>2. 0 .. Clock(s.worker) \subseteq 0 .. Clock(s.worker)'
    BY <1>3, <2>1
  <2>3. QED
    BY <1>1, <2>1, <2>2 DEF Late, Fits, Eligible
<1>6. ASSUME NEW w \in Workers, Current(w)' PROVE Covers(memory.doc, w, leased[w])'
  <2>1. Current(w)
    BY <1>1, <1>3, <1>6, MemoryAssumption DEF Current
  <2>2. QED
    BY <1>1, <2>1 DEF MemoryInv, Covers
<1>7. (vetoed => Barred(memory.doc))' /\ TerminalStands'
  BY <1>1 DEF MemoryInv, TerminalStands, Barred
<1>8. QED
  BY <1>2, <1>4, <1>5, <1>6, <1>7 DEF MemoryInv

LEMMA MemoryIdleKeeps ==
  ASSUME MemoryInv, UNCHANGED memoryVars
  PROVE  MemoryInv'
<1>1. UNCHANGED <<contract, now, memory, stage, seen, op, stray, leased, settled, vetoed>>
  BY DEF memoryVars
<1>2. MemoryTypeOK'
  BY <1>1 DEF MemoryInv, MemoryTypeOK
<1>3. \A w \in Workers : Abreast(w)'
  BY <1>1 DEF MemoryInv, Abreast, Clock, Fits, Eligible
<1>4. \A s \in stray' : Late(s)'
  BY <1>1 DEF MemoryInv, Late, Clock, Fits, Eligible
<1>5. \A w \in Workers : Current(w)' => Covers(memory.doc, w, leased[w])'
  BY <1>1 DEF MemoryInv, Current, Clock, Covers
<1>6. (vetoed => Barred(memory.doc))' /\ TerminalStands'
  BY <1>1 DEF MemoryInv, TerminalStands, Barred
<1>7. QED
  BY <1>2, <1>3, <1>4, <1>5, <1>6 DEF MemoryInv

LEMMA MemoryStarts ==
  ASSUME MemoryInit
  PROVE  MemoryInv
<1>1. /\ contract \in [Workers -> [task : Tasks, eligible : BOOLEAN]] /\ now = 1
      /\ stage = [w \in Workers |-> "new"]
      /\ seen = [w \in Workers |-> Unseen]
      /\ op = [w \in Workers |-> Idle] /\ stray = {}
      /\ leased = [w \in Workers |-> 0] /\ settled = {}
  BY MemoryAssumption DEF MemoryInit
<1>2. PICK o \in Origins : memory = Found(o) /\ vetoed = (o \in {"foreign", "legacy"})
  BY DEF MemoryInit
<1>3. /\ Found(o).rev \in Nat /\ Timed(Found(o).doc) /\ DOMAIN Found(o).doc.running = {}
      /\ o \in {"foreign", "legacy"} => Barred(Found(o).doc)
  <2>1. Timed(Foreign) /\ DOMAIN Foreign.running = {} /\ Barred(Foreign)
    BY DEF Foreign, Blank, NoLease, Timed, NoFence, Barred
  <2>2. CASE o = "absent"
    BY <2>2, UnseenIsTimed DEF Found, Unseen, Blank, NoLease
  <2>3. CASE o = "foreign"
    BY <2>1, <2>3 DEF Found
  <2>4. CASE o = "reusable"
    BY <2>4 DEF Found, Blank, NoLease, Timed, NoFence
  <2>5. CASE o = "legacy"
    <3>1. <<OldSummary>> # <<>>
      <4>1. Len(<<OldSummary>>) = 1 /\ Len(<<>>) = 0
        OBVIOUS
      <4>2. QED
        BY <4>1
    <3>2. PICK past : past = <<OldSummary>> /\ past # <<>>
      BY <3>1
    <3>3. Found(o) = [rev |-> 1, doc |-> [Blank EXCEPT !.history = past, !.policy = "none"]]
      BY <2>5, <3>2 DEF Found
    <3>4. PICK doc : doc = [Blank EXCEPT !.history = past, !.policy = "none"]
      OBVIOUS
    <3>5. doc.policy = "none" /\ doc.history = past /\ doc.running = NoLease /\ doc.fence = NoFence
      BY <3>4 DEF Blank
    <3>6. Timed(doc) /\ DOMAIN doc.running = {} /\ Barred(doc)
      BY <3>2, <3>5 DEF NoLease, Timed, NoFence, Barred
    <3>7. Found(o).doc = doc /\ Found(o).rev = 1
      BY <3>3, <3>4
    <3>8. QED
      BY <3>6, <3>7
  <2>6. QED
    BY <2>2, <2>3, <2>4, <2>5, MemoryAssumption
<1>4. MemoryTypeOK
  BY <1>1, <1>2, <1>3, IdleIsWrite, UnseenIsTimed DEF MemoryTypeOK, Stages
<1>5. ASSUME NEW w \in Workers PROVE Abreast(w)
  <2>1. op[w] = Idle /\ Idle.step = "idle" /\ stage[w] = "new" /\ leased[w] = 0
    BY <1>1, IdleIsWrite
  <2>2. Clock(w) \in Nat
    BY <1>4, MemoryAssumption DEF Clock, MemoryTypeOK
  <2>3. QED
    BY <1>1, <2>1, <2>2 DEF Abreast
<1>6. \A w \in Workers : ~Current(w)
  BY <1>1 DEF Current
<1>7. (vetoed => Barred(memory.doc)) /\ TerminalStands /\ \A s \in stray : Late(s)
  BY <1>1, <1>2, <1>3 DEF TerminalStands
<1>8. QED
  BY <1>4, <1>5, <1>6, <1>7 DEF MemoryInv

-----------------------------------------------------------------------------
(* The memory that a task leaves behind (_ensure_task_memory,               *)
(* spawner_worker.py), when the platform saves only over the revision that  *)
(* was read: a save under way was made from a document no newer than the    *)
(* present one, and every lease that counts is listed or fenced.            *)
THEOREM MemoryInvariant ==
  ASSUME LaxCreate = FALSE
  PROVE  MemorySpec => []MemoryInv
<1>1. MemoryInit => MemoryInv
  BY MemoryStarts
<1>2. MemoryInv /\ [MemoryNext]_memoryVars => MemoryInv'
  <2> SUFFICES ASSUME MemoryInv, [MemoryNext]_memoryVars PROVE MemoryInv'
    OBVIOUS
  <2>1. ASSUME NEW w \in Workers,
               \/ Register(w) \/ AssignSimilar(w) \/ AssignOrdinary(w)
               \/ Fetched(w) \/ Saved(w) \/ Conflict(w) \/ Fails(w)
               \/ Heartbeat(w) \/ Returns(w) \/ Breaks(w)
        PROVE  MemoryInv'
    BY <2>1, RegisterKeeps, AssignKeeps, FetchedKeeps, SavedKeeps, ConflictKeeps,
       HeartbeatKeeps, LeavingKeeps
  <2>2. ASSUME NEW t \in Tasks, ProcessDies(t) PROVE MemoryInv'
    BY <2>2, ProcessDiesKeeps
  <2>3. CASE StrayLands
    BY <2>3, StrayLandsKeeps
  <2>4. CASE Tick
    BY <2>4, TickKeeps
  <2>5. CASE UNCHANGED memoryVars
    BY <2>5, MemoryIdleKeeps
  <2>6. QED
    BY <2>1, <2>2, <2>3, <2>4, <2>5 DEF MemoryNext
<1>3. QED
  BY <1>1, <1>2, PTL DEF MemorySpec

(* While a worker's lease counts, no process offers its Fleet to another    *)
(* task, though the leases that are listed are few and each clock has an    *)
(* error of its own (compact_running_memory_records, task_reuse.py).        *)
THEOREM LeaseClosesFleet ==
  ASSUME LaxCreate = FALSE
  PROVE  MemorySpec => []LiveLeaseClosesFleet
<1>1. MemoryInv => LiveLeaseClosesFleet
  BY CoveredIsShut DEF MemoryInv, LiveLeaseClosesFleet
<1>2. QED
  BY <1>1, MemoryInvariant, PTL

(* A Fleet that an excluded worker has recorded, or with a history of       *)
(* unknown policy, is never offered (_merge_task_memory_envelope, agent.py). *)
THEOREM BarredStaysBarred ==
  ASSUME LaxCreate = FALSE
  PROVE  MemorySpec => []NeverPromoted
<1>1. MemoryInv => NeverPromoted
  BY BarredIsShut DEF MemoryInv, NeverPromoted
<1>2. QED
  BY <1>1, MemoryInvariant, PTL

(* A worker whose terminal write was confirmed is not listed as running     *)
(* again by a late heartbeat of its own (_checkpoint_terminal_task_memory,  *)
(* spawner_worker.py).                                                      *)
THEOREM TerminalWriteStands ==
  ASSUME LaxCreate = FALSE
  PROVE  MemorySpec => []TerminalStands
<1>1. MemoryInv => TerminalStands
  BY DEF MemoryInv
<1>2. QED
  BY <1>1, MemoryInvariant, PTL
=============================================================================
