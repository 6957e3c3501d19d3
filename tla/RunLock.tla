------------------------------- MODULE RunLock -------------------------------
(* The run lock that keeps two harness processes off one task               *)
(* (harness/runtime/resume_state.py): a directory that mkdir claims, and an *)
(* owner.json that a rename publishes in it.                                *)
(*                                                                          *)
(* Every file system call another process can see is a step of its own.  A  *)
(* process takes the lock once, as one run of main does, and its pid and    *)
(* owner token are its name.  Left out: the lock of an older layout that is *)
(* taken second, owners of another host, a reused pid, a malformed          *)
(* owner.json.                                                              *)
EXTENDS Naturals, FiniteSets

CONSTANTS
  Processes,     \* the harness processes started on one task
  Nobody,        \* no owner.json
  SoleTakeover,  \* no two processes remove a stale lock at the same time
  MaxCrashes     \* bound: processes that die without releasing

ASSUME NobodyAssumption == Nobody \notin Processes
ASSUME LimitAssumption == MaxCrashes \in Nat /\ SoleTakeover \in BOOLEAN

VARIABLES
  there,     \* the lock directory exists
  owner,     \* whose owner.json is in it
  aged,      \* it has had no owner for RUN_LOCK_OWNER_GRACE_SECONDS
  pc,        \* the next call of a process
  existing,  \* the owner a process read
  outdated,  \* processes whose stat of the directory no longer fits it
  crashes,   \* how many processes died
  alone      \* ghost: processes that no other process has run beside

lockVars == <<there, owner, aged>>
vars == <<lockVars, pc, existing, outdated, crashes, alone>>

Removing == {"remove", "unlink", "rmdir"}
Trying == {"mkdir", "read", "probe", "recheck", "inspect", "restat", "publish", "undo"} \cup Removing
Holding == {"held", "unlinking"}
Over == {"refused", "failed", "left", "dead"}

Running(p) == pc[p] \notin Over \cup {"idle"}

TypeOK ==
  /\ there \in BOOLEAN /\ owner \in Processes \cup {Nobody} /\ aged \in BOOLEAN
  /\ owner # Nobody => there
  /\ aged => there /\ owner = Nobody
  /\ pc \in [Processes -> Trying \cup Holding \cup Over \cup {"idle", "clearing"}]
  /\ existing \in [Processes -> Processes \cup {Nobody}]
  /\ outdated \subseteq Processes /\ alone \subseteq Processes
  /\ crashes \in 0..MaxCrashes

Init ==
  /\ there = FALSE /\ owner = Nobody /\ aged = FALSE
  /\ pc = [p \in Processes |-> "idle"]
  /\ existing = [p \in Processes |-> Nobody]
  /\ outdated = {} /\ alone = {} /\ crashes = 0

-----------------------------------------------------------------------------
(* Operators with an underscore in their names are faulty variants of the   *)
(* one that follows; no action uses them.                                   *)
Goes(p, phase) == pc' = [pc EXCEPT ![p] = phase]

(* Every change of the directory renews its mtime, which the processes that *)
(* compare it will see.                                                     *)
Becomes(exists, name) ==
  /\ there' = exists /\ owner' = name /\ aged' = FALSE
  /\ outdated' = {q \in Processes : pc[q] = "restat"}

Keeps == UNCHANGED <<lockVars, outdated>>
Aside == UNCHANGED <<existing, crashes, alone>>

(* rmdir: only an empty directory goes.                                     *)
Rmdir == IF there /\ owner = Nobody THEN Becomes(FALSE, Nobody) ELSE Keeps

(* A takeover is under way: the check that allows it has been made.         *)
Taking(p) == SoleTakeover /\ \E q \in Processes \ {p} : pc[q] \in Removing

Start(p) ==
  /\ pc[p] = "idle"
  /\ Goes(p, "mkdir")
  /\ alone' = {q \in {p} : \A r \in Processes : ~Running(r)}
  /\ UNCHANGED <<lockVars, existing, outdated, crashes>>

Mkdir(p) ==
  /\ pc[p] = "mkdir"
  /\ IF there THEN Goes(p, "read") /\ Keeps
     ELSE Goes(p, "publish") /\ Becomes(TRUE, Nobody)
  /\ Aside

(* _read_lock_owner; _cleanup_stale_ownerless_lock when there is none.      *)
ReadLockOwner(p) ==
  /\ pc[p] = "read"
  /\ Goes(p, IF owner = Nobody THEN "inspect" ELSE "probe")
  /\ existing' = [existing EXCEPT ![p] = owner]
  /\ UNCHANGED <<lockVars, outdated, crashes, alone>>

PidIsAlive_Unless(q) == pc[q] # "left"
PidIsAlive(q) == pc[q] \notin Over

Probe(p) ==
  /\ pc[p] = "probe"
  /\ Goes(p, IF PidIsAlive(existing[p]) THEN "refused" ELSE "recheck")
  /\ Keeps /\ Aside

(* Read again immediately before the removal; a missing owner is an error.  *)
Recheck(p) ==
  /\ pc[p] = "recheck" /\ ~Taking(p)
  /\ Goes(p, IF owner = Nobody THEN "refused"
             ELSE IF owner # existing[p] THEN "mkdir" ELSE "unlink")
  /\ Keeps /\ Aside

(* The owner.json that is there now, whoever wrote it.                      *)
Unlink(p) ==
  /\ pc[p] = "unlink"
  /\ IF owner = Nobody THEN Goes(p, "mkdir") /\ Keeps
     ELSE Goes(p, "rmdir") /\ Becomes(there, Nobody)
  /\ Aside

RemoveStale(p) ==
  /\ pc[p] \in {"rmdir", "remove"}
  /\ Goes(p, IF owner = Nobody THEN "mkdir" ELSE "refused")
  /\ Rmdir
  /\ Aside

(* An old directory without an owner may go; a young one, or one whose      *)
(* owner has appeared, is left to its contender.                            *)
Verdict_AnyAge == IF ~there THEN "mkdir" ELSE IF owner # Nobody THEN "refused" ELSE "restat"
Verdict_Waits == IF ~there \/ ~aged THEN "mkdir" ELSE "restat"
Verdict ==
  IF ~there THEN "mkdir" ELSE IF owner # Nobody \/ ~aged THEN "refused" ELSE "restat"

Inspect(p) ==
  /\ pc[p] = "inspect"
  /\ Goes(p, Verdict)
  /\ Keeps /\ Aside

(* An owner that appears is seen by the second read, or only by the look    *)
(* for the file when that read has failed.                                  *)
Restat(p) ==
  /\ pc[p] = "restat" /\ ~Taking(p)
  /\ \/ owner = Nobody
        /\ Goes(p, IF ~there \/ p \in outdated THEN "mkdir" ELSE "remove")
     \/ owner # Nobody /\ \E phase \in {"mkdir", "refused"} : Goes(p, phase)
  /\ outdated' = outdated \ {p}
  /\ UNCHANGED lockVars /\ Aside

(* os.replace, which fails in a directory that is gone, or for a reason of  *)
(* the file system.                                                         *)
Publish(p) ==
  /\ pc[p] = "publish"
  /\ \/ there /\ Goes(p, "held") /\ Becomes(TRUE, p)
     \/ Goes(p, "undo") /\ Keeps
  /\ Aside

Undo_Leaves(p) == pc[p] = "undo" /\ Goes(p, "failed") /\ Keeps /\ Aside
Undo(p) ==
  /\ pc[p] = "undo"
  /\ Goes(p, "failed")
  /\ Rmdir
  /\ Aside

(* release_run_lock: the token, the file, the directory.                    *)
Release(p) ==
  /\ pc[p] = "held"
  /\ Goes(p, IF owner = p THEN "unlinking" ELSE "left")
  /\ Keeps /\ Aside

ReleaseUnlink(p) ==
  /\ pc[p] = "unlinking"
  /\ IF owner = Nobody THEN Goes(p, "left") /\ Keeps
     ELSE Goes(p, "clearing") /\ Becomes(there, Nobody)
  /\ Aside

ReleaseRmdir(p) ==
  /\ pc[p] = "clearing"
  /\ Goes(p, "left")
  /\ Rmdir
  /\ Aside

-----------------------------------------------------------------------------
(* The environment: a process is killed, and time passes.  The grace period *)
(* is taken to be what it is meant to be: no process that lives is still    *)
(* between mkdir and its rename, or between unlink and rmdir, when it ends. *)
Crash(p) ==
  /\ Running(p) /\ crashes < MaxCrashes
  /\ Goes(p, "dead")
  /\ crashes' = crashes + 1
  /\ UNCHANGED <<lockVars, existing, outdated, alone>>

Age ==
  /\ there /\ owner = Nobody /\ ~aged
  /\ \A p \in Processes : pc[p] \notin {"publish", "undo", "rmdir", "clearing"}
  /\ aged' = TRUE
  /\ UNCHANGED <<there, owner, pc, existing, outdated, crashes, alone>>

Step(p) ==
  \/ Mkdir(p) \/ ReadLockOwner(p) \/ Probe(p) \/ Recheck(p) \/ Unlink(p) \/ RemoveStale(p)
  \/ Inspect(p) \/ Restat(p) \/ Publish(p) \/ Undo(p) \/ ReleaseUnlink(p) \/ ReleaseRmdir(p)

Next == Age \/ \E p \in Processes : Start(p) \/ Step(p) \/ Release(p) \/ Crash(p)

Spec == Init /\ [][Next]_vars

(* The operating system runs every process; how long a task holds the lock  *)
(* and when a process is started is not promised.                           *)
Fairness == \A p \in Processes : WF_vars(Step(p))
FairSpec == Spec /\ Fairness

-----------------------------------------------------------------------------
(* Two processes never run one task.  acquire_run_lock: "All backends use   *)
(* the same mutex." (resume_state.py:892), and harness/storage/dao.py:297   *)
(* builds on it: "the task run lock keeps two harness processes off the     *)
(* same task".                                                              *)
MutualExclusion == \A p, q \in Processes : pc[p] \in Holding /\ pc[q] \in Holding => p = q

(* What users of the lock may rely on, in TaskMutex: the task is entered    *)
(* only when nobody has it, and nobody who is over has it again, whatever   *)
(* the steps on the directory and the deaths in between (acquire_run_lock,  *)
(* release_run_lock).  A holder has it until it takes its file away.  It is *)
(* true only while takeovers of a stale lock do not overlap, which the code *)
(* does not ensure (MutualExclusion without SoleTakeover).                  *)
TurnAt(phase) ==
  CASE phase = "idle" -> "idle"
    [] phase \in Trying -> "trying"
    [] phase \in Holding -> "holding"
    [] phase \in Over \cup {"clearing"} -> "over"
Turn == [p \in Processes |-> TurnAt(pc[p])]
Mutex == INSTANCE TaskMutex WITH turn <- Turn
KeepsMutex == Mutex!Spec

(* A task can be resumed after a crash: a process that no other process has *)
(* run beside is not refused, except for a directory without an owner that  *)
(* is younger than the grace period (_cleanup_stale_ownerless_lock).        *)
AloneGetsIn ==
  [][\A p \in alone : pc[p] # "refused" /\ pc'[p] = "refused"
       => there /\ owner = Nobody /\ ~aged]_vars

(* When every process is over and none was killed, no lock is left behind:  *)
(* by a refusal, a failed rename or a release.                              *)
NothingLeftBehind ==
  crashes = 0 /\ (\A p \in Processes : ~Running(p)) => ~there

(* The loop of _acquire_run_lock_at ends: every try gets the lock, is       *)
(* refused, fails, or dies.                                                 *)
TryEnds == \A p \in Processes : pc[p] \in Trying ~> pc[p] \notin Trying
=============================================================================
