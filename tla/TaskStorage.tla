----------------------------- MODULE TaskStorage -----------------------------
(***************************************************************************)
(* The plan and the state of one task on disk, in the database, or in both *)
(* (storage/file_store.py, sqlite_store.py, dual_store.py), and what a     *)
(* process that resumes the task does before it trusts them: the promotion *)
(* of a database that was only a mirror and the repair of a plan alias     *)
(* that a crash has torn from the state (runtime/resume_state.py).         *)
(*                                                                         *)
(* A plan stands for its text and its hash; what the phases have done is   *)
(* one counter in the state.  A write to one file, and a transaction of    *)
(* the database, is atomic; a process may die between any two of them, and *)
(* a write to the mirror may fail.  The run lock keeps a second process    *)
(* away (module RunLock).  The task exists and has its first plan.         *)
(***************************************************************************)
EXTENDS Naturals

CONSTANTS
    Plan,        \* texts a plan may have
    First,       \* the plan the task was created with
    MaxVersion,  \* plan versions a history may hold
    MaxWork,     \* state writes that are not a new plan
    MaxRuns,     \* processes that are started for the task
    ModeChange   \* pairs <<m, n>>: the operator may start in n after m

Mode == {"file", "dual", "db"}
NoPlan == "none"
Version == 1 .. MaxVersion

ASSUME StorageAssumption ==
    /\ First \in Plan /\ NoPlan \notin Plan
    /\ MaxVersion \in Nat \ {0} /\ MaxWork \in Nat /\ MaxRuns \in Nat
    /\ ModeChange \subseteq Mode \X Mode

VARIABLES
    files,   \* the worktree: plan history, current plan, task state
    db,      \* the same in the task database
    marker,  \* the database holds the task manifest: it was promoted
    mode,    \* storage_backend of the present or the last process
    doing,   \* what the process is doing
    held,    \* the task state the process works on
    next,    \* version and plan of a commit under way, or what is mirrored
    saved,   \* the last state a process wrote and could rely on
    runs     \* processes started

storageVars == <<files, db, marker, mode, doing, held, next, saved, runs>>

State == [ver : 0 .. MaxVersion, plan : Plan \cup {NoPlan}, work : 0 .. MaxWork]
Store == [hist : [Version -> Plan \cup {NoPlan}], plan : Plan \cup {NoPlan}, state : State]

NoState == [ver |-> 0, plan |-> NoPlan, work |-> 0]
FirstState == [ver |-> 1, plan |-> First, work |-> 0]
Empty == [hist |-> [v \in Version |-> NoPlan], plan |-> NoPlan, state |-> NoState]
Created == [hist |-> [v \in Version |-> IF v = 1 THEN First ELSE NoPlan],
            plan |-> First, state |-> FirstState]
NoCommit == [op |-> "none", ver |-> 0, plan |-> NoPlan]

StorageInit ==
    /\ mode \in Mode
    /\ files = IF mode = "db" THEN Empty ELSE Created
    /\ db = IF mode = "file" THEN Empty ELSE Created
    /\ marker = (mode = "db")
    /\ doing = "down" /\ held = NoState /\ next = NoCommit
    /\ saved = FirstState /\ runs = 0

Own(m) == IF m = "db" THEN db ELSE files

\* The store that was written by the mode in force.
Written(s) == IF mode = "db" THEN db' = s /\ UNCHANGED files
                             ELSE files' = s /\ UNCHANGED db

Holds(s, v) == v \in Version /\ s.hist[v] # NoPlan

-----------------------------------------------------------------------------
(* Resuming *)

PromotionAgrees_PlanOnly ==
    /\ files.plan = db.plan
    /\ \A v \in Version : Holds(files, v) => db.hist[v] = files.hist[v]

\* promote_legacy_task_to_database compares plan, state and history.
PromotionAgrees ==
    /\ files.plan = db.plan /\ files.state = db.state
    /\ \A v \in Version : Holds(files, v) => db.hist[v] = files.hist[v]

Promotable == db.state # NoState /\ files.state # NoState /\ PromotionAgrees

\* _read_state_or_snapshot finds both records in the store the mode names.
Readable(s) == s.plan # NoPlan /\ s.state # NoState

\* The window reconcile_torn_plan_alias repairs: the alias is the version
\* after the state's, and no version comes after that.
Torn(s) ==
    /\ Holds(s, s.state.ver) /\ s.hist[s.state.ver] = s.state.plan
    /\ Holds(s, s.state.ver + 1) /\ s.hist[s.state.ver + 1] = s.plan
    /\ \A v \in Version : v > s.state.ver + 1 => ~Holds(s, v)

Consistent(s) == s.plan = s.state.plan

Repaired_Unchanged(s) == s

\* The alias is rolled back to the plan the state names.
Repaired(s) == [s EXCEPT !.plan = s.state.plan]

\* A process starts on the store s of mode m, or refuses.
Enter(m, s) ==
    IF Readable(s) /\ (Consistent(s) \/ Torn(s))
      THEN /\ doing' = "resume" /\ held' = s.state
           /\ IF m = "db" THEN db' = Repaired(s) /\ UNCHANGED files
                          ELSE files' = Repaired(s) /\ UNCHANGED db
      ELSE doing' = "refused" /\ UNCHANGED <<files, db, held>>

Resume(m) ==
    /\ doing = "down" /\ runs < MaxRuns /\ <<mode, m>> \in ModeChange
    /\ mode' = m /\ runs' = runs + 1
    /\ IF m = "db" /\ ~marker
         THEN IF Promotable
                THEN marker' = TRUE /\ Enter(m, db)
                ELSE doing' = "refused" /\ UNCHANGED <<marker, files, db, held>>
         ELSE UNCHANGED marker /\ Enter(m, Own(m))
    /\ UNCHANGED <<next, saved>>

-----------------------------------------------------------------------------
(* Writing *)

\* After the primary comes the mirror, in dual mode.
Mirrored(op, v, p) ==
    IF mode = "dual" THEN doing' = "mirror" /\ next' = [op |-> op, ver |-> v, plan |-> p]
                     ELSE doing' = "up" /\ next' = NoCommit

\* save_snapshot of the task state: the reconciled state of a resumed run
\* first, then what the phases do.
SaveState(w) ==
    /\ \/ doing = "resume" /\ w = held.work
       \/ doing = "up" /\ w = held.work + 1 /\ w <= MaxWork
    /\ held' = [held EXCEPT !.work = w]
    /\ Written([Own(mode) EXCEPT !.state = held'])
    /\ Mirrored("state", held.ver, held.plan)
    /\ saved' = held'
    /\ UNCHANGED <<marker, mode, runs>>

NextVersion_AfterState(s) == s.state.ver + 1

\* One more than the highest version on record, used or not.
NextVersion(s) ==
    LET used == {v \in Version : s.hist[v] # NoPlan}
    IN  IF used = {} THEN 1 ELSE (CHOOSE v \in used : \A u \in used : u <= v) + 1

Committed(s, v, p) ==
    [hist |-> [s.hist EXCEPT ![v] = p], plan |-> p, state |-> [held EXCEPT !.ver = v, !.plan = p]]

\* commit_accepted_plan of the database: one transaction.
CommitDb(p) ==
    /\ doing = "up" /\ mode = "db" /\ p # held.plan
    /\ LET v == NextVersion(db)
       IN  /\ v \in Version
           /\ db' = Committed(db, v, p)
           /\ held' = [held EXCEPT !.ver = v, !.plan = p]
    /\ saved' = held'
    /\ UNCHANGED <<files, marker, mode, doing, next, runs>>

\* commit_accepted_plan of the worktree: the history record, ...
CommitHistory(p) ==
    /\ doing = "up" /\ mode # "db" /\ p # held.plan
    /\ LET v == NextVersion(files)
       IN  /\ v \in Version
           /\ files' = [files EXCEPT !.hist[v] = p]
           /\ next' = [op |-> "commit", ver |-> v, plan |-> p]
    /\ doing' = "alias"
    /\ UNCHANGED <<db, marker, mode, held, saved, runs>>

\* ... then task_plan.json, ...
CommitAlias ==
    /\ doing = "alias"
    /\ files' = [files EXCEPT !.plan = next.plan] /\ doing' = "state"
    /\ UNCHANGED <<db, marker, mode, held, next, saved, runs>>

\* ... and the state that names the version.
CommitState ==
    /\ doing = "state"
    /\ held' = [held EXCEPT !.ver = next.ver, !.plan = next.plan]
    /\ files' = [files EXCEPT !.state = held']
    /\ saved' = held'
    /\ Mirrored("commit", next.ver, next.plan)
    /\ UNCHANGED <<db, marker, mode, runs>>

\* A write of the commit raises: the caller gets the error, and the process
\* goes on with the state it had.
CommitFails ==
    /\ doing \in {"alias", "state"} /\ doing' = "up" /\ next' = NoCommit
    /\ UNCHANGED <<files, db, marker, mode, held, saved, runs>>

\* The secondary gets the version and the state the primary settled on; the
\* version is inserted, so a number that is taken undoes the transaction.
Mirror ==
    /\ doing = "mirror" /\ doing' = "up" /\ next' = NoCommit
    /\ db' = CASE next.op = "state" -> [db EXCEPT !.state = held]
               [] next.op = "commit" /\ ~Holds(db, next.ver) -> Committed(db, next.ver, next.plan)
               [] OTHER -> db
    /\ UNCHANGED <<files, marker, mode, held, saved, runs>>

\* A failure of the secondary is recorded and not raised.
MirrorFails ==
    /\ doing = "mirror" /\ doing' = "up" /\ next' = NoCommit
    /\ UNCHANGED <<files, db, marker, mode, held, saved, runs>>

\* The process ends, or dies where it is; or it has refused the task.
Stop ==
    /\ doing # "down" /\ doing' = "down" /\ held' = NoState /\ next' = NoCommit
    /\ UNCHANGED <<files, db, marker, mode, saved, runs>>

StorageNext ==
    \/ \E m \in Mode : Resume(m)
    \/ \E w \in 0 .. MaxWork : SaveState(w)
    \/ \E p \in Plan : CommitDb(p) \/ CommitHistory(p)
    \/ CommitAlias \/ CommitState \/ CommitFails \/ Mirror \/ MirrorFails \/ Stop

StorageSpec == StorageInit /\ [][StorageNext]_storageVars

-----------------------------------------------------------------------------
(* Properties *)

StorageTypeOK ==
    /\ files \in Store /\ db \in Store /\ marker \in BOOLEAN /\ mode \in Mode
    /\ doing \in {"down", "resume", "up", "alias", "state", "mirror", "refused"}
    /\ held \in State /\ saved \in State /\ runs \in 0 .. MaxRuns
    /\ next \in [op : {"none", "state", "commit"}, ver : 0 .. MaxVersion,
                 plan : Plan \cup {NoPlan}]

\* A process works on the state that was written last, whatever crashed,
\* whichever mirror write failed and whichever store it starts on
\* (promote_legacy_task_to_database, DualStore._mirror).
RunsOnLastSave == doing \in {"resume", "up", "alias", "state", "mirror"} => held = saved

\* When a process starts, the current plan, the plan the state names and the
\* record of its version in the history are one plan, whatever the processes
\* before it left behind (reconcile_torn_plan_alias, commit_accepted_plan).
PlanIsOfState ==
    doing = "resume"
        => /\ Own(mode).plan = held.plan
           /\ Holds(Own(mode), held.ver) /\ Own(mode).hist[held.ver] = held.plan

\* A version that is on record keeps its plan: a commit after a torn one
\* takes a number of its own (FileStore._next_sequence).
HistoryIsImmutable ==
    [][\A v \in Version : /\ Holds(files, v) => files'.hist[v] = files.hist[v]
                          /\ Holds(db, v) => db'.hist[v] = db.hist[v]]_storageVars

\* resume_state.py 464: "If the process stops between 2 and 3, the alias is
\* exactly the next history version while state still names its predecessor.
\* That relationship is mechanical, so restoring the predecessor is safe."
StopIsRepairable == doing = "state" => Torn(files)
=============================================================================
