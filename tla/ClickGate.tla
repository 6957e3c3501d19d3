------------------------------- MODULE ClickGate -------------------------------
(***************************************************************************)
(* FleetClickGate of harness/fleet/runtime.py for one Fleet, and the calls *)
(* of PageLeasedBrowserClient that go through it: clicks, submitting keys  *)
(* and Workflows are serialized, and a queued one races the authentication *)
(* barrier (AuthEpoch).                                                    *)
(*                                                                         *)
(* An entry is created by the first call and dropped when no call and no   *)
(* tombstone is left; Entries are the objects, current the one in _entries.*)
(* Of the tombstones only the number counts: the code prunes the expired   *)
(* ones before it looks at the list.                                       *)
(***************************************************************************)
EXTENDS Integers, FiniteSets, SequencesExt

CONSTANTS
  Workers, NoWorker,
  Entries, NoEntry,
  MaxRetired,      \* max_retired_per_fleet
  MaxGeneration,   \* bounds how often the barrier opens
  SwallowsCancel   \* asyncio.wait_for before Python 3.12

ASSUME AbsentAssumption == NoWorker \notin Workers /\ NoEntry \notin Entries
ASSUME LimitsAssumption == MaxRetired \in Nat \ {0} /\ MaxGeneration \in Nat
ASSUME FlagAssumption == SwallowsCancel \in BOOLEAN

VARIABLES
  current,         \* the Fleet's entry in _entries
  lock,            \* owner of entry.lock
  queue,           \* tasks that wait for entry.lock, in order
  users,           \* entry.users
  retired,         \* length of entry.retired
  timer,           \* is entry.cleanup_handle scheduled?
  phase, kind,     \* where a worker's call is, and whether it is a Workflow
  entry,           \* the entry the call took its lease from
  seen,            \* seen_generation of _acquire_click_gate
  noticed,         \* workers whose auth_task has finished
  closed, resolver, generation,
  crossed,         \* ghost: queued workers during whose wait another closed the gate
  lost             \* ghost: entries whose lease was granted and then dropped

gateVars == <<current, lock, queue, users, retired, timer>>
authVars == <<closed, resolver, generation>>
callVars == <<phase, kind, entry, seen, noticed>>
ghostVars == <<crossed, lost>>
vars == <<gateVars, authVars, callVars, ghostVars>>

Epoch == INSTANCE AuthEpoch

(* queued: gate.acquire waits; taken: it returned, the caller has not looked*)
(* yet; check and blocked: before_call, holding the lease; redirected:      *)
(* before_call without a lease; held: baseline; sent: dispatched.           *)
Leased == {"taken", "check", "blocked", "held", "sent"}
Phases == {"idle", "queued", "redirected"} \cup Leased
Attached == {"queued"} \cup Leased

GateTypes ==
  /\ current \in Entries \cup {NoEntry}
  /\ lock \in [Entries -> Workers \cup {NoWorker}]
  /\ queue \in [Entries -> Seq(Workers)]
  /\ users \in [Entries -> Nat]
  /\ retired \in [Entries -> Nat]
  /\ timer \in [Entries -> BOOLEAN]

CallTypes ==
  /\ phase \in [Workers -> Phases]
  /\ kind \in [Workers -> {"click", "workflow"}]
  /\ entry \in [Workers -> Entries \cup {NoEntry}]
  /\ seen \in [Workers -> Nat]
  /\ noticed \in SUBSET Workers

AuthTypes ==
  /\ closed \in BOOLEAN
  /\ resolver \in Workers \cup {NoWorker}
  /\ generation \in Nat

GhostTypes == crossed \in SUBSET Workers /\ lost \in SUBSET Entries

TypeOK == GateTypes /\ CallTypes /\ AuthTypes /\ GhostTypes

Init ==
  /\ current = NoEntry
  /\ lock = [e \in Entries |-> NoWorker]
  /\ queue = [e \in Entries |-> <<>>]
  /\ users = [e \in Entries |-> 0]
  /\ retired = [e \in Entries |-> 0]
  /\ timer = [e \in Entries |-> FALSE]
  /\ phase = [w \in Workers |-> "idle"]
  /\ kind = [w \in Workers |-> "click"]
  /\ entry = [w \in Workers |-> NoEntry]
  /\ seen = [w \in Workers |-> 0]
  /\ noticed = {} /\ crossed = {} /\ lost = {}
  /\ Epoch!Init

-----------------------------------------------------------------------------
(* Operators with an underscore in their names are faulty variants of the   *)
(* one that follows; no action uses them.                                   *)

Unreferenced(e) == e # current /\ \A w \in Workers : entry[w] # e

(* FleetClickGate.acquire up to its wait.                                   *)
Enqueue(w) ==
  \E e \in Entries :
    /\ IF current = NoEntry THEN Unreferenced(e) ELSE e = current
    /\ current' = e
    /\ entry' = [entry EXCEPT ![w] = e]
    /\ IF current = NoEntry
       THEN /\ lock' = [lock EXCEPT ![e] = NoWorker]
            /\ queue' = [queue EXCEPT ![e] = <<w>>]
            /\ users' = [users EXCEPT ![e] = 1]
            /\ retired' = [retired EXCEPT ![e] = 0]
            /\ timer' = [timer EXCEPT ![e] = FALSE]
       ELSE /\ queue' = [queue EXCEPT ![e] = Append(@, w)]
            /\ users' = [users EXCEPT ![e] = @ + 1]
            /\ UNCHANGED <<lock, retired, timer>>

Call(w) ==
  /\ phase[w] = "idle"
  /\ Enqueue(w)
  /\ phase' = [phase EXCEPT ![w] = "queued"]
  /\ \E k \in {"click", "workflow"} : kind' = [kind EXCEPT ![w] = k]
  /\ seen' = [seen EXCEPT ![w] = generation]
  /\ noticed' = noticed \ {w}
  /\ crossed' = IF closed /\ resolver # w THEN crossed \cup {w} ELSE crossed \ {w}
  /\ UNCHANGED <<authVars, lost>>

(* asyncio.Lock hands itself to the first waiter.                           *)
Take(w) ==
  LET e == entry[w] IN
  /\ phase[w] = "queued"
  /\ lock[e] = NoWorker /\ Head(queue[e]) = w
  /\ lock' = [lock EXCEPT ![e] = w]
  /\ queue' = [queue EXCEPT ![e] = Tail(@)]
  /\ phase' = [phase EXCEPT ![w] = "taken"]
  /\ UNCHANGED <<current, users, retired, timer, kind, entry, seen, noticed, authVars, ghostVars>>

(* _release_entry: an entry nobody uses and nothing is remembered in goes.  *)
Popped_Unlocked(e, lk, us) == retired[e] = 0 /\ lk[e] = NoWorker

Popped(e, lk, us) == retired[e] = 0 /\ lk[e] = NoWorker /\ us[e] = 0

Fewer(e) == users[e] - 1

Leave(w, lk) ==
  LET e == entry[w]
      us == [users EXCEPT ![e] = Fewer(e)]
      gone == current = e /\ Popped(e, lk, us)
  IN  /\ users' = us
      /\ lock' = lk
      /\ UNCHANGED retired
      /\ queue' = [queue EXCEPT ![e] = Remove(@, w)]
      /\ current' = IF gone THEN NoEntry ELSE current
      /\ timer' = IF gone THEN [timer EXCEPT ![e] = FALSE] ELSE timer
      /\ entry' = [entry EXCEPT ![w] = NoEntry]

(* FleetClickLease.release *)
Release(w) == Leave(w, [lock EXCEPT ![entry[w]] = NoWorker])

(* The wait for the lock timed out or was cancelled.                        *)
GiveUp(w) == Leave(w, lock)

Becomes(w, ph) ==
  /\ phase' = [phase EXCEPT ![w] = ph]
  /\ noticed' = noticed \ {w}
  /\ UNCHANGED <<kind, seen>>

LockTimeout(w) ==
  /\ phase[w] = "queued"
  /\ GiveUp(w)
  /\ Becomes(w, "idle")
  /\ UNCHANGED <<authVars, ghostVars>>

-----------------------------------------------------------------------------
(* _acquire_click_gate races the lock against wait_until_resolving.         *)
Notice(w) ==
  /\ phase[w] \in {"queued", "taken"} /\ w \notin noticed
  /\ closed /\ resolver # w
  /\ noticed' = noticed \cup {w}
  /\ UNCHANGED <<gateVars, authVars, phase, kind, entry, seen, ghostVars>>

(* The barrier came first: a lease already granted is given back.           *)
AuthFirst(w) ==
  /\ w \in noticed
  /\ \/ phase[w] = "queued" /\ GiveUp(w)
     \/ phase[w] = "taken" /\ Release(w)
  /\ Becomes(w, "redirected")
  /\ UNCHANGED <<authVars, ghostVars>>

(* wait_for that has its result returns it instead of being cancelled, and  *)
(* _cancel_task drops what the task returns.                                *)
AuthFirstSwallowed(w) ==
  /\ SwallowsCancel
  /\ w \in noticed /\ phase[w] = "taken"
  /\ Becomes(w, "redirected")
  /\ entry' = [entry EXCEPT ![w] = NoEntry]
  /\ lost' = lost \cup {entry[w]}
  /\ UNCHANGED <<gateVars, authVars, crossed>>

(* before_call, then the one receipt; the click was abandoned.              *)
Redirected(w) ==
  /\ phase[w] = "redirected"
  /\ Becomes(w, "idle")
  /\ UNCHANGED <<gateVars, entry, authVars, ghostVars>>

(* The lock came first: the barrier is asked once more.                     *)
GateFirst(w) ==
  /\ phase[w] = "taken" /\ w \notin noticed
  /\ Becomes(w, "check")
  /\ UNCHANGED <<gateVars, entry, authVars, ghostVars>>

Blocks(w) == closed /\ resolver \notin {NoWorker, w}
Ownerless == closed /\ resolver = NoWorker

GenerationKept_Any(w) == TRUE
GenerationKept(w) == seen[w] = generation

Blocked(w) ==
  /\ phase[w] = "check" /\ Blocks(w)
  /\ Becomes(w, "blocked")
  /\ UNCHANGED <<gateVars, entry, authVars, ghostVars>>

Admitted(w) ==
  /\ phase[w] \in {"check", "blocked"}
  /\ ~Blocks(w) /\ ~Ownerless /\ GenerationKept(w)
  /\ Becomes(w, "held")
  /\ UNCHANGED <<gateVars, entry, authVars, ghostVars>>

(* Not allowed, or generationChanged, or the wait at the barrier timed out. *)
Rejected(w) ==
  /\ \/ phase[w] \in {"check", "blocked"} /\ ~Blocks(w) /\ (Ownerless \/ ~GenerationKept(w))
     \/ phase[w] = "blocked"
  /\ Release(w)
  /\ Becomes(w, "idle")
  /\ UNCHANGED <<authVars, ghostVars>>

-----------------------------------------------------------------------------
(* _call_under_interaction: list the pages, dispatch, settle, retire.       *)
Dispatch(w) ==
  /\ phase[w] = "held"
  /\ Becomes(w, "sent")
  /\ UNCHANGED <<gateVars, entry, authVars, ghostVars>>

(* retire: the newest max_retired_per_fleet tombstones stay, and a timer    *)
(* will look after them.                                                    *)
Retire(e) == IF retired[e] = MaxRetired THEN MaxRetired ELSE retired[e] + 1

Armed(w) == [timer EXCEPT ![entry[w]] = TRUE]

(* A response or an error after dispatch: retire, then release the lease.   *)
Settle(w) ==
  LET e == entry[w] IN
  /\ phase[w] = "sent"
  /\ retired' = [retired EXCEPT ![e] = Retire(e)]
  /\ timer' = Armed(w)
  /\ users' = [users EXCEPT ![e] = Fewer(e)]
  /\ lock' = [lock EXCEPT ![e] = NoWorker]
  /\ entry' = [entry EXCEPT ![w] = NoEntry]
  /\ UNCHANGED <<current, queue>>
  /\ Becomes(w, "idle")
  /\ UNCHANGED <<authVars, ghostVars>>

(* Cancellation before dispatch gives back whatever the call holds.         *)
Cancelled(w) ==
  /\ \/ phase[w] = "queued" /\ GiveUp(w)
     \/ phase[w] \in {"taken", "check", "blocked", "held"} /\ Release(w)
     \/ phase[w] = "redirected" /\ UNCHANGED <<gateVars, entry>>
  /\ Becomes(w, "idle")
  /\ UNCHANGED <<authVars, ghostVars>>

(* The guard of a tombstone runs out.                                       *)
Expire(e) ==
  /\ retired[e] > 0
  /\ retired' = [retired EXCEPT ![e] = @ - 1]
  /\ UNCHANGED <<current, lock, queue, users, timer, callVars, authVars, ghostVars>>

(* _cleanup_retired *)
Rearms(e) == retired[e] > 0

CleanUp(e) ==
  /\ timer[e]
  /\ timer' = [timer EXCEPT ![e] = Rearms(e)]
  /\ current' = IF current = e /\ retired[e] = 0 /\ users[e] = 0 /\ lock[e] = NoWorker
                THEN NoEntry ELSE current
  /\ UNCHANGED <<lock, queue, users, retired, callVars, authVars, ghostVars>>

-----------------------------------------------------------------------------
(* The barrier moves on: workers between calls, or in a Workflow that       *)
(* raised a HITL, close and open it.                                        *)
Acts(w) == phase[w] = "idle" \/ (phase[w] = "sent" /\ kind[w] = "workflow")

Crossing(w) == crossed \cup {v \in Workers \ {w} : phase[v] # "idle"}

AuthCloses(w) ==
  /\ Acts(w) /\ Epoch!Close(w)
  /\ crossed' = Crossing(w)
  /\ UNCHANGED <<gateVars, callVars, lost>>

AuthDrops(w) ==
  /\ Acts(w) /\ Epoch!Drop(w)
  /\ UNCHANGED <<gateVars, callVars, ghostVars>>

AuthOpens(w) ==
  /\ Acts(w) /\ generation < MaxGeneration
  /\ Epoch!Open(w)
  /\ UNCHANGED <<gateVars, callVars, ghostVars>>

Next ==
  \/ \E w \in Workers :
       \/ Call(w) \/ Take(w) \/ LockTimeout(w) \/ Notice(w) \/ AuthFirst(w)
       \/ AuthFirstSwallowed(w) \/ Redirected(w) \/ GateFirst(w)
       \/ Blocked(w) \/ Admitted(w) \/ Rejected(w)
       \/ Dispatch(w) \/ Settle(w) \/ Cancelled(w)
       \/ AuthCloses(w) \/ AuthDrops(w) \/ AuthOpens(w)
  \/ \E e \in Entries : Expire(e) \/ CleanUp(e)

Spec == Init /\ [][Next]_vars

-----------------------------------------------------------------------------
(* Class docstring: "Fleet-scoped serialization for every Input.click".     *)
(* Entries come and go, yet two calls never hold a lease at once.           *)
OneLease == \A v, w \in Workers : phase[v] \in Leased /\ phase[w] \in Leased => v = w

(* The lock of an entry is held by a call that will release it, or by none  *)
(* because asyncio swallowed the cancellation of the call that got it.      *)
Holds(w, e) == phase[w] \in Leased /\ entry[w] = e

LockHasHolder == \A e \in Entries : lock[e] # NoWorker => e \in lost \/ Holds(lock[e], e)

(* users counts the calls that wait for or hold the lock, all of them at the*)
(* entry that _entries has: no call is left behind on a dropped entry.      *)
UsersMatch ==
  /\ \A w \in Workers : phase[w] \in Attached => entry[w] = current /\ current # NoEntry
  /\ current # NoEntry =>
       users[current] = Cardinality({w \in Workers : phase[w] \in Attached})
                        + IF current \in lost THEN 1 ELSE 0

(* An entry that only remembers retired calls will be cleaned up.           *)
CleanupArmed == current # NoEntry /\ users[current] = 0 => timer[current]

(* The click lease of a Fleet from end to end: one call has it, the lock has*)
(* somebody to free it, the count keeps the entry, the timer drops it.      *)
LeasesAccounted == OneLease /\ LockHasHolder /\ UsersMatch /\ CleanupArmed

(* A queued call is dispatched only if no other worker's authentication     *)
(* recovery began before it was admitted.                                   *)
AdmittedInOneEpoch ==
  [][\A w \in Workers :
       phase[w] # "held" /\ phase'[w] = "held" => w \notin crossed]_vars

(* FleetClickLease: "One cancellation-safe ownership token for a Fleet click*)
(* interval."  Whatever is cancelled, a taken lock has somebody to free it. *)
CancellationSafe == \A e \in Entries : lock[e] # NoWorker => Holds(lock[e], e)
=============================================================================
