------------------------------ MODULE EventReplay ------------------------------
(***************************************************************************)
(* The durable event stream of one slot: the cursor and NotificationHub of *)
(* abcp_client.py and the reconnection half of                             *)
(* harness/spawner/spawner_slots.py.  The platform numbers the events of   *)
(* an Agent; a client publishes those pushed to it, and a recovery reads   *)
(* the ones missed, page by page, before the slot may work again.          *)
(*                                                                         *)
(* Events without a cursor are not kept and not modelled.  The platform    *)
(* answers events.read, so the paths for one that does not are left out.   *)
(***************************************************************************)
EXTENDS Integers

CONSTANTS
  None,
  PageLimit, PageBudget,   \* limit and max_pages of replay_events
  MaxEvents, MaxClients    \* bounds: events stored, connections made

ASSUME NoneAssumption == None \notin Nat
ASSUME SizesAssumption == {PageLimit, PageBudget, MaxEvents, MaxClients} \subseteq Nat \ {0}

VARIABLES
  log,       \* the cursor of the newest event the platform stored
  status,    \* slot.status
  cursor,    \* slot.event_cursor
  client,    \* slot.client
  conn,      \* the ABCPClients made so far
  recovery,  \* the attempt of _recover_broken_slot that runs
  closing,   \* handlers that close a broken slot's client and then drop it
  since      \* ghost: where the slot last began to listen

vars == <<log, status, cursor, client, conn, recovery, closing, since>>

Clients == 1..MaxClients
Cursor == Nat \cup {None}

Absent == [open |-> FALSE, cursor |-> None, pushed |-> 0, joined |-> 0, heard |-> {}, made |-> FALSE]
Idle == [step |-> "none", by |-> None, at |-> 0, pages |-> 0]

TypeOK ==
  /\ log \in 0..MaxEvents
  /\ status \in {"starting", "running", "idle", "broken"}
  /\ cursor \in Cursor /\ since \in Nat
  /\ client \in Clients \cup {None}
  /\ conn \in [Clients -> [open : BOOLEAN, cursor : Cursor, pushed : Nat, joined : Nat,
                           heard : SUBSET (1..MaxEvents), made : BOOLEAN]]
  /\ recovery \in [step : {"none", "replaying", "capabilities"}, by : Clients \cup {None},
                   at : Nat, pages : 0..(PageBudget - 1)]
  /\ closing \in 0..MaxClients

Init ==
  /\ log \in 0..1
  /\ status = "starting" /\ cursor = None /\ client = None
  /\ conn = [k \in Clients |-> Absent]
  /\ recovery = Idle /\ closing = 0 /\ since = 0

-----------------------------------------------------------------------------
(* set_event_cursor.  Operators with an underscore in their names are       *)
(* faulty variants of the one that follows; no action uses them.            *)
Advance_Any(c, new) == new
Advance(c, new) == IF new # None /\ (c = None \/ new >= c) THEN new ELSE c

Reset(c, new) == IF new = None THEN c ELSE new

(* connect and System.register: the default subscription begins there, and  *)
(* the answer carries the cursor, or does not.                              *)
Joined(c) == [open |-> TRUE, cursor |-> c, pushed |-> log, joined |-> log, heard |-> {}, made |-> TRUE]

Fresh == {k \in Clients : ~conn[k].made /\ \A j \in 1..(k - 1) : conn[j].made}

RegistrationCursor == {log, None}

-----------------------------------------------------------------------------
(* _initialize_reserved_slot, which fails or not.                           *)
Bootstrap(k) ==
  /\ status = "starting" /\ client = None
  /\ \E c \in RegistrationCursor :
       /\ conn' = [conn EXCEPT ![k] = Joined(c)]
       /\ cursor' = Reset(cursor, c)
  /\ since' = log
  /\ client' = k
  /\ UNCHANGED <<log, status, recovery, closing>>

Bootstrapped ==
  /\ status = "starting" /\ client # None
  /\ status' = "running"
  /\ UNCHANGED <<log, cursor, client, conn, recovery, closing, since>>

BootstrapFails ==
  /\ status = "starting" /\ client # None
  /\ conn' = [conn EXCEPT ![client].open = FALSE]
  /\ client' = None
  /\ status' = "broken"
  /\ UNCHANGED <<log, cursor, recovery, closing, since>>

(* _acquire_slot: an idle slot that has lost its client starts over.        *)
Acquire ==
  /\ status = "idle"
  /\ status' = IF client # None THEN "running" ELSE "starting"
  /\ UNCHANGED <<log, cursor, client, conn, recovery, closing, since>>

(* _release_slot_to_pool *)
Release ==
  /\ status = "running"
  /\ status' = "idle"
  /\ UNCHANGED <<log, cursor, client, conn, recovery, closing, since>>

-----------------------------------------------------------------------------
(* _dispatch_message publishes what is pushed and then moves the cursor.    *)
Deliver(k) ==
  LET e == conn[k].pushed + 1 IN
  /\ conn[k].open /\ e <= log
  /\ conn' = [conn EXCEPT ![k].pushed = e, ![k].heard = @ \cup {e}, ![k].cursor = Advance(@, e)]
  /\ UNCHANGED <<log, status, cursor, client, recovery, closing, since>>

Emit ==
  /\ log < MaxEvents
  /\ log' = log + 1
  /\ UNCHANGED <<status, cursor, client, conn, recovery, closing, since>>

ConnectionLost(k) ==
  /\ conn[k].open
  /\ conn' = [conn EXCEPT ![k].open = FALSE]
  /\ UNCHANGED <<log, status, cursor, client, recovery, closing, since>>

(* A spawn is cancelled or meets a fatal failure, and waits for its client  *)
(* to close; a worker that fails keeps the slot until that is done.         *)
Breaks ==
  /\ status = "running" /\ client # None
  /\ status' = "broken"
  /\ conn' = [conn EXCEPT ![client].open = FALSE]
  /\ \/ closing' = closing + 1 /\ UNCHANGED client
     \/ client' = None /\ UNCHANGED closing
  /\ UNCHANGED <<log, cursor, recovery, since>>

(* refresh_browser_connection finds the connection of an idle slot dead.    *)
IdleBreaks ==
  /\ status = "idle" /\ client # None /\ ~conn[client].open
  /\ status' = "broken"
  /\ cursor' = Reset(cursor, conn[client].cursor)
  /\ closing' = closing + 1
  /\ UNCHANGED <<log, client, conn, recovery, since>>

(* slot.client = None, whichever client it is by now.                       *)
Closed ==
  /\ closing > 0
  /\ closing' = closing - 1
  /\ client' = None
  /\ UNCHANGED <<log, status, cursor, conn, recovery, since>>

-----------------------------------------------------------------------------
(* An attempt of _recover_broken_slot.  It begins where the old client was, *)
(* or where the slot was if that client is gone; with no cursor at all it   *)
(* takes the registration's.                                                *)
Previous ==
  IF client # None /\ conn[client].cursor # None THEN conn[client].cursor ELSE cursor

Recover(k) ==
  /\ status = "broken" /\ recovery.step = "none"
  /\ \E c \in RegistrationCursor :
       IF Previous = None
       THEN /\ recovery' = [Idle EXCEPT !.step = "capabilities", !.by = k]
            /\ conn' = [conn EXCEPT ![k] = Joined(c)]
            /\ cursor' = Reset(cursor, c)
            /\ since' = log
       ELSE /\ recovery' = [step |-> "replaying", by |-> k, at |-> Previous, pages |-> 0]
            /\ conn' = [conn EXCEPT ![k] = Joined(None)]
            /\ UNCHANGED <<cursor, since>>
  /\ UNCHANGED <<log, status, client, closing>>

(* A page of replay_events.  Its events reach the hub first.                *)
PageEnd == IF recovery.at + PageLimit < log THEN recovery.at + PageLimit ELSE log

HasMore(end) == end < log

Read(end) ==
  [conn EXCEPT ![recovery.by].heard = @ \cup ((recovery.at + 1)..end),
               ![recovery.by].cursor = Advance(@, end)]

(* The server's safe page cursor, not the newest one it names.              *)
Committed_Latest(end) == log
Committed(end) == end

Budgeted(pages) == pages + 1 < PageBudget

Replaying == recovery.step = "replaying" /\ conn[recovery.by].open

ReadMore ==
  /\ Replaying /\ HasMore(PageEnd) /\ Budgeted(recovery.pages)
  /\ conn' = Read(PageEnd)
  /\ recovery' = [recovery EXCEPT !.at = PageEnd, !.pages = @ + 1]
  /\ UNCHANGED <<log, status, cursor, client, closing, since>>

(* The last page, or the last the budget allows: the slot's cursor moves,   *)
(* and a client with more to read is given up.                              *)
ReadLast ==
  /\ Replaying /\ (HasMore(PageEnd) => ~Budgeted(recovery.pages))
  /\ cursor' = Committed(PageEnd)
  /\ IF HasMore(PageEnd)
     THEN /\ conn' = [Read(PageEnd) EXCEPT ![recovery.by].open = FALSE, ![recovery.by].cursor = Committed(PageEnd)]
          /\ recovery' = Idle
     ELSE /\ conn' = [Read(PageEnd) EXCEPT ![recovery.by].cursor = Committed(PageEnd)]
          /\ recovery' = [recovery EXCEPT !.step = "capabilities"]
  /\ UNCHANGED <<log, status, client, closing, since>>

RecoveryFails ==
  /\ recovery.step # "none"
  /\ conn' = [conn EXCEPT ![recovery.by].open = FALSE]
  /\ recovery' = Idle
  /\ UNCHANGED <<log, status, cursor, client, closing, since>>

Recovered ==
  /\ recovery.step = "capabilities" /\ conn[recovery.by].open
  /\ client' = recovery.by
  /\ status' = "idle"
  /\ recovery' = Idle
  /\ UNCHANGED <<log, cursor, conn, closing, since>>

Next ==
  \/ \E k \in Fresh : Bootstrap(k) \/ Recover(k)
  \/ Bootstrapped \/ BootstrapFails \/ Acquire \/ Release
  \/ \E k \in Clients : Deliver(k) \/ ConnectionLost(k)
  \/ Emit \/ Breaks \/ IdleBreaks \/ Closed
  \/ ReadMore \/ ReadLast \/ RecoveryFails \/ Recovered

Spec == Init /\ [][Next]_vars

-----------------------------------------------------------------------------
Heard == UNION {conn[k].heard : k \in Clients}

(* The cursor is the place a recovery resumes from, so no event before it   *)
(* is missing: every event since the slot began to listen was published on  *)
(* a hub ("The cursor advances only after every event in a page was         *)
(* delivered to the hub", replay_events).                                   *)
NothingSkipped ==
  /\ cursor # None => (since + 1)..cursor \subseteq Heard
  /\ client # None /\ conn[client].cursor # None => (since + 1)..conn[client].cursor \subseteq Heard

(* A slot that works again has heard all that was stored before its present *)
(* connection: a bounded replay that leaves more to read keeps it broken.   *)
CaughtUp ==
  client # None /\ status \in {"idle", "running"}
    => (since + 1)..conn[client].joined \subseteq Heard

(* No event is lost between a break and a recovery: none before the cursors *)
(* is missing, and none before the connection of a slot that works.         *)
NothingMissed == NothingSkipped /\ CaughtUp

(* The slot's cursor never moves back, so a recovery never reopens a gap    *)
(* that an earlier one closed (set_event_cursor).                           *)
CursorForward == [][cursor # None => cursor' # None /\ cursor' >= cursor]_cursor

=============================================================================
