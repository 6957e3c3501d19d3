--------------------------- MODULE EventReplayProofs ---------------------------
(* Proofs about EventReplay, for any number of events and connections, any  *)
(* page size and any budget of pages.                                       *)
EXTENDS EventReplay, TLAPS

Connection ==
  [open : BOOLEAN, cursor : Cursor, pushed : Nat, joined : Nat, heard : SUBSET (1..MaxEvents), made : BOOLEAN]

Types ==
  /\ log \in 0..MaxEvents
  /\ status \in {"starting", "running", "idle", "broken"}
  /\ cursor \in Cursor /\ since \in Nat
  /\ client \in Clients \cup {None}
  /\ conn \in [Clients -> Connection]
  /\ recovery \in [step : {"none", "replaying", "capabilities"}, by : Clients \cup {None},
                   at : Nat, pages : 0..(PageBudget - 1)]
  /\ closing \in Nat

(* No event up to n is missing since the slot began to listen.              *)
Whole(n) == \A e \in (since + 1)..n : e \in Heard

(* A connection that was made has heard all that was pushed to it; no cursor*)
(* is ahead of the platform.                                                *)
Streams ==
  \A k \in Clients :
    /\ ~conn[k].made => ~conn[k].open /\ conn[k].heard = {}
    /\ conn[k].joined <= conn[k].pushed /\ conn[k].pushed <= log
    /\ (conn[k].joined + 1)..conn[k].pushed \subseteq conn[k].heard
    /\ conn[k].cursor # None => conn[k].cursor <= log

Bounds == since <= log /\ (cursor # None => cursor <= log)

(* Nothing is missing before a connection, nor before its cursor.           *)
Complete(k) ==
  /\ conn[k].made /\ Whole(conn[k].joined)
  /\ conn[k].cursor # None => Whole(conn[k].cursor)

(* A cursor that IdleBreaks would take from the connection is not behind the*)
(* slot's.                                                                  *)
Ahead(k) ==
  cursor # None => IF conn[k].cursor = None THEN cursor <= conn[k].joined
                                            ELSE cursor <= conn[k].cursor

(* The most that one attempt reads.                                         *)
Reach == PageBudget * PageLimit

ClientFits ==
  client # None =>
    /\ Complete(client)
    /\ status # "broken" => Ahead(client)
    /\ status = "broken" =>
         /\ ~conn[client].open
         /\ cursor # None /\ conn[client].cursor # None => cursor <= conn[client].cursor + Reach

(* An attempt that starts at the cursor of the broken client may start      *)
(* behind the slot's, and still ends at it or further on; page by page it is*)
(* no further than its pages.                                               *)
AttemptFits ==
  recovery.step # "none" =>
    /\ status = "broken" /\ recovery.by \in Clients /\ recovery.by # client
    /\ conn[recovery.by].made
    /\ recovery.step = "replaying" =>
         /\ recovery.at <= log /\ Whole(recovery.at)
         /\ cursor # None => cursor <= recovery.at + (PageBudget - recovery.pages) * PageLimit
         /\ client # None /\ conn[client].cursor # None =>
              recovery.at <= conn[client].cursor + recovery.pages * PageLimit
    /\ recovery.step = "capabilities" => Complete(recovery.by) /\ Ahead(recovery.by)

ReplayInv ==
  /\ Types /\ Streams /\ Bounds
  /\ cursor # None => Whole(cursor)
  /\ ClientFits /\ AttemptFits

-----------------------------------------------------------------------------
USE NoneAssumption, SizesAssumption DEF Clients, Cursor, Connection

(* The types of what the invariant holds, one by one.                       *)
LEMMA Typed ==
  ASSUME ReplayInv
  PROVE  /\ log \in Nat /\ since \in Nat /\ cursor \in Nat \cup {None} /\ client \in Clients \cup {None}
         /\ recovery.at \in Nat /\ recovery.pages \in Nat
         /\ conn \in [Clients -> Connection]
  BY DEF ReplayInv, Types

LEMMA ConnectionTyped ==
  ASSUME ReplayInv, NEW k \in Clients
  PROVE  /\ conn[k] \in Connection
         /\ conn[k].cursor \in Nat \cup {None} /\ conn[k].pushed \in Nat /\ conn[k].joined \in Nat
         /\ conn[k].heard \subseteq 1..MaxEvents
<1>1. conn[k] \in Connection
  BY ONLY Typed, ReplayInv, k \in Clients
<1>2. QED
  BY ONLY <1>1 DEF Connection, Cursor

(* The pages an attempt has read stay within its budget.                    *)
LEMMA PagesTyped ==
  ASSUME ReplayInv
  PROVE  /\ recovery \in [step : {"none", "replaying", "capabilities"}, by : Clients \cup {None},
                          at : Nat, pages : 0..(PageBudget - 1)]
         /\ 0 \in 0..(PageBudget - 1)
         /\ recovery.pages + 1 < PageBudget => recovery.pages + 1 \in 0..(PageBudget - 1)
<1>1. recovery \in [step : {"none", "replaying", "capabilities"}, by : Clients \cup {None},
                     at : Nat, pages : 0..(PageBudget - 1)]
  BY DEF ReplayInv, Types
<1>2. recovery.pages \in 0..(PageBudget - 1)
  BY ONLY <1>1
<1>3. QED
  BY ONLY <1>1, <1>2, SizesAssumption

(* What only connections, their cursors and the slot's cursor bear on.      *)
LEMMA SameStreams ==
  ASSUME UNCHANGED <<conn, cursor, since>>
  PROVE  \A j \in Clients : (Complete(j)' <=> Complete(j)) /\ (Ahead(j)' <=> Ahead(j))
<1>1. Heard' = Heard
  BY DEF Heard
<1>2. QED
  BY ONLY <1>1, UNCHANGED <<conn, cursor, since>> DEF Complete, Ahead, Whole

LEMMA ReachIsNat == Reach \in Nat
  BY DEF Reach

LEMMA InitHolds == Init => ReplayInv
<1> SUFFICES ASSUME Init PROVE ReplayInv
  OBVIOUS
<1>1. Types
  <2>1. 0 \in 0..(PageBudget - 1) /\ log \in 0..MaxEvents
    BY DEF Init
  <2>2. QED
    BY <2>1 DEF Init, Types, Absent, Idle
<1>2. Streams /\ Bounds
  BY DEF Init, Streams, Bounds, Absent
<1>3. QED
  BY <1>1, <1>2 DEF Init, ReplayInv, ClientFits, AttemptFits, Idle

(* A step that changes the slot and not the connections, their cursors or   *)
(* the attempt.                                                             *)
LEMMA SlotStepHolds ==
  ASSUME ReplayInv,
         Bootstrapped \/ Acquire \/ Release \/ Closed
  PROVE  ReplayInv'
<1> USE DEF Bootstrapped, Acquire, Release, Closed
<1>1. UNCHANGED <<log, cursor, conn, recovery, since, Heard>>
  BY DEF Heard
<1>2. Types'
  <2>1. status' \in {"starting", "running", "idle", "broken"} /\ client' \in Clients \cup {None}
    BY DEF ReplayInv, Types
  <2>2. closing' \in Nat
    BY DEF ReplayInv, Types
  <2>3. QED
    BY <1>1, <2>1, <2>2 DEF ReplayInv, Types
<1>3. Streams' /\ Bounds' /\ (cursor' # None => Whole(cursor)')
  BY <1>1 DEF ReplayInv, Streams, Bounds, Whole
<1>4. ClientFits'
  <2>1. client' # None => client' = client /\ client \in Clients
    BY Typed
  <2>2. status = "broken" <=> status' = "broken"
    BY DEF ReplayInv, AttemptFits
  <2>3. ClientFits
    BY DEF ReplayInv
  <2>4. \A j \in Clients : (Complete(j)' <=> Complete(j)) /\ (Ahead(j)' <=> Ahead(j))
    BY <1>1, SameStreams
  <2>5. QED
    BY ONLY <1>1, <2>1, <2>2, <2>3, <2>4 DEF ClientFits, Reach
<1>5. AttemptFits'
  <2>1. client' = client \/ client' = None
    OBVIOUS
  <2>2. AttemptFits /\ Clients \cap {None} = {}
    BY DEF ReplayInv
  <2>3. status = "broken" => status' = "broken"
    OBVIOUS
  <2>4. (\A j \in Clients : (Complete(j)' <=> Complete(j)) /\ (Ahead(j)' <=> Ahead(j)))
        /\ (\A n : Whole(n)' <=> Whole(n))
    BY <1>1, SameStreams DEF Whole
  <2>5. QED
    BY ONLY <1>1, <2>1, <2>2, <2>3, <2>4 DEF AttemptFits
<1>6. QED
  BY <1>2, <1>3, <1>4, <1>5 DEF ReplayInv

LEMMA EmitHolds ==
  ASSUME ReplayInv, Emit
  PROVE  ReplayInv'
<1> USE DEF Emit
<1>1. UNCHANGED <<cursor, conn, recovery, since, client, status, Heard>>
  BY DEF Heard
<1>2. log' = log + 1 /\ log' \in 0..MaxEvents
  BY DEF ReplayInv, Types
<1>3. Types'
  BY <1>2 DEF ReplayInv, Types
<1>4. Streams' /\ Bounds' /\ (cursor' # None => Whole(cursor)')
  <2>1. Bounds'
    BY <1>1, <1>2 DEF ReplayInv, Types, Bounds
  <2>2. cursor' # None => Whole(cursor)'
    BY <1>1 DEF ReplayInv, Whole
  <2>3. Streams'
    <3>1. \A k \in Clients : conn[k].pushed \in Nat /\ conn[k].cursor \in Nat \cup {None}
      BY DEF ReplayInv, Types
    <3>2. log \in Nat
      BY DEF ReplayInv, Types
    <3>3. QED
      BY <1>1, <1>2, <3>1, <3>2 DEF ReplayInv, Streams
  <2>4. QED
    BY <2>1, <2>2, <2>3
<1>5. ClientFits'
  BY <1>1 DEF ReplayInv, ClientFits, Complete, Ahead, Whole
<1>6. AttemptFits'
  BY <1>1, <1>2 DEF ReplayInv, Types, AttemptFits, Complete, Ahead, Whole
<1>7. QED
  BY <1>3, <1>4, <1>5, <1>6 DEF ReplayInv

(* A step that closes a connection and changes nothing else of any.         *)
LEMMA ClosingHeard ==
  ASSUME ReplayInv, NEW k \in Clients, conn' = [conn EXCEPT ![k].open = FALSE]
  PROVE  /\ Heard' = Heard
         /\ conn' \in [Clients -> Connection]
         /\ \A j \in Clients : /\ conn'[j].cursor = conn[j].cursor
                               /\ conn'[j].pushed = conn[j].pushed
                               /\ conn'[j].joined = conn[j].joined
                               /\ conn'[j].heard = conn[j].heard
                               /\ conn'[j].made = conn[j].made
                               /\ ~conn[j].open => ~conn'[j].open
         /\ ~conn'[k].open
<1>1. \A j \in Clients : /\ conn'[j].cursor = conn[j].cursor
                         /\ conn'[j].pushed = conn[j].pushed
                         /\ conn'[j].joined = conn[j].joined
                         /\ conn'[j].heard = conn[j].heard
                         /\ conn'[j].made = conn[j].made
                         /\ ~conn[j].open => ~conn'[j].open
  <2>1. conn \in [Clients -> Connection]
    BY Typed
  <2>2. ASSUME NEW j \in Clients
        PROVE  conn'[j] = IF j = k THEN [conn[k] EXCEPT !.open = FALSE] ELSE conn[j]
    BY ONLY <2>1, <2>2, conn' = [conn EXCEPT ![k].open = FALSE], k \in Clients
  <2>3. ASSUME NEW j \in Clients PROVE conn[j] \in Connection
    BY ONLY <2>1, <2>3
  <2>4. QED
    BY ONLY <2>2, <2>3 DEF Connection
<1>2. Heard' = Heard
  BY <1>1 DEF Heard
<1>3. conn' \in [Clients -> Connection]
  <2>1. conn[k] \in Connection
    BY ConnectionTyped
  <2>2. [conn[k] EXCEPT !.open = FALSE] \in Connection
    BY ONLY <2>1 DEF Connection
  <2>3. QED
    BY ONLY Typed, ReplayInv, <2>2, conn' = [conn EXCEPT ![k].open = FALSE], k \in Clients
<1>4. ~conn'[k].open
  <2>1. conn[k] \in Connection /\ conn'[k] = [conn[k] EXCEPT !.open = FALSE]
    BY Typed
  <2>2. QED
    BY ONLY <2>1 DEF Connection
<1>5. QED
  BY <1>1, <1>2, <1>3, <1>4

LEMMA ClosingKeeps ==
  ASSUME ReplayInv, NEW k \in Clients, conn' = [conn EXCEPT ![k].open = FALSE],
         UNCHANGED <<log, cursor, since>>
  PROVE  /\ Streams' /\ Bounds' /\ (cursor' # None => Whole(cursor)')
         /\ \A j \in Clients : /\ Complete(j) => Complete(j)'
                               /\ Ahead(j) => Ahead(j)'
         /\ \A n : Whole(n) => \A e \in (since' + 1)..n : e \in Heard'
<1>0. UNCHANGED <<log, cursor, since, Heard>>
  BY ClosingHeard
<1>1. Streams' /\ Bounds' /\ (cursor' # None => Whole(cursor)')
  <2>1. Bounds' /\ (cursor' # None => Whole(cursor)')
    BY ONLY <1>0, ReplayInv DEF ReplayInv, Bounds, Whole
  <2>2. \A j \in Clients : /\ conn'[j].cursor = conn[j].cursor
                           /\ conn'[j].pushed = conn[j].pushed
                           /\ conn'[j].joined = conn[j].joined
                           /\ conn'[j].heard = conn[j].heard
                           /\ conn'[j].made = conn[j].made
                           /\ ~conn[j].open => ~conn'[j].open
    BY ClosingHeard
  <2>3. Streams
    BY DEF ReplayInv
  <2>4. Streams'
    <3>1. SUFFICES ASSUME NEW j \in Clients
                   PROVE  /\ ~conn'[j].made => ~conn'[j].open /\ conn'[j].heard = {}
                          /\ conn'[j].joined <= conn'[j].pushed /\ conn'[j].pushed <= log'
                          /\ (conn'[j].joined + 1)..conn'[j].pushed \subseteq conn'[j].heard
                          /\ conn'[j].cursor # None => conn'[j].cursor <= log'
      BY DEF Streams
    <3>2. log' = log
      BY <1>0
    <3>3. QED
      BY ONLY <2>2, <2>3, <3>1, <3>2 DEF Streams
  <2>5. QED
    BY <2>1, <2>4
<1>2. ASSUME NEW j \in Clients
      PROVE  /\ Complete(j) => Complete(j)'
             /\ Ahead(j) => Ahead(j)'
  <2>1. conn'[j].cursor = conn[j].cursor /\ conn'[j].joined = conn[j].joined /\ conn'[j].made = conn[j].made
    BY <1>2, ClosingHeard
  <2>2. QED
    BY ONLY <1>0, <2>1 DEF Complete, Ahead, Whole
<1>3. \A n : Whole(n) => \A e \in (since' + 1)..n : e \in Heard'
  BY ONLY <1>0 DEF Whole
<1>4. QED
  BY <1>1, <1>2, <1>3

LEMMA ConnectionLostHolds ==
  ASSUME ReplayInv, NEW k \in Clients, ConnectionLost(k)
  PROVE  ReplayInv'
<1>1. conn' = [conn EXCEPT ![k].open = FALSE] /\ UNCHANGED <<log, status, cursor, client, recovery, closing, since>>
  BY DEF ConnectionLost
<1>2. Types'
  BY <1>1, ClosingHeard DEF ReplayInv, Types
<1>3. ClientFits'
  BY <1>1, ClosingHeard, ClosingKeeps DEF ReplayInv, Types, ClientFits
<1>4. AttemptFits'
  <2>1. /\ \A j \in Clients : (Complete(j) => Complete(j)') /\ (Ahead(j) => Ahead(j)')
        /\ \A n : Whole(n) => Whole(n)'
        /\ \A j \in Clients : conn'[j].cursor = conn[j].cursor /\ conn'[j].made = conn[j].made
    BY <1>1, ClosingHeard, ClosingKeeps DEF Whole
  <2>2. AttemptFits /\ client \in Clients \cup {None}
    BY Typed DEF ReplayInv
  <2>3. QED
    BY ONLY <1>1, <2>1, <2>2 DEF AttemptFits
<1>5. QED
  BY <1>1, <1>2, <1>3, <1>4, ClosingKeeps DEF ReplayInv

LEMMA BootstrapFailsHolds ==
  ASSUME ReplayInv, BootstrapFails
  PROVE  ReplayInv'
<1> DEFINE k == client
<1>1. /\ k \in Clients /\ conn' = [conn EXCEPT ![k].open = FALSE]
      /\ client' = None /\ status' = "broken" /\ recovery.step = "none"
      /\ UNCHANGED <<log, cursor, recovery, closing, since>>
  BY DEF BootstrapFails, ReplayInv, Types, AttemptFits
<1>2. Types'
  BY <1>1, ClosingHeard DEF ReplayInv, Types
<1>3. ClientFits' /\ AttemptFits'
  BY <1>1 DEF ClientFits, AttemptFits
<1>4. QED
  BY <1>1, <1>2, <1>3, ClosingKeeps DEF ReplayInv

LEMMA BreaksHolds ==
  ASSUME ReplayInv, Breaks
  PROVE  ReplayInv'
<1>1. PICK k \in Clients :
      /\ k = client /\ conn' = [conn EXCEPT ![k].open = FALSE]
      /\ status' = "broken" /\ recovery.step = "none"
      /\ client' \in {k, None} /\ closing' \in {closing, closing + 1}
      /\ UNCHANGED <<log, cursor, recovery, since>>
  BY DEF Breaks, ReplayInv, Types, AttemptFits
<1>2. Types'
  <2>1. closing' \in Nat
    BY <1>1 DEF ReplayInv, Types
  <2>2. QED
    BY <1>1, <2>1, ClosingHeard DEF ReplayInv, Types
<1>3. AttemptFits'
  BY <1>1 DEF AttemptFits
<1>4. ClientFits'
  <2>1. Complete(k)' /\ ~conn'[k].open
    <3>1. Complete(k)
      BY <1>1 DEF ReplayInv, ClientFits
    <3>2. ~conn'[k].open
      BY <1>1, ClosingHeard
    <3>3. Complete(k) => Complete(k)'
      BY <1>1, ClosingKeeps
    <3>4. QED
      BY <3>1, <3>2, <3>3
  <2>2. cursor # None /\ conn[k].cursor # None => cursor <= conn[k].cursor
    BY <1>1 DEF Breaks, ReplayInv, ClientFits, Ahead
  <2>3. cursor # None /\ conn[k].cursor # None => cursor <= conn[k].cursor + Reach
    BY ONLY <2>2, ReachIsNat, Typed, ConnectionTyped, ReplayInv, k \in Clients, NoneAssumption
  <2>4. conn'[k].cursor = conn[k].cursor
    BY <1>1, ClosingHeard
  <2>5. QED
    BY <1>1, <2>1, <2>3, <2>4 DEF ClientFits, Reach
<1>5. QED
  BY <1>1, <1>2, <1>3, <1>4, ClosingKeeps DEF ReplayInv

LEMMA RecoveryFailsHolds ==
  ASSUME ReplayInv, RecoveryFails
  PROVE  ReplayInv'
<1> DEFINE k == recovery.by
<1>1. /\ k \in Clients /\ conn' = [conn EXCEPT ![k].open = FALSE]
      /\ recovery' = Idle
      /\ UNCHANGED <<log, status, cursor, client, closing, since>>
  BY DEF RecoveryFails, ReplayInv, AttemptFits
<1>2. Types'
  <2>1. 0 \in 0..(PageBudget - 1)
    OBVIOUS
  <2>2. QED
    BY <1>1, <2>1, ClosingHeard DEF ReplayInv, Types, Idle
<1>3. AttemptFits'
  BY <1>1 DEF AttemptFits, Idle
<1>4. ClientFits'
  BY <1>1, ClosingHeard, ClosingKeeps DEF ReplayInv, Types, ClientFits
<1>5. QED
  BY <1>1, <1>2, <1>3, <1>4, ClosingKeeps DEF ReplayInv

(* IdleBreaks takes the cursor of its client, which is not behind.          *)
LEMMA IdleBreaksHolds ==
  ASSUME ReplayInv, IdleBreaks
  PROVE  ReplayInv'
<1> DEFINE k == client
<1>1. /\ k \in Clients /\ ~conn[k].open
      /\ status = "idle" /\ status' = "broken" /\ recovery.step = "none"
      /\ cursor' = IF conn[k].cursor = None THEN cursor ELSE conn[k].cursor
      /\ closing' = closing + 1
      /\ UNCHANGED <<log, client, conn, recovery, since>>
  BY DEF IdleBreaks, Reset, ReplayInv, Types, AttemptFits
<1>2. Heard' = Heard /\ Complete(k)
  BY <1>1 DEF Heard, ReplayInv, ClientFits
<1>3. Types'
  <2>1. cursor' \in Nat \cup {None} /\ closing' \in Nat
    BY <1>1 DEF ReplayInv, Types
  <2>2. QED
    BY <1>1, <2>1 DEF ReplayInv, Types
<1>4. Streams' /\ Bounds' /\ (cursor' # None => Whole(cursor)')
  BY <1>1, <1>2 DEF ReplayInv, Types, Streams, Bounds, Complete, Whole
<1>5. AttemptFits'
  BY <1>1 DEF AttemptFits
<1>6. ClientFits'
  <2>1. conn[k].cursor # None => cursor' <= conn[k].cursor + Reach
    BY <1>1, ReachIsNat DEF ReplayInv, Types
  <2>2. Complete(k)'
    BY <1>1, <1>2 DEF Complete, Whole
  <2>3. QED
    BY <1>1, <2>1, <2>2 DEF ClientFits, Reach
<1>7. QED
  BY <1>3, <1>4, <1>5, <1>6 DEF ReplayInv

LEMMA RecoveredHolds ==
  ASSUME ReplayInv, Recovered
  PROVE  ReplayInv'
<1> DEFINE k == recovery.by
<1>1. /\ k \in Clients /\ Complete(k) /\ Ahead(k)
      /\ client' = k /\ status' = "idle" /\ recovery' = Idle
      /\ UNCHANGED <<log, cursor, conn, closing, since>>
  BY DEF Recovered, ReplayInv, AttemptFits
<1>2. Heard' = Heard
  BY <1>1 DEF Heard
<1>3. Types'
  <2>1. 0 \in 0..(PageBudget - 1)
    OBVIOUS
  <2>2. QED
    BY <1>1, <2>1 DEF ReplayInv, Types, Idle
<1>4. Streams' /\ Bounds' /\ (cursor' # None => Whole(cursor)')
  BY <1>1, <1>2 DEF ReplayInv, Streams, Bounds, Whole
<1>5. AttemptFits'
  BY <1>1 DEF AttemptFits, Idle
<1>6. ClientFits'
  BY <1>1, <1>2 DEF ClientFits, Complete, Ahead, Whole
<1>7. QED
  BY <1>3, <1>4, <1>5, <1>6 DEF ReplayInv

-----------------------------------------------------------------------------
(* A push in order closes the stream of its connection by one event.        *)
LEMMA DeliverHolds ==
  ASSUME ReplayInv, NEW k \in Clients, Deliver(k)
  PROVE  ReplayInv'
<1> DEFINE e == conn[k].pushed + 1
<1>1. /\ conn[k].open /\ e \in Nat /\ e <= log /\ e \in 1..MaxEvents
      /\ conn' = [conn EXCEPT ![k].pushed = e, ![k].heard = @ \cup {e}, ![k].cursor = Advance(@, e)]
      /\ UNCHANGED <<log, status, cursor, client, recovery, closing, since>>
  BY DEF Deliver, ReplayInv, Types
<1>2. /\ conn'[k].pushed = e /\ conn'[k].heard = conn[k].heard \cup {e}
      /\ conn'[k].cursor = Advance(conn[k].cursor, e)
      /\ conn'[k].joined = conn[k].joined /\ conn'[k].made = conn[k].made
      /\ conn'[k].open = conn[k].open
      /\ \A j \in Clients : j # k => conn'[j] = conn[j]
  <2>1. conn \in [Clients -> Connection] /\ conn[k] \in Connection
    BY Typed, ConnectionTyped
  <2> HIDE DEF e
  <2>2. conn'[k] = [conn[k] EXCEPT !.pushed = e, !.heard = conn[k].heard \cup {e},
                                   !.cursor = Advance(conn[k].cursor, e)]
        /\ \A j \in Clients : j # k => conn'[j] = conn[j]
    BY ONLY <1>1, <2>1, k \in Clients
  <2>3. QED
    BY ONLY <2>1, <2>2 DEF Connection
<1>3. /\ conn'[k].cursor \in Nat /\ conn'[k].cursor <= log
      /\ conn'[k].cursor = e \/ (conn[k].cursor # None /\ conn'[k].cursor = conn[k].cursor)
      /\ conn[k].cursor # None => conn'[k].cursor >= conn[k].cursor
      /\ conn[k].cursor = None => conn'[k].cursor = e
      /\ e > conn[k].joined
  <2>1. /\ conn[k].cursor \in Nat \cup {None} /\ conn[k].joined \in Nat /\ conn[k].pushed \in Nat
        /\ conn[k].joined <= conn[k].pushed
        /\ conn[k].cursor # None => conn[k].cursor <= log
        /\ log \in Nat
    BY Typed, ConnectionTyped DEF ReplayInv, Streams
  <2>2. e > conn[k].joined /\ e \in Nat
    BY <1>1, <2>1
  <2> HIDE DEF e
  <2>3. conn'[k].cursor = Advance(conn[k].cursor, e) /\ e <= log
    BY <1>1, <1>2
  <2>4. QED
    BY <2>1, <2>2, <2>3 DEF Advance
<1>4. Heard \subseteq Heard' /\ conn'[k].heard \subseteq Heard'
  BY <1>2 DEF Heard
<1>5. Types'
  <2>1. /\ e \in Nat /\ e \in 1..MaxEvents /\ Advance(conn[k].cursor, e) \in Nat
        /\ conn[k] \in Connection /\ conn \in [Clients -> Connection]
    BY <1>1, <1>2, <1>3, ConnectionTyped, Typed
  <2> HIDE DEF e
  <2>2. [conn[k] EXCEPT !.pushed = e, !.heard = conn[k].heard \cup {e},
                        !.cursor = Advance(conn[k].cursor, e)] \in Connection
    BY ONLY <2>1 DEF Connection, Cursor
  <2>3. conn' \in [Clients -> Connection]
    BY ONLY <1>1, <2>1, <2>2, k \in Clients
  <2>4. QED
    BY <1>1, <2>3 DEF ReplayInv, Types
<1>6. Streams'
  <2>1. (conn[k].joined + 1)..e \subseteq conn'[k].heard
    <3>1. (conn[k].joined + 1)..conn[k].pushed \subseteq conn[k].heard
      BY DEF ReplayInv, Streams
    <3>2. conn[k].pushed \in Nat /\ conn[k].joined \in Nat
      BY ConnectionTyped
    <3>3. conn'[k].heard = conn[k].heard \cup {e}
      BY <1>2
    <3>4. QED
      BY ONLY <3>1, <3>2, <3>3
  <2>2. conn'[k].joined <= conn'[k].pushed
    BY <1>1, <1>2 DEF ReplayInv, Types, Streams
  <2>3. conn'[k].made
    BY <1>1, <1>2 DEF ReplayInv, Streams
  <2>4. QED
    <3>1. SUFFICES ASSUME NEW j \in Clients
                   PROVE  /\ ~conn'[j].made => ~conn'[j].open /\ conn'[j].heard = {}
                          /\ conn'[j].joined <= conn'[j].pushed /\ conn'[j].pushed <= log'
                          /\ (conn'[j].joined + 1)..conn'[j].pushed \subseteq conn'[j].heard
                          /\ conn'[j].cursor # None => conn'[j].cursor <= log'
      BY DEF Streams
    <3>2. log' = log
      BY <1>1
    <3>3. CASE j = k
      BY <1>1, <1>2, <1>3, <2>1, <2>2, <2>3, <3>2, <3>3
    <3>4. CASE j # k
      <4>1. conn'[j] = conn[j]
        BY <1>2, <3>4
      <4>2. /\ ~conn[j].made => ~conn[j].open /\ conn[j].heard = {}
            /\ conn[j].joined <= conn[j].pushed /\ conn[j].pushed <= log
            /\ (conn[j].joined + 1)..conn[j].pushed \subseteq conn[j].heard
            /\ conn[j].cursor # None => conn[j].cursor <= log
        BY DEF ReplayInv, Streams
      <4>3. QED
        BY ONLY <4>1, <4>2, <3>2
    <3>5. QED
      BY <3>3, <3>4
<1>7. ASSUME NEW n, Whole(n)
      PROVE  \A d \in (since' + 1)..n : d \in Heard'
  BY <1>1, <1>4, <1>7 DEF Whole
<1>8. Bounds' /\ (cursor' # None => Whole(cursor)')
  BY <1>1, <1>7 DEF ReplayInv, Bounds, Whole
<1>9. ASSUME NEW j \in Clients, Complete(j)
      PROVE  Complete(j)'
  <2>1. CASE j # k
    BY <1>1, <1>2, <1>7, <1>9, <2>1 DEF Complete, Whole
  <2>2. CASE j = k
    <3>1. Whole(conn[k].joined) /\ (conn[k].cursor # None => Whole(conn[k].cursor))
      BY <1>9, <2>2 DEF Complete
    <3>2. \A d \in (since' + 1)..conn[k].joined : d \in Heard'
      BY <3>1, <1>7
    <3>3. \A d \in (conn[k].joined + 1)..e : d \in Heard'
      BY <1>2, <1>4, <1>6 DEF Streams
    <3>4. \A d \in (since' + 1)..e : d \in Heard'
      <4>1. since' \in Nat /\ conn[k].joined \in Nat /\ e \in Nat
        BY <1>1, Typed, ConnectionTyped
      <4> HIDE DEF e
      <4>2. ASSUME NEW d \in (since' + 1)..e PROVE d \in Heard'
        <5>1. d \in (since' + 1)..conn[k].joined \/ d \in (conn[k].joined + 1)..e
          BY ONLY <4>1, d \in (since' + 1)..e
        <5>2. QED
          BY ONLY <3>2, <3>3, <5>1
      <4>3. QED
        BY ONLY <4>2
    <3>5. \A d \in (since' + 1)..conn'[k].cursor : d \in Heard'
      BY <3>1, <3>4, <1>3, <1>7
    <3>6. QED
      BY <1>2, <1>9, <2>2, <3>2, <3>5 DEF Complete, Whole
  <2>3. QED
    BY <2>1, <2>2
<1>10. ASSUME NEW j \in Clients, Ahead(j)
       PROVE  Ahead(j)'
  <2>1. CASE j # k
    BY <1>1, <1>2, <1>10, <2>1 DEF Ahead
  <2>2. CASE j = k
    <3>1. cursor \in Nat \cup {None} /\ conn[k].joined \in Nat /\ conn[k].cursor \in Nat \cup {None}
      BY DEF ReplayInv, Types
    <3>2. cursor # None => cursor <= conn'[k].cursor
      BY <1>1, <1>3, <1>10, <2>2, <3>1 DEF Ahead
    <3>3. QED
      BY <1>1, <1>3, <2>2, <3>2 DEF Ahead
  <2>3. QED
    BY <2>1, <2>2
<1>11. ClientFits'
  BY <1>1, <1>2, <1>9, <1>10 DEF ReplayInv, Types, ClientFits, Reach
<1>12. AttemptFits'
  <2>1. SUFFICES ASSUME recovery.step # "none" PROVE AttemptFits'
    BY <1>1 DEF AttemptFits
  <2>2. recovery.by \in Clients /\ conn'[recovery.by].made
    BY <1>2, <2>1 DEF ReplayInv, AttemptFits
  <2>3. CASE recovery.step = "replaying"
    <3>1. client # None => client \in Clients /\ client # k
      <4>1. status = "broken"
        BY <2>1 DEF ReplayInv, AttemptFits
      <4>2. client # None => ~conn[client].open
        BY <4>1 DEF ReplayInv, ClientFits
      <4>3. conn[k].open /\ client \in Clients \cup {None}
        BY <1>1, Typed
      <4>4. QED
        BY ONLY <4>2, <4>3
    <3>2. client # None => conn'[client] = conn[client]
      BY <1>2, <3>1
    <3>3. Whole(recovery.at) /\ recovery.at \in Nat
      BY <2>1, <2>3 DEF ReplayInv, Types, AttemptFits
    <3>4. \A d \in (since' + 1)..recovery.at : d \in Heard'
      BY <1>7, <3>3
    <3>5. QED
      BY <1>1, <2>1, <2>2, <2>3, <3>2, <3>4 DEF ReplayInv, AttemptFits, Whole
  <2>4. CASE recovery.step = "capabilities"
    <3>1. Complete(recovery.by)' /\ Ahead(recovery.by)'
      <4>1. PICK j \in Clients : j = recovery.by
        BY <2>2
      <4>2. Complete(j)' /\ Ahead(j)'
        BY <4>1, <1>9, <1>10, <2>1, <2>4 DEF ReplayInv, AttemptFits
      <4>3. QED
        BY <1>1, <4>1, <4>2 DEF Complete, Ahead
    <3>2. QED
      BY <1>1, <2>1, <2>2, <2>4, <3>1 DEF ReplayInv, AttemptFits
  <2>5. QED
    BY <2>1, <2>3, <2>4 DEF ReplayInv, Types
<1>13. QED
  BY <1>5, <1>6, <1>8, <1>11, <1>12 DEF ReplayInv

-----------------------------------------------------------------------------
(* A new connection: nothing else changes, and nothing it hears is lost.    *)
LEMMA LaterIsLess ==
  \A a, b, n \in Nat : a <= b => (b + 1)..n \subseteq (a + 1)..n
OBVIOUS

LEMMA FreshKeeps ==
  ASSUME ReplayInv, NEW k \in Fresh, NEW c \in Nat \cup {None}, c # None => c = log,
         conn' = [conn EXCEPT ![k] = Joined(c)],
         UNCHANGED log, since' \in {since, log}
  PROVE  /\ k \in Clients /\ ~conn[k].made
         /\ conn' \in [Clients -> Connection]
         /\ conn'[k] = Joined(c)
         /\ Streams'
         /\ Heard \subseteq Heard'
         /\ \A n \in Nat : Whole(n) => \A e \in (since' + 1)..n : e \in Heard'
         /\ \A j \in Clients \ {k} : /\ conn'[j] = conn[j]
                                     /\ Complete(j) => Complete(j)'
<1>1. k \in Clients /\ ~conn[k].made /\ conn[k].heard = {}
  BY DEF Fresh, ReplayInv, Streams
<1>2. Joined(c) \in Connection
  BY DEF Joined, ReplayInv, Types
<1>3. /\ conn' \in [Clients -> Connection] /\ conn'[k] = Joined(c)
      /\ \A j \in Clients \ {k} : conn'[j] = conn[j]
  <2> HIDE DEF Connection
  <2>1. conn \in [Clients -> Connection]
    BY DEF ReplayInv, Types
  <2>2. QED
    BY <1>1, <1>2, <2>1
<1>4. Streams'
  <2>1. /\ Joined(c).made /\ Joined(c).joined = log /\ Joined(c).pushed = log
        /\ Joined(c).cursor = c /\ log \in Nat
    BY DEF Joined, ReplayInv, Types
  <2>2. QED
    BY <1>1, <1>3, <2>1 DEF ReplayInv, Streams
<1>5. Heard \subseteq Heard'
  BY <1>1, <1>3 DEF Heard
<1>6. ASSUME NEW n \in Nat, Whole(n)
      PROVE  \A e \in (since' + 1)..n : e \in Heard'
  <2>1. since' \in Nat /\ since \in Nat /\ since <= since'
    BY DEF ReplayInv, Types, Bounds
  <2>2. \A e \in (since + 1)..n : e \in Heard
    BY <1>6 DEF Whole
  <2>3. (since' + 1)..n \subseteq (since + 1)..n
    BY <2>1, LaterIsLess
  <2>4. QED
    BY <1>5, <2>2, <2>3
<1>7. ASSUME NEW j \in Clients \ {k}, Complete(j)
      PROVE  Complete(j)'
  BY <1>3, <1>6, <1>7 DEF ReplayInv, Types, Complete, Whole
<1>8. QED
  BY <1>1, <1>3, <1>4, <1>5, <1>6, <1>7

(* What a fresh connection that listens from here is: nothing can be missing*)
(* before it.                                                               *)
LEMMA ListensFromHere ==
  ASSUME ReplayInv, NEW k \in Fresh, NEW c \in RegistrationCursor,
         conn' = [conn EXCEPT ![k] = Joined(c)], cursor' = Reset(cursor, c),
         UNCHANGED log, since' = log
  PROVE  /\ Complete(k)' /\ Ahead(k)' /\ Bounds'
         /\ cursor' \in Nat \cup {None}
         /\ cursor' # None => Whole(cursor)'
<1>1. c \in Nat \cup {None} /\ (c # None => c = log) /\ log \in Nat
  BY DEF RegistrationCursor, ReplayInv, Types
<1>2. /\ conn'[k] = Joined(c)
  BY <1>1, FreshKeeps
<1>3. /\ conn'[k].made /\ conn'[k].joined = log /\ conn'[k].cursor = c
  BY <1>2 DEF Joined
<1>4. cursor' \in Nat \cup {None} /\ (cursor' # None => cursor' <= log)
  BY <1>1 DEF Reset, ReplayInv, Types, Bounds
<1>5. c # None => cursor' = log
  BY <1>1 DEF Reset
<1>6. ASSUME NEW n \in Nat, n <= log
      PROVE  \A e \in (since' + 1)..n : e \in Heard'
  BY <1>1, <1>6
<1>7. Complete(k)'
  BY <1>1, <1>3, <1>6 DEF Complete, Whole
<1>8. Ahead(k)'
  BY <1>1, <1>3, <1>4, <1>5 DEF Ahead
<1>9. Bounds' /\ (cursor' # None => Whole(cursor)')
  BY <1>1, <1>4, <1>6 DEF Bounds, Whole
<1>10. QED
  BY <1>4, <1>7, <1>8, <1>9

LEMMA BootstrapHolds ==
  ASSUME ReplayInv, NEW k \in Fresh, Bootstrap(k)
  PROVE  ReplayInv'
<1>1. PICK c \in RegistrationCursor :
        /\ conn' = [conn EXCEPT ![k] = Joined(c)]
        /\ cursor' = Reset(cursor, c)
  BY DEF Bootstrap
<1>2. /\ status = "starting" /\ recovery.step = "none"
      /\ since' = log /\ client' = k
      /\ UNCHANGED <<log, status, recovery, closing>>
  BY DEF Bootstrap, ReplayInv, AttemptFits
<1>3. c \in Nat \cup {None} /\ (c # None => c = log)
  BY DEF RegistrationCursor, ReplayInv, Types
<1>4. /\ k \in Clients /\ conn' \in [Clients -> Connection] /\ Streams'
  BY <1>1, <1>2, <1>3, FreshKeeps
<1>5. /\ Complete(k)' /\ Ahead(k)' /\ Bounds'
      /\ cursor' \in Nat \cup {None}
      /\ cursor' # None => Whole(cursor)'
  BY <1>1, <1>2, ListensFromHere
<1>6. Types'
  <2>1. log \in Nat /\ recovery \in [step : {"none", "replaying", "capabilities"}, by : Clients \cup {None},
                                    at : Nat, pages : 0..(PageBudget - 1)]
    BY Typed, PagesTyped
  <2>2. QED
    BY <1>2, <1>4, <1>5, <2>1 DEF ReplayInv, Types
<1>7. ClientFits'
  BY <1>2, <1>5 DEF ClientFits, Complete, Ahead
<1>8. AttemptFits'
  BY <1>2 DEF AttemptFits
<1>9. QED
  BY <1>4, <1>5, <1>6, <1>7, <1>8 DEF ReplayInv

(* The client of a broken slot, beside a connection that is not its own.    *)
LEMMA BrokenClientKeeps ==
  ASSUME ReplayInv, status = "broken", UNCHANGED <<status, client>>,
         cursor' # None /\ client # None /\ conn[client].cursor # None
           => cursor' <= conn[client].cursor + Reach,
         client # None => conn'[client] = conn[client] /\ (Complete(client) => Complete(client)')
  PROVE  ClientFits'
BY DEF ReplayInv, ClientFits, Reach

LEMMA RecoverHolds ==
  ASSUME ReplayInv, NEW k \in Fresh, Recover(k)
  PROVE  ReplayInv'
<1>1. /\ status = "broken" /\ recovery.step = "none"
      /\ UNCHANGED <<log, status, client, closing>>
      /\ log \in Nat /\ since \in Nat
  BY DEF Recover, ReplayInv, Types
<1>2. client # None => client \in Clients \ {k} /\ conn[client].made
  BY DEF Fresh, ReplayInv, Types, ClientFits, Complete
<1>3. 0 \in 0..(PageBudget - 1)
  OBVIOUS
<1>4. CASE Previous = None
  <2>1. PICK c \in RegistrationCursor :
          /\ recovery' = [Idle EXCEPT !.step = "capabilities", !.by = k]
          /\ conn' = [conn EXCEPT ![k] = Joined(c)]
          /\ cursor' = Reset(cursor, c)
          /\ since' = log
    BY <1>4 DEF Recover
  <2>2. c \in Nat \cup {None} /\ (c # None => c = log)
    BY DEF RegistrationCursor, ReplayInv, Types
  <2>3. /\ k \in Clients /\ conn' \in [Clients -> Connection] /\ Streams'
        /\ \A j \in Clients \ {k} : conn'[j] = conn[j] /\ (Complete(j) => Complete(j)')
    BY <1>1, <2>1, <2>2, FreshKeeps
  <2>4. /\ Complete(k)' /\ Ahead(k)' /\ Bounds'
        /\ cursor' \in Nat \cup {None}
        /\ cursor' # None => Whole(cursor)'
    BY <1>1, <2>1, ListensFromHere
  <2>5. recovery' = [step |-> "capabilities", by |-> k, at |-> 0, pages |-> 0]
    BY <2>1 DEF Idle
  <2>6. Types'
    <3>1. 0 \in 0..(PageBudget - 1)
      OBVIOUS
    <3>2. recovery' \in [step : {"none", "replaying", "capabilities"}, by : Clients \cup {None},
                         at : Nat, pages : 0..(PageBudget - 1)]
      BY ONLY <2>3, <2>5, <3>1
    <3>3. log \in Nat
      BY Typed
    <3>4. QED
      BY <1>1, <1>3, <2>1, <2>3, <2>4, <3>2, <3>3 DEF ReplayInv, Types
  <2>7. ClientFits'
    <3>1. client # None => conn[client].cursor = None
      BY <1>4 DEF Previous
    <3>2. client # None => conn'[client] = conn[client] /\ (Complete(client) => Complete(client)')
      <4>1. SUFFICES ASSUME client # None
                     PROVE  conn'[client] = conn[client] /\ (Complete(client) => Complete(client)')
        OBVIOUS
      <4>2. PICK j \in Clients \ {k} : j = client
        BY <1>2, <4>1
      <4>3. conn'[j] = conn[j] /\ (Complete(j) => Complete(j)')
        BY <2>3
      <4>4. QED
        BY <1>1, <4>2, <4>3 DEF Complete
    <3>3. QED
      BY <1>1, <3>1, <3>2, BrokenClientKeeps
  <2>8. AttemptFits'
    BY <1>1, <1>2, <2>3, <2>4, <2>5 DEF AttemptFits, Complete, Ahead
  <2>9. QED
    BY <2>3, <2>4, <2>6, <2>7, <2>8 DEF ReplayInv
<1>5. CASE Previous # None
  <2>1. /\ recovery' = [step |-> "replaying", by |-> k, at |-> Previous, pages |-> 0]
        /\ conn' = [conn EXCEPT ![k] = Joined(None)]
        /\ UNCHANGED <<cursor, since>>
    BY <1>5 DEF Recover, RegistrationCursor
  <2>2. /\ k \in Clients /\ conn' \in [Clients -> Connection] /\ conn'[k] = Joined(None) /\ Streams'
        /\ \A n \in Nat : Whole(n) => \A e \in (since' + 1)..n : e \in Heard'
        /\ \A j \in Clients \ {k} : conn'[j] = conn[j] /\ (Complete(j) => Complete(j)')
    BY <1>1, <2>1, FreshKeeps
  <2>3. Previous \in Nat /\ Previous <= log /\ Whole(Previous)
    <3>1. CASE client # None /\ conn[client].cursor # None
      BY <3>1 DEF Previous, ReplayInv, Types, Streams, ClientFits, Complete
    <3>2. CASE ~(client # None /\ conn[client].cursor # None)
      BY <1>5, <3>2 DEF Previous, ReplayInv, Types, Bounds
    <3>3. QED
      BY <3>1, <3>2
  <2>4. cursor # None => cursor <= Previous + Reach
    BY <1>1, <1>5, ReachIsNat DEF Previous, ReplayInv, Types, ClientFits
  <2>5. Types'
    BY <1>1, <1>3, <2>1, <2>2, <2>3 DEF ReplayInv, Types
  <2>6. Bounds' /\ (cursor' # None => Whole(cursor)')
    BY <1>1, <2>1, <2>2 DEF ReplayInv, Types, Bounds, Whole
  <2>7. ClientFits'
    <3>1. client # None => conn'[client] = conn[client] /\ (Complete(client) => Complete(client)')
      <4>1. SUFFICES ASSUME client # None
                     PROVE  conn'[client] = conn[client] /\ (Complete(client) => Complete(client)')
        OBVIOUS
      <4>2. PICK j \in Clients \ {k} : j = client
        BY <1>2, <4>1
      <4>3. conn'[j] = conn[j] /\ (Complete(j) => Complete(j)')
        BY <2>2
      <4>4. QED
        BY <1>1, <4>2, <4>3 DEF Complete
    <3>2. cursor' # None /\ client # None /\ conn[client].cursor # None
            => cursor' <= conn[client].cursor + Reach
      BY <1>1, <2>1 DEF ReplayInv, ClientFits
    <3>3. QED
      BY <1>1, <3>1, <3>2, BrokenClientKeeps
  <2>8. AttemptFits'
    <3>1. \A e \in (since' + 1)..Previous : e \in Heard'
      BY <2>2, <2>3
    <3>2. conn'[k].made
      BY <2>2 DEF Joined
    <3>3. (PageBudget - 0) * PageLimit = Reach
      BY DEF Reach
    <3>4. /\ recovery'.step = "replaying" /\ recovery'.by = k /\ recovery'.at = Previous
          /\ recovery'.pages = 0
      BY <2>1
    <3>5. \A e \in (since' + 1)..(recovery'.at) : e \in Heard'
      BY <3>1, <3>4
    <3>6. cursor' # None => cursor' <= recovery'.at + (PageBudget - recovery'.pages) * PageLimit
      BY <2>1, <2>4, <3>3, <3>4
    <3>7. k # client'
      BY <1>1, <1>2, <2>2
    <3>8. client' # None /\ conn'[client'].cursor # None =>
             recovery'.at <= conn'[client'].cursor + recovery'.pages * PageLimit
      <4>1. SUFFICES ASSUME client # None, conn'[client].cursor # None
                     PROVE  Previous <= conn'[client].cursor + 0 * PageLimit
        BY <1>1, <3>4
      <4>2. conn'[client] = conn[client] /\ conn[client].cursor \in Nat
        BY <1>2, <2>2, <4>1 DEF ReplayInv, Types
      <4>3. Previous = conn[client].cursor
        BY <4>1, <4>2 DEF Previous
      <4>4. QED
        BY <4>2, <4>3
    <3>9. recovery'.at <= log'
      BY <1>1, <2>3, <3>4
    <3>10. QED
      BY <1>1, <2>2, <3>2, <3>4, <3>5, <3>6, <3>7, <3>9, <3>8 DEF AttemptFits, Whole
  <2>9. QED
    BY <2>2, <2>5, <2>6, <2>7, <2>8 DEF ReplayInv
<1>6. QED
  BY <1>4, <1>5

-----------------------------------------------------------------------------
(* A page: its events reach the hub of the new connection.                  *)
LEMMA PageFits ==
  ASSUME ReplayInv, Replaying
  PROVE  /\ PageEnd \in Nat /\ PageEnd <= log /\ recovery.at <= PageEnd
         /\ HasMore(PageEnd) => PageEnd = recovery.at + PageLimit
         /\ ~HasMore(PageEnd) => PageEnd = log
<1>1. log \in Nat /\ recovery.at \in Nat /\ PageLimit \in Nat /\ PageLimit > 0
  BY Typed
<1>2. recovery.at <= log
  BY DEF ReplayInv, AttemptFits, Replaying
<1>3. QED
  BY ONLY <1>1, <1>2 DEF PageEnd, HasMore

LEMMA ReadKeeps ==
  ASSUME ReplayInv, Replaying, UNCHANGED <<log, since>>,
         NEW k \in Clients, k = recovery.by,
         conn'[k].heard = conn[k].heard \cup ((recovery.at + 1)..PageEnd),
         conn'[k].joined = conn[k].joined, conn'[k].pushed = conn[k].pushed,
         conn'[k].made = conn[k].made, conn'[k].cursor \in Nat, conn'[k].cursor <= log,
         \A j \in Clients \ {k} : conn'[j] = conn[j]
  PROVE  /\ Streams'
         /\ \A e \in (since' + 1)..PageEnd : e \in Heard'
         /\ \A n \in Nat : Whole(n) => \A e \in (since' + 1)..n : e \in Heard'
         /\ \A j \in Clients \ {k} : Complete(j) => Complete(j)'
<1>1. Heard \subseteq Heard' /\ (recovery.at + 1)..PageEnd \subseteq Heard'
  BY DEF Heard
<1>2. \A n \in Nat : Whole(n) => \A e \in (since' + 1)..n : e \in Heard'
  BY <1>1 DEF Whole
<1>3. \A e \in (since' + 1)..PageEnd : e \in Heard'
  <2>1. Whole(recovery.at) /\ recovery.at \in Nat /\ since \in Nat /\ PageEnd \in Nat
    BY PageFits DEF ReplayInv, Types, AttemptFits, Replaying
  <2>2. SUFFICES ASSUME NEW e \in (since' + 1)..PageEnd PROVE e \in Heard'
    OBVIOUS
  <2>3. CASE e <= recovery.at
    BY <1>2, <2>1, <2>3
  <2>4. CASE e > recovery.at
    BY <1>1, <2>1, <2>4
  <2>5. QED
    BY <2>1, <2>3, <2>4
<1>4. Streams'
  <2>1. conn[k].made
    BY DEF ReplayInv, AttemptFits, Replaying
  <2>2. SUFFICES ASSUME NEW j \in Clients
                 PROVE  /\ ~conn'[j].made => ~conn'[j].open /\ conn'[j].heard = {}
                        /\ conn'[j].joined <= conn'[j].pushed /\ conn'[j].pushed <= log'
                        /\ (conn'[j].joined + 1)..conn'[j].pushed \subseteq conn'[j].heard
                        /\ conn'[j].cursor # None => conn'[j].cursor <= log'
    BY DEF Streams
  <2>3. /\ ~conn[j].made => ~conn[j].open /\ conn[j].heard = {}
        /\ conn[j].joined <= conn[j].pushed /\ conn[j].pushed <= log
        /\ (conn[j].joined + 1)..conn[j].pushed \subseteq conn[j].heard
        /\ conn[j].cursor # None => conn[j].cursor <= log
    BY DEF ReplayInv, Streams
  <2>4. CASE j = k
    BY <2>1, <2>3, <2>4
  <2>5. CASE j # k
    <3>1. conn'[j] = conn[j] /\ log' = log
      BY <2>5
    <3>2. QED
      BY ONLY <2>3, <3>1
  <2>6. QED
    BY <2>4, <2>5
<1>5. \A j \in Clients \ {k} : Complete(j) => Complete(j)'
  <2>1. SUFFICES ASSUME NEW j \in Clients \ {k}, Complete(j)
                 PROVE  Complete(j)'
    OBVIOUS
  <2>2. conn'[j] = conn[j] /\ conn[j].joined \in Nat /\ conn[j].cursor \in Nat \cup {None}
    BY <2>1, ConnectionTyped
  <2>3. conn[j].made /\ Whole(conn[j].joined) /\ (conn[j].cursor # None => Whole(conn[j].cursor))
    BY <2>1 DEF Complete
  <2>4. /\ \A e \in (since' + 1)..conn[j].joined : e \in Heard'
        /\ conn[j].cursor # None => \A e \in (since' + 1)..conn[j].cursor : e \in Heard'
    BY <1>2, <2>2, <2>3
  <2>5. QED
    BY ONLY <2>2, <2>3, <2>4 DEF Complete, Whole
<1>6. QED
  BY <1>2, <1>3, <1>4, <1>5

(* What a page does to the connection that reads it.                        *)
PageRead(k, c) ==
  [conn EXCEPT ![k].heard = conn[k].heard \cup ((recovery.at + 1)..PageEnd), ![k].cursor = c]

LEMMA ReadTyped ==
  ASSUME ReplayInv, NEW k \in Clients, PageEnd \in Nat, PageEnd <= log,
         NEW c \in Nat
  PROVE  /\ PageRead(k, c) \in [Clients -> Connection]
         /\ PageRead(k, c)[k].heard = conn[k].heard \cup ((recovery.at + 1)..PageEnd)
         /\ PageRead(k, c)[k].cursor = c
         /\ PageRead(k, c)[k].joined = conn[k].joined /\ PageRead(k, c)[k].pushed = conn[k].pushed
         /\ PageRead(k, c)[k].made = conn[k].made /\ PageRead(k, c)[k].open = conn[k].open
         /\ \A j \in Clients \ {k} : PageRead(k, c)[j] = conn[j]
<1> DEFINE page == (recovery.at + 1)..PageEnd
<1>1. page \subseteq 1..MaxEvents
  <2>1. recovery.at \in Nat /\ PageEnd <= MaxEvents /\ MaxEvents \in Nat
    <3>1. log \in 0..MaxEvents
      BY DEF ReplayInv, Types
    <3>2. QED
      BY ONLY <3>1, Typed, ReplayInv, SizesAssumption, PageEnd \in Nat, PageEnd <= log
  <2>2. QED
    BY ONLY <2>1, PageEnd \in Nat DEF page
<1>2. conn[k] \in Connection /\ conn \in [Clients -> Connection]
  BY Typed, ConnectionTyped
<1> HIDE DEF page
<1>3. [conn[k] EXCEPT !.heard = conn[k].heard \cup page, !.cursor = c] \in Connection
  BY ONLY <1>1, <1>2, c \in Nat DEF Connection, Cursor
<1>4. PageRead(k, c) = [conn EXCEPT ![k] = [conn[k] EXCEPT !.heard = conn[k].heard \cup page, !.cursor = c]]
  BY ONLY <1>2, k \in Clients DEF PageRead, page
<1>5. PageRead(k, c) \in [Clients -> Connection]
  BY ONLY <1>2, <1>3, <1>4, k \in Clients
<1>6. /\ PageRead(k, c)[k] = [conn[k] EXCEPT !.heard = conn[k].heard \cup page, !.cursor = c]
      /\ \A j \in Clients \ {k} : PageRead(k, c)[j] = conn[j]
  BY ONLY <1>2, <1>4, k \in Clients
<1>7. QED
  BY ONLY <1>2, <1>5, <1>6 DEF Connection, page

LEMMA ReadMoreHolds ==
  ASSUME ReplayInv, ReadMore
  PROVE  ReplayInv'
<1>1. PICK k \in Clients : k = recovery.by
  BY DEF ReadMore, Replaying, ReplayInv, AttemptFits
<1>2. /\ Replaying /\ status = "broken" /\ k # client
      /\ PageEnd = recovery.at + PageLimit /\ PageEnd \in Nat /\ PageEnd <= log
      /\ recovery' = [recovery EXCEPT !.at = PageEnd, !.pages = recovery.pages + 1]
      /\ recovery.pages + 1 < PageBudget
      /\ UNCHANGED <<log, status, cursor, client, closing, since>>
  BY <1>1, PageFits DEF ReadMore, Budgeted, Replaying, ReplayInv, AttemptFits
<1>3. conn' = PageRead(k, Advance(conn[k].cursor, PageEnd))
  BY <1>1 DEF ReadMore, Read, PageRead
<1>4. Advance(conn[k].cursor, PageEnd) \in Nat /\ Advance(conn[k].cursor, PageEnd) <= log
  BY <1>2 DEF Advance, ReplayInv, Types, Streams
<1>5. /\ conn'[k].heard = conn[k].heard \cup ((recovery.at + 1)..PageEnd)
      /\ conn'[k].joined = conn[k].joined /\ conn'[k].pushed = conn[k].pushed
      /\ conn'[k].made = conn[k].made /\ conn'[k].cursor = Advance(conn[k].cursor, PageEnd)
      /\ conn'[k].open = conn[k].open
      /\ \A j \in Clients \ {k} : conn'[j] = conn[j]
  <2> DEFINE c == Advance(conn[k].cursor, PageEnd)
  <2>1. c \in Nat /\ PageEnd \in Nat /\ PageEnd <= log
    BY <1>2, <1>4
  <2> HIDE DEF c
  <2>2. /\ PageRead(k, c) \in [Clients -> Connection]
        /\ PageRead(k, c)[k].heard = conn[k].heard \cup ((recovery.at + 1)..PageEnd)
        /\ PageRead(k, c)[k].cursor = c
        /\ PageRead(k, c)[k].joined = conn[k].joined /\ PageRead(k, c)[k].pushed = conn[k].pushed
        /\ PageRead(k, c)[k].made = conn[k].made /\ PageRead(k, c)[k].open = conn[k].open
        /\ \A j \in Clients \ {k} : PageRead(k, c)[j] = conn[j]
    BY <2>1, ReadTyped
  <2>3. conn' = PageRead(k, c)
    BY <1>3 DEF c
  <2>4. QED
    BY ONLY <2>2, <2>3 DEF c
<1>6. /\ Streams'
      /\ \A e \in (since' + 1)..PageEnd : e \in Heard'
      /\ \A n \in Nat : Whole(n) => \A e \in (since' + 1)..n : e \in Heard'
      /\ \A j \in Clients \ {k} : Complete(j) => Complete(j)'
  BY <1>1, <1>2, <1>4, <1>5, ReadKeeps
<1>7. Types'
  <2>1. conn' \in [Clients -> Connection]
    <3>1. /\ k \in Clients /\ PageEnd \in Nat /\ PageEnd <= log
          /\ Advance(conn[k].cursor, PageEnd) \in Nat
      BY <1>2, <1>4
    <3>2. PageRead(k, Advance(conn[k].cursor, PageEnd)) \in [Clients -> Connection]
      BY <3>1, ReadTyped
    <3>3. QED
      BY ONLY <1>3, <3>2
  <2>2. recovery' \in [step : {"none", "replaying", "capabilities"}, by : Clients \cup {None},
                       at : Nat, pages : 0..(PageBudget - 1)]
    BY ONLY ReplayInv, <1>2, PagesTyped
  <2>3. QED
    BY <1>2, <2>1, <2>2 DEF ReplayInv, Types
<1>8. Bounds' /\ (cursor' # None => Whole(cursor)')
  BY <1>2, <1>6 DEF ReplayInv, Types, Bounds, Whole
<1>9. ClientFits'
  <2>1. client # None => conn'[client] = conn[client] /\ (Complete(client) => Complete(client)')
    <3>1. SUFFICES ASSUME client # None
                   PROVE  conn'[client] = conn[client] /\ (Complete(client) => Complete(client)')
      OBVIOUS
    <3>2. PICK j \in Clients \ {k} : j = client
      BY <1>2, <3>1 DEF ReplayInv, Types
    <3>3. conn'[j] = conn[j] /\ (Complete(j) => Complete(j)')
      BY <1>5, <1>6
    <3>4. QED
      BY <1>2, <3>2, <3>3 DEF Complete
  <2>2. cursor' # None /\ client # None /\ conn[client].cursor # None
          => cursor' <= conn[client].cursor + Reach
    BY <1>2 DEF ReplayInv, ClientFits
  <2>3. QED
    BY <1>2, <2>1, <2>2, BrokenClientKeeps
<1>10. AttemptFits'
  <2>1. (PageBudget - recovery.pages) * PageLimit
          = PageLimit + (PageBudget - (recovery.pages + 1)) * PageLimit
    BY DEF ReplayInv, Types
  <2>2. /\ recovery'.step = "replaying" /\ recovery'.by = k /\ recovery'.at = PageEnd
        /\ recovery'.pages = recovery.pages + 1
    BY <1>1, <1>2 DEF ReplayInv, Types, Replaying
  <2>3. cursor # None => cursor <= recovery.at + (PageBudget - recovery.pages) * PageLimit
    BY <1>2 DEF ReplayInv, AttemptFits, Replaying
  <2>4. cursor # None => cursor <= PageEnd + (PageBudget - (recovery.pages + 1)) * PageLimit
    <3> DEFINE rest == (PageBudget - (recovery.pages + 1)) * PageLimit
    <3>1. rest \in Int /\ recovery.at \in Nat /\ cursor \in Nat \cup {None}
      BY DEF ReplayInv, Types
    <3>2. cursor # None => cursor <= recovery.at + (PageLimit + rest)
      BY <2>1, <2>3
    <3> HIDE DEF rest
    <3>3. cursor # None => cursor <= PageEnd + rest
      BY <1>2, <3>1, <3>2
    <3>4. QED
      BY <3>3 DEF rest
  <2>5. conn'[k].made
    BY <1>1, <1>2, <1>5 DEF ReplayInv, AttemptFits, Replaying
  <2>6. \A e \in (since' + 1)..(recovery'.at) : e \in Heard'
    BY <1>6, <2>2
  <2>7. cursor' # None => cursor' <= recovery'.at + (PageBudget - recovery'.pages) * PageLimit
    BY <1>2, <2>2, <2>4
  <2>8. client' # None /\ conn'[client'].cursor # None =>
          recovery'.at <= conn'[client'].cursor + recovery'.pages * PageLimit
    <3>1. SUFFICES ASSUME client # None, conn'[client].cursor # None
                   PROVE  PageEnd <= conn'[client].cursor + (recovery.pages + 1) * PageLimit
      BY <1>2, <2>2
    <3>2. conn'[client] = conn[client] /\ conn[client].cursor \in Nat
      <4>1. PICK j \in Clients : j = client
        BY <3>1, Typed
      <4>2. j # k /\ conn[j].cursor \in Nat \cup {None} /\ conn'[j] = conn[j]
        BY <1>2, <1>5, <4>1, ConnectionTyped
      <4>3. QED
        BY <1>2, <3>1, <4>1, <4>2
    <3>3. recovery.at <= conn[client].cursor + recovery.pages * PageLimit
      BY <1>2, <3>1, <3>2 DEF ReplayInv, AttemptFits, Replaying
    <3>4. (recovery.pages + 1) * PageLimit = recovery.pages * PageLimit + PageLimit
      BY DEF ReplayInv, Types
    <3>5. recovery.pages * PageLimit \in Nat /\ recovery.at \in Nat
      BY DEF ReplayInv, Types
    <3>6. QED
      BY <1>2, <3>2, <3>3, <3>4, <3>5
  <2>9. QED
    BY <1>2, <2>2, <2>5, <2>6, <2>7, <2>8 DEF AttemptFits, Whole
<1>11. QED
  BY <1>6, <1>7, <1>8, <1>9, <1>10 DEF ReplayInv

LEMMA PagesAddUp ==
  ASSUME NEW n \in Nat, n + 1 <= PageBudget
  PROVE  /\ (n + 1) * PageLimit \in Nat
         /\ (PageBudget - (n + 1)) * PageLimit \in Nat
         /\ PageBudget * PageLimit = (n + 1) * PageLimit + (PageBudget - (n + 1)) * PageLimit
         /\ (n + 1) * PageLimit = n * PageLimit + PageLimit
         /\ n * PageLimit \in Nat
OBVIOUS

LEMMA ReadLastHolds ==
  ASSUME ReplayInv, ReadLast
  PROVE  ReplayInv'
<1>1. PICK k \in Clients : k = recovery.by
  BY DEF ReadLast, Replaying, ReplayInv, AttemptFits
<1>2. /\ Replaying /\ status = "broken" /\ k # client /\ conn[k].made
      /\ PageEnd \in Nat /\ PageEnd <= log
      /\ HasMore(PageEnd) => PageEnd = recovery.at + PageLimit
      /\ ~HasMore(PageEnd) => PageEnd = log
      /\ HasMore(PageEnd) => ~(recovery.pages + 1 < PageBudget)
      /\ cursor' = PageEnd
      /\ UNCHANGED <<log, status, client, closing, since>>
  BY <1>1, PageFits DEF ReadLast, Budgeted, Committed, Replaying, ReplayInv, AttemptFits
<1> DEFINE mid == Read(PageEnd)
<1>3. /\ mid = PageRead(k, Advance(conn[k].cursor, PageEnd))
      /\ Advance(conn[k].cursor, PageEnd) \in Nat
  <2>1. mid = PageRead(k, Advance(conn[k].cursor, PageEnd))
    BY <1>1 DEF Read, PageRead
  <2>2. Advance(conn[k].cursor, PageEnd) \in Nat
    BY <1>2 DEF Advance, ReplayInv, Types
  <2>3. QED
    BY <2>1, <2>2
<1> HIDE DEF mid
<1>4. /\ mid \in [Clients -> Connection]
      /\ mid[k].heard = conn[k].heard \cup ((recovery.at + 1)..PageEnd)
      /\ mid[k].joined = conn[k].joined /\ mid[k].pushed = conn[k].pushed
      /\ mid[k].made = conn[k].made
      /\ \A j \in Clients \ {k} : mid[j] = conn[j]
  <2> DEFINE c == Advance(conn[k].cursor, PageEnd)
  <2>1. c \in Nat /\ PageEnd \in Nat /\ PageEnd <= log
    BY <1>2, <1>3
  <2> HIDE DEF c
  <2>2. /\ PageRead(k, c) \in [Clients -> Connection]
        /\ PageRead(k, c)[k].heard = conn[k].heard \cup ((recovery.at + 1)..PageEnd)
        /\ PageRead(k, c)[k].cursor = c
        /\ PageRead(k, c)[k].joined = conn[k].joined /\ PageRead(k, c)[k].pushed = conn[k].pushed
        /\ PageRead(k, c)[k].made = conn[k].made /\ PageRead(k, c)[k].open = conn[k].open
        /\ \A j \in Clients \ {k} : PageRead(k, c)[j] = conn[j]
    BY <2>1, ReadTyped
  <2>3. mid = PageRead(k, c)
    BY <1>3 DEF c
  <2>4. QED
    BY ONLY <2>2, <2>3 DEF c
<1>5. \/ /\ HasMore(PageEnd) /\ recovery' = Idle
          /\ conn' = [mid EXCEPT ![k].open = FALSE, ![k].cursor = PageEnd]
       \/ /\ ~HasMore(PageEnd) /\ recovery' = [recovery EXCEPT !.step = "capabilities"]
          /\ conn' = [mid EXCEPT ![k].cursor = PageEnd]
  <2>1. CASE HasMore(PageEnd)
    BY <1>1, <2>1 DEF ReadLast, Committed, mid
  <2>2. CASE ~HasMore(PageEnd)
    BY <1>1, <2>2 DEF ReadLast, Committed, mid
  <2>3. QED
    BY <2>1, <2>2
<1>6. /\ conn' \in [Clients -> Connection]
       /\ conn'[k].heard = mid[k].heard /\ conn'[k].joined = mid[k].joined
       /\ conn'[k].pushed = mid[k].pushed /\ conn'[k].made = mid[k].made
       /\ conn'[k].cursor = PageEnd
       /\ \A j \in Clients \ {k} : conn'[j] = mid[j]
  <2>1. mid[k] \in Connection
    BY <1>4
  <2>2. CASE HasMore(PageEnd)
    <3>1. conn' = [mid EXCEPT ![k].open = FALSE, ![k].cursor = PageEnd]
      BY <1>5, <2>2
    <3>2. conn'[k] \in Connection
      BY <1>2, <1>4, <2>1, <3>1
    <3>3. conn' \in [Clients -> Connection]
      <4> HIDE DEF Connection
      <4>1. QED
        BY <1>4, <3>1, <3>2
    <3>4. QED
      BY <1>4, <3>1, <3>3
  <2>3. CASE ~HasMore(PageEnd)
    <3>1. conn' = [mid EXCEPT ![k].cursor = PageEnd]
      BY <1>5, <2>3
    <3>2. conn'[k] \in Connection
      BY <1>2, <1>4, <2>1, <3>1
    <3>3. conn' \in [Clients -> Connection]
      <4> HIDE DEF Connection
      <4>1. QED
        BY <1>4, <3>1, <3>2
    <3>4. QED
      BY <1>4, <3>1, <3>3
  <2>4. QED
    BY <2>2, <2>3
<1>7. /\ conn'[k].heard = conn[k].heard \cup ((recovery.at + 1)..PageEnd)
       /\ conn'[k].joined = conn[k].joined /\ conn'[k].pushed = conn[k].pushed
       /\ conn'[k].made = conn[k].made /\ conn'[k].cursor = PageEnd
       /\ \A j \in Clients \ {k} : conn'[j] = conn[j]
  BY <1>4, <1>6
<1>8. /\ Streams'
      /\ \A e \in (since' + 1)..PageEnd : e \in Heard'
      /\ \A n \in Nat : Whole(n) => \A e \in (since' + 1)..n : e \in Heard'
      /\ \A j \in Clients \ {k} : Complete(j) => Complete(j)'
  BY <1>1, <1>2, <1>7, ReadKeeps
<1>9. Types'
  <2>1. recovery' \in [step : {"none", "replaying", "capabilities"}, by : Clients \cup {None},
                       at : Nat, pages : 0..(PageBudget - 1)]
    <3>1. recovery' = Idle \/ recovery' = [recovery EXCEPT !.step = "capabilities"]
      BY <1>5
    <3>2. QED
      BY ONLY ReplayInv, <3>1, PagesTyped DEF Idle
  <2>2. QED
    BY <1>2, <1>6, <2>1 DEF ReplayInv, Types
<1>10. Bounds' /\ (cursor' # None => Whole(cursor)')
  BY <1>2, <1>8 DEF ReplayInv, Bounds, Whole
<1>11. ClientFits'
  <2>1. client # None => conn'[client] = conn[client] /\ (Complete(client) => Complete(client)')
    <3>1. SUFFICES ASSUME client # None
                   PROVE  conn'[client] = conn[client] /\ (Complete(client) => Complete(client)')
      OBVIOUS
    <3>2. PICK j \in Clients \ {k} : j = client
      BY <1>2, <3>1 DEF ReplayInv, Types
    <3>3. conn'[j] = conn[j] /\ (Complete(j) => Complete(j)')
      BY <1>8, <1>7
    <3>4. QED
      BY <1>2, <3>2, <3>3 DEF Complete
  <2>2. cursor' # None /\ client # None /\ conn[client].cursor # None
          => cursor' <= conn[client].cursor + Reach
    <3>1. SUFFICES ASSUME client # None, conn[client].cursor # None
                   PROVE  PageEnd <= conn[client].cursor + Reach
      BY <1>2
    <3> DEFINE done == (recovery.pages + 1) * PageLimit
               rest == (PageBudget - (recovery.pages + 1)) * PageLimit
    <3>2. recovery.pages \in Nat /\ recovery.pages + 1 <= PageBudget
      BY DEF ReplayInv, Types
    <3>3. /\ done \in Nat /\ rest \in Nat /\ Reach = done + rest
          /\ done = recovery.pages * PageLimit + PageLimit
          /\ recovery.pages * PageLimit \in Nat
      BY <3>2, PagesAddUp DEF Reach
    <3>4. recovery.at <= conn[client].cursor + recovery.pages * PageLimit
      BY <1>2, <3>1 DEF ReplayInv, AttemptFits, Replaying
    <3>5. PageEnd <= recovery.at + PageLimit
      BY <1>2 DEF PageEnd, ReplayInv, Types
    <3>6. conn[client].cursor \in Nat /\ recovery.at \in Nat
      BY <3>1 DEF ReplayInv, Types
    <3> HIDE DEF done, rest
    <3>7. QED
      BY <1>2, <3>3, <3>4, <3>5, <3>6
  <2>3. QED
    BY <1>2, <2>1, <2>2, BrokenClientKeeps
<1>12. AttemptFits'
  <2>1. CASE recovery'.step = "none"
    BY <2>1 DEF AttemptFits
  <2>2. CASE recovery'.step # "none"
    <3>1. recovery' = [recovery EXCEPT !.step = "capabilities"] /\ PageEnd = log
      BY <1>2, <1>5, <2>2 DEF Idle
    <3>2. recovery'.step = "capabilities" /\ recovery'.by = k
      BY <1>1, <3>1 DEF ReplayInv, Types
    <3>3. conn'[k].made /\ conn'[k].joined \in Nat /\ conn'[k].joined <= log
      <4>1. conn[k].joined \in Nat /\ conn[k].joined <= log
        <5>1. conn[k].joined <= conn[k].pushed /\ conn[k].pushed <= log
          BY DEF ReplayInv, Streams
        <5>2. QED
          BY <5>1, ConnectionTyped, Typed
      <4>2. QED
        BY ONLY <1>2, <1>7, <4>1
    <3>4. \A e \in (since' + 1)..(conn'[k].joined) : e \in Heard'
      <4>1. PICK s \in Nat : s = since'
        BY <1>2, Typed
      <4>2. PICK n \in Nat : n = conn'[k].joined
        BY ONLY <3>3
      <4>3. log \in Nat /\ n <= log
        BY <3>3, <4>2, Typed
      <4>4. \A e \in (s + 1)..log : e \in Heard'
        BY ONLY <1>8, <3>1, <4>1
      <4>5. (s + 1)..n \subseteq (s + 1)..log
        BY ONLY <4>3, s \in Nat, n \in Nat
      <4>6. \A e \in (s + 1)..n : e \in Heard'
        BY ONLY <4>4, <4>5
      <4>7. QED
        BY ONLY <4>1, <4>2, <4>6
    <3>5. Complete(k)' /\ Ahead(k)'
      BY <1>2, <1>8, <1>7, <3>3, <3>4 DEF Complete, Ahead, Whole
    <3>6. QED
      BY <1>2, <3>2, <3>3, <3>5 DEF AttemptFits, Complete, Ahead
  <2>3. QED
    BY <2>1, <2>2
<1>13. QED
  BY <1>8, <1>9, <1>10, <1>11, <1>12 DEF ReplayInv

-----------------------------------------------------------------------------
LEMMA StepHolds == ReplayInv /\ [Next]_vars => ReplayInv'
<1> SUFFICES ASSUME ReplayInv, [Next]_vars PROVE ReplayInv'
  OBVIOUS
<1>1. CASE UNCHANGED vars
  <2>1. Heard' = Heard
    BY <1>1 DEF vars, Heard
  <2>2. Types' /\ Streams' /\ Bounds'
    BY <1>1 DEF vars, ReplayInv, Types, Streams, Bounds
  <2>3. ClientFits' /\ AttemptFits' /\ (cursor' # None => Whole(cursor)')
    BY <1>1, <2>1 DEF vars, ReplayInv, ClientFits, AttemptFits, Complete, Ahead, Whole
  <2>4. QED
    BY <2>2, <2>3 DEF ReplayInv
<1>2. QED
  BY <1>1, BootstrapHolds, RecoverHolds, SlotStepHolds, BootstrapFailsHolds, DeliverHolds,
     ConnectionLostHolds, EmitHolds, BreaksHolds, IdleBreaksHolds, ReadMoreHolds, ReadLastHolds,
     RecoveryFailsHolds, RecoveredHolds DEF Next

LEMMA Invariant == Spec => []ReplayInv
BY InitHolds, StepHolds, PTL DEF Spec

(* The place a recovery resumes from has no gap before it: every event of   *)
(* the slot up to its cursor, and up to its client's, was published         *)
(* (replay_events, set_event_cursor).                                       *)
THEOREM NoEventSkipped == Spec => []NothingSkipped
<1>1. ReplayInv => NothingSkipped
  <2>1. SUFFICES ASSUME ReplayInv PROVE NothingSkipped
    OBVIOUS
  <2>2. cursor # None => Whole(cursor)
    BY <2>1 DEF ReplayInv
  <2>3. client # None /\ conn[client].cursor # None => Whole(conn[client].cursor)
    BY <2>1 DEF ReplayInv, ClientFits, Complete
  <2>4. QED
    BY ONLY <2>2, <2>3 DEF Whole, NothingSkipped
<1>2. QED
  BY <1>1, Invariant, PTL

(* A slot that works has heard all that was stored before its connection,   *)
(* whatever the budget of its recovery's replay                             *)
(* (_replay_slot_events_after_reconnect).                                   *)
THEOREM SlotsCatchUp == Spec => []CaughtUp
<1>1. ReplayInv => CaughtUp
  <2>1. SUFFICES ASSUME ReplayInv PROVE CaughtUp
    OBVIOUS
  <2>2. client # None => Whole(conn[client].joined)
    BY <2>1 DEF ReplayInv, ClientFits, Complete
  <2>3. QED
    BY ONLY <2>2 DEF Whole, CaughtUp
<1>2. QED
  BY <1>1, Invariant, PTL

(* Nothing is lost between a break and a recovery, for any page size, page  *)
(* budget and number of events and connections.                             *)
THEOREM NoEventMissed == Spec => []NothingMissed
BY NoEventSkipped, SlotsCatchUp, PTL DEF NothingMissed

(* No step moves the slot's cursor back: neither an attempt that starts     *)
(* behind it, nor the client a dead connection leaves (set_event_cursor).   *)
THEOREM CursorNeverBack == Spec => CursorForward
<1>1. ReplayInv /\ [Next]_vars => [cursor # None => cursor' # None /\ cursor' >= cursor]_cursor
  <2>1. SUFFICES ASSUME ReplayInv, [Next]_vars, cursor # None, cursor' # cursor
                 PROVE  cursor' # None /\ cursor' >= cursor
    OBVIOUS
  <2>2. /\ cursor \in Nat /\ log \in Nat /\ cursor <= log
    BY <2>1 DEF ReplayInv, Types, Bounds
  <2>3. CASE \E k \in Fresh : Bootstrap(k) \/ Recover(k)
    <3>1. cursor' \in {Reset(cursor, c) : c \in RegistrationCursor}
      BY <2>1, <2>3 DEF Bootstrap, Recover
    <3>2. QED
      BY <2>1, <2>2, <3>1 DEF Reset, RegistrationCursor
  <2>4. CASE IdleBreaks
    BY <2>1, <2>2, <2>4 DEF IdleBreaks, Reset, ReplayInv, Types, ClientFits, Ahead
  <2>5. CASE ReadLast
    <3>1. /\ cursor' = PageEnd /\ PageEnd \in Nat
          /\ HasMore(PageEnd) => PageEnd = recovery.at + PageLimit
          /\ ~HasMore(PageEnd) => PageEnd = log
          /\ HasMore(PageEnd) => ~(recovery.pages + 1 < PageBudget)
      <4>1. Replaying /\ (HasMore(PageEnd) => ~Budgeted(recovery.pages)) /\ cursor' = PageEnd
        BY <2>5 DEF ReadLast, Committed
      <4>2. QED
        BY <2>1, <4>1, PageFits DEF Budgeted
    <3>2. CASE HasMore(PageEnd)
      <4>1. cursor <= recovery.at + (PageBudget - recovery.pages) * PageLimit
        BY <2>1, <2>5 DEF ReadLast, ReplayInv, AttemptFits, Replaying
      <4>2. PageBudget - recovery.pages = 1 /\ recovery.at \in Nat
        <5>1. recovery.pages \in 0..(PageBudget - 1) /\ recovery.at \in Nat
          BY <2>1 DEF ReplayInv, Types
        <5>2. QED
          BY <3>1, <3>2, <5>1
      <4>3. cursor <= PageEnd
        BY <3>1, <3>2, <4>1, <4>2
      <4>4. QED
        BY <2>2, <3>1, <4>3
    <3>3. CASE ~HasMore(PageEnd)
      BY <2>2, <3>1, <3>3
    <3>4. QED
      BY <3>2, <3>3
  <2>6. CASE UNCHANGED cursor
    BY <2>1, <2>6
  <2>7. QED
    BY <2>1, <2>3, <2>4, <2>5, <2>6 DEF Next, vars, Bootstrapped, BootstrapFails, Acquire, Release,
       Deliver, ConnectionLost, Emit, Breaks, Closed, ReadMore, RecoveryFails, Recovered
<1>2. QED
  BY <1>1, Invariant, PTL DEF Spec, CursorForward
=============================================================================
