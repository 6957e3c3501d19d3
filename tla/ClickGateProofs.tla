---------------------------- MODULE ClickGateProofs ----------------------------
(* Proofs about ClickGate, for any number of workers, entries, tombstones   *)
(* and openings of the barrier.                                             *)
EXTENDS ClickGate, FiniteSetTheorems, TLAPS

(* The types of everything but the queues: who may take a lock is decided by*)
(* lock, and the queues only order the takers.                              *)
Types ==
  /\ current \in Entries \cup {NoEntry}
  /\ lock \in [Entries -> Workers \cup {NoWorker}]
  /\ users \in [Entries -> Nat]
  /\ retired \in [Entries -> Nat]
  /\ timer \in [Entries -> BOOLEAN]
  /\ CallTypes /\ AuthTypes /\ GhostTypes

(* Every call that waits for or has a lease is at the present entry; others *)
(* are at none.                                                             *)
AtEntry ==
  \A w \in Workers : IF phase[w] \in Attached THEN entry[w] = current /\ current # NoEntry
                                              ELSE entry[w] = NoEntry

LeaseIsLock == \A w \in Workers : phase[w] \in Leased => lock[current] = w

(* A dropped lease keeps the present entry, its lock and its count for good.*)
LostForGood ==
  \A e \in lost : /\ e = current /\ lock[e] # NoWorker
                  /\ \A w \in Workers : phase[w] \notin Leased

LockHeld ==
  \A e \in Entries : lock[e] # NoWorker =>
    /\ e = current
    /\ e \in lost \/ (lock[e] \in Workers /\ phase[lock[e]] \in Leased)

(* users counts the calls at the entry, and the dropped lease.              *)
AttachedCalls == {w \in Workers : phase[w] \in Attached}
Dropped == IF current \in lost THEN 1 ELSE 0

Counted ==
  /\ IsFiniteSet(AttachedCalls)
  /\ current # NoEntry => users[current] = Cardinality(AttachedCalls) + Dropped

Remembered == current # NoEntry /\ retired[current] > 0 => timer[current]

GateInv ==
  /\ Types /\ AtEntry /\ LeaseIsLock /\ LostForGood /\ LockHeld
  /\ Counted /\ Remembered /\ CleanupArmed

-----------------------------------------------------------------------------
USE AbsentAssumption, LimitsAssumption
    DEF Leased, Attached, Phases, CallTypes, AuthTypes, GhostTypes, gateVars, authVars,
        callVars, ghostVars, Becomes

(* The counts of one more and of one less call at the entry.                *)
LEMMA OneLess ==
  ASSUME GateInv, NEW w \in Workers, w \in AttachedCalls
  PROVE  /\ IsFiniteSet(AttachedCalls \ {w})
         /\ Cardinality(AttachedCalls \ {w}) \in Nat
         /\ Cardinality(AttachedCalls) = Cardinality(AttachedCalls \ {w}) + 1
         /\ Cardinality(AttachedCalls \ {w}) = 0 <=> AttachedCalls = {w}
<1>1. IsFiniteSet(AttachedCalls)
  BY DEF GateInv, Counted
<1>2. Cardinality(AttachedCalls) \in Nat
  BY <1>1, FS_CardinalityType
<1>3. /\ IsFiniteSet(AttachedCalls \ {w})
      /\ Cardinality(AttachedCalls \ {w}) = Cardinality(AttachedCalls) - 1
  BY <1>1, FS_RemoveElement
<1>4. Cardinality(AttachedCalls \ {w}) \in Nat
  BY <1>3, FS_CardinalityType
<1>5. Cardinality(AttachedCalls \ {w}) = 0 <=> AttachedCalls \ {w} = {}
  BY <1>3, FS_EmptySet
<1>6. AttachedCalls \ {w} = {} <=> AttachedCalls = {w}
  OBVIOUS
<1>7. QED
  BY <1>2, <1>3, <1>4, <1>5, <1>6

(* A call that moves on with its lease.                                     *)
LEMMA MovesOnHolds ==
  ASSUME GateInv, NEW w \in Workers, NEW ph \in Leased,
         phase[w] \in Leased, Becomes(w, ph),
         UNCHANGED <<gateVars, entry, authVars, ghostVars>>
  PROVE  GateInv'
<1>1. AttachedCalls' = AttachedCalls
  BY DEF GateInv, Types, AttachedCalls
<1>2. Types'
  BY DEF GateInv, Types
<1>3. AtEntry' /\ LeaseIsLock' /\ LostForGood' /\ LockHeld'
  BY DEF GateInv, Types, AtEntry, LeaseIsLock, LostForGood, LockHeld
<1>4. Counted' /\ Remembered' /\ CleanupArmed'
  BY <1>1 DEF GateInv, Counted, Dropped, Remembered, CleanupArmed
<1>5. QED
  BY <1>2, <1>3, <1>4 DEF GateInv

(* A call that has no lease and does not wait for one.                      *)
LEMMA AsideHolds ==
  ASSUME GateInv, NEW w \in Workers, phase[w] = "redirected", Becomes(w, "idle"),
         UNCHANGED <<gateVars, entry, authVars, ghostVars>>
  PROVE  GateInv'
<1>1. AttachedCalls' = AttachedCalls
  BY DEF GateInv, Types, AttachedCalls
<1>2. Types'
  BY DEF GateInv, Types
<1>3. AtEntry' /\ LeaseIsLock' /\ LostForGood' /\ LockHeld'
  BY DEF GateInv, Types, AtEntry, LeaseIsLock, LostForGood, LockHeld
<1>4. Counted' /\ Remembered' /\ CleanupArmed'
  BY <1>1 DEF GateInv, Counted, Dropped, Remembered, CleanupArmed
<1>5. QED
  BY <1>2, <1>3, <1>4 DEF GateInv

(* The shape of every leave: the call goes, its lock too if it had it, and  *)
(* what the entry remembers may have grown.                                 *)
LEMMA LeaveHolds ==
  ASSUME GateInv, NEW w \in Workers, NEW ph \in {"idle", "redirected"},
         NEW lk,
         \/ phase[w] = "queued" /\ lk = lock
         \/ phase[w] \in Leased /\ lk = [lock EXCEPT ![entry[w]] = NoWorker],
         Becomes(w, ph), Leave(w, lk),
         UNCHANGED <<authVars, ghostVars>>
  PROVE  GateInv'
<1> DEFINE e == entry[w]
<1>1. /\ e = current /\ e \in Entries /\ w \in AttachedCalls
      /\ e # NoEntry
  BY DEF GateInv, Types, AtEntry, AttachedCalls
<1>2. AttachedCalls' = AttachedCalls \ {w}
  BY DEF GateInv, Types, AttachedCalls
<1>3. Dropped \in {0, 1}
  BY DEF Dropped
<1>4. /\ users[e] = Cardinality(AttachedCalls \ {w}) + 1 + Dropped
      /\ Cardinality(AttachedCalls \ {w}) \in Nat
      /\ IsFiniteSet(AttachedCalls \ {w})
      /\ Cardinality(AttachedCalls \ {w}) = 0 <=> AttachedCalls = {w}
  BY <1>1, OneLess DEF GateInv, Counted
<1>5. /\ users' = [users EXCEPT ![e] = Cardinality(AttachedCalls \ {w}) + Dropped]
      /\ users'[e] = Cardinality(AttachedCalls \ {w}) + Dropped
      /\ users'[e] \in Nat
  <2>1. users[e] - 1 = Cardinality(AttachedCalls \ {w}) + Dropped
    BY <1>3, <1>4
  <2>2. users' = [users EXCEPT ![e] = users[e] - 1]
    BY DEF Leave, Fewer
  <2>3. users \in [Entries -> Nat]
    BY DEF GateInv, Types
  <2>4. Cardinality(AttachedCalls \ {w}) + Dropped \in Nat
    BY <1>3, <1>4
  <2>5. QED
    BY <1>1, <2>1, <2>2, <2>3, <2>4
<1>6. /\ lk \in [Entries -> Workers \cup {NoWorker}] /\ lock' = lk
      /\ \A d \in Entries \ {e} : lk[d] = lock[d]
      /\ phase[w] = "queued" => lk[e] = lock[e]
      /\ phase[w] \in Leased => lk[e] = NoWorker
  BY <1>1 DEF GateInv, Types, Leave
<1>7. Types'
  BY <1>1, <1>3, <1>4, <1>5, <1>6 DEF GateInv, Types, Leave
<1>8. \/ current' = current
      \/ current' = NoEntry /\ AttachedCalls = {w} /\ Dropped = 0 /\ lk[e] = NoWorker
  BY <1>1, <1>3, <1>4, <1>5 DEF Leave, Popped, Fewer
<1>9. AtEntry'
  BY <1>1, <1>8 DEF GateInv, Types, AtEntry, AttachedCalls, Leave
<1>10. LeaseIsLock' /\ LostForGood'
  BY <1>1, <1>6, <1>8 DEF GateInv, Types, LeaseIsLock, LostForGood, AttachedCalls, Dropped
<1>11. LockHeld'
  BY <1>1, <1>6, <1>8 DEF GateInv, Types, LeaseIsLock, LockHeld, AttachedCalls, Dropped
<1>12. Counted'
  BY <1>1, <1>2, <1>4, <1>5, <1>8 DEF Counted, Dropped
<1>13. Remembered'
  BY <1>1 DEF GateInv, Types, Remembered, Leave
<1>14. CleanupArmed'
  <2>1. SUFFICES ASSUME current' # NoEntry, users'[current'] = 0 PROVE timer'[current']
    BY DEF CleanupArmed
  <2>2. current' = e
    BY <1>1, <1>8, <2>1
  <2>3. AttachedCalls = {w} /\ Dropped = 0 /\ e \notin lost
    BY <1>1, <1>3, <1>4, <1>5, <2>1, <2>2 DEF Dropped
  <2>4. lk[e] = NoWorker
    BY <1>1, <1>6, <2>3 DEF GateInv, LockHeld, AttachedCalls
  <2>5. retired[e] > 0
    BY <1>1, <1>5, <2>1, <2>2, <2>4 DEF Leave, Popped, Fewer, GateInv, Types
  <2>6. QED
    BY <1>1, <2>2, <2>5 DEF GateInv, Types, Remembered, Leave
<1>15. QED
  BY <1>7, <1>9, <1>10, <1>11, <1>12, <1>13, <1>14 DEF GateInv

-----------------------------------------------------------------------------
(* One lemma for each action that does more than move on or leave.          *)
LEMMA CallHolds ==
  ASSUME GateInv, NEW w \in Workers, Call(w)
  PROVE  GateInv'
<1>1. PICK e \in Entries :
        /\ IF current = NoEntry THEN Unreferenced(e) ELSE e = current
        /\ current' = e
        /\ entry' = [entry EXCEPT ![w] = e]
        /\ IF current = NoEntry
           THEN /\ lock' = [lock EXCEPT ![e] = NoWorker]
                /\ queue' = [queue EXCEPT ![e] = <<w>>]
                /\ users' = [users EXCEPT ![e] = 1]
                /\ retired' = [retired EXCEPT ![e] = 0]
                /\ timer' = [timer EXCEPT ![e] = FALSE]
           ELSE /\ queue' = [queue EXCEPT ![e] = Append(@, w)]
                /\ users' = [users EXCEPT ![e] = @ + 1]
                /\ UNCHANGED <<lock, retired, timer>>
  BY DEF Call, Enqueue
<1>2. /\ phase[w] = "idle" /\ w \notin AttachedCalls
      /\ phase' = [phase EXCEPT ![w] = "queued"]
      /\ AttachedCalls' = AttachedCalls \cup {w}
  BY DEF Call, AttachedCalls, GateInv, Types
<1>3. /\ IsFiniteSet(AttachedCalls) /\ IsFiniteSet(AttachedCalls')
      /\ Cardinality(AttachedCalls) \in Nat
      /\ Cardinality(AttachedCalls') = Cardinality(AttachedCalls) + 1
  BY <1>2, FS_AddElement, FS_CardinalityType DEF GateInv, Counted
<1>4. current = NoEntry => AttachedCalls = {} /\ lost = {} /\ Cardinality(AttachedCalls) = 0
  <2>1. SUFFICES ASSUME current = NoEntry
                 PROVE  AttachedCalls = {} /\ lost = {} /\ Cardinality(AttachedCalls) = 0
    OBVIOUS
  <2>2. AttachedCalls = {}
    BY <2>1 DEF GateInv, AttachedCalls, AtEntry
  <2>3. lost = {}
    BY <2>1 DEF GateInv, Types, LostForGood
  <2>4. QED
    BY <2>2, <2>3, FS_EmptySet
<1>5. /\ kind' \in [Workers -> {"click", "workflow"}]
      /\ seen' \in [Workers -> Nat]
      /\ noticed' \in SUBSET Workers /\ crossed' \in SUBSET Workers
      /\ UNCHANGED <<authVars, lost>>
  BY DEF Call, GateInv, Types
<1>6. Types'
  <2> USE DEF GateInv, Types
  <2>1. ASSUME current = NoEntry
        PROVE  /\ lock' \in [Entries -> Workers \cup {NoWorker}]
               /\ users' \in [Entries -> Nat]
               /\ retired' \in [Entries -> Nat]
               /\ timer' \in [Entries -> BOOLEAN]
    <3>1. /\ lock' = [lock EXCEPT ![e] = NoWorker]
          /\ users' = [users EXCEPT ![e] = 1]
          /\ retired' = [retired EXCEPT ![e] = 0]
          /\ timer' = [timer EXCEPT ![e] = FALSE]
      BY <1>1, <2>1
    <3>2. QED
      BY <3>1
  <2>2. ASSUME current # NoEntry
        PROVE  /\ lock' \in [Entries -> Workers \cup {NoWorker}]
               /\ users' \in [Entries -> Nat]
               /\ retired' \in [Entries -> Nat]
               /\ timer' \in [Entries -> BOOLEAN]
    <3>1. users' = [users EXCEPT ![e] = users[e] + 1] /\ UNCHANGED <<lock, retired, timer>>
      BY <1>1, <2>2
    <3>2. QED
      BY <3>1
  <2>3. current' \in Entries \cup {NoEntry} /\ CallTypes'
    BY <1>1, <1>2, <1>5
  <2>4. AuthTypes' /\ GhostTypes'
    BY <1>5
  <2>5. QED
    BY <1>1, <2>1, <2>2, <2>3, <2>4
<1>7. AtEntry' /\ LeaseIsLock' /\ LostForGood' /\ LockHeld'
  BY <1>1, <1>2, <1>4, <1>5 DEF GateInv, Types, AtEntry, LeaseIsLock, LostForGood, LockHeld, AttachedCalls
<1>8. Counted'
  <2>1. CASE current = NoEntry
    BY <1>1, <1>3, <1>4, <1>5, <2>1 DEF GateInv, Types, Counted, Dropped
  <2>2. CASE current # NoEntry
    <3>1. users'[e] = users[e] + 1 /\ users[e] \in Nat /\ current' = current /\ e = current
      BY <1>1, <2>2 DEF GateInv, Types
    <3>2. Dropped' = Dropped /\ Dropped \in {0, 1}
      BY <3>1, <1>5 DEF Dropped
    <3>3. QED
      BY <1>3, <2>2, <3>1, <3>2 DEF GateInv, Counted
  <2>3. QED
    BY <2>1, <2>2
<1>9. Remembered' /\ CleanupArmed'
  <2>1. users'[e] # 0
    BY <1>1 DEF GateInv, Types
  <2>2. QED
    BY <1>1, <2>1 DEF GateInv, Types, Remembered, CleanupArmed
<1>10. QED
  BY <1>6, <1>7, <1>8, <1>9 DEF GateInv

LEMMA TakeHolds ==
  ASSUME GateInv, NEW w \in Workers, Take(w)
  PROVE  GateInv'
<1> USE DEF Take
<1>1. AttachedCalls' = AttachedCalls
  BY DEF GateInv, Types, AttachedCalls
<1>2. entry[w] = current /\ current \in Entries
  BY DEF GateInv, Types, AtEntry
<1>3. Types'
  BY <1>2 DEF GateInv, Types
<1>4. AtEntry' /\ LostForGood'
  BY <1>2 DEF GateInv, Types, AtEntry, LostForGood
<1>5. LeaseIsLock' /\ LockHeld'
  BY <1>2 DEF GateInv, Types, LeaseIsLock, LostForGood, LockHeld
<1>6. Counted' /\ Remembered' /\ CleanupArmed'
  BY <1>1 DEF GateInv, Counted, Dropped, Remembered, CleanupArmed
<1>7. QED
  BY <1>3, <1>4, <1>5, <1>6 DEF GateInv

(* The dropped lease leaves its place in the count to the entry's loss.     *)
LEMMA SwallowedHolds ==
  ASSUME GateInv, NEW w \in Workers, AuthFirstSwallowed(w)
  PROVE  GateInv'
<1> USE DEF AuthFirstSwallowed
<1>1. /\ entry[w] = current /\ current \in Entries /\ lock[current] = w
      /\ w \in AttachedCalls /\ lost = {}
  BY DEF GateInv, Types, AtEntry, LeaseIsLock, LostForGood, AttachedCalls
<1>2. AttachedCalls' = AttachedCalls \ {w} /\ lost' = {current} /\ current' = current
  BY <1>1 DEF GateInv, Types, AttachedCalls
<1>3. /\ Cardinality(AttachedCalls) = Cardinality(AttachedCalls') + 1
      /\ Cardinality(AttachedCalls') \in Nat /\ IsFiniteSet(AttachedCalls')
  BY <1>1, <1>2, OneLess
<1>4. Dropped = 0 /\ Dropped' = 1
  BY <1>1, <1>2 DEF Dropped
<1>5. Counted'
  BY <1>1, <1>2, <1>3, <1>4 DEF GateInv, Counted
<1>6. Types'
  BY <1>1 DEF GateInv, Types
<1>7. AtEntry' /\ LeaseIsLock' /\ LostForGood' /\ LockHeld'
  BY <1>1, <1>2 DEF GateInv, Types, AtEntry, LeaseIsLock, LostForGood, LockHeld
<1>8. Remembered' /\ CleanupArmed'
  BY <1>2 DEF GateInv, Remembered, CleanupArmed
<1>9. QED
  BY <1>5, <1>6, <1>7, <1>8 DEF GateInv

LEMMA SettleHolds ==
  ASSUME GateInv, NEW w \in Workers, Settle(w)
  PROVE  GateInv'
<1> DEFINE e == entry[w]
<1>1. /\ e = current /\ e \in Entries /\ w \in AttachedCalls
      /\ phase[w] = "sent" /\ lock[current] = w /\ current' = current
  BY DEF Settle, GateInv, Types, AtEntry, LeaseIsLock, AttachedCalls
<1>2. AttachedCalls' = AttachedCalls \ {w}
  BY DEF Settle, GateInv, Types, AttachedCalls
<1>3. /\ Cardinality(AttachedCalls) = Cardinality(AttachedCalls') + 1
      /\ Cardinality(AttachedCalls') \in Nat /\ IsFiniteSet(AttachedCalls')
  BY <1>1, <1>2, OneLess
<1>4. Dropped = 0 /\ Dropped' = 0 /\ lost = {} /\ lost' = {}
  BY <1>1 DEF Settle, Dropped, GateInv, LostForGood
<1>5. /\ users' = [users EXCEPT ![e] = users[e] - 1]
      /\ users[e] - 1 = Cardinality(AttachedCalls') /\ users \in [Entries -> Nat]
  BY <1>1, <1>3, <1>4 DEF Settle, Fewer, GateInv, Types, Counted
<1>6. users' \in [Entries -> Nat] /\ users'[e] = Cardinality(AttachedCalls')
  BY <1>1, <1>3, <1>5
<1>7. retired' \in [Entries -> Nat] /\ timer' \in [Entries -> BOOLEAN] /\ timer'[e]
  BY <1>1 DEF Settle, Retire, Armed, GateInv, Types
<1>8. Types'
  BY <1>1, <1>6, <1>7 DEF Settle, GateInv, Types
<1>9. AtEntry'
  BY <1>1 DEF Settle, GateInv, Types, AtEntry
<1>10. LeaseIsLock' /\ LostForGood' /\ LockHeld'
  BY <1>1, <1>4 DEF Settle, GateInv, Types, LeaseIsLock, LostForGood, LockHeld
<1>11. Counted' /\ Remembered' /\ CleanupArmed'
  BY <1>1, <1>3, <1>4, <1>6, <1>7 DEF Counted, Remembered, CleanupArmed
<1>12. QED
  BY <1>8, <1>9, <1>10, <1>11 DEF GateInv

LEMMA CleanUpHolds ==
  ASSUME GateInv, NEW e \in Entries, CleanUp(e)
  PROVE  GateInv'
<1> USE DEF CleanUp, Rearms
<1>1. AttachedCalls' = AttachedCalls
  BY DEF AttachedCalls
<1>2. \/ current' = current
      \/ /\ current' = NoEntry /\ current = e /\ users[e] = 0 /\ retired[e] = 0
         /\ lock[e] = NoWorker
  OBVIOUS
<1>3. Types'
  BY DEF GateInv, Types
<1>4. CASE current' = current
  <2>1. AtEntry' /\ LeaseIsLock' /\ LostForGood' /\ LockHeld'
    BY <1>4 DEF GateInv, Types, AtEntry, LeaseIsLock, LostForGood, LockHeld
  <2>2. Counted' /\ Remembered'
    BY <1>1, <1>4 DEF GateInv, Types, Counted, Dropped, Remembered
  <2>3. CleanupArmed'
    <3>1. SUFFICES ASSUME current # NoEntry, users[current] = 0 PROVE timer'[current]
      BY <1>4 DEF CleanupArmed
    <3>2. lock[current] = NoWorker
      <4>1. Cardinality(AttachedCalls) \in Nat /\ Dropped \in {0, 1} /\ IsFiniteSet(AttachedCalls)
        BY FS_CardinalityType DEF GateInv, Counted, Dropped
      <4>2. Cardinality(AttachedCalls) = 0 /\ Dropped = 0
        BY <3>1, <4>1 DEF GateInv, Counted
      <4>3. AttachedCalls = {} /\ current \notin lost
        BY <4>1, <4>2, FS_EmptySet DEF Dropped
      <4>4. QED
        BY <3>1, <4>3 DEF GateInv, Types, LockHeld, AttachedCalls
    <3>3. timer[current]
      BY <3>1 DEF GateInv, CleanupArmed
    <3>4. current = e => retired[e] # 0
      BY <1>4, <3>1, <3>2
    <3>5. QED
      BY <3>1, <3>3, <3>4 DEF GateInv, Types
  <2>4. QED
    BY <1>3, <2>1, <2>2, <2>3 DEF GateInv
<1>5. CASE current' = NoEntry /\ current = e /\ users[e] = 0 /\ lock[e] = NoWorker
  <2>1. Cardinality(AttachedCalls) \in Nat /\ Dropped \in {0, 1} /\ IsFiniteSet(AttachedCalls)
    BY FS_CardinalityType DEF GateInv, Counted, Dropped
  <2>2. Cardinality(AttachedCalls) = 0
    BY <1>5, <2>1 DEF GateInv, Counted
  <2>3. AttachedCalls = {} /\ lost = {}
    BY <1>5, <2>1, <2>2, FS_EmptySet DEF GateInv, LostForGood
  <2>4. AtEntry' /\ LeaseIsLock' /\ LostForGood' /\ LockHeld'
    BY <1>5, <2>3 DEF GateInv, Types, AtEntry, LeaseIsLock, LostForGood, LockHeld, AttachedCalls
  <2>5. Counted' /\ Remembered' /\ CleanupArmed'
    BY <1>1, <1>5, <2>1 DEF Counted, Remembered, CleanupArmed
  <2>6. QED
    BY <1>3, <2>4, <2>5 DEF GateInv
<1>6. QED
  BY <1>2, <1>4, <1>5

(* The expiry of a tombstone, a notice and the barrier's own steps change    *)
(* neither a call, a lock nor a count.                                      *)
LEMMA ElsewhereHolds ==
  ASSUME GateInv, UNCHANGED <<current, lock, users, timer, phase, entry, kind, seen, lost>>,
         Types', \A e \in Entries : retired'[e] <= retired[e]
  PROVE  GateInv'
<1>1. AttachedCalls' = AttachedCalls
  BY DEF AttachedCalls
<1>2. AtEntry' /\ LeaseIsLock' /\ LostForGood' /\ LockHeld' /\ Counted' /\ CleanupArmed'
  BY <1>1 DEF GateInv, AtEntry, LeaseIsLock, LostForGood, LockHeld, Counted, Dropped, CleanupArmed
<1>3. Remembered'
  BY DEF GateInv, Types, Remembered
<1>4. QED
  BY <1>2, <1>3 DEF GateInv

-----------------------------------------------------------------------------
LEMMA InitHolds == Init => GateInv
<1> SUFFICES ASSUME Init PROVE GateInv
  OBVIOUS
<1>1. AttachedCalls = {}
  BY DEF Init, AttachedCalls
<1>2. IsFiniteSet(AttachedCalls)
  BY <1>1, FS_EmptySet
<1>3. Types
  BY DEF Init, Types, Epoch!Init
<1>4. AtEntry /\ LeaseIsLock /\ LostForGood /\ LockHeld
  BY DEF Init, AtEntry, LeaseIsLock, LostForGood, LockHeld
<1>5. Counted /\ Remembered /\ CleanupArmed
  BY <1>2 DEF Init, Counted, Remembered, CleanupArmed
<1>6. QED
  BY <1>3, <1>4, <1>5 DEF GateInv

(* Every way a call can end without a response.                             *)
LEMMA LeavesHold ==
  ASSUME GateInv, NEW w \in Workers,
         LockTimeout(w) \/ AuthFirst(w) \/ Rejected(w) \/ Cancelled(w)
  PROVE  GateInv'
<1>1. CASE \E ph \in {"idle", "redirected"} :
             /\ phase[w] = "queued" /\ GiveUp(w) /\ Becomes(w, ph)
             /\ UNCHANGED <<authVars, ghostVars>>
  <2>1. PICK ph \in {"idle", "redirected"} :
             /\ phase[w] = "queued" /\ GiveUp(w) /\ Becomes(w, ph)
             /\ UNCHANGED <<authVars, ghostVars>>
    BY <1>1
  <2>2. Leave(w, lock)
    BY <2>1 DEF GiveUp
  <2>3. QED
    BY <2>1, <2>2, LeaveHolds
<1>2. CASE \E ph \in {"idle", "redirected"} :
             /\ phase[w] \in Leased /\ Release(w) /\ Becomes(w, ph)
             /\ UNCHANGED <<authVars, ghostVars>>
  <2>1. PICK ph \in {"idle", "redirected"} :
             /\ phase[w] \in Leased /\ Release(w) /\ Becomes(w, ph)
             /\ UNCHANGED <<authVars, ghostVars>>
    BY <1>2
  <2>2. Leave(w, [lock EXCEPT ![entry[w]] = NoWorker])
    BY <2>1 DEF Release
  <2>3. QED
    BY <2>1, <2>2, LeaveHolds
<1>3. CASE Cancelled(w) /\ phase[w] = "redirected"
  BY <1>3, AsideHolds DEF Cancelled
<1>4. QED
  BY <1>1, <1>2, <1>3 DEF LockTimeout, AuthFirst, Rejected, Cancelled

LEMMA StepHolds == GateInv /\ [Next]_vars => GateInv'
<1> SUFFICES ASSUME GateInv, [Next]_vars PROVE GateInv'
  OBVIOUS
<1>1. ASSUME NEW w \in Workers,
             \/ GateFirst(w) \/ Blocked(w) \/ Admitted(w) \/ Dispatch(w)
      PROVE  GateInv'
  <2>1. PICK ph \in Leased :
          /\ phase[w] \in Leased /\ Becomes(w, ph)
          /\ UNCHANGED <<gateVars, entry, authVars, ghostVars>>
    BY <1>1 DEF GateFirst, Blocked, Admitted, Dispatch
  <2>2. QED
    BY <2>1, MovesOnHolds
<1>2. ASSUME NEW w \in Workers, Notice(w)
      PROVE  GateInv'
  <2>1. Types' /\ \A e \in Entries : retired'[e] <= retired[e]
    BY <1>2 DEF Notice, GateInv, Types
  <2>2. UNCHANGED <<current, lock, users, timer, phase, entry, kind, seen, lost>>
    BY <1>2 DEF Notice
  <2>3. QED
    BY <2>1, <2>2, ElsewhereHolds
<1>3. ASSUME NEW w \in Workers, AuthCloses(w) \/ AuthDrops(w) \/ AuthOpens(w)
      PROVE  GateInv'
  <2> USE DEF GateInv, Types
  <2>1. Types' /\ \A e \in Entries : retired'[e] <= retired[e]
    <3>1. CASE AuthCloses(w)
      BY <3>1 DEF AuthCloses, Crossing, Epoch!Close
    <3>2. CASE AuthDrops(w)
      BY <3>2 DEF AuthDrops, Epoch!Drop
    <3>3. CASE AuthOpens(w)
      <4>1. AuthTypes'
        <5>1. closed' = FALSE /\ resolver' = NoWorker /\ generation' = generation + 1
          BY <3>3 DEF AuthOpens, Epoch!Open
        <5>2. generation' \in Nat
          BY <5>1
        <5>3. QED
          BY <5>1, <5>2
      <4>2. QED
        BY <3>3, <4>1 DEF AuthOpens
    <3>4. QED
      BY <1>3, <3>1, <3>2, <3>3
  <2>2. UNCHANGED <<current, lock, users, timer, phase, entry, kind, seen, lost>>
    BY <1>3 DEF AuthCloses, AuthDrops, AuthOpens
  <2>3. QED
    BY <2>1, <2>2, ElsewhereHolds
<1>4. ASSUME NEW e \in Entries, Expire(e)
      PROVE  GateInv'
  <2>1. Types' /\ \A d \in Entries : retired'[d] <= retired[d]
    BY <1>4 DEF Expire, GateInv, Types
  <2>2. UNCHANGED <<current, lock, users, timer, phase, entry, kind, seen, lost>>
    BY <1>4 DEF Expire
  <2>3. QED
    BY <2>1, <2>2, ElsewhereHolds
<1>5. ASSUME NEW w \in Workers, Redirected(w)
      PROVE  GateInv'
  BY <1>5, AsideHolds DEF Redirected
<1>6. CASE UNCHANGED vars
  <2>1. Types' /\ \A e \in Entries : retired'[e] <= retired[e]
    BY <1>6 DEF vars, GateInv, Types
  <2>2. UNCHANGED <<current, lock, users, timer, phase, entry, kind, seen, lost>>
    BY <1>6 DEF vars
  <2>3. QED
    BY <2>1, <2>2, ElsewhereHolds
<1>7. QED
  BY <1>1, <1>2, <1>3, <1>4, <1>5, <1>6, CallHolds, TakeHolds, SwallowedHolds, LeavesHold,
     SettleHolds, CleanUpHolds DEF Next

(* A worker in whose wait another closed the gate cannot pass the second    *)
(* look: the gate is still closed to it, or a new generation has begun.     *)
Overtaken(w) == seen[w] < generation \/ (closed /\ resolver # w)

EpochInv ==
  \A w \in Workers : /\ seen[w] <= generation
                     /\ w \in crossed => phase[w] \in {"idle", "sent"} \/ Overtaken(w)

LEMMA EpochHolds == GateInv /\ EpochInv /\ [Next]_vars => EpochInv'
<1> SUFFICES ASSUME GateInv, EpochInv, [Next]_vars PROVE EpochInv'
  OBVIOUS
<1> USE DEF GateInv, Types, EpochInv, Overtaken
<1>1. ASSUME NEW w \in Workers, Call(w)
      PROVE  EpochInv'
  BY <1>1 DEF Call
<1>2. ASSUME NEW w \in Workers, AuthCloses(w)
      PROVE  EpochInv'
  BY <1>2 DEF AuthCloses, Acts, Crossing, Epoch!Close
<1>3. ASSUME NEW w \in Workers, AuthDrops(w)
      PROVE  EpochInv'
  BY <1>3 DEF AuthDrops, Epoch!Drop
<1>4. ASSUME NEW w \in Workers, AuthOpens(w)
      PROVE  EpochInv'
  BY <1>4 DEF AuthOpens, Acts, Epoch!Open
<1>5. ASSUME NEW w \in Workers,
             \/ Take(w) \/ LockTimeout(w) \/ Notice(w) \/ AuthFirst(w)
             \/ AuthFirstSwallowed(w) \/ Redirected(w) \/ GateFirst(w)
             \/ Blocked(w) \/ Admitted(w) \/ Rejected(w)
             \/ Dispatch(w) \/ Settle(w) \/ Cancelled(w)
      PROVE  EpochInv'
  <2>1. /\ UNCHANGED <<seen, authVars, crossed>>
        /\ \A v \in Workers : phase'[v] = phase[v] \/ (v = w /\ phase[w] \notin {"idle", "sent"})
                                                  \/ (v = w /\ phase'[w] = "idle")
    BY <1>5 DEF Take, LockTimeout, Notice, AuthFirst, AuthFirstSwallowed, Redirected, GateFirst,
       Blocked, Admitted, Rejected, Dispatch, Settle, Cancelled
  <2>2. QED
    BY <2>1
<1>6. ASSUME NEW e \in Entries, Expire(e) \/ CleanUp(e)
      PROVE  EpochInv'
  BY <1>6 DEF Expire, CleanUp
<1>7. CASE UNCHANGED vars
  BY <1>7 DEF vars
<1>8. QED
  BY <1>1, <1>2, <1>3, <1>4, <1>5, <1>6, <1>7 DEF Next

LEMMA Invariant == Spec => [](GateInv /\ EpochInv)
<1>1. Init => EpochInv
  BY DEF Init, EpochInv, Epoch!Init
<1>2. GateInv /\ EpochInv /\ [Next]_vars => GateInv' /\ EpochInv'
  BY StepHolds, EpochHolds
<1>3. QED
  BY <1>1, <1>2, InitHolds, PTL DEF Spec

-----------------------------------------------------------------------------
(* Two calls never hold the click lease of the Fleet at once, however its   *)
(* entries come and go (FleetClickGate.acquire, FleetClickLease.release).   *)
THEOREM LeasesExclude == Spec => []OneLease
<1>1. GateInv => OneLease
  BY DEF GateInv, LeaseIsLock, OneLease
<1>2. QED
  BY <1>1, Invariant, PTL

(* A taken lock has a call that will release it, or none because the        *)
(* cancellation of the call that got it was swallowed (_cancel_task).       *)
THEOREM LocksHaveHolders == Spec => []LockHasHolder
<1>1. GateInv => LockHasHolder
  BY DEF GateInv, Types, LockHeld, AtEntry, LeaseIsLock, LockHasHolder, Holds
<1>2. QED
  BY <1>1, Invariant, PTL

(* users is the number of calls that wait for or hold the lock, so an entry *)
(* is never dropped under a waiting call (_release_entry).                  *)
THEOREM UsersAreCounted == Spec => []UsersMatch
<1>1. GateInv => UsersMatch
  BY DEF GateInv, AtEntry, Counted, Dropped, AttachedCalls, UsersMatch
<1>2. QED
  BY <1>1, Invariant, PTL

(* An entry that nobody uses has a timer that will drop it                  *)
(* (_schedule_retired_cleanup, _cleanup_retired).                           *)
THEOREM CleanupsAreArmed == Spec => []CleanupArmed
<1>1. GateInv => CleanupArmed
  BY DEF GateInv
<1>2. QED
  BY <1>1, Invariant, PTL

(* The four together: every click lease of the Fleet is accounted for, for  *)
(* any workers and entries, with or without swallowed cancellations.        *)
THEOREM LeasesAreAccounted == Spec => []LeasesAccounted
<1>1. OneLease /\ LockHasHolder /\ UsersMatch /\ CleanupArmed => LeasesAccounted
  BY DEF LeasesAccounted
<1>2. QED
  BY <1>1, LeasesExclude, LocksHaveHolders, UsersAreCounted, CleanupsAreArmed, PTL

(* A queued call is let through only if no other worker's recovery began    *)
(* before the second look at the barrier (_acquire_click_gate).             *)
THEOREM AdmissionsStayInEpoch == Spec => AdmittedInOneEpoch
<1>1. GateInv /\ EpochInv /\ [Next]_vars =>
        \A w \in Workers : phase[w] # "held" /\ phase'[w] = "held" => w \notin crossed
  <2>1. SUFFICES ASSUME GateInv, EpochInv, [Next]_vars,
                        NEW w \in Workers, phase[w] # "held", phase'[w] = "held"
                 PROVE  w \notin crossed
    OBVIOUS
  <2>2. Admitted(w)
    BY <2>1 DEF GateInv, Types, Next, vars, Call, Take, LockTimeout, Notice, AuthFirst, AuthFirstSwallowed,
       Redirected, GateFirst, Blocked, Admitted, Rejected, Dispatch, Settle, Cancelled,
       AuthCloses, AuthDrops, AuthOpens, Expire, CleanUp
  <2>3. QED
    BY <2>1, <2>2 DEF Admitted, Blocks, Ownerless, GenerationKept, GateInv, Types, EpochInv, Overtaken
<1>2. GateInv /\ EpochInv /\ [Next]_vars =>
        [\A w \in Workers : phase[w] # "held" /\ phase'[w] = "held" => w \notin crossed]_vars
  BY <1>1
<1>3. QED
  BY <1>2, Invariant, PTL DEF Spec, AdmittedInOneEpoch
=============================================================================
