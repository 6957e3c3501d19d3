----------------------- MODULE FleetCoordinatorProofs -----------------------
(* Theorems about FleetCoordinator for every set of slots, spawns and       *)
(* Fleets, every cap and every number of releases.                          *)
EXTENDS FleetCoordinator, TLAPS

(* A coordinator state is sound when its two forms of the binding agree and *)
(* no default is a Fleet that must not be lent.                             *)
Agrees(c) == \A f \in Fleets : c.record[f].named <=> c.bound = f

Lendable(r) == ~r.named /\ ~r.isolated /\ ~r.retired

Sound(c) ==
  /\ c \in CoordinatorType
  /\ Agrees(c)
  /\ \A f \in Fleets : c.record[f].named => c.record[f].status # "unknown"
  /\ \A s \in Slots : c.default[s] # NoFleet => Lendable(c.record[c.default[s]])

(* What holds of the rest of the state, and is needed for the theorems.     *)
Placed ==
  \A w \in Workers :
    /\ pc[w] \in Waiting \cup {"readying", "running"} => at[w] \in Slots
    /\ pc[w] \in {"readying", "running"} => assigned[w].fleet # NoFleet
    /\ pc[w] \in Waiting \cup {"new"} => assigned[w].fleet = NoFleet
    /\ assigned[w].named => assigned[w].fleet # NoFleet /\ assigned[w].generation # 0

Counted == ledger.fleet # NoFleet => ledger.generation # 0

Epochs ==
  \A w \in Workers :
    assigned[w].named => /\ assigned[w].epoch <= releases
                         /\ assigned[w].epoch = releases => coordinator.bound = assigned[w].fleet

Held(f) == \E w \in Workers : assigned[w].fleet = f

Handed ==
  \A f \in Fleets : coordinator.record[f].admitted /\ ~coordinator.record[f].isolated => Held(f)

Known(f) == fate[f] # "unborn"

Born ==
  /\ \A f \in Fleets : coordinator.record[f].admitted => Known(f)
  /\ \A s \in Slots : \A f \in view[s] \cup registered[s] : Known(f)
  /\ \A w \in Workers : assigned[w].fleet # NoFleet => Known(assigned[w].fleet)
  /\ ledger.fleet # NoFleet => Known(ledger.fleet)

(* What the variables that hold the bindings have to do with each other,    *)
(* and what is needed of the rest.                                          *)
Bindings ==
  /\ Sound(coordinator) /\ Counted
  /\ Epochs /\ OneJarPerEpoch /\ Handed /\ Born

SlotTypes ==
  /\ fate \in [Fleets -> {"unborn", "live", "dead"}]
  /\ slot \in [Slots -> {"absent", "starting", "idle", "busy", "broken", "gone"}]
  /\ view \in [Slots -> SUBSET Fleets] /\ registered \in [Slots -> SUBSET Fleets]

SpawnTypes ==
  /\ pc \in [Workers -> Phases]
  /\ at \in [Workers -> Slots \cup {NoSlot}]
  /\ request \in [Workers -> [kind : Kinds, source : Workers \cup {NoWorker}]]
  /\ lock \in Workers \cup {NoWorker} /\ first \in Workers \cup {NoWorker} /\ committed \in BOOLEAN

FrameTypes ==
  /\ assigned \in [Workers -> AssignmentType] /\ ledger \in LedgerType
  /\ SlotTypes /\ SpawnTypes
  /\ releases \in 0..MaxReleases

FleetInv == FrameTypes /\ Placed /\ Bindings

OwnersStay ==
  \A f \in Fleets : coordinator.record[f].admitted /\ coordinator'.record[f].admitted
    => coordinator'.record[f].slot \in {coordinator.record[f].slot, ledger'.owner}

-----------------------------------------------------------------------------
(* How d may follow c in one step of a coordinator: a Fleet is admitted only *)
(* if it was, or if o, the owner of a verified login, is given it; it does   *)
(* not become shared, and a session stays where it was bound.                *)
Follows(c, d, o) ==
  /\ c.bound # NoFleet => d.bound = c.bound
  /\ \A f \in Fleets : d.record[f].admitted =>
       /\ ~c.record[f].admitted => Known(f) /\ d.record[f].slot = o
       /\ d.record[f].slot \in {c.record[f].slot, o}
       /\ d.record[f].isolated \/ (c.record[f].admitted /\ ~c.record[f].isolated)

LEMMA FollowsStay ==
  ASSUME NEW c, NEW o
  PROVE  Follows(c, c, o)
  BY DEF Follows

LEMMA FollowsTwice ==
  ASSUME NEW c, NEW d, NEW e, NEW o, Follows(c, d, o), Follows(d, e, o)
  PROVE  Follows(c, e, o)
  BY DEF Follows

LEMMA RecordFacts ==
  /\ NoRecord \in FleetRecord /\ Lendable(NoRecord)
  /\ ~NoRecord.named /\ ~NoRecord.admitted /\ NoRecord.status = "unknown"
  BY DEF NoRecord, FleetRecord, Lendable

LEMMA SightFacts ==
  ASSUME NEW r \in FleetRecord, NEW s \in Slots
  PROVE  /\ Sight(r, s) \in FleetRecord /\ Sight(r, s).status # "unknown"
         /\ Sight(r, s).named = r.named /\ Sight(r, s).isolated = r.isolated
         /\ Sight(r, s).retired = r.retired /\ Sight(r, s).admitted = r.admitted
         /\ r.admitted => Sight(r, s).slot = r.slot
<1>1. Keeper(r, s) \in Slots \cup {NoSlot} /\ (r.admitted => Keeper(r, s) = r.slot)
  BY DEF Keeper, FleetRecord
<1>2. Admits(r) = r.admitted
  BY DEF Admits
<1>3. QED
  BY <1>1, <1>2 DEF FleetRecord, Sight

(* Each record is forgotten, unless it is named, or it keeps what matters.  *)
Keeps(r, t) ==
  \/ t = r
  \/ t = NoRecord /\ ~r.named
  \/ /\ t.status # "unknown" /\ t.named = r.named /\ t.isolated = r.isolated
     /\ t.retired = r.retired /\ t.admitted = r.admitted /\ (r.admitted => t.slot = r.slot)

LEMMA StatusFacts ==
  ASSUME NEW r \in FleetRecord, NEW x \in {"active", "suspect", "missing"}
  PROVE  [r EXCEPT !.status = x] \in FleetRecord /\ Keeps(r, [r EXCEPT !.status = x])
  BY DEF FleetRecord, Keeps

LEMMA UnseenFacts ==
  ASSUME NEW r \in FleetRecord
  PROVE  Unseen(r) \in FleetRecord /\ Keeps(r, Unseen(r))
  BY RecordFacts, StatusFacts DEF Unseen, Keeps

LEMMA KeepingIsSound ==
  ASSUME NEW c, NEW d, NEW o, Sound(c), d \in CoordinatorType,
         d.bound = c.bound,
         \A f \in Fleets : Keeps(c.record[f], d.record[f]),
         \A s \in Slots : d.default[s] \in {c.default[s], NoFleet}
  PROVE  Sound(d) /\ Follows(c, d, o)
<1>1. Agrees(d)
  BY RecordFacts DEF Sound, Agrees, Keeps
<1>2. \A f \in Fleets : d.record[f].named => d.record[f].status # "unknown"
  BY RecordFacts DEF Sound, Keeps
<1>3. ASSUME NEW s \in Slots, d.default[s] # NoFleet
      PROVE  Lendable(d.record[d.default[s]])
  <2>1. d.default[s] = c.default[s] /\ d.default[s] \in Fleets
    BY <1>3 DEF CoordinatorType
  <2>2. Lendable(c.record[d.default[s]])
    BY <1>3, <2>1 DEF Sound
  <2>3. QED
    BY <2>1, <2>2, RecordFacts DEF Keeps, Lendable
<1>4. Follows(c, d, o)
  BY RecordFacts DEF Follows, Keeps
<1>5. QED
  BY <1>1, <1>2, <1>3, <1>4 DEF Sound

(* The four methods that go through all records.                            *)
LEMMA ObserveIsSound ==
  ASSUME NEW c, Sound(c), NEW s \in Slots, NEW seen \in SUBSET Fleets, NEW o
  PROVE  /\ Sound(Observe(c, s, seen)) /\ Follows(c, Observe(c, s, seen), o)
         /\ Observe(c, s, seen).bound = c.bound
<1> DEFINE R == [f \in Fleets |-> IF f \in seen THEN Sight(c.record[f], s)
                   ELSE IF c.record[f].slot = s THEN Unseen(c.record[f]) ELSE c.record[f]]
           D == [t \in Slots |-> IF t = s /\ c.default[t] \notin seen THEN NoFleet ELSE c.default[t]]
<1>1. \A f \in Fleets : R[f] \in FleetRecord /\ Keeps(c.record[f], R[f])
  BY SightFacts, UnseenFacts DEF Keeps, Sound, CoordinatorType
<1>2. Observe(c, s, seen) = [c EXCEPT !.record = R, !.default = D]
  BY DEF Observe
<1>3. D = [t \in Slots |-> D[t]] /\ R = [f \in Fleets |-> R[f]] /\ \A t \in Slots : D[t] \in {c.default[t], NoFleet}
  OBVIOUS
<1> DEFINE d == Observe(c, s, seen)
<1>4. d = [c EXCEPT !.record = R, !.default = D]
  BY <1>2
<1>5. R \in [Fleets -> FleetRecord] /\ D \in [Slots -> Fleets \cup {NoFleet}]
  BY <1>1, <1>3 DEF Sound, CoordinatorType
<1>6. Sound(d) /\ Follows(c, d, o) /\ d.bound = c.bound
  <2> HIDE DEF R, D, d
  <2>1. d \in CoordinatorType /\ d.bound = c.bound /\ d.record = R /\ d.default = D
    BY <1>4, <1>5 DEF Sound, CoordinatorType
  <2>2. \A f \in Fleets : Keeps(c.record[f], d.record[f])
    BY <1>1, <2>1
  <2>3. \A t \in Slots : d.default[t] \in {c.default[t], NoFleet}
    BY <1>3, <2>1
  <2>4. QED
    BY <2>1, <2>2, <2>3, KeepingIsSound
<1>7. QED
  BY <1>6

LEMMA ReconcileIsSound ==
  ASSUME NEW c, Sound(c), NEW seen \in SUBSET Fleets, NEW o
  PROVE  /\ Sound(Reconcile(c, seen)) /\ Follows(c, Reconcile(c, seen), o)
         /\ Reconcile(c, seen).bound = c.bound
<1> DEFINE Gone == {f \in Fleets \ seen : c.record[f].status # "unknown"}
           R == [f \in Fleets |-> IF f \in Gone THEN Unseen(c.record[f]) ELSE c.record[f]]
           D == [t \in Slots |-> IF c.default[t] \in {f \in Gone : ~c.record[f].named}
                                 THEN NoFleet ELSE c.default[t]]
<1>1. \A f \in Fleets : R[f] \in FleetRecord /\ Keeps(c.record[f], R[f])
  BY UnseenFacts DEF Keeps, Sound, CoordinatorType
<1>2. Reconcile(c, seen) = [c EXCEPT !.record = R, !.default = D]
  BY DEF Reconcile
<1>3. D = [t \in Slots |-> D[t]] /\ R = [f \in Fleets |-> R[f]] /\ \A t \in Slots : D[t] \in {c.default[t], NoFleet}
  OBVIOUS
<1> DEFINE d == Reconcile(c, seen)
<1>4. d = [c EXCEPT !.record = R, !.default = D]
  BY <1>2
<1>5. R \in [Fleets -> FleetRecord] /\ D \in [Slots -> Fleets \cup {NoFleet}]
  BY <1>1, <1>3 DEF Sound, CoordinatorType
<1>6. Sound(d) /\ Follows(c, d, o) /\ d.bound = c.bound
  <2> HIDE DEF R, D, d
  <2>1. d \in CoordinatorType /\ d.bound = c.bound /\ d.record = R /\ d.default = D
    BY <1>4, <1>5 DEF Sound, CoordinatorType
  <2>2. \A f \in Fleets : Keeps(c.record[f], d.record[f])
    BY <1>1, <2>1
  <2>3. \A t \in Slots : d.default[t] \in {c.default[t], NoFleet}
    BY <1>3, <2>1
  <2>4. QED
    BY <2>1, <2>2, <2>3, KeepingIsSound
<1>7. QED
  BY <1>6

LEMMA MarkSuspectIsSound ==
  ASSUME NEW c, Sound(c), NEW s \in Slots, NEW o
  PROVE  /\ Sound(MarkSuspect(c, s)) /\ Follows(c, MarkSuspect(c, s), o)
         /\ MarkSuspect(c, s).bound = c.bound
<1> DEFINE R == [f \in Fleets |-> IF c.record[f].slot = s /\ c.record[f].status = "active"
                                  THEN [c.record[f] EXCEPT !.status = "suspect"] ELSE c.record[f]]
           D == c.default
<1>1. \A f \in Fleets : R[f] \in FleetRecord /\ Keeps(c.record[f], R[f])
  BY StatusFacts DEF Keeps, Sound, CoordinatorType
<1>2. MarkSuspect(c, s) = [c EXCEPT !.record = R, !.default = D]
  BY DEF MarkSuspect, Sound, CoordinatorType
<1>3. D = [t \in Slots |-> D[t]] /\ R = [f \in Fleets |-> R[f]] /\ \A t \in Slots : D[t] \in {c.default[t], NoFleet}
  BY DEF Sound, CoordinatorType
<1> DEFINE d == MarkSuspect(c, s)
<1>4. d = [c EXCEPT !.record = R, !.default = D]
  BY <1>2
<1>5. R \in [Fleets -> FleetRecord] /\ D \in [Slots -> Fleets \cup {NoFleet}]
  BY <1>1, <1>3 DEF Sound, CoordinatorType
<1>6. Sound(d) /\ Follows(c, d, o) /\ d.bound = c.bound
  <2> HIDE DEF R, D, d
  <2>1. d \in CoordinatorType /\ d.bound = c.bound /\ d.record = R /\ d.default = D
    BY <1>4, <1>5 DEF Sound, CoordinatorType
  <2>2. \A f \in Fleets : Keeps(c.record[f], d.record[f])
    BY <1>1, <2>1
  <2>3. \A t \in Slots : d.default[t] \in {c.default[t], NoFleet}
    BY <1>3, <2>1
  <2>4. QED
    BY <2>1, <2>2, <2>3, KeepingIsSound
<1>7. QED
  BY <1>6

LEMMA RetireSlotIsSound ==
  ASSUME NEW c, Sound(c), NEW s \in Slots, NEW o
  PROVE  /\ Sound(RetireSlot(c, s)) /\ Follows(c, RetireSlot(c, s), o)
         /\ RetireSlot(c, s).bound = c.bound
<1> DEFINE R == [f \in Fleets |-> IF c.record[f].slot = s THEN Unseen(c.record[f]) ELSE c.record[f]]
           D == [t \in Slots |-> IF t = s THEN NoFleet ELSE c.default[t]]
<1>1. \A f \in Fleets : R[f] \in FleetRecord /\ Keeps(c.record[f], R[f])
  BY UnseenFacts DEF Keeps, Sound, CoordinatorType
<1>2. RetireSlot(c, s) = [c EXCEPT !.record = R, !.default = D]
  BY DEF RetireSlot
<1>3. D = [t \in Slots |-> D[t]] /\ R = [f \in Fleets |-> R[f]] /\ \A t \in Slots : D[t] \in {c.default[t], NoFleet}
  OBVIOUS
<1> DEFINE d == RetireSlot(c, s)
<1>4. d = [c EXCEPT !.record = R, !.default = D]
  BY <1>2
<1>5. R \in [Fleets -> FleetRecord] /\ D \in [Slots -> Fleets \cup {NoFleet}]
  BY <1>1, <1>3 DEF Sound, CoordinatorType
<1>6. Sound(d) /\ Follows(c, d, o) /\ d.bound = c.bound
  <2> HIDE DEF R, D, d
  <2>1. d \in CoordinatorType /\ d.bound = c.bound /\ d.record = R /\ d.default = D
    BY <1>4, <1>5 DEF Sound, CoordinatorType
  <2>2. \A f \in Fleets : Keeps(c.record[f], d.record[f])
    BY <1>1, <2>1
  <2>3. \A t \in Slots : d.default[t] \in {c.default[t], NoFleet}
    BY <1>3, <2>1
  <2>4. QED
    BY <2>1, <2>2, <2>3, KeepingIsSound
<1>7. QED
  BY <1>6

(* Three methods write one record, the binding and the defaults.  Each of   *)
(* them forgets the Fleet as a default unless its record may be lent.       *)
LEMMA ForgetFacts ==
  ASSUME NEW D \in [Slots -> Fleets \cup {NoFleet}], NEW f \in Fleets
  PROVE  /\ Forget(D, f) \in [Slots -> Fleets \cup {NoFleet}]
         /\ \A s \in Slots : Forget(D, f)[s] \in {D[s], NoFleet} /\ Forget(D, f)[s] # f
  BY AbsentAssumption DEF Forget

LEMMA WriteIsSound ==
  ASSUME NEW c, Sound(c), NEW d \in CoordinatorType, NEW f \in Fleets,
         \A g \in Fleets \ {f} : d.record[g] = c.record[g],
         d.record[f].named => d.record[f].status # "unknown",
         d.record[f].named <=> d.bound = f,
         \A g \in Fleets \ {f} : c.record[g].named <=> d.bound = g,
         \A s \in Slots : \/ d.default[s] \in {c.default[s], NoFleet} /\ d.default[s] # f
                          \/ d.default[s] \in {c.default[s], f} /\ Lendable(d.record[f])
  PROVE  Sound(d)
<1>1. Agrees(d)
  BY DEF Agrees
<1>2. \A g \in Fleets : d.record[g].named => d.record[g].status # "unknown"
  BY DEF Sound
<1>3. ASSUME NEW s \in Slots, d.default[s] # NoFleet
      PROVE  Lendable(d.record[d.default[s]])
  <2>1. d.default[s] \in Fleets
    BY <1>3 DEF CoordinatorType
  <2>2. CASE d.default[s] = f
    BY <2>2
  <2>3. CASE d.default[s] # f
    BY <1>3, <2>1, <2>3 DEF Sound
  <2>4. QED
    BY <2>2, <2>3
<1>4. QED
  BY <1>1, <1>2, <1>3 DEF Sound

LEMMA RestoreIsSound ==
  ASSUME NEW c, Sound(c), NEW f \in Fleets, NEW g \in Nat \ {0}, NEW s \in Slots \cup {NoSlot},
         NEW status \in {"active", "missing"}, ~RestoreRaises(c, f), Known(f)
  PROVE  /\ Sound(Restore(c, f, g, s, status)) /\ Follows(c, Restore(c, f, g, s, status), s)
         /\ Restore(c, f, g, s, status).bound = f
<1> DEFINE d == Restore(c, f, g, s, status)
           t == [c.record[f] EXCEPT !.slot = s, !.named = TRUE, !.isolated = TRUE,
                                    !.admitted = TRUE, !.status = status]
<1>0. c \in CoordinatorType /\ c.record[f] \in FleetRecord
  BY DEF Sound, CoordinatorType
<1>1. /\ t \in FleetRecord /\ t.named /\ t.isolated /\ t.status # "unknown" /\ t.slot = s
  BY <1>0 DEF FleetRecord
<1>2. d = [c EXCEPT !.record = [c.record EXCEPT ![f] = t], !.bound = f, !.generation = g,
                    !.default = Forget(c.default, f)]
  BY <1>0 DEF Restore, CoordinatorType
<1>3. /\ d.record = [c.record EXCEPT ![f] = t] /\ d.bound = f
      /\ d.default = Forget(c.default, f)
  <2> HIDE DEF d, t
  <2> QED
    BY <1>0, <1>2 DEF CoordinatorType
<1>4. c.default \in [Slots -> Fleets \cup {NoFleet}] /\ c.record \in [Fleets -> FleetRecord]
  BY <1>0 DEF CoordinatorType
<1>5. d \in CoordinatorType
  <2> HIDE DEF d, t
  <2>1. Forget(c.default, f) \in [Slots -> Fleets \cup {NoFleet}]
    BY <1>4, ForgetFacts
  <2>2. [c.record EXCEPT ![f] = t] \in [Fleets -> FleetRecord]
    BY <1>1, <1>4
  <2>3. QED
    BY <1>0, <1>2, <2>1, <2>2 DEF CoordinatorType
<1> HIDE DEF d, t
<1>6. d.record[f] = t /\ \A h \in Fleets \ {f} : d.record[h] = c.record[h]
  BY <1>1, <1>3, <1>4
<1>7. \A h \in Fleets \ {f} : c.record[h].named <=> d.bound = h
  BY <1>3, AbsentAssumption DEF RestoreRaises, Sound, Agrees
<1>8. \A u \in Slots : d.default[u] \in {c.default[u], NoFleet} /\ d.default[u] # f
  BY <1>3, <1>4, ForgetFacts
<1>9. Sound(d)
  <2>1. d.record[f].named => d.record[f].status # "unknown"
    BY <1>1, <1>6
  <2>2. d.record[f].named <=> d.bound = f
    BY <1>1, <1>3, <1>6
  <2>3. QED
    BY <1>5, <1>6, <1>7, <1>8, <2>1, <2>2, WriteIsSound
<1>10. Follows(c, d, s)
  BY <1>1, <1>3, <1>6 DEF Follows, RestoreRaises
<1>11. QED
  BY <1>3, <1>9, <1>10 DEF d

LEMMA BindIsSound ==
  ASSUME NEW c, Sound(c), NEW f \in Fleets, NEW named \in BOOLEAN, NEW isolate \in BOOLEAN,
         NEW s \in Slots, NEW owner \in Slots \cup {NoSlot}, Bindable(c, f, named)
  PROVE  /\ Sound(Bind(c, f, named, isolate, s, owner))
         /\ Bind(c, f, named, isolate, s, owner).bound = IF named THEN f ELSE c.bound
         /\ Bind(c, f, named, isolate, s, owner).record[f].slot = owner
         /\ c.record[f].isolated => Bind(c, f, named, isolate, s, owner).record[f].isolated
         /\ \A h \in Fleets \ {f} : Bind(c, f, named, isolate, s, owner).record[h] = c.record[h]
<1> DEFINE d == Bind(c, f, named, isolate, s, owner)
           isolated == c.record[f].isolated \/ isolate
           t == [status |-> "active", slot |-> owner, named |-> c.record[f].named \/ named,
                 isolated |-> isolated, retired |-> c.record[f].retired, admitted |-> TRUE]
           D == IF named \/ isolated THEN Forget(c.default, f) ELSE [c.default EXCEPT ![s] = f]
           b == IF named THEN f ELSE c.bound
<1>0. c \in CoordinatorType /\ c.record[f] \in FleetRecord
  BY DEF Sound, CoordinatorType
<1>1. /\ t \in FleetRecord /\ t.status # "unknown" /\ t.slot = owner
      /\ t.named = (c.record[f].named \/ named) /\ t.isolated = isolated /\ t.retired = c.record[f].retired
  <2>1. (c.record[f].named \/ named) \in BOOLEAN /\ isolated \in BOOLEAN /\ c.record[f].retired \in BOOLEAN
    BY <1>0 DEF FleetRecord
  <2>2. QED
    BY <2>1 DEF FleetRecord
<1>2. d = [c EXCEPT !.record = [c.record EXCEPT ![f] = t], !.bound = b, !.default = D]
  BY <1>0 DEF Bind, CoordinatorType
<1>3. d.record = [c.record EXCEPT ![f] = t] /\ d.bound = b /\ d.default = D
  <2> HIDE DEF d, t, D, b
  <2> QED
    BY <1>0, <1>2 DEF CoordinatorType
<1>4. c.default \in [Slots -> Fleets \cup {NoFleet}] /\ c.record \in [Fleets -> FleetRecord]
  BY <1>0 DEF CoordinatorType
<1>5. d \in CoordinatorType
  <2>1. D \in [Slots -> Fleets \cup {NoFleet}]
    BY <1>4, ForgetFacts
  <2>2. b \in Fleets \cup {NoFleet}
    BY <1>0 DEF CoordinatorType
  <2> HIDE DEF d, t, D, b
  <2>3. [c.record EXCEPT ![f] = t] \in [Fleets -> FleetRecord]
    BY <1>1, <1>4
  <2>4. QED
    BY ONLY <1>0, <1>2, <2>1, <2>2, <2>3 DEF CoordinatorType
<1>6. d.record[f] = t /\ \A h \in Fleets \ {f} : d.record[h] = c.record[h]
  <2> HIDE DEF d, t
  <2> QED
    BY <1>1, <1>3, <1>4
<1>7. /\ \A h \in Fleets \ {f} : c.record[h].named <=> b = h
      /\ t.named <=> b = f
  <2>1. CASE named
    BY <1>1, <2>1, AbsentAssumption DEF Bindable, Sound, Agrees
  <2>2. CASE ~named
    BY <1>1, <2>2 DEF Bindable, Sound, Agrees
  <2>3. QED
    BY <2>1, <2>2
<1>8. \A u \in Slots : \/ D[u] \in {c.default[u], NoFleet} /\ D[u] # f
                       \/ D[u] \in {c.default[u], f} /\ Lendable(t)
  <2>1. CASE named \/ isolated
    BY <1>4, <2>1, ForgetFacts
  <2>2. CASE ~(named \/ isolated)
    <3>1. Lendable(t)
      BY <1>1, <2>2 DEF Lendable, Bindable
    <3>2. D = [c.default EXCEPT ![s] = f]
      BY <2>2
    <3>3. QED
      BY <1>4, <3>1, <3>2
  <2>3. QED
    BY <2>1, <2>2
<1>9. Sound(d)
  <2> HIDE DEF d, t, D, b
  <2>1. d.record[f].named => d.record[f].status # "unknown"
    BY <1>1, <1>6
  <2>2. d.record[f].named <=> d.bound = f
    BY <1>3, <1>6, <1>7
  <2>3. \A h \in Fleets \ {f} : c.record[h].named <=> d.bound = h
    BY <1>3, <1>7
  <2>4. \A u \in Slots : \/ d.default[u] \in {c.default[u], NoFleet} /\ d.default[u] # f
                         \/ d.default[u] \in {c.default[u], f} /\ Lendable(d.record[f])
    BY <1>3, <1>6, <1>8
  <2>5. QED
    BY <1>5, <1>6, <2>1, <2>2, <2>3, <2>4, WriteIsSound
<1>10. QED
  BY <1>1, <1>3, <1>6, <1>9

LEMMA ReleaseIsSound ==
  ASSUME NEW c, Sound(c), c.bound # NoFleet
  PROVE  /\ Sound(ReleaseBinding(c)) /\ ReleaseBinding(c).bound = NoFleet
         /\ \A f \in Fleets : /\ ReleaseBinding(c).record[f].admitted = c.record[f].admitted
                              /\ ReleaseBinding(c).record[f].isolated = c.record[f].isolated
                              /\ ReleaseBinding(c).record[f].slot = c.record[f].slot
<1> DEFINE f == c.bound
           t == [c.record[f] EXCEPT !.named = FALSE, !.retired = TRUE, !.status = "released"]
           d == ReleaseBinding(c)
<1>0. c \in CoordinatorType /\ f \in Fleets
  BY DEF Sound, CoordinatorType
<1>1. c.default \in [Slots -> Fleets \cup {NoFleet}] /\ c.record \in [Fleets -> FleetRecord]
  BY <1>0 DEF CoordinatorType
<1>2. c.record[f].named /\ c.record[f].status # "unknown"
  BY <1>0 DEF Sound, Agrees
<1>3. c.generation + 1 \in Nat \ {0}
  BY <1>0 DEF CoordinatorType
<1>4. d = [c EXCEPT !.bound = NoFleet, !.generation = c.generation + 1,
                    !.record = [c.record EXCEPT ![f] = t], !.default = Forget(c.default, f)]
  <2>1. c.record[c.bound].status # "unknown"
    BY <1>2
  <2>2. QED
    BY <2>1 DEF ReleaseBinding, NextGeneration
<1>5. /\ t \in FleetRecord /\ ~t.named /\ t.isolated = c.record[f].isolated
      /\ t.slot = c.record[f].slot /\ t.admitted = c.record[f].admitted
  <2>1. c.record[f] \in FleetRecord
    BY <1>0, <1>1
  <2> HIDE DEF f
  <2>2. QED
    BY <2>1 DEF FleetRecord
<1>6. /\ d.record = [c.record EXCEPT ![f] = t] /\ d.bound = NoFleet
      /\ d.default = Forget(c.default, f) /\ d \in CoordinatorType
  <2>1. Forget(c.default, f) \in [Slots -> Fleets \cup {NoFleet}]
    BY <1>0, <1>1, ForgetFacts
  <2> HIDE DEF d, t, f
  <2>2. [c.record EXCEPT ![f] = t] \in [Fleets -> FleetRecord]
    BY <1>1, <1>5
  <2>3. QED
    BY <1>0, <1>3, <1>4, <2>1, <2>2 DEF CoordinatorType
<1>7. d.record[f] = t /\ \A h \in Fleets \ {f} : d.record[h] = c.record[h]
  <2> HIDE DEF d, t, f
  <2> QED
    BY <1>0, <1>1, <1>5, <1>6
<1>8. \A h \in Fleets \ {f} : c.record[h].named <=> d.bound = h
  BY <1>0, <1>6, AbsentAssumption DEF Sound, Agrees
<1>9. \A u \in Slots : d.default[u] \in {c.default[u], NoFleet} /\ d.default[u] # f
  BY <1>0, <1>1, <1>6, ForgetFacts
<1>10. Sound(d)
  <2> HIDE DEF d, t, f
  <2>1. d.record[f].named => d.record[f].status # "unknown"
    BY <1>5, <1>7
  <2>2. d.record[f].named <=> d.bound = f
    <3>1. ~d.record[f].named
      BY <1>5, <1>7
    <3>2. d.bound # f
      BY <1>0, <1>6, AbsentAssumption
    <3>3. QED
      BY <3>1, <3>2
  <2>3. d \in CoordinatorType /\ f \in Fleets
    BY <1>0, <1>6
  <2>4. \A h \in Fleets \ {f} : d.record[h] = c.record[h]
    BY <1>7
  <2>5. \A u \in Slots : \/ d.default[u] \in {c.default[u], NoFleet} /\ d.default[u] # f
                         \/ d.default[u] \in {c.default[u], f} /\ Lendable(d.record[f])
    BY <1>9
  <2>6. QED
    BY <1>8, <2>1, <2>2, <2>3, <2>4, <2>5, WriteIsSound
<1>11. QED
  <2> HIDE DEF t, f
  <2> QED
    BY <1>5, <1>6, <1>7, <1>10

(* The row of the ledger, as far as Refresh needs it.                       *)
LedgerFine ==
  /\ ledger \in LedgerType
  /\ ledger.fleet # NoFleet => ledger.generation # 0 /\ Known(ledger.fleet)

LEMMA RefreshIsSound ==
  ASSUME LedgerFine, NEW c, Sound(c), NEW s \in Slots, NEW seen \in SUBSET Fleets
  PROVE  /\ Sound(Refresh(c, s, seen)) /\ Follows(c, Refresh(c, s, seen), ledger.owner)
<1> DEFINE o == Observe(c, s, seen)
<1>1. Sound(o) /\ Follows(c, o, ledger.owner) /\ o.bound = c.bound
  BY ObserveIsSound
<1>2. CASE Reclaims(s) /\ ~RestoreRaises(c, ledger.fleet)
  <2> DEFINE status == IF ledger.fleet \in seen THEN "active" ELSE "missing"
             d == Restore(o, ledger.fleet, ledger.generation, s, status)
  <2>1. Refresh(c, s, seen) = d
    BY <1>2 DEF Refresh
  <2>2. /\ ledger.fleet \in Fleets /\ ledger.generation \in Nat \ {0} /\ ledger.owner = s
        /\ Known(ledger.fleet) /\ s \in Slots \cup {NoSlot} /\ status \in {"active", "missing"}
    BY <1>2 DEF Reclaims, LedgerFine, LedgerType
  <2>3. ~RestoreRaises(o, ledger.fleet)
    BY <1>1, <1>2 DEF RestoreRaises
  <2> HIDE DEF o, status
  <2>4. Sound(d) /\ Follows(o, d, ledger.owner)
    BY <1>1, <2>2, <2>3, RestoreIsSound
  <2>5. Follows(c, d, ledger.owner)
    BY <1>1, <2>4, FollowsTwice
  <2>6. QED
    BY <2>1, <2>4, <2>5
<1>3. CASE ~(Reclaims(s) /\ ~RestoreRaises(c, ledger.fleet))
  BY <1>1, <1>3 DEF Refresh
<1>4. QED
  BY <1>2, <1>3

-----------------------------------------------------------------------------
(* What a Fleet, once known, and the inventories may become.                *)
Remembers ==
  /\ \A f \in Fleets : Known(f) => Known(f)'
  /\ \A s \in Slots : \A f \in view'[s] \cup registered'[s] : Known(f)'

(* A step that assigns, verifies and releases nothing.                      *)
LEMMA QuietStep ==
  ASSUME FleetInv, UNCHANGED <<assigned, ledger, releases>>, Remembers,
         Sound(coordinator'), Follows(coordinator, coordinator', ledger.owner)
  PROVE  Bindings' /\ OwnersStay
<1> USE DEF FleetInv, Bindings
<1>1. Counted'
  BY DEF Counted
<1>2. Epochs'
  BY DEF Epochs, Follows, Placed
<1>3. OneJarPerEpoch'
  BY DEF OneJarPerEpoch
<1>4. Handed'
  BY DEF Handed, Held, Follows
<1>5. Born'
  <2>1. \A f \in Fleets : coordinator'.record[f].admitted => Known(f)'
    BY DEF Born, Follows, Remembers
  <2>2. \A w \in Workers : assigned'[w].fleet # NoFleet => Known(assigned[w].fleet)'
    BY DEF Born, Remembers, FrameTypes, AssignmentType
  <2>3. ledger'.fleet # NoFleet => Known(ledger.fleet)'
    BY DEF Born, Remembers, FrameTypes, LedgerType
  <2>4. QED
    BY <2>1, <2>2, <2>3 DEF Born, Remembers
<1>6. OwnersStay
  BY DEF OwnersStay, Follows
<1>7. QED
  BY <1>1, <1>2, <1>3, <1>4, <1>5, <1>6

(* A step that releases the session.                                        *)
LEMMA ReleaseStep ==
  ASSUME FleetInv, UNCHANGED <<assigned, fate, view, registered>>, releases' = releases + 1,
         NEW c, Sound(c), Follows(coordinator, c, ledger.owner), c.bound # NoFleet,
         coordinator' = ReleaseBinding(c), NEW f, NEW g, ledger' = Stale(f, g)
  PROVE  Bindings' /\ OwnersStay /\ ledger' \in LedgerType
<1> USE DEF FleetInv, Bindings
<1>0. /\ ledger' \in LedgerType /\ ledger'.fleet = ledger.fleet
      /\ ledger'.generation = ledger.generation /\ ledger'.owner = ledger.owner
  BY DEF Stale, FrameTypes, LedgerType
<1>1. Sound(coordinator')
  BY ReleaseIsSound
<1>2. \A h \in Fleets : /\ coordinator'.record[h].admitted = c.record[h].admitted
                        /\ coordinator'.record[h].isolated = c.record[h].isolated
                        /\ coordinator'.record[h].slot = c.record[h].slot
  BY ReleaseIsSound
<1>3. Counted'
  BY <1>0 DEF Counted
<1>4. Epochs'
  <2>1. \A w \in Workers : assigned[w].named => assigned[w].epoch < releases'
    BY DEF Epochs, FrameTypes, AssignmentType
  <2>2. QED
    BY <2>1 DEF Epochs, FrameTypes, AssignmentType
<1>5. OneJarPerEpoch'
  BY DEF OneJarPerEpoch
<1>6. Handed'
  BY <1>2 DEF Handed, Held, Follows
<1>7. Born'
  BY <1>0, <1>2 DEF Born, Known, Follows
<1>8. OwnersStay
  BY <1>0, <1>2 DEF OwnersStay, Follows
<1>9. QED
  BY <1>0, <1>1, <1>3, <1>4, <1>5, <1>6, <1>7, <1>8

(* A step that gives a Fleet to a worker.                                   *)
LEMMA CommitStep ==
  ASSUME FleetInv, NEW w \in Workers, pc[w] \in Waiting, Remembers,
         NEW c, Sound(c), Follows(coordinator, c, ledger.owner),
         NEW f \in Fleets, NEW isolate \in BOOLEAN, NEW owner \in Slots \cup {NoSlot},
         coordinator.record[f].admitted => owner \in {coordinator.record[f].slot, ledger.owner},
         Known(f)', Commit(w, c, f, isolate, owner)
  PROVE  Bindings' /\ OwnersStay
<1> USE DEF FleetInv, Bindings
<1>0. at[w] \in Slots /\ assigned[w].fleet = NoFleet
  BY DEF Placed
<1>1. /\ Bindable(c, f, Named(w)) /\ Named(w) \in BOOLEAN
      /\ coordinator' = Bind(c, f, Named(w), isolate, at[w], owner)
      /\ UNCHANGED <<ledger, releases>>
  BY DEF Commit, Named
<1>2. /\ Sound(coordinator')
      /\ coordinator'.bound = IF Named(w) THEN f ELSE c.bound
      /\ coordinator'.record[f].slot = owner
      /\ \A h \in Fleets \ {f} : coordinator'.record[h] = c.record[h]
  BY <1>0, <1>1, BindIsSound
<1>3. /\ assigned'[w].fleet = f /\ assigned'[w].named = Named(w) /\ assigned'[w].epoch = releases
      /\ \A v \in Workers \ {w} : assigned'[v] = assigned[v]
  BY DEF Commit, FrameTypes
<1>4. Counted'
  BY <1>1 DEF Counted
<1>5. \A v \in Workers \ {w} : assigned[v].named /\ assigned[v].epoch = releases
        => c.bound = assigned[v].fleet /\ coordinator'.bound = assigned[v].fleet /\ (Named(w) => assigned[v].fleet = f)
  BY <1>1, <1>2 DEF Epochs, Placed, Follows, Bindable
<1>6. Epochs'
  BY <1>1, <1>2, <1>3, <1>5 DEF Epochs, FrameTypes
<1>7. OneJarPerEpoch'
  BY <1>3, <1>5 DEF OneJarPerEpoch
<1>8. Handed'
  <2>1. ASSUME NEW h \in Fleets, coordinator'.record[h].admitted, ~coordinator'.record[h].isolated, h # f
        PROVE  \E v \in Workers : assigned'[v].fleet = h
    <3>1. \E v \in Workers : assigned[v].fleet = h
      BY <1>2, <2>1 DEF Handed, Held, Follows
    <3>2. QED
      BY <1>0, <1>3, <3>1, AbsentAssumption
  <2>2. QED
    BY <1>3, <2>1 DEF Handed, Held
<1>9. Born'
  <2>1. \A h \in Fleets : coordinator'.record[h].admitted => Known(h)'
    BY <1>2 DEF Born, Follows, Remembers
  <2>2. \A v \in Workers : assigned'[v].fleet # NoFleet => Known(assigned[v].fleet)'
    <3>1. \A v \in Workers : assigned[v].fleet \in Fleets \cup {NoFleet}
      BY DEF FrameTypes, AssignmentType
    <3>2. QED
      BY <1>3, <3>1 DEF Born, Remembers, Known
  <2>3. ledger'.fleet # NoFleet => Known(ledger.fleet)'
    BY <1>1 DEF Born, Remembers, FrameTypes, LedgerType
  <2>4. QED
    BY <2>1, <2>2, <2>3 DEF Born, Remembers
<1>10. OwnersStay
  BY <1>1, <1>2 DEF OwnersStay, Follows
<1>11. QED
  BY <1>2, <1>4, <1>6, <1>7, <1>8, <1>9, <1>10

(* A worker reports that its login was verified.                            *)
LEMMA VerifiedStep ==
  ASSUME FleetInv, NEW w \in Workers, Verified(w)
  PROVE  Bindings' /\ OwnersStay /\ ledger' \in LedgerType
<1> USE DEF FleetInv, Bindings
<1> DEFINE a == assigned[w]
<1>0. /\ a \in AssignmentType /\ a.named /\ a.fleet \in Fleets /\ a.generation \in Nat \ {0}
      /\ a.owner \in Slots \cup {NoSlot} /\ Known(a.fleet)
  BY DEF Verified, FrameTypes, AssignmentType, Placed, Known
<1>1. /\ ledger' = [fleet |-> a.fleet, generation |-> a.generation, owner |-> a.owner, stale |-> FALSE]
      /\ UNCHANGED <<assigned, releases, fate, view, registered>>
      /\ coordinator' = IF RestoreRaises(coordinator, a.fleet) THEN coordinator
                        ELSE Restore(coordinator, a.fleet, a.generation, a.owner, "active")
  BY DEF Verified, slotVars
<1> HIDE DEF a
<1>2. ledger' \in LedgerType /\ ledger'.owner = a.owner /\ ledger'.fleet = a.fleet
  BY <1>0, <1>1 DEF LedgerType
<1>3. Sound(coordinator') /\ Follows(coordinator, coordinator', a.owner)
  <2>1. CASE RestoreRaises(coordinator, a.fleet)
    BY <1>1, <2>1, FollowsStay
  <2>2. CASE ~RestoreRaises(coordinator, a.fleet)
    BY <1>0, <1>1, <2>2, RestoreIsSound
  <2>3. QED
    BY <2>1, <2>2
<1>4. Counted'
  BY <1>0, <1>1 DEF Counted
<1>5. Epochs'
  BY <1>1, <1>3 DEF Epochs, Follows, Placed
<1>6. OneJarPerEpoch'
  BY <1>1 DEF OneJarPerEpoch
<1>7. Handed'
  BY <1>1, <1>3 DEF Handed, Held, Follows
<1>8. Born'
  BY <1>0, <1>1, <1>2, <1>3 DEF Born, Known, Follows
<1>9. OwnersStay
  BY <1>2, <1>3 DEF OwnersStay, Follows
<1>10. QED
  BY <1>2, <1>3, <1>4, <1>5, <1>6, <1>7, <1>8, <1>9

-----------------------------------------------------------------------------
(* The coordinator after a refresh.                                         *)
LEMMA RefreshHere ==
  ASSUME FleetInv, NEW s \in Slots, NEW seen \in SUBSET Fleets
  PROVE  /\ Sound(Refresh(coordinator, s, seen))
         /\ Follows(coordinator, Refresh(coordinator, s, seen), ledger.owner)
         /\ \A f \in seen : coordinator.record[f].admitted =>
              Refresh(coordinator, s, seen).record[f].slot \in {coordinator.record[f].slot, ledger.owner}
<1> DEFINE c == coordinator
           o == Observe(c, s, seen)
           d == Refresh(c, s, seen)
<1>1. Sound(c) /\ LedgerFine
  BY DEF FleetInv, Bindings, FrameTypes, LedgerFine, Counted, Born
<1>2. Sound(d) /\ Follows(c, d, ledger.owner)
  BY <1>1, RefreshIsSound
<1>3. ASSUME NEW f \in seen, c.record[f].admitted
      PROVE  d.record[f].slot \in {c.record[f].slot, ledger.owner}
  <2>0. c \in CoordinatorType /\ f \in Fleets /\ c.record[f] \in FleetRecord
    BY <1>1 DEF Sound, CoordinatorType
  <2>1. o.record[f] = Sight(c.record[f], s)
    BY <2>0 DEF Observe, CoordinatorType
  <2>2. o.record[f].admitted
    BY <1>3, <2>0, <2>1, SightFacts
  <2>3. o.record[f].slot = c.record[f].slot
    BY <1>3, <2>0, <2>1, SightFacts
  <2>4. CASE Reclaims(s) /\ ~RestoreRaises(c, ledger.fleet)
    <3> DEFINE g == ledger.fleet
               t == [o.record[g] EXCEPT !.slot = s, !.named = TRUE, !.isolated = TRUE, !.admitted = TRUE,
                                        !.status = IF g \in seen THEN "active" ELSE "missing"]
    <3>0. Sound(o) /\ g \in Fleets /\ o \in CoordinatorType
      <4>1. Sound(o)
        BY <1>1, ObserveIsSound
      <4> HIDE DEF o
      <4>2. QED
        BY <1>1, <2>4, <4>1 DEF Sound, Reclaims, LedgerFine, LedgerType
    <3>1. d.record = [o.record EXCEPT ![g] = t]
      <4>1. d = Restore(o, g, ledger.generation, s, IF g \in seen THEN "active" ELSE "missing")
        BY <2>4 DEF Refresh
      <4> HIDE DEF o, d, g
      <4>2. QED
        BY <3>0, <4>1 DEF Restore, CoordinatorType
    <3>2. t.slot = s /\ ledger.owner = s
      BY <2>4, <3>0 DEF Reclaims, CoordinatorType, FleetRecord
    <3> HIDE DEF o, t, g, d
    <3>3. CASE f = g
      BY <3>0, <3>1, <3>2, <3>3 DEF CoordinatorType
    <3>4. CASE f # g
      BY <2>0, <2>3, <3>0, <3>1, <3>4 DEF CoordinatorType
    <3>5. QED
      BY <3>3, <3>4
  <2>5. CASE ~(Reclaims(s) /\ ~RestoreRaises(c, ledger.fleet))
    BY <2>3, <2>5 DEF Refresh
  <2>6. QED
    BY <2>4, <2>5
<1>4. QED
  BY <1>2, <1>3

LEMMA RereadHere ==
  ASSUME FleetInv, NEW w \in Workers, at[w] \in Slots, NEW seen \in SUBSET Fleets, NEW answered \in BOOLEAN
  PROVE  /\ Sound(Reread(w, seen, answered))
         /\ Follows(coordinator, Reread(w, seen, answered), ledger.owner)
         /\ \A f \in seen : coordinator.record[f].admitted =>
              Reread(w, seen, answered).record[f].slot \in {coordinator.record[f].slot, ledger.owner}
<1> DEFINE o == Refresh(coordinator, at[w], seen)
<1>1. /\ Sound(o) /\ Follows(coordinator, o, ledger.owner)
      /\ \A f \in seen : coordinator.record[f].admitted =>
           o.record[f].slot \in {coordinator.record[f].slot, ledger.owner}
  BY RefreshHere
<1>2. CASE answered
  <2>1. Reread(w, seen, answered) = Reconcile(o, seen)
    BY <1>2 DEF Reread
  <2> HIDE DEF o
  <2>2. /\ Sound(Reconcile(o, seen)) /\ Follows(o, Reconcile(o, seen), ledger.owner)
        /\ Reconcile(o, seen).bound = o.bound
    BY <1>1, ReconcileIsSound
  <2>3. \A f \in seen : Reconcile(o, seen).record[f] = o.record[f]
    BY <1>1 DEF Reconcile, Sound, CoordinatorType
  <2>4. Follows(coordinator, Reconcile(o, seen), ledger.owner)
    BY <1>1, <2>2, FollowsTwice
  <2>5. QED
    BY <1>1, <2>1, <2>2, <2>3, <2>4
<1>3. CASE ~answered
  BY <1>1, <1>3 DEF Reread
<1>4. QED
  BY <1>2, <1>3

-----------------------------------------------------------------------------
(* The invariant holds at first and in every step.                          *)
LEMMA InitHolds == Init => FleetInv
<1> SUFFICES ASSUME Init
             PROVE  FleetInv
  OBVIOUS
<1>1. /\ coordinator.record = [f \in Fleets |-> NoRecord] /\ coordinator.bound = NoFleet
      /\ coordinator.default = [s \in Slots |-> NoFleet] /\ coordinator \in CoordinatorType
  BY RecordFacts DEF Init, CoordinatorType
<1>2. Sound(coordinator)
  BY <1>1, RecordFacts, AbsentAssumption DEF Sound, Agrees
<1>3. NoAssignment \in AssignmentType /\ NoAssignment.fleet = NoFleet /\ ~NoAssignment.named
  BY DEF NoAssignment, AssignmentType
<1>4. ledger \in LedgerType /\ Counted
  <2>1. CASE ledger = NoRow
    BY <2>1 DEF LedgerType, NoRow, Counted
  <2>2. CASE \E f \in Fleets, s \in Slots :
               ledger = [fleet |-> f, generation |-> 1, owner |-> s, stale |-> FALSE]
    BY <2>2 DEF LedgerType, Counted
  <2>3. QED
    BY <2>1, <2>2 DEF Init
<1>5. SlotTypes /\ SpawnTypes
  BY DEF Init, SlotTypes, SpawnTypes, Phases, NoRequest, Kinds
<1>6. FrameTypes
  BY <1>3, <1>4, <1>5, LimitsAssumption DEF Init, FrameTypes
<1>7. Placed
  BY <1>3 DEF Init, Placed, Waiting
<1>8. Epochs /\ OneJarPerEpoch
  BY <1>3 DEF Init, Epochs, OneJarPerEpoch
<1>9. Handed
  BY <1>1, RecordFacts DEF Handed
<1>10. Born
  <2>1. ledger.fleet # NoFleet => Known(ledger.fleet)
    BY DEF Init, NoRow, Known
  <2>2. QED
    BY <1>1, <1>3, <2>1, RecordFacts DEF Init, Born
<1>11. QED
  BY <1>2, <1>4, <1>6, <1>7, <1>8, <1>9, <1>10 DEF FleetInv, Bindings

(* A spawn ends: what the shared parts of several actions leave.            *)
LEMMA EndedFrame ==
  ASSUME FleetInv, NEW w \in Workers, at[w] \in Slots, Ended(w), Unlock(w),
         Refused(w) \/ UNCHANGED <<at, request>>
  PROVE  /\ SpawnTypes'
         /\ slot' \in [Slots -> {"absent", "starting", "idle", "busy", "broken", "gone"}]
         /\ UNCHANGED assigned => Placed'
<1> USE DEF FleetInv, FrameTypes
<1>1. pc' = [pc EXCEPT ![w] = "done"] /\ slot' = [slot EXCEPT ![at[w]] = "idle"]
  BY DEF Ended
<1>2. lock' \in Workers \cup {NoWorker} /\ first' \in Workers \cup {NoWorker} /\ committed' \in BOOLEAN
  BY DEF Unlock, Without, SpawnTypes
<1>3. at' \in [Workers -> Slots \cup {NoSlot}] /\ \A v \in Workers \ {w} : at'[v] = at[v]
  BY DEF Refused, SpawnTypes
<1>4. request' \in [Workers -> [kind : Kinds, source : Workers \cup {NoWorker}]]
  BY DEF Refused, SpawnTypes, NoRequest, Kinds
<1>5. pc' \in [Workers -> Phases] /\ pc'[w] = "done" /\ \A v \in Workers \ {w} : pc'[v] = pc[v]
  BY <1>1 DEF SpawnTypes, Phases
<1>6. UNCHANGED assigned => Placed'
  BY <1>3, <1>5 DEF Placed, Waiting
<1>7. QED
  BY <1>1, <1>2, <1>3, <1>4, <1>5, <1>6 DEF SpawnTypes, SlotTypes

(* A spawn goes on to a phase that needs no more than its slot.             *)
LEMMA AdvanceFrame ==
  ASSUME FleetInv, NEW w \in Workers, NEW p \in Waiting, pc[w] \in Waiting,
         pc' = [pc EXCEPT ![w] = p], UNCHANGED <<at, assigned>>
  PROVE  pc' \in [Workers -> Phases] /\ Placed'
<1> USE DEF FleetInv, FrameTypes
<1>1. pc' \in [Workers -> Phases] /\ pc'[w] = p /\ \A v \in Workers \ {w} : pc'[v] = pc[v]
  BY DEF SpawnTypes, Phases
<1>2. QED
  BY <1>1 DEF Placed, Waiting

LEMMA CommitFrame ==
  ASSUME FleetInv, NEW w \in Workers, pc[w] \in Waiting, NEW c \in CoordinatorType,
         NEW f \in Fleets, NEW isolate, NEW owner \in Slots \cup {NoSlot}, Commit(w, c, f, isolate, owner),
         fate' \in [Fleets -> {"unborn", "live", "dead"}], view' \in [Slots -> SUBSET Fleets]
  PROVE  FrameTypes' /\ Placed'
<1> USE DEF FleetInv, FrameTypes
<1> DEFINE a == [fleet |-> f, named |-> Named(w), generation |-> IF Named(w) THEN c.generation ELSE 0,
                 owner |-> owner, epoch |-> releases]
<1>0. at[w] \in Slots
  BY DEF Placed
<1>1. a \in AssignmentType /\ a.fleet # NoFleet /\ (a.named => a.generation # 0)
  <2>1. Named(w) \in BOOLEAN
    BY DEF Named
  <2>2. c.generation \in Nat \ {0} /\ releases \in Nat
    BY LimitsAssumption DEF CoordinatorType
  <2>3. QED
    BY <2>1, <2>2, AbsentAssumption DEF AssignmentType
<1>2. assigned' = [assigned EXCEPT ![w] = a] /\ UNCHANGED <<ledger, at, registered, committed, releases>>
  BY DEF Commit
<1> HIDE DEF a
<1>3. /\ assigned' \in [Workers -> AssignmentType] /\ assigned'[w] = a
      /\ \A v \in Workers \ {w} : assigned'[v] = assigned[v]
  BY <1>1, <1>2
<1>4. lock' \in Workers \cup {NoWorker} /\ first' \in Workers \cup {NoWorker}
  BY DEF Commit, Without, Claim, SpawnTypes
<1>5. request' \in [Workers -> [kind : Kinds, source : Workers \cup {NoWorker}]]
  BY DEF Commit, SpawnTypes, NoRequest, Kinds
<1>6. /\ pc' = [pc EXCEPT ![w] = "readying"] \/ pc' = [pc EXCEPT ![w] = "done"]
      /\ slot' \in [Slots -> {"absent", "starting", "idle", "busy", "broken", "gone"}]
  BY <1>0 DEF Commit, Ended, SlotTypes
<1>7. pc' \in [Workers -> Phases] /\ pc'[w] \in {"readying", "done"} /\ \A v \in Workers \ {w} : pc'[v] = pc[v]
  BY <1>6 DEF SpawnTypes, Phases
<1>8. Placed'
  BY <1>0, <1>1, <1>2, <1>3, <1>7 DEF Placed, Waiting
<1>9. SlotTypes' /\ SpawnTypes'
  BY <1>2, <1>4, <1>5, <1>6, <1>7 DEF SlotTypes, SpawnTypes
<1>10. QED
  BY <1>2, <1>3, <1>8, <1>9

(* The lock's holder takes a Fleet its slot has seen.                       *)
LEMMA ViewCommit ==
  ASSUME FleetInv, NEW w \in Workers, Decides(w), NEW f \in view[at[w]], NEW isolate \in BOOLEAN,
         Commit(w, Refreshed(w), f, isolate, Refreshed(w).record[f].slot), UNCHANGED <<fate, view>>
  PROVE  FleetInv' /\ OwnersStay
<1> DEFINE c == Refreshed(w)
           owner == c.record[f].slot
<1>0. /\ at[w] \in Slots /\ view[at[w]] \in SUBSET Fleets /\ pc[w] \in Waiting /\ UNCHANGED registered
      /\ SlotTypes
  BY DEF FleetInv, FrameTypes, Placed, Decides, Waiting, SlotTypes, Commit
<1>1. /\ Sound(c) /\ Follows(coordinator, c, ledger.owner)
      /\ coordinator.record[f].admitted => owner \in {coordinator.record[f].slot, ledger.owner}
  BY <1>0, RefreshHere DEF Refreshed
<1>2. f \in Fleets /\ c \in CoordinatorType /\ owner \in Slots \cup {NoSlot}
  BY <1>0, <1>1 DEF Sound, CoordinatorType, FleetRecord
<1>3. Remembers /\ Known(f)'
  BY <1>0 DEF Remembers, Known, FleetInv, Bindings, Born
<1> HIDE DEF c
<1>4. Commit(w, c, f, isolate, owner)
  BY DEF c
<1> HIDE DEF owner
<1>5. Bindings' /\ OwnersStay
  BY <1>0, <1>1, <1>2, <1>3, <1>4, CommitStep
<1>6. FrameTypes' /\ Placed'
  BY <1>0, <1>2, <1>4, CommitFrame DEF SlotTypes
<1>7. QED
  BY <1>5, <1>6 DEF FleetInv

LEMMA AssignHolds ==
  ASSUME FleetInv, NEW w \in Workers,
         \/ AssignReferenced(w) \/ AssignSimilar(w) \/ AssignSession(w)
         \/ AssignSource(w) \/ AssignShared(w) \/ CapReuse(w)
  PROVE  FleetInv' /\ OwnersStay
<1>1. PICK f \in view[at[w]], isolate \in BOOLEAN :
        /\ Decides(w) /\ UNCHANGED <<fate, view>>
        /\ Commit(w, Refreshed(w), f, isolate, Refreshed(w).record[f].slot)
  <2>1. CASE AssignReferenced(w)
    BY <2>1 DEF AssignReferenced
  <2>2. CASE AssignSimilar(w)
    <3>1. Isolates(w) \in BOOLEAN
      BY DEF Isolates
    <3>2. QED
      BY <2>2, <3>1 DEF AssignSimilar
  <2>3. CASE AssignSession(w)
    BY <2>3 DEF AssignSession, Available
  <2>4. CASE AssignSource(w)
    BY <2>4 DEF AssignSource, Available
  <2>5. CASE AssignShared(w)
    BY <2>5 DEF AssignShared
  <2>6. CASE CapReuse(w)
    BY <2>6 DEF CapReuse, Lends
  <2>7. QED
    BY <2>1, <2>2, <2>3, <2>4, <2>5, <2>6
<1>2. QED
  BY <1>1, ViewCommit

LEMMA CapRereadHolds ==
  ASSUME FleetInv, NEW w \in Workers, CapReread(w)
  PROVE  FleetInv' /\ OwnersStay
<1>1. PICK answered \in BOOLEAN, f \in Fleets :
        /\ Lends(w, Reread(w, Answer(w, answered), answered), Answer(w, answered), f)
        /\ view' = [view EXCEPT ![at[w]] = Answer(w, answered)]
        /\ Commit(w, Reread(w, Answer(w, answered), answered), f, FALSE,
                  Reread(w, Answer(w, answered), answered).record[f].slot)
  BY DEF CapReread
<1> DEFINE seen == Answer(w, answered)
           c == Reread(w, seen, answered)
           owner == c.record[f].slot
<1>0. /\ at[w] \in Slots /\ pc[w] \in Waiting /\ UNCHANGED <<fate, registered>> /\ SlotTypes
      /\ view[at[w]] \in SUBSET Fleets
  BY <1>1 DEF FleetInv, FrameTypes, Placed, CapReread, Rereads, Waiting, SlotTypes, Commit
<1>2. seen \in SUBSET Fleets /\ (\A g \in seen : Known(g)) /\ f \in seen
  BY <1>0, <1>1 DEF Answer, Live, Known, FleetInv, Bindings, Born, Lends
<1>3. /\ Sound(c) /\ Follows(coordinator, c, ledger.owner)
      /\ coordinator.record[f].admitted => owner \in {coordinator.record[f].slot, ledger.owner}
  BY <1>0, <1>2, RereadHere
<1>4. c \in CoordinatorType /\ owner \in Slots \cup {NoSlot}
  BY <1>3 DEF Sound, CoordinatorType, FleetRecord
<1>5. view' \in [Slots -> SUBSET Fleets]
  BY <1>0, <1>1, <1>2 DEF SlotTypes
<1>6. Remembers /\ Known(f)'
  <2>1. \A g \in Fleets : Known(g)' = Known(g)
    BY <1>0 DEF Known
  <2> HIDE DEF seen
  <2>2. \A s \in Slots : view'[s] = IF s = at[w] THEN seen ELSE view[s]
    BY <1>0, <1>1 DEF seen, SlotTypes
  <2>3. QED
    BY <1>0, <1>2, <2>1, <2>2 DEF Remembers, FleetInv, Bindings, Born, SlotTypes
<1>7. Commit(w, c, f, FALSE, owner)
  BY <1>1
<1> HIDE DEF seen, c, owner
<1>8. Bindings' /\ OwnersStay
  BY <1>0, <1>3, <1>4, <1>6, <1>7, CommitStep
<1>9. FrameTypes' /\ Placed'
  BY <1>0, <1>4, <1>5, <1>7, CommitFrame DEF SlotTypes
<1>10. QED
  BY <1>8, <1>9 DEF FleetInv

(* Fleet.create answers with a Fleet nobody has heard of.                   *)
LEMMA CreateHolds ==
  ASSUME FleetInv, NEW w \in Workers, Create(w)
  PROVE  FleetInv' /\ OwnersStay
<1> DEFINE Bound(f, isolate) == Commit(w, coordinator, f, isolate, at[w])
           Dropped == /\ Ended(w) /\ Unlock(w) /\ Refused(w)
                      /\ UNCHANGED <<coordinator, assigned, ledger, registered, releases>>
<1>1. PICK f \in Fleets :
        /\ fate[f] = "unborn" /\ fate' = [fate EXCEPT ![f] = "live"]
        /\ view' = [view EXCEPT ![at[w]] = @ \cup {f}]
        /\ Dropped \/ \E isolate \in BOOLEAN : Bound(f, isolate)
  <2>1. Isolates(w) \in BOOLEAN
    BY DEF Isolates
  <2>2. QED
    BY <2>1 DEF Create
<1>0. /\ pc[w] = "creating" /\ pc[w] \in Waiting /\ at[w] \in Slots /\ SlotTypes
      /\ Sound(coordinator) /\ coordinator \in CoordinatorType
  BY DEF FleetInv, FrameTypes, Placed, Create, Waiting, Bindings, Sound
<1>2. /\ fate' \in [Fleets -> {"unborn", "live", "dead"}] /\ view' \in [Slots -> SUBSET Fleets]
      /\ Known(f)' /\ \A g \in Fleets : Known(g) => Known(g)'
      /\ \A s \in Slots : view'[s] \in SUBSET (view[s] \cup {f})
  BY <1>0, <1>1 DEF SlotTypes, Known
<1>3. Follows(coordinator, coordinator, ledger.owner)
  BY FollowsStay
<1>4. Remembers
  <2>1. UNCHANGED registered
    BY <1>1 DEF Commit
  <2>2. QED
    BY <1>0, <1>2, <2>1 DEF Remembers, FleetInv, Bindings, Born, SlotTypes
<1>5. ~coordinator.record[f].admitted
  BY <1>1 DEF FleetInv, Bindings, Born, Known
<1>6. ASSUME NEW isolate \in BOOLEAN, Bound(f, isolate)
      PROVE  FleetInv' /\ OwnersStay
  <2>1. Bindings' /\ OwnersStay
    BY <1>0, <1>2, <1>3, <1>4, <1>5, <1>6, CommitStep
  <2>2. FrameTypes' /\ Placed'
    BY <1>0, <1>2, <1>6, CommitFrame
  <2>3. QED
    BY <2>1, <2>2 DEF FleetInv
<1>7. CASE Dropped
  <2>1. Bindings' /\ OwnersStay
    BY <1>0, <1>3, <1>4, <1>7, QuietStep
  <2>2. /\ SpawnTypes' /\ Placed'
        /\ slot' \in [Slots -> {"absent", "starting", "idle", "busy", "broken", "gone"}]
    BY <1>0, <1>7, EndedFrame
  <2>3. FrameTypes'
    BY <1>0, <1>2, <1>7, <2>2 DEF FrameTypes, SlotTypes, FleetInv
  <2>4. QED
    BY <2>1, <2>2, <2>3 DEF FleetInv
<1>8. QED
  BY <1>1, <1>6, <1>7

(* The step leaves the bindings as a refresh does, and the Fleets alone.    *)
LEMMA Refreshing ==
  ASSUME FleetInv, FrameTypes', Placed', UNCHANGED <<assigned, ledger, releases, fate>>,
         Sound(coordinator'), Follows(coordinator, coordinator', ledger.owner),
         \A t \in Slots : \A f \in view'[t] \cup registered'[t] : Known(f)
  PROVE  FleetInv' /\ OwnersStay
<1>1. Remembers
  BY DEF Remembers, Known
<1>2. QED
  BY <1>1, QuietStep DEF FleetInv

LEMMA ViewsKnown ==
  ASSUME FleetInv
  PROVE  /\ \A t \in Slots : \A f \in view[t] \cup registered[t] : Known(f)
         /\ \A f \in Live : Known(f)
         /\ Live \in SUBSET Fleets
  BY DEF FleetInv, Bindings, Born, Live, Known

LEMMA AcquireHolds ==
  ASSUME FleetInv, NEW w \in Workers, Acquire(w)
  PROVE  FleetInv' /\ OwnersStay
<1>1. PICK k \in Kinds, v \in Workers \cup {NoWorker}, s \in Slots :
        /\ v # NoWorker => ValidSource(v, k = "named")
        /\ Selectable(s, k = "named", v)
        /\ request' = [request EXCEPT ![w] = [kind |-> k, source |-> v]]
        /\ at' = [at EXCEPT ![w] = s]
        /\ slot' = [slot EXCEPT ![s] = IF @ = "idle" THEN "busy" ELSE "starting"]
  BY DEF Acquire
<1>2. /\ pc[w] = "new" /\ pc' = [pc EXCEPT ![w] = "acquired"]
      /\ UNCHANGED <<coordinator, assigned, ledger, fate, view, registered, lockVars, releases>>
  BY DEF Acquire
<1>3. FrameTypes /\ SlotTypes /\ SpawnTypes /\ Placed
  BY DEF FleetInv, FrameTypes
<1>4. SlotTypes'
  BY <1>1, <1>2, <1>3 DEF SlotTypes
<1>5. SpawnTypes'
  BY <1>1, <1>2, <1>3 DEF SpawnTypes, Phases, Waiting, lockVars
<1>6. Placed'
  BY <1>1, <1>2, <1>3 DEF Placed, SpawnTypes, Waiting
<1>7. FrameTypes'
  BY <1>2, <1>3, <1>4, <1>5 DEF FrameTypes
<1>8. Sound(coordinator') /\ Follows(coordinator, coordinator', ledger.owner)
  BY <1>2, FollowsStay DEF FleetInv, Bindings
<1>9. \A t \in Slots : \A f \in view'[t] \cup registered'[t] : Known(f)
  BY <1>2, ViewsKnown
<1>10. QED
  BY <1>2, <1>6, <1>7, <1>8, <1>9, Refreshing

(* The inventories an action may write are sets of known Fleets.            *)
Sighting(seen) == seen \in SUBSET Fleets /\ \A f \in seen : Known(f)

LEMMA Sightings ==
  ASSUME FleetInv
  PROVE  /\ Sighting(Live)
         /\ \A s \in Slots : /\ Sighting(view[s]) /\ Sighting(registered[s]) /\ Sighting(Registration(s))
                             /\ \A seen \in Inventories(s) : Sighting(seen)
         /\ \A w \in Workers : at[w] \in Slots =>
              /\ \A seen \in Sights(w) : Sighting(seen)
              /\ \A answered \in BOOLEAN : Sighting(Answer(w, answered))
              /\ assigned[w].fleet # NoFleet => \A seen \in Traces(w) : Sighting(seen)
<1>1. Sighting(Live)
  BY ViewsKnown DEF Sighting
<1>2. ASSUME NEW s \in Slots
      PROVE  /\ Sighting(view[s]) /\ Sighting(registered[s]) /\ Sighting(Registration(s))
             /\ \A seen \in Inventories(s) : Sighting(seen)
  <2>1. Sighting(view[s]) /\ Sighting(registered[s])
    BY ViewsKnown DEF Sighting, FleetInv, FrameTypes, SlotTypes
  <2>2. Sighting(Registration(s))
    BY <1>1, <2>1 DEF Registration
  <2>3. QED
    BY <1>1, <2>1, <2>2 DEF Inventories
<1>3. ASSUME NEW w \in Workers, at[w] \in Slots
      PROVE  /\ \A seen \in Sights(w) : Sighting(seen)
             /\ \A answered \in BOOLEAN : Sighting(Answer(w, answered))
             /\ assigned[w].fleet # NoFleet => \A seen \in Traces(w) : Sighting(seen)
  <2>1. \A seen \in Sights(w) : Sighting(seen)
    BY <1>1, <1>2, <1>3 DEF Sights
  <2>2. \A answered \in BOOLEAN : Sighting(Answer(w, answered))
    BY <1>1, <1>2, <1>3 DEF Answer
  <2>3. ASSUME assigned[w].fleet # NoFleet
        PROVE  \A seen \in Traces(w) : Sighting(seen)
    <3>1. assigned[w].fleet \in Fleets /\ Known(assigned[w].fleet)
      BY <2>3 DEF FleetInv, FrameTypes, AssignmentType, Bindings, Born
    <3>2. Sighting(view[at[w]])
      BY <1>2, <1>3
    <3>3. QED
      BY <3>1, <3>2 DEF Traces, Sighting
  <2>4. QED
    BY <2>1, <2>2, <2>3
<1>4. QED
  BY <1>1, <1>2, <1>3

LEMMA ViewWritten ==
  ASSUME FleetInv, NEW s \in Slots, NEW seen, Sighting(seen), view' = [view EXCEPT ![s] = seen],
         NEW R, Sighting(R), registered' = registered \/ registered' = [registered EXCEPT ![s] = R]
  PROVE  /\ view' \in [Slots -> SUBSET Fleets] /\ registered' \in [Slots -> SUBSET Fleets]
         /\ \A t \in Slots : \A f \in view'[t] \cup registered'[t] : Known(f)
<1>1. /\ view \in [Slots -> SUBSET Fleets] /\ registered \in [Slots -> SUBSET Fleets]
      /\ seen \in SUBSET Fleets /\ R \in SUBSET Fleets
  BY DEF FleetInv, FrameTypes, SlotTypes, Sighting
<1>2. view' \in [Slots -> SUBSET Fleets] /\ registered' \in [Slots -> SUBSET Fleets]
  BY <1>1
<1>3. \A t \in Slots : view'[t] \in {view[t], seen} /\ registered'[t] \in {registered[t], R}
  BY <1>1
<1>4. QED
  BY <1>2, <1>3, ViewsKnown DEF Sighting

LEMMA PrepareHolds ==
  ASSUME FleetInv, NEW w \in Workers, Prepare(w)
  PROVE  FleetInv' /\ OwnersStay
<1> DEFINE s == at[w]
<1>0. pc[w] = "acquired" /\ pc[w] \in Waiting /\ s \in Slots
  BY DEF Prepare, FleetInv, Placed, Waiting
<1>1. PICK seen \in Inventories(s) : /\ view' = [view EXCEPT ![s] = seen]
                                     /\ coordinator' = Refresh(coordinator, s, seen)
  BY DEF Prepare
<1>2. /\ registered' = [registered EXCEPT ![s] = Registration(s)]
      /\ slot' = [slot EXCEPT ![s] = "busy"] /\ pc' = [pc EXCEPT ![w] = "prepared"]
      /\ UNCHANGED <<assigned, ledger, fate, at, request, lock, first, committed, releases>>
  BY DEF Prepare, lockVars
<1>3. Sighting(seen) /\ Sighting(Registration(s)) /\ seen \in SUBSET Fleets
  BY <1>0, Sightings DEF Sighting
<1>4. Sound(coordinator') /\ Follows(coordinator, coordinator', ledger.owner)
  BY <1>0, <1>1, <1>3, RefreshHere
<1>5. /\ view' \in [Slots -> SUBSET Fleets] /\ registered' \in [Slots -> SUBSET Fleets]
      /\ \A t \in Slots : \A f \in view'[t] \cup registered'[t] : Known(f)
  BY <1>0, <1>1, <1>2, <1>3, ViewWritten
<1>6. pc' \in [Workers -> Phases] /\ Placed'
  BY <1>0, <1>2, AdvanceFrame DEF Waiting
<1>7. FrameTypes'
  BY <1>2, <1>5, <1>6 DEF FleetInv, FrameTypes, SlotTypes, SpawnTypes
<1>8. QED
  BY <1>2, <1>4, <1>5, <1>6, <1>7, Refreshing

LEMMA RejectedHolds ==
  ASSUME FleetInv, NEW w \in Workers, Rejected(w)
  PROVE  FleetInv' /\ OwnersStay
<1> DEFINE s == at[w]
<1>0. pc[w] \in Waiting /\ s \in Slots
  BY DEF Rejected, FleetInv, Placed
<1>1. PICK seen \in Sights(w) :
        /\ view' = [view EXCEPT ![s] = seen]
        /\ coordinator' = IF pc[w] = "creating" THEN coordinator ELSE Refresh(coordinator, s, seen)
  BY DEF Rejected
<1>2. /\ registered' = [registered EXCEPT ![s] = Registration(s)]
      /\ Ended(w) /\ Unlock(w) /\ Refused(w)
      /\ UNCHANGED <<assigned, ledger, fate, releases>>
  BY DEF Rejected
<1>3. Sighting(seen) /\ Sighting(Registration(s)) /\ seen \in SUBSET Fleets
  BY <1>0, Sightings DEF Sighting
<1>4. Sound(coordinator') /\ Follows(coordinator, coordinator', ledger.owner)
  BY <1>0, <1>1, <1>3, RefreshHere, FollowsStay DEF FleetInv, Bindings
<1>5. /\ view' \in [Slots -> SUBSET Fleets] /\ registered' \in [Slots -> SUBSET Fleets]
      /\ \A t \in Slots : \A f \in view'[t] \cup registered'[t] : Known(f)
  BY <1>0, <1>1, <1>2, <1>3, ViewWritten
<1>6. /\ SpawnTypes' /\ Placed'
      /\ slot' \in [Slots -> {"absent", "starting", "idle", "busy", "broken", "gone"}]
  BY <1>0, <1>2, EndedFrame
<1>7. FrameTypes'
  BY <1>2, <1>5, <1>6 DEF FleetInv, FrameTypes, SlotTypes
<1>8. QED
  BY <1>2, <1>4, <1>5, <1>6, <1>7, Refreshing

(* The two ways to keep the lock and wait.                                  *)
LEMMA AwaitsFrame ==
  ASSUME FleetInv, NEW w \in Workers, pc[w] \in Waiting, NEW c, Sound(c),
         Follows(coordinator, c, ledger.owner), NEW p \in {"reading", "creating"}, Awaits(w, c, p),
         UNCHANGED view \/ \E seen : Sighting(seen) /\ view' = [view EXCEPT ![at[w]] = seen]
  PROVE  FleetInv' /\ OwnersStay
<1>0. at[w] \in Slots
  BY DEF FleetInv, Placed
<1>1. /\ coordinator' = c /\ lock' = w /\ first' = Claim(w) /\ pc' = [pc EXCEPT ![w] = p]
      /\ UNCHANGED <<assigned, ledger, fate, slot, registered, at, request, committed, releases>>
  BY DEF Awaits
<1>2. /\ view' \in [Slots -> SUBSET Fleets] /\ registered' \in [Slots -> SUBSET Fleets]
      /\ \A t \in Slots : \A f \in view'[t] \cup registered'[t] : Known(f)
  <2>1. CASE UNCHANGED view
    BY <1>1, <2>1, ViewsKnown DEF FleetInv, FrameTypes, SlotTypes
  <2>2. CASE \E seen : Sighting(seen) /\ view' = [view EXCEPT ![at[w]] = seen]
    <3>1. PICK seen : Sighting(seen) /\ view' = [view EXCEPT ![at[w]] = seen]
      BY <2>2
    <3>2. QED
      BY <1>0, <1>1, <3>1, ViewWritten
  <2>3. QED
    BY <2>1, <2>2
<1>3. pc' \in [Workers -> Phases] /\ Placed'
  BY <1>1, AdvanceFrame DEF Waiting
<1>4. first' \in Workers \cup {NoWorker}
  BY <1>1 DEF FleetInv, FrameTypes, SpawnTypes, Claim
<1>5. FrameTypes'
  BY <1>1, <1>2, <1>3, <1>4 DEF FleetInv, FrameTypes, SlotTypes, SpawnTypes
<1>6. QED
  BY <1>1, <1>2, <1>3, <1>5, Refreshing

LEMMA AsksHolds ==
  ASSUME FleetInv, NEW w \in Workers, AsksInventory(w) \/ AsksFleet(w)
  PROVE  FleetInv' /\ OwnersStay
<1>1. PICK p \in {"reading", "creating"} : Awaits(w, Refreshed(w), p)
  BY DEF AsksInventory, AsksFleet
<1>2. pc[w] \in Waiting /\ UNCHANGED view
  BY DEF AsksInventory, AsksFleet, Decides, Waiting
<1>3. at[w] \in Slots /\ view[at[w]] \in SUBSET Fleets
  BY <1>2 DEF FleetInv, FrameTypes, SlotTypes, Placed
<1>4. Sound(Refreshed(w)) /\ Follows(coordinator, Refreshed(w), ledger.owner)
  BY <1>3, RefreshHere DEF Refreshed
<1>5. QED
  BY <1>1, <1>2, <1>4, AwaitsFrame

LEMMA CapReleasedHolds ==
  ASSUME FleetInv, NEW w \in Workers, CapReleased(w)
  PROVE  FleetInv' /\ OwnersStay
<1>1. PICK answered \in BOOLEAN :
        /\ Awaits(w, Reread(w, Answer(w, answered), answered), "creating")
        /\ view' = [view EXCEPT ![at[w]] = Answer(w, answered)]
  BY DEF CapReleased
<1> DEFINE seen == Answer(w, answered)
           c == Reread(w, seen, answered)
<1>2. pc[w] \in Waiting /\ at[w] \in Slots
  BY DEF CapReleased, Rereads, Waiting, FleetInv, Placed
<1>3. Sighting(seen) /\ seen \in SUBSET Fleets
  BY <1>2, Sightings DEF Sighting
<1>4. Sound(c) /\ Follows(coordinator, c, ledger.owner)
  BY <1>2, <1>3, RereadHere
<1>5. Awaits(w, c, "creating") /\ view' = [view EXCEPT ![at[w]] = seen]
  BY <1>1
<1> HIDE DEF seen, c
<1>6. QED
  BY <1>2, <1>3, <1>4, <1>5, AwaitsFrame

LEMMA CapBlockedHolds ==
  ASSUME FleetInv, NEW w \in Workers, CapBlocked(w)
  PROVE  FleetInv' /\ OwnersStay
<1>1. PICK answered \in BOOLEAN :
        /\ view' = [view EXCEPT ![at[w]] = Answer(w, answered)]
        /\ coordinator' = Reread(w, Answer(w, answered), answered)
  BY DEF CapBlocked
<1> DEFINE seen == Answer(w, answered)
<1>2. /\ Ended(w) /\ Unlock(w) /\ Refused(w)
      /\ UNCHANGED <<assigned, ledger, fate, registered, releases>>
  BY DEF CapBlocked
<1>3. at[w] \in Slots
  BY DEF CapBlocked, Rereads, Waiting, FleetInv, Placed
<1>4. Sighting(seen) /\ seen \in SUBSET Fleets
  BY <1>3, Sightings DEF Sighting
<1>5. Sound(coordinator') /\ Follows(coordinator, coordinator', ledger.owner)
  BY <1>1, <1>3, <1>4, RereadHere
<1>6. /\ view' \in [Slots -> SUBSET Fleets] /\ registered' \in [Slots -> SUBSET Fleets]
      /\ \A t \in Slots : \A f \in view'[t] \cup registered'[t] : Known(f)
  BY <1>1, <1>2, <1>3, <1>4, ViewWritten
<1>7. /\ SpawnTypes' /\ Placed'
      /\ slot' \in [Slots -> {"absent", "starting", "idle", "busy", "broken", "gone"}]
  BY <1>2, <1>3, EndedFrame
<1>8. FrameTypes'
  BY <1>2, <1>6, <1>7 DEF FleetInv, FrameTypes, SlotTypes
<1>9. QED
  BY <1>2, <1>5, <1>6, <1>7, <1>8, Refreshing

LEMMA SessionLostHolds ==
  ASSUME FleetInv, NEW w \in Workers, SessionLost(w)
  PROVE  FleetInv' /\ OwnersStay
<1> DEFINE c == Refreshed(w)
<1>1. /\ Decides(w) /\ c.bound # NoFleet /\ releases < MaxReleases
      /\ coordinator' = ReleaseBinding(c) /\ ledger' = Stale(c.bound, c.generation)
      /\ releases' = releases + 1
      /\ Ended(w) /\ Unlock(w) /\ Refused(w)
      /\ UNCHANGED <<assigned, fate, view, registered>>
  BY DEF SessionLost
<1>2. at[w] \in Slots /\ view[at[w]] \in SUBSET Fleets
  BY <1>1 DEF Decides, Waiting, FleetInv, FrameTypes, SlotTypes, Placed
<1>3. Sound(c) /\ Follows(coordinator, c, ledger.owner)
  BY <1>2, RefreshHere DEF Refreshed
<1>4. c.bound \in Fleets
  BY <1>1, <1>3 DEF Sound, CoordinatorType
<1> HIDE DEF c
<1>5. Bindings' /\ OwnersStay /\ ledger' \in LedgerType
  BY <1>1, <1>3, ReleaseStep
<1>6. /\ SpawnTypes' /\ Placed'
      /\ slot' \in [Slots -> {"absent", "starting", "idle", "busy", "broken", "gone"}]
  BY <1>1, <1>2, EndedFrame
<1>7. releases' \in 0..MaxReleases
  BY <1>1, <1>4, LimitsAssumption DEF FleetInv, FrameTypes
<1>8. FrameTypes'
  BY <1>1, <1>5, <1>6, <1>7 DEF FleetInv, FrameTypes, SlotTypes
<1>9. QED
  BY <1>5, <1>6, <1>8 DEF FleetInv

LEMMA ReadyHolds ==
  ASSUME FleetInv, NEW w \in Workers, Ready(w)
  PROVE  FleetInv' /\ OwnersStay
<1>1. /\ pc[w] = "readying" /\ pc' = [pc EXCEPT ![w] = "running"]
      /\ first' = Without(first, w) /\ committed' = TRUE
      /\ UNCHANGED <<coordinator, assigned, ledger, fate, slot, view, registered, at, request, lock, releases>>
  BY DEF Ready, slotVars
<1>2. SpawnTypes'
  BY <1>1 DEF FleetInv, FrameTypes, SpawnTypes, Phases, Without
<1>3. Placed'
  BY <1>1 DEF FleetInv, FrameTypes, SpawnTypes, Placed, Waiting
<1>4. FrameTypes'
  BY <1>1, <1>2 DEF FleetInv, FrameTypes, SlotTypes
<1>5. Sound(coordinator') /\ Follows(coordinator, coordinator', ledger.owner)
  BY <1>1, FollowsStay DEF FleetInv, Bindings
<1>6. QED
  BY <1>1, <1>3, <1>4, <1>5, ViewsKnown, Refreshing

LEMMA NotReadyHolds ==
  ASSUME FleetInv, NEW w \in Workers, NotReady(w)
  PROVE  FleetInv' /\ OwnersStay
<1>1. /\ Ended(w) /\ Unlock(w)
      /\ UNCHANGED <<coordinator, assigned, ledger, fate, view, registered, at, request, releases>>
  BY DEF NotReady
<1>2. at[w] \in Slots
  BY DEF NotReady, FleetInv, Placed
<1>3. /\ SpawnTypes' /\ Placed'
      /\ slot' \in [Slots -> {"absent", "starting", "idle", "busy", "broken", "gone"}]
  BY <1>1, <1>2, EndedFrame
<1>4. FrameTypes'
  BY <1>1, <1>3 DEF FleetInv, FrameTypes, SlotTypes
<1>5. Sound(coordinator') /\ Follows(coordinator, coordinator', ledger.owner)
  BY <1>1, FollowsStay DEF FleetInv, Bindings
<1>6. QED
  BY <1>1, <1>3, <1>4, <1>5, ViewsKnown, Refreshing

LEMMA VerifiedHolds ==
  ASSUME FleetInv, NEW w \in Workers, Verified(w)
  PROVE  FleetInv' /\ OwnersStay
<1>1. UNCHANGED <<assigned, fate, slot, view, registered, pc, at, request, lock, first, committed, releases>>
  BY DEF Verified, slotVars, spawnVars, lockVars
<1>2. Bindings' /\ OwnersStay /\ ledger' \in LedgerType
  BY VerifiedStep
<1>3. FrameTypes' /\ Placed'
  BY <1>1, <1>2 DEF FleetInv, FrameTypes, SlotTypes, SpawnTypes, Placed
<1>4. QED
  BY <1>2, <1>3 DEF FleetInv

LEMMA LossSeenHolds ==
  ASSUME FleetInv, NEW w \in Workers, LossSeen(w)
  PROVE  FleetInv' /\ OwnersStay
<1> DEFINE a == assigned[w]
<1>1. /\ a.named /\ releases < MaxReleases /\ ledger' = Stale(a.fleet, a.generation)
      /\ UNCHANGED <<assigned, fate, slot, view, registered, pc, at, request, lock, first, committed>>
  BY DEF LossSeen, slotVars, spawnVars, lockVars
<1>2. a.fleet \in Fleets
  BY <1>1 DEF FleetInv, FrameTypes, AssignmentType, Placed
<1>3. Sound(coordinator) /\ Follows(coordinator, coordinator, ledger.owner)
  BY FollowsStay DEF FleetInv, Bindings
<1>4. CASE Current(a.fleet, a.generation)
  <2>1. /\ coordinator' = ReleaseBinding(coordinator) /\ releases' = releases + 1
        /\ coordinator.bound # NoFleet
    BY <1>2, <1>4, AbsentAssumption DEF LossSeen, Current
  <2>2. Bindings' /\ OwnersStay /\ ledger' \in LedgerType
    BY <1>1, <1>3, <2>1, ReleaseStep
  <2>3. releases' \in 0..MaxReleases
    BY <1>1, <1>2, <2>1, LimitsAssumption DEF FleetInv, FrameTypes
  <2>4. FrameTypes' /\ Placed'
    BY <1>1, <2>2, <2>3 DEF FleetInv, FrameTypes, SlotTypes, SpawnTypes, Placed
  <2>5. QED
    BY <2>2, <2>4 DEF FleetInv
<1>5. CASE ~Current(a.fleet, a.generation)
  <2>1. UNCHANGED <<coordinator, releases>>
    BY <1>5 DEF LossSeen
  <2>2. /\ ledger' \in LedgerType /\ ledger'.fleet = ledger.fleet
        /\ ledger'.generation = ledger.generation /\ ledger'.owner = ledger.owner
    BY <1>1 DEF Stale, FleetInv, FrameTypes, LedgerType
  <2>3. FrameTypes' /\ Placed'
    BY <1>1, <2>1, <2>2 DEF FleetInv, FrameTypes, SlotTypes, SpawnTypes, Placed
  <2>4. Bindings'
    <3>1. Counted' /\ Epochs' /\ OneJarPerEpoch' /\ Handed' /\ Born'
      BY <1>1, <2>1, <2>2 DEF FleetInv, Bindings, Counted, Epochs, OneJarPerEpoch, Handed, Held, Born, Known
    <3>2. QED
      BY <1>3, <2>1, <3>1 DEF Bindings
  <2>5. OwnersStay
    BY <2>1 DEF OwnersStay
  <2>6. QED
    BY <2>3, <2>4, <2>5 DEF FleetInv
<1>6. QED
  BY <1>4, <1>5

LEMMA FinishHolds ==
  ASSUME FleetInv, NEW w \in Workers, Finish(w)
  PROVE  FleetInv' /\ OwnersStay
<1> DEFINE s == at[w]
<1>0. s \in Slots /\ assigned[w].fleet # NoFleet
  BY DEF Finish, FleetInv, Placed
<1>1. PICK seen \in Traces(w) : /\ view' = [view EXCEPT ![s] = seen]
                                /\ coordinator' = Refresh(coordinator, s, seen)
  BY DEF Finish
<1>2. /\ slot' = [slot EXCEPT ![s] = "idle"] /\ pc' = [pc EXCEPT ![w] = "done"]
      /\ UNCHANGED <<assigned, ledger, fate, registered, at, request, lock, first, committed, releases>>
  BY DEF Finish, Ended, lockVars
<1>3. Sighting(seen) /\ seen \in SUBSET Fleets
  BY <1>0, Sightings DEF Sighting
<1>4. Sound(coordinator') /\ Follows(coordinator, coordinator', ledger.owner)
  BY <1>0, <1>1, <1>3, RefreshHere
<1>5. /\ view' \in [Slots -> SUBSET Fleets] /\ registered' \in [Slots -> SUBSET Fleets]
      /\ \A t \in Slots : \A f \in view'[t] \cup registered'[t] : Known(f)
  BY <1>0, <1>1, <1>2, <1>3, ViewWritten
<1>6. SpawnTypes'
  BY <1>2 DEF FleetInv, FrameTypes, SpawnTypes, Phases
<1>7. Placed'
  BY <1>2 DEF FleetInv, FrameTypes, SpawnTypes, Placed, Waiting
<1>8. FrameTypes'
  BY <1>0, <1>2, <1>5, <1>6 DEF FleetInv, FrameTypes, SlotTypes
<1>9. QED
  BY <1>2, <1>4, <1>5, <1>7, <1>8, Refreshing

LEMMA BreaksHolds ==
  ASSUME FleetInv, NEW w \in Workers, Breaks(w)
  PROVE  FleetInv' /\ OwnersStay
<1> DEFINE s == at[w]
           c == MarkSuspect(coordinator, s)
<1>0. s \in Slots /\ view[s] \in SUBSET Fleets /\ Sound(coordinator)
  BY DEF Breaks, FleetInv, FrameTypes, SlotTypes, Placed, Bindings
<1>1. /\ slot' = [slot EXCEPT ![s] = "broken"] /\ pc' = [pc EXCEPT ![w] = "done"] /\ Unlock(w)
      /\ UNCHANGED <<assigned, ledger, fate, registered, releases>>
  BY DEF Breaks
<1>2. Sound(c) /\ Follows(coordinator, c, ledger.owner)
  BY <1>0, MarkSuspectIsSound
<1>3. LedgerFine
  BY DEF FleetInv, Bindings, FrameTypes, LedgerFine, Counted, Born
<1>4. Refused(w) \/ UNCHANGED <<at, request>>
  BY DEF Breaks
<1>5. \/ coordinator' = c /\ UNCHANGED view
      \/ \E seen : Sighting(seen) /\ view' = [view EXCEPT ![s] = seen] /\ coordinator' = Refresh(c, s, seen)
  <2>1. CASE pc[w] = "running"
    <3>1. \A seen \in Traces(w) : Sighting(seen)
      BY <1>0, <2>1, Sightings DEF FleetInv, Placed
    <3>2. QED
      BY <2>1, <3>1 DEF Breaks, Waiting
  <2>2. CASE pc[w] # "running"
    BY <2>2 DEF Breaks
  <2>3. QED
    BY <2>1, <2>2
<1> HIDE DEF c, s
<1>6. /\ Sound(coordinator') /\ Follows(coordinator, coordinator', ledger.owner)
      /\ view' \in [Slots -> SUBSET Fleets] /\ registered' \in [Slots -> SUBSET Fleets]
      /\ \A t \in Slots : \A f \in view'[t] \cup registered'[t] : Known(f)
  <2>1. CASE coordinator' = c /\ UNCHANGED view
    BY <1>1, <1>2, <2>1, ViewsKnown DEF FleetInv, FrameTypes, SlotTypes
  <2>2. CASE \E seen : Sighting(seen) /\ view' = [view EXCEPT ![s] = seen] /\ coordinator' = Refresh(c, s, seen)
    <3>1. PICK seen : Sighting(seen) /\ view' = [view EXCEPT ![s] = seen] /\ coordinator' = Refresh(c, s, seen)
      BY <2>2
    <3>2. Sound(coordinator') /\ Follows(c, coordinator', ledger.owner)
      BY <1>0, <1>2, <1>3, <3>1, RefreshIsSound DEF Sighting
    <3>3. Follows(coordinator, coordinator', ledger.owner)
      BY <1>2, <3>2, FollowsTwice
    <3>4. /\ view' \in [Slots -> SUBSET Fleets] /\ registered' \in [Slots -> SUBSET Fleets]
          /\ \A t \in Slots : \A f \in view'[t] \cup registered'[t] : Known(f)
      BY <1>0, <1>1, <3>1, ViewWritten
    <3>5. QED
      BY <3>2, <3>3, <3>4
  <2>3. QED
    BY <1>5, <2>1, <2>2
<1>7. at' \in [Workers -> Slots \cup {NoSlot}] /\ \A v \in Workers \ {w} : at'[v] = at[v]
  BY <1>4 DEF Refused, FleetInv, FrameTypes, SpawnTypes
<1>8. request' \in [Workers -> [kind : Kinds, source : Workers \cup {NoWorker}]]
  BY <1>4 DEF Refused, FleetInv, FrameTypes, SpawnTypes, NoRequest, Kinds
<1>9. pc' \in [Workers -> Phases] /\ pc'[w] = "done" /\ \A v \in Workers \ {w} : pc'[v] = pc[v]
  BY <1>1 DEF FleetInv, FrameTypes, SpawnTypes, Phases
<1>10. Placed'
  BY <1>1, <1>7, <1>9 DEF FleetInv, Placed, Waiting
<1>11. lock' \in Workers \cup {NoWorker} /\ first' \in Workers \cup {NoWorker} /\ committed' \in BOOLEAN
  BY <1>1 DEF Unlock, Without, FleetInv, FrameTypes, SpawnTypes
<1>12. slot' \in [Slots -> {"absent", "starting", "idle", "busy", "broken", "gone"}]
  BY <1>1 DEF FleetInv, FrameTypes, SlotTypes
<1>13. FrameTypes'
  BY <1>1, <1>6, <1>7, <1>8, <1>9, <1>11, <1>12 DEF FleetInv, FrameTypes, SlotTypes, SpawnTypes
<1>14. QED
  BY <1>1, <1>6, <1>10, <1>13, Refreshing

LEMMA SlotHolds ==
  ASSUME FleetInv, NEW s \in Slots, IdleBreaks(s) \/ Recover(s) \/ Retire(s)
  PROVE  FleetInv' /\ OwnersStay
<1>1. /\ UNCHANGED <<assigned, ledger, fate, pc, at, request, lock, first, committed, releases>>
      /\ \E x \in {"idle", "broken", "gone"} : slot' = [slot EXCEPT ![s] = x]
  <2>1. CASE IdleBreaks(s)
    BY <2>1 DEF IdleBreaks, spawnVars, lockVars
  <2>2. CASE Retire(s)
    BY <2>2 DEF Retire, spawnVars, lockVars
  <2>3. CASE Recover(s)
    <3>1. slot' = [slot EXCEPT ![s] = IF RefreshRaises(coordinator, s) THEN "broken" ELSE "idle"]
      BY <2>3 DEF Recover
    <3>2. QED
      BY <2>3, <3>1 DEF Recover, spawnVars, lockVars
  <2>4. QED
    BY <2>1, <2>2, <2>3
<1>2. Sound(coordinator)
  BY DEF FleetInv, Bindings
<1>3. /\ Sound(coordinator') /\ Follows(coordinator, coordinator', ledger.owner)
      /\ view' \in [Slots -> SUBSET Fleets] /\ registered' \in [Slots -> SUBSET Fleets]
      /\ \A t \in Slots : \A f \in view'[t] \cup registered'[t] : Known(f)
  <2>1. CASE IdleBreaks(s)
    BY <1>2, <2>1, ViewsKnown, MarkSuspectIsSound DEF IdleBreaks, FleetInv, FrameTypes, SlotTypes
  <2>2. CASE Retire(s)
    BY <1>2, <2>2, ViewsKnown, RetireSlotIsSound DEF Retire, FleetInv, FrameTypes, SlotTypes
  <2>3. CASE Recover(s)
    <3>1. Sighting(Live) /\ Live \in SUBSET Fleets
      BY Sightings, ViewsKnown
    <3>2. Sound(coordinator') /\ Follows(coordinator, coordinator', ledger.owner)
      BY <2>3, <3>1, RefreshHere DEF Recover
    <3>3. QED
      BY <2>3, <3>1, <3>2, ViewWritten DEF Recover
  <2>4. QED
    BY <2>1, <2>2, <2>3
<1>4. Placed'
  BY <1>1 DEF FleetInv, Placed
<1>5. FrameTypes'
  BY <1>1, <1>3 DEF FleetInv, FrameTypes, SlotTypes, SpawnTypes
<1>6. QED
  BY <1>1, <1>3, <1>4, <1>5, Refreshing

LEMMA ResetHolds ==
  ASSUME FleetInv, OperatorReset
  PROVE  FleetInv' /\ OwnersStay
<1> DEFINE f == coordinator.bound
<1>1. /\ f # NoFleet /\ releases < MaxReleases /\ releases' = releases + 1
      /\ coordinator' = ReleaseBinding(coordinator) /\ ledger' = Stale(f, coordinator.generation)
      /\ UNCHANGED <<assigned, fate, slot, view, registered, pc, at, request, lock, first, committed>>
  BY DEF OperatorReset, slotVars, spawnVars, lockVars
<1>2. Sound(coordinator) /\ Follows(coordinator, coordinator, ledger.owner)
  BY FollowsStay DEF FleetInv, Bindings
<1>3. Bindings' /\ OwnersStay /\ ledger' \in LedgerType
  BY <1>1, <1>2, ReleaseStep
<1>4. releases' \in 0..MaxReleases
  BY <1>1, LimitsAssumption DEF FleetInv, FrameTypes
<1>5. FrameTypes' /\ Placed'
  BY <1>1, <1>3, <1>4 DEF FleetInv, FrameTypes, SlotTypes, SpawnTypes, Placed
<1>6. QED
  BY <1>3, <1>5 DEF FleetInv

LEMMA PlatformHolds ==
  ASSUME FleetInv, NEW f \in Fleets, Appears(f) \/ Disappears(f)
  PROVE  FleetInv' /\ OwnersStay
<1>1. /\ UNCHANGED <<coordinator, assigned, ledger, slot, view, registered, pc, at, request,
                     lock, first, committed, releases>>
      /\ fate' = [fate EXCEPT ![f] = "live"] \/ fate' = [fate EXCEPT ![f] = "dead"]
  BY DEF Appears, Disappears, slotVars, spawnVars, lockVars
<1>2. /\ fate' \in [Fleets -> {"unborn", "live", "dead"}]
      /\ \A g \in Fleets : Known(g) => Known(g)'
  BY <1>1 DEF FleetInv, FrameTypes, SlotTypes, Known
<1>3. Remembers
  BY <1>1, <1>2 DEF Remembers, FleetInv, Bindings, Born, FrameTypes, SlotTypes
<1>4. Sound(coordinator') /\ Follows(coordinator, coordinator', ledger.owner)
  BY <1>1, FollowsStay DEF FleetInv, Bindings
<1>5. Bindings' /\ OwnersStay
  BY <1>1, <1>3, <1>4, QuietStep
<1>6. FrameTypes' /\ Placed'
  BY <1>1, <1>2 DEF FleetInv, FrameTypes, SlotTypes, SpawnTypes, Placed
<1>7. QED
  BY <1>5, <1>6 DEF FleetInv

LEMMA NextHolds ==
  ASSUME FleetInv, [Next]_vars
  PROVE  FleetInv' /\ (OwnersStay \/ UNCHANGED vars)
<1>1. ASSUME NEW w \in Workers,
             \/ Acquire(w) \/ Prepare(w) \/ Rejected(w)
             \/ AssignReferenced(w) \/ AssignSimilar(w) \/ AssignSession(w) \/ SessionLost(w) \/ AssignSource(w)
             \/ AssignShared(w) \/ CapReuse(w) \/ AsksInventory(w) \/ AsksFleet(w)
             \/ CapReleased(w) \/ CapReread(w) \/ CapBlocked(w) \/ Create(w) \/ Ready(w) \/ NotReady(w)
             \/ Verified(w) \/ LossSeen(w) \/ Finish(w) \/ Breaks(w)
      PROVE  FleetInv' /\ OwnersStay
  BY <1>1, AcquireHolds, PrepareHolds, RejectedHolds, AssignHolds, SessionLostHolds, AsksHolds,
     CapReleasedHolds, CapRereadHolds, CapBlockedHolds, CreateHolds, ReadyHolds, NotReadyHolds,
     VerifiedHolds, LossSeenHolds, FinishHolds, BreaksHolds
<1>2. CASE UNCHANGED vars
  BY <1>2 DEF vars, slotVars, spawnVars, lockVars, FleetInv, FrameTypes, SlotTypes, SpawnTypes,
              Placed, Bindings, Sound, Agrees, Counted, Epochs, OneJarPerEpoch, Handed, Held, Born, Known
<1>3. QED
  BY <1>1, <1>2, SlotHolds, ResetHolds, PlatformHolds DEF Next

(* FleetInv is inductive.  The variables of the coordinator, the ledger and *)
(* the spawner keep their types.                                            *)
THEOREM TypeCorrect == Spec => []TypeOK
<1>1. Init => FleetInv
  BY InitHolds
<1>2. FleetInv /\ [Next]_vars => FleetInv'
  BY NextHolds
<1>3. FleetInv => TypeOK
  BY DEF FleetInv, FrameTypes, SlotTypes, SpawnTypes, Bindings, Sound, TypeOK
<1>4. QED
  BY <1>1, <1>2, <1>3, PTL DEF Spec

LEMMA InvariantHolds == Spec => []FleetInv
<1>1. FleetInv /\ [Next]_vars => FleetInv'
  BY NextHolds
<1>2. QED
  BY <1>1, InitHolds, PTL DEF Spec

(* _session_bindings and the records of the Fleets always agree.            *)
THEOREM BindingsAgree == Spec => []BindingAgrees
<1>1. FleetInv => BindingAgrees
  BY DEF FleetInv, Bindings, Sound, Agrees, BindingAgrees
<1>2. QED
  BY <1>1, InvariantHolds, PTL

(* No slot's default Fleet holds a login, was isolated or was retired.      *)
THEOREM DefaultsStayLendable == Spec => []DefaultsLendable
<1>1. FleetInv => DefaultsLendable
  BY DEF FleetInv, Bindings, Sound, Lendable, DefaultsLendable
<1>2. QED
  BY <1>1, InvariantHolds, PTL

(* Workers of one session share one cookie jar until it is released.        *)
THEOREM SessionsHaveOneJar == Spec => []OneJarPerEpoch
<1>1. FleetInv => OneJarPerEpoch
  BY DEF FleetInv, Bindings
<1>2. QED
  BY <1>1, InvariantHolds, PTL

(* A Fleet that was only seen is not eligible for a worker.                 *)
THEOREM ForeignFleetsUntouched == Spec => []ForeignUntouched
<1>1. FleetInv => ForeignUntouched
  BY DEF FleetInv, Bindings, Handed, Held, ForeignUntouched, Eligible
<1>2. QED
  BY <1>1, InvariantHolds, PTL

(* A worker that names no Fleet is lent one of its task without a login.    *)
THEOREM OnlyLendableLent == Spec => []OnlyLendable
BY DefaultsStayLendable, ForeignFleetsUntouched, PTL DEF OnlyLendable

(* An admitted Fleet moves only to the owner a verified login names.        *)
THEOREM OwnersAreStable == Spec => OwnershipStable
<1>1. FleetInv /\ [Next]_vars =>
        [\A f \in Fleets : coordinator.record[f].admitted /\ coordinator'.record[f].admitted
           => coordinator'.record[f].slot \in {coordinator.record[f].slot, ledger'.owner}]_vars
  BY NextHolds DEF OwnersStay
<1>2. QED
  BY <1>1, InvariantHolds, PTL DEF Spec, OwnershipStable
=============================================================================
