SPECIFICATION Spec
CONSTANTS
  s1 = s1
  s2 = s2
  w1 = w1
  w2 = w2
  f1 = f1
  f2 = f2
  f3 = f3
  Slots <- TwoSlots
  NoSlot = NoSlot
  Workers <- TwoSpawns
  NoWorker = NoWorker
  Fleets <- ThreeFleets
  NoFleet = NoFleet
  Limit = 1
  MaxReleases = 2
SYMMETRY Alike
CHECK_DEADLOCK FALSE
INVARIANTS
  BindingAgrees
  OneJarPerEpoch
  OnlyLendable
PROPERTIES
  OwnershipStable
