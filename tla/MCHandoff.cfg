CONSTANTS
  m1 = m1
  bad = bad
  t1 = t1
  t2 = t2
  u1 = u1
  Messages <- MCMessages
  Storable <- MCStorable
  Ticks <- MCTicks
  Manuals <- MCManuals
  Capacities = {1, 2}
  Limits = {1, 2}
  MaxAppends = 4
  MaxFaults = 2
SPECIFICATION MCHandoffSpec
INVARIANTS
  HandoffTypeOK
  QueueIsSuffix
  DropsAreCounted
  NoSilentLoss
  RoutedInOrder
  RoutedAfterStored
PROPERTIES
  AppendRespectsCapacity
  ImplementsContract
  QueueDrains
  GapReported
