CONSTANTS
  m1 = m1
  bad = bad
  t1 = t1
  t2 = t2
  u1 = u1
  Messages <- MCMessages
  Storable <- MCStorable
  Ticks <- MCTicks
  Manuals <- MCManuals
  Capacities = {1, 2}
  Limits = {2}
  MaxAppends = 2
  MaxFaults = 0
SPECIFICATION FairHandoffSpec
PROPERTIES
  AcknowledgedIsRouted
