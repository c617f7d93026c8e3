SPECIFICATION FairSpec
CONSTANTS
  m1 = m1
  m2 = m2
  t1 = t1
  t2 = t2
  a = a
  Pmd = {1, 2}
  Mega = {m1, m2}
  Thread = {t1, t2}
  ThreadOf <- ThreadOfMega
  Port = {a}
  InPort <- PortOfMega
  Mark = {1, 2}
  MaxFlows = 2
  MaxQueue = 2
INVARIANTS RefsExact MarksOwned GonePortClean
PROPERTIES DeadFreed DeletionEnds
