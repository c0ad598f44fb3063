SPECIFICATION FairSpec
CONSTANTS
  t1 = t1
  t2 = t2
  t3 = t3
  t4 = t4
  t5 = t5
  Threads = {t1, t2, t3, t4, t5}
  Main = t1
  Adders = {t2, t3, t4}
  AddsPerThread = 2
  Programs <- AllPrograms
  Target = 2
  NoThread = NoThread
  MaxSpurious = 1
INVARIANTS
  TypeOK
  NoLostWakeup
  IdsAreDealt
  TestPasses
PROPERTIES
  ImplementsCalls
  AllCallsReturn
CHECK_DEADLOCK FALSE
