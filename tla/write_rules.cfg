SPECIFICATION Spec
CONSTANTS
  s1 = s1  s2 = s2  x1 = x1  x2 = x2  f1 = f1  f2 = f2
  NoFact = NoFact
  Slot = {s1, s2}
  Object = {x1, x2}
  Fact = {f1, f2}
  MaxEntries = 3
  Requests <- SmallRequests
INVARIANTS
  TypeOK
  AcceptedIsSound
  RefusalIsExact
CHECK_DEADLOCK FALSE
