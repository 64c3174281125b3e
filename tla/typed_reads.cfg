SPECIFICATION Spec
CONSTANTS
  Name = {"", "p", "bad"}
  NotUTF8 = {"bad"}
  l1 = l1  l2 = l2
  NoLog = NoLog
  Identity = {l1, l2}
  MaxWatermark = 2
  Requests <- SomeRequests
INVARIANTS
  TypeOK
  ReadYourWrites
  LabelsStayLiteral
