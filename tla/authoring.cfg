SPECIFICATION Spec
CONSTANTS
  Lower <- AB
  NameChar <- ABN
  TokenChar <- Token
  Colon <- colon
  Domain <- JoeyDomain
  MaxToken = 6
  MaxNamespace = 2
  f1 = f1  f2 = f2  f3 = f3
  Fact = {f1, f2, f3}
  Canonical = {f1, f2}
  NoFact = NoFact
  Text = {"", "p", "r", "x1", "x2", "ufffd"}
  NotUTF8 = {"x1", "x2"}
  Replacement = "ufffd"
  MaxJSSafeInteger = 3
  Half = 8
  Millisecond = 2
  Sessions <- SomeSessions
  Calls <- SomeCalls
  MaxSent = 2
INVARIANTS
  TypeOK
  BodiesDistinguish
  SentIsAdvertised
  RefusalIsMinimal
  WireKeyNamesOperation
  PrefixAppliedOnce
CHECK_DEADLOCK FALSE
