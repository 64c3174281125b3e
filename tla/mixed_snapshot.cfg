SPECIFICATION Spec
CONSTANTS
  home = home  away = away  spare = spare
  NoLog = NoLog
  Log = {home, away, spare}
  Node <- PlainNodes
  RetryAttempts = 3
  MaxResponseBytes = 8
  AbsoluteBodyLimit = 64
  KeyLength = {4, 12}
INVARIANTS
  IngestionIsDurable
