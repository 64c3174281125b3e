SPECIFICATION Spec
CONSTANTS
  home = home  away = away  spare = spare
  NoLog = NoLog
  Log = {home, away, spare}
  Node <- PrefixedNodes
  RetryAttempts = 3
  MaxResponseBytes = 8
  AbsoluteBodyLimit = 64
  KeyLength = {4, 5, 12}
INVARIANTS
  TypeOK
  SuccessOnPinnedLog
  MixedSessionNeverSucceeds
  IngestionIsDurable
