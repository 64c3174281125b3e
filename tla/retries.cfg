SPECIFICATION FairSpec
CONSTANTS
  o1 = o1  o2 = o2  o3 = o3
  k1 = k1  k2 = k2
  b1 = b1  b2 = b2
  home = home  away = away
  NoLog = NoLog  NoBody = NoBody
  Op = {o1, o3}
  Log = {home, away}
  Key = {k1, k2}
  Body = {b1}
  Epoch <- BothPrefixes
  KeyOf <- EpochKeyOf
  BodyOf <- EpochBodyOf
  Pinned = home
  Writable = TRUE
  Oversize = {}
  MaxAttempts = 3
  MaxCopies = 2
  Interposed = {"ok"}
  EpochPrefix = TRUE
  CommitDurability = FALSE
INVARIANTS
  StaysOnPrefixLog
PROPERTIES
  Returns
