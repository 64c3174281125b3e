SPECIFICATION Spec
CONSTANTS
  o1 = o1  o2 = o2  o3 = o3
  k1 = k1  k2 = k2
  b1 = b1  b2 = b2
  home = home  away = away
  NoLog = NoLog  NoBody = NoBody
  Op = {o1, o2}
  Log = {home, away}
  Key = {k1}
  Body = {b1, b2}
  Epoch <- NoPrefix
  KeyOf <- ConflictKeyOf
  BodyOf <- SameBodyOf
  Pinned = home
  Writable = TRUE
  Oversize = {}
  MaxAttempts = 2
  MaxCopies = 1
  Interposed = {"ok"}
  EpochPrefix = FALSE
  CommitDurability = TRUE
INVARIANTS
  SuccessIsCommitted
  FreshSuccessOwnsReceipt
  OriginBoundsCommit
