SPECIFICATION JSpec
CONSTANTS
  UserLabel <- Labels
  Batches <- SmallBatches
  LargeTexts <- LongBatches
  LargeJSON <- LargeJSONBatches
  MaxClaims = 2
  MaxRecords = 25
  MaxCalls = 2
  Documents <- SomeDocuments
INVARIANTS
  TypeOK
  AssertedIsAccepted
  ProvenanceIsFunctional
  NothingStoredTwice
  KeyDeterminesBody
  OneEntityPerClaim
  ConflictsOnlyInAssertions
  NothingGuessed
  CanonicalRoundTrip
\* Ingest is called at most MaxCalls times.
CHECK_DEADLOCK FALSE
