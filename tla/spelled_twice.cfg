SPECIFICATION JSpec
CONSTANTS
  UserLabel <- Labels
  Batches <- SmallBatches
  LargeTexts <- LongBatches
  LargeJSON <- LargeJSONBatches
  MaxClaims = 2
  MaxRecords = 25
  MaxCalls = 1
  Documents <- SomeDocuments
INVARIANTS
  DuplicatesAreRefused
\* Ingest is called at most MaxCalls times.
CHECK_DEADLOCK FALSE
