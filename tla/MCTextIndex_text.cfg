\* Five headings and sentences; a full chunk takes ten tokens, and its overlap three.
\* Batches of two chunks, and two retries.
SPECIFICATION IndexSpec
CONSTANTS
  Title = {"A", "B"}
  MaxLevel = 2
  Tokens = {1, 2, 9}
  TargetMin = 8
  TargetMax = 10
  OverlapTarget = 3
  Seam = 1
  MaxLines = 5
  MaxBatch = 2
  MaxRetries = 2
INVARIANT ChunksKnowTheirHeadings
INVARIANT NothingLost
INVARIANT PartsAdvance
INVARIANT SizeBounded
INVARIANT EmbedsAllOrGivesUp
CHECK_DEADLOCK FALSE
