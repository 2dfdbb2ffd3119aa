\* One call of either embedder: up to three inputs in batches of two, one of
\* them refused, an answer of a wrong shape, two statuses that are not retried
\* and more faults than retries.
SPECIFICATION FairSpec
CONSTANTS
  good1 = good1
  good2 = good2
  bad = bad
  Zero = Zero
  Text <- Inputs3
  Rotten <- JustBad
  Providers <- Both
  BatchSize = 2
  MaxConcurrent = 1
  Qpm = 1
  MaxTexts = 3
  MaxCalls = 1
  MaxFaults = 6
  MaxDenied = 2
  MaxGarbled = 1
  MaxTicks = 4
INVARIANTS TypeOK Aligned GoodInputsGetVectors RateBounded
PROPERTIES CallsReturn
CHECK_DEADLOCK FALSE
