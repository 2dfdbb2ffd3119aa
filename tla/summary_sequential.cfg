\* One command after another over edited files of two repos, any of them killed
\* or failing once; one text has too few chunks.
SPECIFICATION FairSpec
CONSTANTS
  Proc = {p1}
  Repo = {r1, r2}
  File = {f1}
  Text = {t1, t2}
  t1 = t1
  ModelName = {"remote"}
  Dim = {1024}
  None = None
  Command <- Both
  Embedder <- TheEmbedder
  Blacklist <- Nothing
  Tiny <- Nothing
  Meagre <- OneText
  MaxConcurrent = 2
  MaxCommands = 3
  MaxFaults = 1
  MaxEdits = 1
INVARIANTS OneSummaryPerFile SummaryCurrent
PROPERTIES IsSummaryIndex
CHECK_DEADLOCK FALSE
