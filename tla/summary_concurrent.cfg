\* Two commands at once.
SPECIFICATION FairSpec
CONSTANTS
  Proc = {p1, p2}
  Repo = {r1}
  File = {f1}
  Text = {t1, t2}
  t1 = t1
  ModelName = {"remote"}
  Dim = {1024}
  None = None
  Command <- Both
  Embedder <- TheEmbedder
  Blacklist <- Nothing
  Tiny <- Nothing
  Meagre <- Nothing
  MaxConcurrent = 1
  MaxCommands = 2
  MaxFaults = 1
  MaxEdits = 1
INVARIANTS TypeOK VecMatchesSummary
PROPERTIES CommandsEnd
CHECK_DEADLOCK FALSE
