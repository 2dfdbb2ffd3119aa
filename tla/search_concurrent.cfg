\* Two commands at once, with a fault.  A file of two chunks is chunked in any
\* order, so that an id given twice would carry two texts.
SPECIFICATION FairSpec
CONSTANTS
  Proc = {p1, p2}
  Repo = {r1}
  File = {f1}
  Text = {t1, t2}
  ModelName = {"potion", "remote"}
  Dim = {256, 1024}
  None = None
  DefaultDim = 256
  Command <- WritersOnly
  Config <- OnlyRemote
  MaxCommands = 2
  MaxFaults = 1
  MaxEdits = 0
INVARIANTS VecMatchesRow BatchMatchesRow
PROPERTIES CommandsEnd
CHECK_DEADLOCK FALSE
