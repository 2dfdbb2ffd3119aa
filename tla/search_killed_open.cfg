\* A command killed inside open_with_dim, and commands after it.
SPECIFICATION Spec
CONSTANTS
  Proc = {p1}
  Repo = {r1}
  File = {f1}
  Text = {t1}
  ModelName = {"potion", "remote"}
  Dim = {256, 1024}
  None = None
  DefaultDim = 256
  Command <- Everything
  Config <- OnlyWide
  MaxCommands = 3
  MaxFaults = 1
  MaxEdits = 0
INVARIANTS OpenedAtDim
CHECK_DEADLOCK FALSE
