\* One command after another, any of them killed or failing once; a file or
\* the configuration is edited once.
SPECIFICATION Spec
CONSTANTS
  Proc = {p1}
  Repo = {r1}
  File = {f1, f2}
  Text = {t1, t2}
  ModelName = {"potion", "remote"}
  Dim = {256, 1024}
  None = None
  DefaultDim = 256
  Command <- Everything
  Config <- AnyConfig
  MaxCommands = 3
  MaxFaults = 1
  MaxEdits = 1
INVARIANTS TypeOK NoDanglingVec ReplacedExactly OpensAgree DoneMeansEmbedded
PROPERTIES UpdateIsLocal IsVectorIndex
SYMMETRY Symmetry
CHECK_DEADLOCK FALSE
