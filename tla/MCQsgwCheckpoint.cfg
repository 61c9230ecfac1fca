SPECIFICATION Spec
CONSTANTS
  Input = {1, 2}
  Setting = {0}
  Data = {1}
  MaxSaved = 1
INVARIANTS
  TypeOK
  ContinuesTheSameRun
  AcceptsWholeFiles
CHECK_DEADLOCK FALSE
