SPECIFICATION Spec
CONSTANTS
  Rank = {r0, r1}
  Root = r0
  MaxIter = 2
  MinIter = 1
  MaxJob = 2
  Extension = {"tracking"}
  Interval = 2
  NoFile = NoFile
  Torn = Torn
INVARIANT InterruptionLeavesAContinuation
