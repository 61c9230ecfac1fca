SPECIFICATION FairSpec
CONSTANTS
  Rank = {r0, r1}
  Root = r0
  MaxIter = 3
  MinIter = 2
  MaxJob = 3
  Extension = {"none", "response", "tracking"}
  Interval = 2
  NoFile = NoFile
  Torn = Torn
INVARIANTS
  TypeOK
  CollectivesMatch
  OneTrajectory
  VelocityInLiveFrame
  TraceIsContiguous
  ParentIsLive
PROPERTIES
  DurableProgress
  FollowsTrajectory
  JobsEnd
