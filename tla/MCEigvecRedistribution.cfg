SPECIFICATION FairSpec
CONSTANTS
  Outer = 2
  Inner = 2
  Rank <- MCRank
  Reads <- MCReads
  Root <- MCRoot
  Team <- MCTeam
  NKpoint = 3
  NChunk = 2
  MaxBuffer = 1
  MaxSet = 3
  MaxCall = 2
INVARIANTS TypeOK OneVerdict NothingLost ReadyIsComplete
PROPERTY CallsReturn
