SPECIFICATION FairSpec
CONSTANTS
  r0 = r0
  r1 = r1
  r2 = r2
  Rank = {r0, r1, r2}
  Root = r0
  NStage = 5
  Kind <- MCKind
INVARIANTS
  TypeOK
  NobodyPassesAFailure
  BlameIsReal
PROPERTIES
  ImplementsAgreement
  AllEndTogether
