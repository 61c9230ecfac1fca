SPECIFICATION Spec
CONSTANTS
  MaxRow = 4
  MaxCol = 4
  MaxAtom = 6
  MaxCall = 2
INVARIANTS TypeOK PairsSharedOut InputSurvives HoldsWhatItNeeds
CHECK_DEADLOCK FALSE
