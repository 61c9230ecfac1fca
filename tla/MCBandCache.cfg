SPECIFICATION CacheSpec
CONSTANTS
  Kpara = TRUE
  MaxInput = 3
INVARIANTS CacheTypeOK FlagCoversBoth ReplyIsCurrent
