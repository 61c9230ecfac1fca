SPECIFICATION Spec
CONSTANTS
  Selections = {s1, s2}
  NoSelection = none
INVARIANTS TypeOK CallersStateKept RightResponseScreened
