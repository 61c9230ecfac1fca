SPECIFICATION Spec
CONSTANTS
  MaxProc = 8
  MaxKpoint = 5
  MaxItem = 5
  MaxRequest = 4
  MaxOpen = 2
INVARIANTS TypeOK KpointsPartitioned RootHolds ListPartitioned
