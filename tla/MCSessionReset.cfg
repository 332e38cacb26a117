SPECIFICATION Spec
CONSTANTS
  Sessions = {s1, s2}
  Builders = {b1, b2}
  Sources <- MCSources
  Secrets = {"xor1", "xor2"}
  Public = "public"
  Requests <- MCRequests
  Geometry <- MCGeometry
  MaxKeys = 2
  MaxActors = 3
  Absent = Absent
  Torn = Torn
  HOLDOUT_CHIPS <- MCHoldoutChips
  HoldoutRows <- MCHoldoutRows
  STANDARD_FACTS <- MCFacts
SYMMETRY MCSymmetry
INVARIANTS TypeOK WorkerReadsOwnConfig AcceptedWasBuilt FinishedBuildLoads
CHECK_DEADLOCK FALSE
