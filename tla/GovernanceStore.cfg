CONSTANTS
  Threads = {t1, t2}
  Main = main
  Customers = {c1}
  Strangers = {}
  StorageFaults = {"persist", "read", "edit"}
  MaxCalls = 4
  MaxCrashes = 1
SYMMETRY ThreadSymmetry
SPECIFICATION Spec
INVARIANTS
  TypeOK
  VerdictRight
  AckedDurable
  ValidMeansNumbered
  DecisionsRecorded
PROPERTIES
  ImplementsTrail
CHECK_DEADLOCK FALSE
