CONSTANTS
  Threads = {t1, t2}
  Main = main
  Customers = {c1}
  Strangers = {}
  StorageFaults = {}
  MaxCalls = 4
  MaxCrashes = 1
SPECIFICATION Spec
PROPERTIES
  ChainContinues
CHECK_DEADLOCK FALSE
