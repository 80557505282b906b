CONSTANTS
  Threads = {t1, t2}
  NoSink = NoSink
  FileFaults = {"mkdir", "read", "write", "fsync", "power", "hand"}
  MaxEvents = 3
  MaxCrashes = 1
SPECIFICATION Spec
INVARIANTS
  TypeOK
  DamageConfined
  AckedReadable
CHECK_DEADLOCK FALSE
