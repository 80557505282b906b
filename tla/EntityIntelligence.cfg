CONSTANTS
  k1 = k1
  Threads = {t1, t2}
  Customers = {}
  Strangers = {s1}
  Claims = {k1}
  Articles <- MCArticles
  maxlen = 2
  MaxEvidence = 2
  MaxMatches = 1
SYMMETRY ThreadSymmetry
SPECIFICATION Spec
INVARIANTS
  TypeOK
  WindowAccounted
  FindingsAudited
PROPERTIES
  VerdictHonest
CHECK_DEADLOCK FALSE
