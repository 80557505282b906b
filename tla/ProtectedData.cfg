CONSTANTS
  Threads = {t1, t2}
  Names = {n1, out}
  BadNames = {out}
  document = document
  blob = blob
  Values = {document, blob}
  JsonValues = {document}
  KeyIds = {k1}
  Keys = {A, B}
  Tokens = {old}
  MaxUndone = 1
  None = None
SPECIFICATION DataSpec
SYMMETRY Symmetry
INVARIANTS
  DataTypeOK
  ArtifactWhole
  ReadRight
  AuditTells

