CONSTANTS
  Officers = {o1, o2}
  Customers = {c1, c2}
  First = c1
  Governed = {c1}
  TopCase = c1
  c1 = c1
  c2 = c2
  Structures <- MCStructures
  HasArticles = FALSE
  Decisions <- MCDecisions
  SignOff = "Sign off SAR"
  MaxPresses = 3
  MaxSelections = 1
  MaxPages = 2
  MaxUnderWay = 1
  None = None
SPECIFICATION Spec
SYMMETRY Symmetry
INVARIANTS
  TypeOK
  DecisionsIntended
  OnlyCrossedIsStale
CHECK_DEADLOCK FALSE
