CONSTANTS
  Requests = {r1, r2}
  RequestIds = {x1}
  malformed = malformed
  Malformed = malformed
  Configurations <- MCConfigurations
  Secrets = {k1, k2}
  NoSecret = NoSecret
  Logins <- MCLogins
  NoToken = NoToken
  Garbage = Garbage
  Lifetime = 1
  MaxTime = 1
  MaxRestarts = 1
  IngestErrors = {404, 503}
  Entities <- MCEntities
  None = None
  EmptyId = ""
  LongIds = {"P3..."}
SPECIFICATION Spec
SYMMETRY Symmetry
INVARIANTS
  TypeOK
  RightsAreCurrent
  TrailTellsWhoDidWhat
  ViewWithinRights
CHECK_DEADLOCK FALSE
