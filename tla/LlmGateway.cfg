CONSTANTS
  c1 = c1
  c2 = c2
  Nothing = Nothing
  Claims <- MCClaims
  Identifiers <- MCIdentifiers
  Carries <- MCCarries
  Articles <- MCArticles
SPECIFICATION GatewaySpec
INVARIANTS
  GatewayTypeOK
  LeavesOnlyAsAllowed
  OnlyUpheld
PROPERTIES
  EveryArticleAnswered
