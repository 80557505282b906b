CONSTANTS
  Unknown = Unknown
  None = None
  HeaderRow = HeaderRow
  Short = {"un", "abc", "sea"}
  Likeness <- MCLikeness
  ContextLikeness <- MCContextLikeness
  IsoCode <- MCIsoCode
  SdnRows <- MCSdnRows
  AltRows <- MCAltRows
  OpenSanctionsRows <- MCOpenSanctionsRows
  FixtureSdnRows <- MCFixtureSdnRows
  FixtureTargetRows <- MCFixtureTargetRows
  ClientRows <- MCClientRows
  OwnershipFile <- MCOwnershipFile
  FileStates <- MCFileStates
  Modes <- MCModes
  RowLimits <- MCRowLimits
  Queries <- MCQueries
  Asked = {1, 3}
  Words <- MCWords
  Payloads <- MCPayloads
  Findings <- MCFindings
  MatchLimits = {1, 25}
  Depths = {1, 2}
  MaxFindings = 1
SPECIFICATION Spec
INVARIANTS
  TypeOK
  NoMatchWithheld
  ScoresDeserved
CHECK_DEADLOCK FALSE
