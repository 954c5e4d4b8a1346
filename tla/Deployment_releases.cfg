SPECIFICATION FairSpec
CONSTANTS
  api = api
  worker = worker
  NONE = NONE
  SELF = SELF
  Services <- MCServices
  Api = api
  MaxBuilds = 4
  SchemaOf <- MCSchemaOf
  Keep = 2
  MaxTroubles = 2
INVARIANTS TypeOK SchemaCovers OneRelease UsableKept RollsBack
PROPERTY Settles
CHECK_DEADLOCK FALSE
