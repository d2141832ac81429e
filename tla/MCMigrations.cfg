SPECIFICATION FairSpec
CONSTANTS
  Files <- SomeFiles
  Rank <- Ranked
  Version <- Versioned
  Number <- Numbered
  Tables <- SomeTables
  Creates <- Created
  Drops <- Dropped
  Needs <- Needed
  Servers = {p1, p2}
  Null = Null
  MaxCrashes = 2
CHECK_DEADLOCK FALSE
INVARIANTS
  TypeOK
  UpIsMigrated
  JournalLagsByOne
  SchemaIsMade
PROPERTY
  ComesUp
