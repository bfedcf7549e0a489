\* Six days of ETF digests, seven weeks of monitor reports, three runs
\* over the archives of one close, two AI HOT runs in three days, a run of MNT, and every case.
SPECIFICATION Spec
CONSTANTS
  Worlds <- EtfWorlds
  Window = 1
  Backfill = 2
  Dedupe = 3
  History = 4
  MinResearch = 2
  FixedLimit = 1
  ForumLimit = 2
  MinForum = 2
  LastDay = 6
  MaxBuilds = 3
  MaxAge = 2
  LastMoment = 6
  MaxEquityRuns = 2
  MaxAttempts = 2
  Methods = 2
  Shas = {1, 2}
  Successors <- OneSuccessor
  LastClose = 1
  MaxRecoveryRuns = 3
  MaxUploads = 2
  MaxIncidents = 1
  AiAttempts = 4
  AiDays = 3
  MaxAiRuns = 2
INVARIANTS
  MarketTablesAreSound
  RepeatsAreExplained
  OmissionsAreTold
  IcimMailsAreSupported
  MicrocapMailsAreSupported
  OtherMailsAreCurrent
PROPERTY RecoveryIsProved
CHECK_DEADLOCK FALSE
