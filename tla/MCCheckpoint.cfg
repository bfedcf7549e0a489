\* Three runs, one of them re-run, over three sessions, the membership changes at the close of the second;
\* two refreshes in four days, a Friday to a Sunday of crons with two deployments, a trading day of v1.2 and the day after;
\* three verified bundles on pages of one, two changes while a search goes on.
SPECIFICATION StateSpec
CONSTANTS
  Runs = {r1, r2, r3}
  LastSession = 3
  Rebalances = {2}
  MaxReruns = 1
  Revisions = {1, 2}
  Legacy <- OldArtifact
  MaxLegacy = 1
  Sources = {"base", "metadata"}
  Approved <- BootstrapArchive
  Releases <- SomeReleases
  NDays = 4
  NSessions = {1, 4}
  NRuns = 2
  MaxGenerations = 4
  TDays = 8
  FirstDay = 5
  MAX_ATTEMPTS = 3
  MaxSwitches = 2
  EDays = 2
  ETrading = {1}
  MaxManual = 1
  PageSize = 1
  MaxPages = 3
  MaxBundles = 3
  MaxChanges = 2
SYMMETRY RunSymmetry
INVARIANTS
  RestoresAreSound
  RefreshesAreSound
  StartsAreOfTheirDay
PROPERTIES
  ChainIsContinued
  EarlierDigestIsExplained
CHECK_DEADLOCK FALSE
