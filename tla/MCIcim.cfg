\* Two runs of any dispatch around one midnight: scheduled, manual, correction,
\* ledger-only and realtime runs.
SPECIFICATION Spec
CONSTANTS
  Runs = {r1, r2}
  Inputs <- AllInputs
  Days <- MCDays
  Hours <- MCHours
  TradeDays <- MCTradeDays
  CompletedDay <- MCCompletedDay
  MaxGap = 1
  Retention = 3
  MaxRunHours = 2
  MaxAttempts = 1
SYMMETRY RunSymmetry
INVARIANTS
  TypeOK
  MarkerMeansAccepted
PROPERTIES
  UncertainNeverRetried
  GreenMeansDelivered
  KeepsPromise
  LedgerIsKept
CHECK_DEADLOCK FALSE
