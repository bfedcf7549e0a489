\* Two scheduled runs and a re-run of each under fairness.
SPECIFICATION FairSpec
CONSTANTS
  Runs = {r1, r2}
  Inputs <- LiveInputs
  Days <- MCDays
  Hours <- MCHours
  TradeDays <- MCTradeDays
  CompletedDay <- MCCompletedDay
  MaxGap = 1
  Retention = 3
  MaxRunHours = 2
  MaxAttempts = 2
INVARIANT AtMostOneNormalMail
PROPERTY EveryRunConcludes
CHECK_DEADLOCK FALSE
