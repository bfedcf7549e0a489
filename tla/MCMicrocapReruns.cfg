\* One run and its re-runs with every kind of input, under fairness; a legacy marker.
SPECIFICATION FairSpec
CONSTANTS
  Runs = {r1}
  Inputs <- RerunInputs
  Instants <- AfternoonInstants
  TradeDays <- Sessions
  CompletedDay <- AfternoonCompleted
  Legacy <- OldMarker
  MaxRunHours <- Hours
  MaxAttempts = 3
INVARIANT TypeOK
PROPERTIES
  
  UncertainNeverRetried
  KeepsPromise
CHECK_DEADLOCK FALSE
