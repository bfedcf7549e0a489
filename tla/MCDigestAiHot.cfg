\* Two AI HOT runs with backfill of an older day.
SPECIFICATION Spec
CONSTANTS
  Runs = {r1, r2}
  Inputs <- AiHotInputs
  Family = "ai-hot"
  MaxTime = 7
  MaxLag = 2
  Retention = 3
  MaxAttempts = 1
  RerunHorizon = 0
SYMMETRY RunSymmetry
PROPERTY KeepsPromise
CHECK_DEADLOCK FALSE
