\* Two ETF runs, each re-run once in the slot it was created in.
SPECIFICATION Spec
CONSTANTS
  Runs = {r1, r2}
  Inputs <- EtfInputs
  Family = "etf"
  MaxTime = 6
  MaxLag = 2
  Retention = 90
  MaxAttempts = 2
  RerunHorizon = 0
SYMMETRY RunSymmetry
INVARIANTS
  TypeOK
  OneSmtpContactPerDay
PROPERTIES
  GreenIsKept
  RefusalIsAboutThisDay
CHECK_DEADLOCK FALSE
