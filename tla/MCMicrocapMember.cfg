\* Member runs around one midnight: a report of one day takes the marker of the next.
SPECIFICATION Spec
CONSTANTS
  Runs = {r1, r2}
  Inputs <- MemberInputs
  Instants <- MemberInstants
  TradeDays <- Sessions
  CompletedDay <- MemberCompleted
  Legacy <- NoLegacy
  MaxRunHours <- Hours
  MaxAttempts = 1
SYMMETRY RunSymmetry
INVARIANTS
  MarkerNamesItsReport
CHECK_DEADLOCK FALSE
