\* Two runs of both workflows around midnight and at the next close: scheduled
\* digests, a catch-up, a correction and member reports.
SPECIFICATION Spec
CONSTANTS
  Runs = {r1, r2}
  Inputs <- SharedInputs
  Instants <- SharedInstants
  TradeDays <- Sessions
  CompletedDay <- SharedCompleted
  Legacy <- NoLegacy
  MaxRunHours <- Hours
  MaxAttempts = 1
SYMMETRY RunSymmetry
INVARIANTS
  AtMostOneAutomaticMail
  CloseReceiptSettles
PROPERTIES
  GreenMeansDelivered
  UncertainNeverRetried
CHECK_DEADLOCK FALSE
