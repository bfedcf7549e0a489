--------------------------------- MODULE MCIcim ---------------------------------
(* Small instances of the IC/IM delivery job for TLC. *)
EXTENDS IcimDelivery, TLC

\* A Friday that is a session and the Saturday after it; the last hour before
\* midnight, the first one after it and the due hour.
MCDays == {1, 2}
MCTradeDays == {0, 1}
MCHours == {0, 20, 23}
Completed(d, h) ==
  CHOOSE c \in MCTradeDays :
    /\ c < d \/ (c = d /\ h >= 15)
    /\ \A e \in MCTradeDays : (e < d \/ (e = d /\ h >= 15)) => e <= c
MCCompletedDay == [p \in MCDays \X MCHours |-> Completed(p[1], p[2])]

schedule == [event |-> "schedule", ledger_only |-> FALSE, correction |-> FALSE,
             external_schedule |-> FALSE, mode |-> "close_confirmed"]
manual == [schedule EXCEPT !.event = "workflow_dispatch"]
external == [manual EXCEPT !.external_schedule = TRUE]
correction == [manual EXCEPT !.correction = TRUE]
ledgerOnly == [manual EXCEPT !.ledger_only = TRUE]
realtime == [manual EXCEPT !.mode = "realtime"]
mixed == [external EXCEPT !.ledger_only = TRUE]

AllInputs == {schedule, external, manual, correction, ledgerOnly, realtime, mixed}
LiveInputs == {schedule}
RunSymmetry == Permutations(Runs)
=================================================================================
