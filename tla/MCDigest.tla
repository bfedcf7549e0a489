-------------------------------- MODULE MCDigest --------------------------------
(* Small instances of the daily digest job for TLC. *)
EXTENDS DailyDigest, TLC

schedule == [event |-> "schedule", send_email |-> TRUE, report_date |-> Latest]
manual == [schedule EXCEPT !.event = "workflow_dispatch"]
validation == [manual EXCEPT !.send_email = FALSE]
backfill == [manual EXCEPT !.report_date = 1]

EtfInputs == {schedule, validation}
AiHotInputs == {manual, backfill}
RunSymmetry == Permutations(Runs)
=================================================================================
