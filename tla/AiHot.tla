--------------------------------- MODULE AiHot ---------------------------------
(* Building the AI HOT mail: the report of a day is fetched in up to four tries,  *)
(* while midnight passes and the publisher brings out the next one.               *)
(*   scripts/daily_reports.py (build_ai), .github/workflows/ai-hot-digest.yml     *)
EXTENDS Integers, FiniteSets

CONSTANTS
  AiAttempts,      \* 4
  AiDays,        \* bound: the last day
  MaxAiRuns      \* bound: runs, one at a time (the workflow's concurrency group)

VARIABLES
  aiDay,         \* Beijing day
  issues,       \* what the publisher shows: [day, sections]
  aiRun,         \* [pc, asked, started, attempt]; asked 0: the newest report, else a back-fill
  aiMails,       \* mails built: [day, asked, started]
  aiRuns

aiVars == <<aiDay, issues, aiRun, aiMails, aiRuns>>

NoBuildYet == [pc |-> "idle", asked |-> 0, started |-> 0, attempt |-> 0]
NewestOf(reports) == CHOOSE r \in reports : \A s \in reports : s.day <= r.day

AiInit == aiDay = 1 /\ issues = {} /\ aiRun = NoBuildYet /\ aiMails = {} /\ aiRuns = 0

\* The publisher brings out the report of a day, or changes one; a report may have no section yet.
Publish == \E d \in 1 .. aiDay, sections \in 0 .. 1 :
  /\ issues' = {r \in issues : r.day # d} \cup {[day |-> d, sections |-> sections]}
  /\ issues' # issues
  /\ UNCHANGED <<aiDay, aiRun, aiMails, aiRuns>>
AiMidnight ==
  /\ aiDay < AiDays /\ aiDay' = aiDay + 1
  /\ UNCHANGED <<issues, aiRun, aiMails, aiRuns>>

StartAi == \E asked \in 0 .. aiDay :
  /\ aiRun.pc = "idle" /\ aiRuns < MaxAiRuns
  /\ aiRun' = [pc |-> "fetch", asked |-> asked, started |-> aiDay, attempt |-> 1]
  /\ aiRuns' = aiRuns + 1
  /\ UNCHANGED <<aiDay, issues, aiMails>>

\* No answer within 30 seconds, or none but an error: waited for and tried again.
LoseAnswer ==
  /\ aiRun.pc = "fetch"
  /\ aiRun' = IF aiRun.attempt = AiAttempts THEN [aiRun EXCEPT !.pc = "failed"] ELSE [aiRun EXCEPT !.attempt = @ + 1]
  /\ UNCHANGED <<aiDay, issues, aiMails, aiRuns>>

Endpoint(run) ==
  IF run.asked = 0 THEN (IF issues = {} THEN {} ELSE {NewestOf(issues)}) ELSE {r \in issues : r.day = run.asked}
\* The day is settled before the first try.
Expected(run) == IF run.asked # 0 THEN run.asked ELSE run.started
AcceptedReport(report, run) == report.sections > 0 /\ report.day = Expected(run)

\* An answer that cannot be read, is of another day or empty ends the run; nothing asks again.
Answer == \E report \in Endpoint(aiRun), readable \in BOOLEAN :
  /\ aiRun.pc = "fetch"
  /\ LET ok == readable /\ AcceptedReport(report, aiRun) IN
     /\ aiRun' = [aiRun EXCEPT !.pc = IF ok THEN "built" ELSE "failed"]
     /\ aiMails' = IF ok THEN aiMails \cup {[day |-> report.day, asked |-> aiRun.asked, started |-> aiRun.started]}
                   ELSE aiMails
  /\ UNCHANGED <<aiDay, issues, aiRuns>>

EndAi == aiRun.pc \in {"built", "failed"} /\ aiRun' = NoBuildYet /\ UNCHANGED <<aiDay, issues, aiMails, aiRuns>>

AiNext == Publish \/ AiMidnight \/ StartAi \/ LoseAnswer \/ Answer \/ EndAi

-------------------------------------------------------------------------------
\* A mail of AI HOT is of the day somebody asked for, or of the day its run began although the
\* fetch went past midnight and the next report came out; a late publisher is never papered over
\* with the report of the day before, and no report is mailed before its day (build_ai).
AiHotMailsAreOfTheirDay ==
  \A mail \in aiMails :
    /\ mail.day = IF mail.asked = 0 THEN mail.started ELSE mail.asked
    /\ mail.day <= mail.started
================================================================================
