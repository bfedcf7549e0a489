--------------------------------- MODULE Trigger ---------------------------------
(* What starts the publications of a day: the Cloudflare cron worker that dispatches    *)
(* the workflows, and the member report somebody runs locally during the session.       *)
(*   cloudflare-workers/microcap-post-close-trigger/worker.js,                           *)
(*   scripts/run_microcap_member_local.py                                                *)
EXTENDS Naturals, FiniteSets

CONSTANTS
  TDays,        \* bound: days are 1 .. TDays; the weekday is the day modulo 7, 6 Saturday, 0 Sunday
  FirstDay,     \* the first day the clock is in
  MAX_ATTEMPTS,
  MaxSwitches   \* bound: deployments that change MEMBER_DAILY_ENABLED

ASSUME TriggerAssumption ==
  TDays \in Nat /\ FirstDay \in 1 .. TDays /\ MAX_ATTEMPTS \in Nat \ {0} /\ MaxSwitches \in Nat

VARIABLES
  slot,       \* [day, at]: at is the number of crons of the day that have been fired
  enabled,    \* MEMBER_DAILY_ENABLED
  switches,   \* deployments so far
  calls,      \* the dispatches: a set of [day, workflow, attempt, lost, runs, outcome]
  local       \* the local member run

triggerVars == <<slot, enabled, switches, calls, local>>

Weekday(day) == day % 7 \notin {6, 0}
\* The crons of a UTC day in order.
AtOne == 1 \* 0 1 * * *
AtSeven == 2 \* 10 7 * * MON-FRI
AtEight == 3 \* 0 8 * * MON-FRI
AtTwelve == 4 \* 0 12 * * MON-FRI
AtNight == 5 \* 30 21 * * *
Fires(at, day) == at \in {AtOne, AtNight} \/ Weekday(day)

\* scheduled: the routes of a cron.
Routes(at, day, on) ==
  CASE at = AtSeven -> IF on THEN {"rebalance"} ELSE {}
    [] at = AtOne -> {"ai_hot"} \cup IF on /\ Weekday(day) THEN {"maintenance"} ELSE {}
    [] at = AtEight -> IF on THEN {"microcap_member"} ELSE {"microcap_realtime"}
    [] at = AtTwelve -> {"ic_im"}
    [] at = AtNight -> {"etf"}

CloseRoutes == {"microcap_realtime", "microcap_member"}

LocalIdle == [pc |-> "idle"]
TriggerInit ==
  /\ slot = [day |-> FirstDay, at |-> 0] /\ enabled \in BOOLEAN /\ switches = 0
  /\ calls = {} /\ local = LocalIdle

Open(call) == call.outcome = "open"
\* The next cron of the day; the calls of the one before have ended long ago (of those only
\* the close publication is remembered).
Fire ==
  /\ slot.at < AtNight /\ ~\E c \in calls : Open(c)
  /\ slot' = [slot EXCEPT !.at = @ + 1]
  /\ calls' = {c \in calls : c.day = slot.day /\ c.workflow \in CloseRoutes} \cup
       (IF Fires(slot'.at, slot.day)
        THEN {[day |-> slot.day, workflow |-> w, attempt |-> 1, lost |-> 0, runs |-> 0, outcome |-> "open"] :
                w \in Routes(slot'.at, slot.day, enabled)}
        ELSE {})
  /\ UNCHANGED <<enabled, switches, local>>
NextDay ==
  /\ slot.at = AtNight /\ slot.day < TDays /\ ~\E c \in calls : Open(c)
  /\ slot' = [day |-> slot.day + 1, at |-> 0]
  /\ UNCHANGED <<enabled, switches, calls, local>>
Deploy ==
  /\ switches < MaxSwitches /\ switches' = switches + 1 /\ enabled' = ~enabled
  /\ UNCHANGED <<slot, calls, local>>

\* dispatchWorkflow: one call.  GitHub may create the run and its answer may be lost or be a
\* 5xx; a refusal is not repeated.
Retryable(answer) == answer \in {"transient", "lost"}
AttemptsIncluded(c) == c.attempt <= MAX_ATTEMPTS   \* mutant
AttemptsLeft(c) == c.attempt < MAX_ATTEMPTS
Dispatch(c) ==
  /\ c \in calls /\ Open(c)
  /\ \E answer \in {"accepted", "transient", "refused", "lost"}, created \in BOOLEAN :
       /\ answer = "accepted" => created
       /\ answer \in {"transient", "refused"} => ~created
       /\ calls' = (calls \ {c}) \cup {[c EXCEPT
            !.runs = IF created THEN @ + 1 ELSE @,
            !.lost = IF answer = "lost" /\ created THEN @ + 1 ELSE @,
            !.attempt = IF Retryable(answer) /\ AttemptsLeft(c) THEN @ + 1 ELSE @,
            !.outcome = IF answer = "accepted" THEN "accepted"
                        ELSE IF Retryable(answer) /\ AttemptsLeft(c) THEN "open" ELSE answer]}
  /\ UNCHANGED <<slot, enabled, switches, local>>

DispatchNext == Fire \/ NextDay \/ Deploy \/ (\E c \in calls : Dispatch(c))

-------------------------------------------------------------------------------
(* run_microcap_member_local.py.  The local clock is the hour of the day; the strategy  *)
(* checkout may be switched by somebody else.                                           *)

Hours == 14 .. 16
LocalWindow(run, prepare) == run.today = run.day /\ (prepare \/ run.hour < 15)
\* Elapsed time between two steps; at hour 16 the next hour is the next day.
LocalTick ==
  /\ local.pc \notin {"idle", "ended"}
  /\ local' = IF local.hour = 16 THEN [local EXCEPT !.hour = 14, !.today = 2] ELSE [local EXCEPT !.hour = @ + 1]
  /\ local.today = 1 /\ UNCHANGED <<slot, enabled, switches, calls>>
\* main, up to the checkpoint: the date named, the pinned commit, a fresh directory.
StartLocal == \E hour \in Hours, prepare, pinned \in BOOLEAN, cached \in {"none", "superseded", "usable"}, day \in 1 .. 2 :
  /\ local = LocalIdle
  /\ LET run == [pc |-> "restore", day |-> day, today |-> 1, hour |-> hour, prepare |-> prepare,
                 cached |-> cached, source |-> "none", quoted |-> 0, quotedDay |-> 0, report |-> "none"] IN
     local' = IF LocalWindow(run, prepare) /\ pinned THEN run ELSE [run EXCEPT !.pc = "ended"]
  /\ UNCHANGED <<slot, enabled, switches, calls>>
\* reusable_checkpoint, or the restore of a published one; then the strategy verifies it.
LocalCheckpoint ==
  /\ local.pc = "restore"
  /\ \/ local' = [local EXCEPT !.source = IF local.cached = "usable" THEN "cached" ELSE "restored",
                              !.pc = IF local.prepare THEN "ended" ELSE "window",
                              !.report = IF local.prepare THEN "prepared" ELSE @]
     \/ local' = [local EXCEPT !.pc = "ended"]
  /\ UNCHANGED <<slot, enabled, switches, calls>>
LocalReopen ==
  /\ local.pc = "window"
  /\ local' = IF LocalWindow(local, FALSE) THEN [local EXCEPT !.pc = "collect"] ELSE [local EXCEPT !.pc = "ended"]
  /\ UNCHANGED <<slot, enabled, switches, calls>>
\* collect_member_daily_inputs, then the signal and the digest; each may fail.
LocalCollect ==
  /\ local.pc = "collect"
  /\ \/ local' = [local EXCEPT !.pc = "digest", !.quoted = local.hour, !.quotedDay = local.today]
     \/ local' = [local EXCEPT !.pc = "ended"]
  /\ UNCHANGED <<slot, enabled, switches, calls>>
\* The window once more before the report is called ready.
ReadyNow(run) == LocalWindow(run, FALSE)
LocalReport ==
  /\ local.pc = "digest"
  /\ local' = [local EXCEPT !.pc = "ended", !.report = IF ReadyNow(local) THEN "ready" ELSE @]
  /\ UNCHANGED <<slot, enabled, switches, calls>>

LocalNext == StartLocal \/ LocalTick \/ LocalCheckpoint \/ LocalReopen \/ LocalCollect \/ LocalReport

-------------------------------------------------------------------------------
(* Properties                                                                     *)

\* One workflow is dispatched twice by a cron only when GitHub created a run whose answer was
\* lost, and never more than three times; after a refusal it has only the runs of lost answers.
RepeatedRunsAreLostAnswers ==
  \A c \in calls : c.runs <= c.lost + 1 /\ c.runs <= MAX_ATTEMPTS /\ (c.outcome = "refused" => c.runs <= c.lost)

\* Whenever the member route is switched on or off, a day has one close publication of the
\* microcap strategies; a call that ends unanswered is the only one that may have none.
OneCloseRouteADay ==
  /\ \A c, d \in calls : (c.day = d.day /\ c.workflow \in CloseRoutes
                          /\ d.workflow \in CloseRoutes) => c = d
  /\ (slot.at >= AtEight /\ Weekday(slot.day)) =>
       \E c \in calls : c.day = slot.day /\ c.workflow \in CloseRoutes

\* A local report that is called ready was quoted on the day it names, and neither collected
\* nor finished at or after 15:00, however long the steps took.
LocalReportsAreIntraday ==
  (local.pc = "ended" /\ local.report = "ready") =>
    local.quotedDay = local.day /\ local.quoted < 15 /\ local.hour < 15 /\ local.today = local.day
===============================================================================
