------------------------------ MODULE IcimDelivery ------------------------------
(***************************************************************************)
(* The IC/IM v1.4 post-close delivery job:                                 *)
(* .github/workflows/ic-im-v1-4-daily-digest.yml and the scripts its steps *)
(* call.  A run is dispatched (GitHub schedule, Cloudflare dispatch with   *)
(* external_schedule, or by hand), waits for the concurrency group, and    *)
(* executes the steps of the send job one by one.  What survives a run are *)
(* the artifacts it uploaded (send intents, delivered markers, ledgers),   *)
(* its conclusion, and the mails the SMTP server accepted.                 *)
(*                                                                         *)
(* Each step has the condition of its `if:` (the ...If operators) and is   *)
(* either executed, broken (it fails, or is interrupted, and the job is no *)
(* longer healthy) or skipped.  A step without a status function runs only *)
(* while the job is healthy; Build and Send carry always().                *)
(***************************************************************************)
EXTENDS Integers, Sequences, FiniteSets

CONSTANTS
  Runs,           \* workflow runs
  Inputs,         \* the dispatch inputs that occur
  Days,           \* Beijing calendar days of the model
  Hours,          \* hours of the day at which something happens
  TradeDays,      \* exchange sessions among Days
  CompletedDay,   \* CompletedDay[d, h]: strategy._latest_completed_exchange_day
  MaxGap,         \* longest distance from a day to its latest completed session
  Retention,      \* retention-days of intents and markers
  MaxRunHours,    \* timeout-minutes: 85, in whole hours the clock may show
  MaxAttempts     \* bound on re-runs of one workflow run

VARIABLES
  day, hour,      \* Beijing clock
  input,          \* the inputs a run was dispatched with
  phase,          \* where a run is in the concurrency group / its conclusion
  attempt,        \* github.run_attempt
  job,            \* local state of the send job
  intents,        \* send-intent artifacts
  markers,        \* delivered-marker artifacts
  ledgers,        \* ledger artifacts, oldest first
  mails           \* mails the SMTP server accepted

vars == <<day, hour, input, phase, attempt, job, intents, markers, ledgers, mails>>

Modes == {"realtime", "close_confirmed"}

Input == [event : {"schedule", "workflow_dispatch"}, ledger_only : BOOLEAN,
          correction : BOOLEAN, external_schedule : BOOLEAN, mode : Modes]

ASSUME RunsAssumption == IsFiniteSet(Runs)

ASSUME InputsAssumption == Inputs \subseteq Input

ASSUME CalendarAssumption ==
  /\ Days \subseteq Nat
  /\ Hours \subseteq 0 .. 23
  /\ TradeDays \subseteq Nat
  /\ MaxGap \in Nat
  /\ CompletedDay \in [Days \X Hours -> Nat]
  /\ \A d \in Days, h \in Hours :
       /\ CompletedDay[d, h] <= d
       /\ d <= CompletedDay[d, h] + MaxGap

\* An artifact outlives every run that may still ask about its signal day:
\* 30 days against the longest exchange holiday, plus one midnight.
ASSUME RetentionAssumption ==
  /\ Retention \in Nat
  /\ MaxRunHours \in 0 .. 24
  /\ MaxAttempts \in Nat
  /\ Retention > MaxGap + 1

NoInput == [event |-> "none", ledger_only |-> FALSE, correction |-> FALSE,
            external_schedule |-> FALSE, mode |-> "close_confirmed"]

SignalDays == Nat
Key == [day : SignalDays, mode : Modes]
NoKey == [day |-> 0, mode |-> "none"]

StepName == {"classify", "gate", "calendar", "restore", "signal", "build", "prepare",
             "resultgate", "intent", "send", "verify", "ledger", "mark", "audit"}

\* Fields left by the steps of the job: their outcomes and outputs.
Job == [step : StepName, healthy : BOOLEAN, cancelled : BOOLEAN, since : Nat,
        shouldSend : BOOLEAN, today : Nat, tradeDay : BOOLEAN, target : Nat,
        chain : SUBSET (Nat \X Runs), ran : {"skipped", "success", "failure"},
        exit : {"none", "zero", "nonzero"}, key : Key \cup {NoKey},
        built : BOOLEAN, prepared : BOOLEAN, resultDay : {"none", "send", "skip"},
        intent : BOOLEAN, sent : {"no", "ok", "failed"}, verified : BOOLEAN]

\* Intents and markers; mails.  NoKey is the key of a failure mail.
Artifact == [key : Key \cup {NoKey}, run : Runs, attempt : Nat, created : Days,
             correction : BOOLEAN]
Message == [kind : {"normal", "correction", "failure"}, run : Runs, attempt : Nat,
            key : Key \cup {NoKey}, src : SUBSET (Nat \X Runs)]

FreshJob(since) ==
  [step |-> "classify", healthy |-> TRUE, cancelled |-> FALSE, since |-> since,
   shouldSend |-> FALSE, today |-> 0, tradeDay |-> FALSE, target |-> 0,
   chain |-> {}, ran |-> "skipped", exit |-> "none", key |-> NoKey,
   built |-> FALSE, prepared |-> FALSE, resultDay |-> "none",
   intent |-> FALSE, sent |-> "no", verified |-> FALSE]

Init ==
  /\ day \in Days /\ hour \in Hours
  /\ input = [r \in Runs |-> NoInput]
  /\ phase = [r \in Runs |-> "absent"]
  /\ attempt = [r \in Runs |-> 0]
  /\ job = [r \in Runs |-> FreshJob(0)]
  /\ intents = {} /\ markers = {} /\ ledgers = <<>> /\ mails = {}

-----------------------------------------------------------------------------
(* Dispatch and the concurrency group *)

SetJob(r, j) == job' = [job EXCEPT ![r] = j]

Concluded == {"success", "failure", "cancelled"}
Running(r) == phase[r] = "running"
At(r, s) == Running(r) /\ job[r].step = s
Scheduled(r) == input[r].event = "schedule" \/ input[r].external_schedule
Manual(r) == input[r].event = "workflow_dispatch" /\ ~input[r].external_schedule
Clock(d, h) == 24 * d + h

artifacts == <<intents, markers, ledgers, mails>>

\* A newcomer becomes the one pending run; it replaces an older pending run.
Enqueue(r) ==
  phase' = [q \in Runs |-> IF q = r THEN "pending"
                           ELSE IF phase[q] = "pending" THEN "cancelled"
                           ELSE phase[q]]

Dispatch(r) ==
  /\ phase[r] = "absent"
  /\ \E i \in Inputs : input' = [input EXCEPT ![r] = i]
  /\ Enqueue(r)
  /\ attempt' = [attempt EXCEPT ![r] = 1]
  /\ UNCHANGED <<day, hour, job, artifacts>>

\* An operator re-runs a concluded run: same inputs, same run identity.
Rerun(r) ==
  /\ phase[r] \in Concluded
  /\ attempt[r] < MaxAttempts
  /\ Enqueue(r)
  /\ attempt' = [attempt EXCEPT ![r] = @ + 1]
  /\ UNCHANGED <<day, hour, input, job, artifacts>>

\* Slip: a queued run counted as holding the group.
QueueHolds == \A q \in Runs : phase[q] \notin {"running", "pending"}

GroupFree == \A q \in Runs : ~Running(q)

StartJob(r) ==
  /\ phase[r] = "pending"
  /\ GroupFree
  /\ phase' = [phase EXCEPT ![r] = "running"]
  /\ SetJob(r, FreshJob(Clock(day, hour)))
  /\ UNCHANGED <<day, hour, input, attempt, artifacts>>

\* Time passes; a job that reaches its time limit has been ended first.
Tick ==
  /\ \E d \in Days, h \in Hours :
       /\ Clock(d, h) > Clock(day, hour)
       /\ \A r \in Runs : Running(r) => Clock(d, h) <= job[r].since + MaxRunHours
       /\ day' = d
       /\ hour' = h
  /\ UNCHANGED <<input, phase, attempt, job, artifacts>>

\* The runner disappears: no later step of the job is executed.
Crash(r) ==
  /\ Running(r)
  /\ phase' = [phase EXCEPT ![r] = "failure"]
  /\ SetJob(r, FreshJob(0))
  /\ UNCHANGED <<day, hour, input, attempt, artifacts>>

\* Cancellation or the job timeout: only always() steps are still executed.
Cancel(r) ==
  /\ Running(r)
  /\ ~job[r].cancelled
  /\ SetJob(r, [job[r] EXCEPT !.healthy = FALSE, !.cancelled = TRUE])
  /\ UNCHANGED <<day, hour, input, phase, attempt, artifacts>>

-----------------------------------------------------------------------------
(* Delivery evidence *)

\* Slip: evidence kept for the day of its upload only.
LiveToday(a) == day = a.created

Live(a) == day - a.created < Retention

MarkerExists(k) == \E m \in markers : m.key = k /\ Live(m)

PendingSendExists(k) == \E i \in intents : i.key = k /\ Live(i)


SmtpAllowed(r) == ~input[r].ledger_only

\* classify_attempt: a ledger-only repair is manual, close confirmed and plain.
ValidAttempt(i) ==
  i.ledger_only => /\ i.event = "workflow_dispatch" /\ i.mode = "close_confirmed"
                   /\ ~i.correction /\ ~i.external_schedule

\* [[ "$(date +%H)" -lt 20 ]]: bash reads 08 and 09 as octal, reports an error
\* and takes the comparison for false.
HourBelowTwenty(h) == h < 20 /\ h \notin {8, 9}

-----------------------------------------------------------------------------
(* Steps of the send job *)

After == [classify |-> "gate", gate |-> "calendar", calendar |-> "restore",
          restore |-> "signal", signal |-> "build", build |-> "prepare",
          prepare |-> "resultgate", resultgate |-> "intent", intent |-> "send",
          send |-> "verify", verify |-> "ledger", ledger |-> "mark", mark |-> "audit",
          audit |-> "audit"]

LedgerPathIf(r) == job[r].shouldSend /\ (Manual(r) \/ job[r].tradeDay)
PrepareIf(r) == job[r].ran = "success" /\ job[r].exit = "zero" /\ job[r].built
\* Slip: the second gate's answer is not a condition of the intent.
IntentAnyway(r) ==
  SmtpAllowed(r) /\ job[r].shouldSend /\ job[r].exit = "zero" /\ job[r].prepared

IntentIf(r) ==
  /\ SmtpAllowed(r) /\ job[r].shouldSend /\ job[r].exit = "zero" /\ job[r].built
  /\ job[r].prepared /\ job[r].resultDay = "send"
\* Slip: the mail does not wait for the stored intent.
SendUnintended(r) ==
  /\ SmtpAllowed(r) /\ LedgerPathIf(r) /\ job[r].ran # "skipped" /\ job[r].built
  /\ job[r].exit = "nonzero" \/ job[r].resultDay = "send"

SendIf(r) ==
  /\ SmtpAllowed(r) /\ LedgerPathIf(r) /\ job[r].ran # "skipped" /\ job[r].built
  /\ \/ job[r].exit = "zero" /\ job[r].intent
     \/ job[r].exit = "nonzero"
VerifyIf(r) ==
  /\ input[r].ledger_only /\ job[r].exit = "zero" /\ job[r].built
  /\ job[r].prepared /\ job[r].resultDay # "none"
LedgerIf(r) ==
  /\ job[r].ran = "success" /\ job[r].exit = "zero" /\ job[r].built
  /\ job[r].prepared /\ job[r].resultDay # "none"
  /\ SmtpAllowed(r) \/ job[r].verified
MarkIf(r) ==
  /\ SmtpAllowed(r) /\ job[r].ran = "success" /\ job[r].exit = "zero"
  /\ job[r].sent = "ok"

StepIf(r) ==
  LET s == job[r].step
      h == job[r].healthy IN
  CASE s \in {"classify", "gate", "audit"} -> h
    [] s = "calendar" -> h /\ job[r].shouldSend
    [] s \in {"restore", "signal"} -> h /\ LedgerPathIf(r)
    [] s = "build" -> LedgerPathIf(r) /\ job[r].ran # "skipped"
    [] s = "prepare" -> h /\ PrepareIf(r)
    [] s = "resultgate" -> h /\ job[r].prepared
    [] s = "intent" -> h /\ IntentIf(r)
    [] s = "send" -> SendIf(r)
    [] s = "verify" -> h /\ VerifyIf(r)
    [] s = "ledger" -> h /\ LedgerIf(r)
    [] s = "mark" -> h /\ MarkIf(r)

\* Step s of run r is due and its condition holds.
Due(r, s) == At(r, s) /\ StepIf(r)

others == <<day, hour, input, phase, attempt>>

Skip(r) ==
  /\ Running(r) /\ job[r].step # "audit" /\ ~StepIf(r)
  /\ SetJob(r, [job[r] EXCEPT !.step = After[@]])
  /\ UNCHANGED <<others, artifacts>>

\* The step exits with an error (or its upload is refused).
Break(r) ==
  /\ Running(r) /\ StepIf(r) /\ job[r].step # "send"
  /\ SetJob(r, [job[r] EXCEPT !.healthy = FALSE, !.step = After[@],
                        !.ran = IF job[r].step = "signal" THEN "failure" ELSE @])
  /\ UNCHANGED <<others, artifacts>>

Classify(r) ==
  /\ Due(r, "classify")
  /\ ValidAttempt(input[r])
  /\ SetJob(r, [job[r] EXCEPT !.step = "gate"])
  /\ UNCHANGED <<others, artifacts>>

\* Both gates answer for a key: send, skip (a marker exists), or raise (an
\* intent without a marker: delivery is uncertain).  Corrections always send.
GateSends(r, k) == input[r].correction \/ ~MarkerExists(k)
GateBlocks(r, k) == ~input[r].correction /\ ~MarkerExists(k) /\ PendingSendExists(k)

\* First gate, on the current Beijing day.
TooEarly(r) == Scheduled(r) /\ HourBelowTwenty(hour)
TodayKey(r) == [day |-> day, mode |-> input[r].mode]

DeliveryGate(r) ==
  /\ Due(r, "gate")
  /\ TooEarly(r) \/ ~GateBlocks(r, TodayKey(r))
  /\ SetJob(r, [job[r] EXCEPT !.step = "calendar",
                        !.shouldSend = ~TooEarly(r) /\ GateSends(r, TodayKey(r))])
  /\ UNCHANGED <<others, artifacts>>

\* trade_day, today and completed_day are read from one clock; checkout,
\* installation and identity checks before it can only break.
Calendar(r) ==
  /\ Due(r, "calendar")
  /\ SetJob(r, [job[r] EXCEPT !.step = "restore", !.today = day,
       !.tradeDay = (day \in TradeDays),
       !.target = IF input[r].mode = "realtime" THEN day ELSE CompletedDay[day, hour]])
  /\ UNCHANGED <<others, artifacts>>

\* Newest ledger artifact whose run is completed and successful; otherwise the
\* migrated v1.3 seed, the empty chain.
Restorable(n) == phase[ledgers[n].run] = "success"

LatestLedger ==
  UNION {ledgers[n].chain : n \in {m \in DOMAIN ledgers :
           Restorable(m) /\ \A l \in DOMAIN ledgers : Restorable(l) => l <= m}}

\* Slip: the seed is migrated again although a ledger was restored.
RestoreSeed(r) ==
  /\ Due(r, "restore")
  /\ SetJob(r, [job[r] EXCEPT !.step = "signal", !.chain = {}])
  /\ UNCHANGED <<others, artifacts>>

RestoreLedger(r) ==
  /\ Due(r, "restore")
  /\ SetJob(r, [job[r] EXCEPT !.step = "signal", !.chain = LatestLedger])
  /\ UNCHANGED <<others, artifacts>>

\* The runner appends one record per missing session up to the target day; a
\* record is identified by its day and the run that derived it.
Extend(chain, target, r) ==
  chain \cup {<<d, r>> : d \in {t \in TradeDays : t <= target /\ \A e \in chain : e[1] < t}}

RunSignal(r) ==
  /\ Due(r, "signal")
  /\ \/ SetJob(r, [job[r] EXCEPT !.step = "build", !.ran = "success", !.exit = "zero",
          !.key = [day |-> job[r].target, mode |-> input[r].mode],
          !.chain = IF input[r].mode = "realtime" THEN @
                       ELSE Extend(@, job[r].target, r)])
     \/ SetJob(r, [job[r] EXCEPT !.step = "build", !.ran = "success", !.exit = "nonzero"])
  /\ UNCHANGED <<others, artifacts>>

\* A successful result must be about an exchange session.
SessionResult(r) == job[r].exit = "zero" => job[r].key.day \in TradeDays

BuildDigest(r) ==
  /\ Due(r, "build")
  /\ SessionResult(r)
  /\ SetJob(r, [job[r] EXCEPT !.step = "prepare", !.built = TRUE])
  /\ UNCHANGED <<others, artifacts>>

PrepareMarker(r) ==
  /\ Due(r, "prepare")
  /\ SetJob(r, [job[r] EXCEPT !.step = "resultgate", !.prepared = TRUE])
  /\ UNCHANGED <<others, artifacts>>

\* Slip: an intent without a marker is answered "skip" instead of raising.
ResultDaySkips(r) ==
  /\ Due(r, "resultgate")
  /\ SetJob(r, [job[r] EXCEPT !.step = "intent", !.resultDay =
       IF GateSends(r, job[r].key) /\ ~GateBlocks(r, job[r].key) THEN "send" ELSE "skip"])
  /\ UNCHANGED <<others, artifacts>>

\* Second gate, on the day the signal is about.
ResultDayGate(r) ==
  /\ Due(r, "resultgate")
  /\ ~GateBlocks(r, job[r].key)
  /\ SetJob(r, [job[r] EXCEPT !.step = "intent",
       !.resultDay = IF GateSends(r, job[r].key) THEN "send" ELSE "skip"])
  /\ UNCHANGED <<others, artifacts>>

\* Slip: artifacts named by today instead of the day of the result.
TodayEvidence(r) == [key |-> TodayKey(r), run |-> r, attempt |-> attempt[r],
                     created |-> day, correction |-> input[r].correction]

Evidence(r) == [key |-> job[r].key, run |-> r, attempt |-> attempt[r], created |-> day,
                correction |-> input[r].correction]

\* Upload the intent; ok = FALSE: stored, but the step did not report success.
PersistIntent(r) ==
  /\ Due(r, "intent")
  /\ intents' = intents \cup {Evidence(r)}
  /\ \E ok \in BOOLEAN :
       SetJob(r, [job[r] EXCEPT !.step = "send", !.intent = ok, !.healthy = ok])
  /\ UNCHANGED <<others, markers, ledgers, mails>>

Kind(r) == IF job[r].exit = "nonzero" THEN "failure"
           ELSE IF input[r].correction THEN "correction" ELSE "normal"

Mail(r) == [kind |-> Kind(r), run |-> r, attempt |-> attempt[r],
            key |-> IF job[r].exit = "nonzero" THEN NoKey ELSE job[r].key,
            src |-> {e \in job[r].chain : e[1] = job[r].key.day /\ job[r].exit = "zero"}]

\* SMTP accepts the message; ok = FALSE: the step fails after the acceptance
\* (one recipient refused, connection or runner lost).
SendGmail(r) ==
  /\ Due(r, "send")
  /\ \/ /\ mails' = mails \cup {Mail(r)}
        /\ \E ok \in BOOLEAN :
             SetJob(r, [job[r] EXCEPT !.step = "verify", !.healthy = @ /\ ok,
                                !.sent = IF ok THEN "ok" ELSE "failed"])
     \/ /\ SetJob(r, [job[r] EXCEPT !.step = "verify", !.healthy = FALSE,
                              !.sent = "failed"])
        /\ mails' = mails
  /\ UNCHANGED <<others, intents, markers, ledgers>>

VerifyRecovery(r) ==
  /\ Due(r, "verify")
  /\ SetJob(r, [job[r] EXCEPT !.step = "ledger", !.verified = TRUE])
  /\ UNCHANGED <<others, artifacts>>

UploadLedger(r) ==
  /\ Due(r, "ledger")
  /\ ledgers' = Append(ledgers, [run |-> r, chain |-> job[r].chain])
  /\ \E ok \in BOOLEAN : SetJob(r, [job[r] EXCEPT !.step = "mark", !.healthy = ok])
  /\ UNCHANGED <<others, intents, markers, mails>>

MarkDelivered(r) ==
  /\ Due(r, "mark")
  /\ markers' = markers \cup {Evidence(r)}
  /\ \E ok \in BOOLEAN : SetJob(r, [job[r] EXCEPT !.step = "audit", !.healthy = ok])
  /\ UNCHANGED <<others, intents, ledgers, mails>>

\* Slip: the conclusion of the last step instead of the run's.
StepConclusion(r) == IF job[r].healthy THEN "success" ELSE "skipped"

\* The last step fails a run whose signal failed; the run gets its conclusion.
Conclusion(r) ==
  IF job[r].cancelled THEN "cancelled"
  ELSE IF job[r].healthy /\ job[r].exit # "nonzero" THEN "success" ELSE "failure"

Finish(r) ==
  /\ At(r, "audit")
  /\ phase' = [phase EXCEPT ![r] = Conclusion(r)]
  /\ SetJob(r, FreshJob(0))
  /\ UNCHANGED <<day, hour, input, attempt, artifacts>>

\* The scripts that refuse: an invalid input combination, an uncertain earlier
\* delivery, a result that is not about a session.
Raise(r) ==
  /\ \/ Due(r, "classify") /\ ~ValidAttempt(input[r])
     \/ Due(r, "gate") /\ ~TooEarly(r) /\ GateBlocks(r, TodayKey(r))
     \/ Due(r, "build") /\ ~SessionResult(r)
     \/ Due(r, "resultgate") /\ GateBlocks(r, job[r].key)
  /\ Break(r)

JobStep(r) ==
  \/ Classify(r) \/ Raise(r) \/ DeliveryGate(r) \/ Calendar(r)
  \/ RestoreLedger(r) \/ RunSignal(r) \/ BuildDigest(r) \/ PrepareMarker(r)
  \/ ResultDayGate(r) \/ PersistIntent(r) \/ SendGmail(r) \/ VerifyRecovery(r)
  \/ UploadLedger(r) \/ MarkDelivered(r) \/ Skip(r) \/ Finish(r)

Environment(r) == Dispatch(r) \/ Rerun(r) \/ Crash(r) \/ Cancel(r) \/ Break(r)

Next == Tick \/ \E r \in Runs : StartJob(r) \/ JobStep(r) \/ Environment(r)

Spec == Init /\ [][Next]_vars

\* A started job is executed to its end and the group admits the pending run.
Fairness == \A r \in Runs : WF_vars(JobStep(r)) /\ WF_vars(StartJob(r))

FairSpec == Spec /\ Fairness

-----------------------------------------------------------------------------
(* Properties *)

TypeOK ==
  /\ day \in Days /\ hour \in Hours
  /\ input \in [Runs -> Inputs \cup {NoInput}]
  /\ phase \in [Runs -> {"absent", "pending", "running"} \cup Concluded]
  /\ attempt \in [Runs -> Nat]
  /\ job \in [Runs -> Job]
  /\ intents \subseteq Artifact
  /\ markers \subseteq Artifact
  /\ ledgers \in Seq([run : Runs, chain : SUBSET (Nat \X Runs)])
  /\ mails \subseteq Message

NormalMails == {m \in mails : m.kind = "normal"}

\* Automation never mails the signal of one day and mode twice, whatever is
\* dispatched, re-run, cancelled or lost in between (both delivery gates).
AtMostOneNormalMail ==
  \A m, n \in NormalMails : m.key = n.key => m = n

\* A delivered marker is never evidence of a mail that was not accepted
\* ("Mark digest delivered" and its condition).
MarkerMeansAccepted ==
  \A k \in markers : \E m \in mails : m.key = k.key /\ m.kind # "failure"

\* An intent without a marker stays an open question: no later run answers it
\* by mailing the same key again (the BLOCKED branches of both gates).
UncertainNeverRetried ==
  [][\A m \in mails' \ mails : m.kind = "normal" =>
       \A i \in intents : i.key = m.key => i.run = m.run /\ i.attempt = m.attempt]_vars

\* A ledger-only repair leaves everything the delivery gates and the reader of
\* the mailbox see untouched (the three smtp_enabled conditions).
LedgerOnlyIsSilent ==
  \A e \in intents \cup markers \cup mails : ~input[e.run].ledger_only

\* What was mailed by a run that ended green is in the chain later runs restore,
\* with the very record that was mailed.
RecordSurvives(m) ==
  (phase[m.run] = "success" /\ m.key.mode = "close_confirmed") => m.src \subseteq LatestLedger

\* Nothing that was published is derived a second time from an older chain: the
\* newest restorable chain holds every mailed record, and it only grows (serial
\* runs, newest artifact, upload after the run's own verification).
LedgerIsKept ==
  /\ [](\A m \in mails : RecordSurvives(m))
  /\ [][LatestLedger \subseteq LatestLedger']_vars

\* A run that saw a trading day from gate to calendar and ends green has left the
\* marker of its signal day: green is never silent non-delivery.
GreenMeansDelivered ==
  [][\A r \in Runs :
       (/\ At(r, "audit") /\ phase'[r] = "success" /\ SmtpAllowed(r)
        /\ LedgerPathIf(r))
         => \E m \in markers : m.key = job[r].key]_vars

\* Every run that was dispatched gets a conclusion: no run waits for the group for ever.
EveryRunConcludes ==
  \A r \in Runs : phase[r] = "pending" ~> phase[r] \in Concluded

(* Refinement: automatic sends of the job follow the abstract promise. *)
AbstractKeys == [day : TradeDays, mode : Modes]
Promise == INSTANCE AtMostOnceSend WITH
  Keys <- AbstractKeys,
  intended <- {i.key : i \in {x \in intents : ~x.correction}},
  sends <- [k \in AbstractKeys |-> Cardinality({m \in NormalMails : m.key = k})],
  barred <- {i.key : i \in {x \in intents : x.correction}},
  confirmed <- {m.key : m \in markers}
KeepsPromise == Promise!Spec
=============================================================================
