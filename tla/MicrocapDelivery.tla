---------------------------- MODULE MicrocapDelivery ----------------------------
(***************************************************************************)
(* The two workflows that mail the Microcap report, in the one concurrency *)
(* group they share:                                                       *)
(*   "digest"  .github/workflows/microcap-realtime-digest.yml,             *)
(*   "member"  .github/workflows/microcap-member-daily.yml,                *)
(* with the gate both call (scripts/check_microcap_delivery.py) and the    *)
(* second transaction of the member report (check_microcap_member_send.py).*)
(*                                                                         *)
(* Delivery leaves three artifacts per key, in this order: a send intent   *)
(* before SMTP, a receipt of the acceptance, a delivered marker.  A later  *)
(* run that finds a receipt without a marker verifies it against what      *)
(* GitHub shows of the run that left it, and stores the marker itself.     *)
(*                                                                         *)
(* The steps of both jobs are one sequence; StepIf(r) is the `if:` of the  *)
(* step r has reached, and a step its workflow does not have is skipped.   *)
(***************************************************************************)
EXTENDS Integers, FiniteSets

CONSTANTS
  Runs,           \* workflow runs
  Inputs,         \* the dispatch inputs that occur
  Instants,       \* pairs <<Beijing day, hour>> at which something happens
  TradeDays,      \* exchange sessions
  CompletedDay,   \* CompletedDay[<<d, h>>]: exchange_calendar.latest_completed_session
  Legacy,         \* keys with a date-only marker of the former workflow
  MaxRunHours,    \* limit of each workflow in whole hours the clock may show
  MaxAttempts     \* bound on re-runs of one workflow run

VARIABLES
  day, hour,      \* Beijing clock
  input,          \* the inputs a run was dispatched with
  phase,          \* where a run is in the concurrency group / its conclusion
  attempt,        \* github.run_attempt
  job,            \* local state of the send job
  shown,          \* what GitHub's API shows of the run's latest attempt
  intents, receipts, markers,   \* artifacts
  mails           \* mails the SMTP server accepted

vars == <<day, hour, input, phase, attempt, job, shown, intents, receipts, markers, mails>>

Modes == {"realtime", "close_confirmed"}
Workflows == {"digest", "member"}

\* catchUp = 0: no catch_up_date.  reviewed: reviewed_result_url is given.
Input == [workflow : Workflows, mode : Modes, external : BOOLEAN, validation : BOOLEAN,
          correction : BOOLEAN, test : BOOLEAN, catchUp : Nat, reviewed : BOOLEAN]

ASSUME RunsAssumption == IsFiniteSet(Runs)

\* The member workflow has neither correction, test nor catch-up input, the
\* digest no reviewed result.
ASSUME InputsAssumption ==
  /\ Inputs \subseteq Input
  /\ \A i \in Inputs :
       /\ i.workflow = "member" => ~i.correction /\ ~i.test /\ i.catchUp = 0
       /\ i.workflow = "digest" => ~i.reviewed

\* Day 0 stands for "no day".
ASSUME CalendarAssumption ==
  /\ Instants \subseteq (Nat \ {0}) \X (0 .. 23)
  /\ TradeDays \subseteq Nat \ {0}
  /\ CompletedDay \in [Instants -> TradeDays]
  /\ \A t \in Instants : CompletedDay[t] <= t[1]

\* daily: the complete report of a day; partial: the member's partial-information
\* report; test: the acceptance mail of one delivery_test_id, on whatever day.
Key == [day : Nat, mode : Modes, series : {"daily", "partial", "test"}]
NoKey == [day |-> 0, mode |-> "none", series |-> "none"]

ASSUME LegacyAssumption == Legacy \subseteq {k \in Key : k.series = "daily"}

ASSUME LimitsAssumption ==
  /\ MaxRunHours \in [Workflows -> 0 .. 24]
  /\ MaxAttempts \in Nat

NoInput == [workflow |-> "none", mode |-> "close_confirmed", external |-> FALSE,
            validation |-> FALSE, correction |-> FALSE, test |-> FALSE, catchUp |-> 0,
            reviewed |-> FALSE]

StepName == {"calendar", "start", "gate", "recover", "target", "prepare", "whole", "disclose",
             "build", "choose", "again", "intent", "send", "receipt", "keep", "mark", "audit"}

\* Fields left by the steps of the job: their outcomes and outputs.
Job == [step : StepName, healthy : BOOLEAN, cancelled : BOOLEAN, since : Nat,
        admitted : BOOLEAN, shouldSend : BOOLEAN, recover : BOOLEAN, key : Key \cup {NoKey},
        target : Nat, prepared : BOOLEAN, whole : BOOLEAN, disclosed : BOOLEAN,
        status : {"none", "OK", "PARTIAL", "FAILED"}, signal : Nat,
        intent : BOOLEAN, sent : {"no", "ok", "failed"}, accepted : Nat, kept : BOOLEAN]

\* Of the latest attempt: the days it was queued and its send job started, whether
\* "Send Gmail" and "Preserve accepted SMTP receipt" show success, and whether the
\* job lasted longer than the 180 minutes of its limit.
Shown == [queued : Nat, began : Nat, sent : BOOLEAN, kept : BOOLEAN, over : BOOLEAN]

Evidence == [key : Key \cup {NoKey}, run : Runs, attempt : Nat, correction : BOOLEAN]
Receipt == [key : Key \cup {NoKey}, run : Runs, signal : Nat, accepted : Nat]
Message == [kind : {"normal", "correction", "test", "failure"}, run : Runs, attempt : Nat,
            key : Key \cup {NoKey}, signal : Nat]

FreshJob(since) ==
  [step |-> "calendar", healthy |-> TRUE, cancelled |-> FALSE, since |-> since,
   admitted |-> FALSE, shouldSend |-> FALSE, recover |-> FALSE, key |-> NoKey,
   target |-> 0, prepared |-> FALSE, whole |-> FALSE, disclosed |-> FALSE,
   status |-> "none", signal |-> 0, intent |-> FALSE, sent |-> "no", accepted |-> 0,
   kept |-> FALSE]

NothingShown(d) == [queued |-> d, began |-> 0, sent |-> FALSE, kept |-> FALSE,
                    over |-> FALSE]

Init ==
  /\ \E t \in Instants : day = t[1] /\ hour = t[2]
  /\ input = [r \in Runs |-> NoInput]
  /\ phase = [r \in Runs |-> "absent"]
  /\ attempt = [r \in Runs |-> 0]
  /\ job = [r \in Runs |-> FreshJob(0)]
  /\ shown = [r \in Runs |-> NothingShown(0)]
  /\ intents = {} /\ receipts = {} /\ markers = {} /\ mails = {}

-----------------------------------------------------------------------------
(* Dispatch and the concurrency group *)

Concluded == {"success", "failure", "cancelled"}
Running(r) == phase[r] = "running"
At(r, s) == Running(r) /\ job[r].step = s
Close(r) == input[r].mode = "close_confirmed"
Digest(r) == input[r].workflow = "digest"
Member(r) == input[r].workflow = "member"
Clock(d, h) == 24 * d + h

SetJob(r, j) == job' = [job EXCEPT ![r] = j]
artifacts == <<intents, receipts, markers, mails>>
others == <<day, hour, input, phase, attempt>>

\* A newcomer becomes the one pending run; it replaces an older pending run.
Enqueue(r) ==
  /\ phase' = [q \in Runs |-> IF q = r THEN "pending"
                              ELSE IF phase[q] = "pending" THEN "cancelled"
                              ELSE phase[q]]
  /\ attempt' = [attempt EXCEPT ![r] = @ + 1]
  /\ shown' = [shown EXCEPT ![r] = NothingShown(day)]

Dispatch(r) ==
  /\ phase[r] = "absent"
  /\ \E i \in Inputs : input' = [input EXCEPT ![r] = i]
  /\ Enqueue(r)
  /\ UNCHANGED <<day, hour, job, artifacts>>

\* An operator re-runs a concluded run: same inputs, same run identity; GitHub
\* now shows the new attempt.
Rerun(r) ==
  /\ phase[r] \in Concluded
  /\ attempt[r] < MaxAttempts
  /\ Enqueue(r)
  /\ UNCHANGED <<day, hour, input, job, artifacts>>

\* Slip: a queued run counted as holding the group.
QueueHolds == \A q \in Runs : phase[q] \notin {"running", "pending"}

GroupFree == \A q \in Runs : ~Running(q)

StartJob(r) ==
  /\ phase[r] = "pending"
  /\ GroupFree
  /\ phase' = [phase EXCEPT ![r] = "running"]
  /\ SetJob(r, FreshJob(Clock(day, hour)))
  /\ shown' = [shown EXCEPT ![r].began = IF Member(r) THEN day ELSE 0]
  /\ UNCHANGED <<day, hour, input, attempt, artifacts>>

\* Time passes, not beyond the limit of a job that is running (for the digest, of
\* each of its parts: what precedes the send job, and the send job).
Tick ==
  /\ \E t \in Instants :
       /\ Clock(t[1], t[2]) > Clock(day, hour)
       /\ \A r \in Runs :
            Running(r) => Clock(t[1], t[2]) <= job[r].since + MaxRunHours[input[r].workflow]
       /\ day' = t[1]
       /\ hour' = t[2]
  /\ UNCHANGED <<input, phase, attempt, job, shown, artifacts>>

\* The runner disappears: no later step of the job is executed.
Crash(r) ==
  /\ Running(r)
  /\ phase' = [phase EXCEPT ![r] = "failure"]
  /\ SetJob(r, FreshJob(0))
  /\ UNCHANGED <<day, hour, input, attempt, shown, artifacts>>

\* Cancellation by a person: only always() steps are still executed.
Cancel(r) ==
  /\ Running(r)
  /\ ~job[r].cancelled
  /\ SetJob(r, [job[r] EXCEPT !.healthy = FALSE, !.cancelled = TRUE])
  /\ UNCHANGED <<others, shown, artifacts>>

\* The job has reached its limit, which GitHub shows in its length.
TimeOut(r) ==
  /\ Running(r)
  /\ ~shown[r].over
  /\ Clock(day, hour) = job[r].since + MaxRunHours[input[r].workflow]
  /\ SetJob(r, [job[r] EXCEPT !.healthy = FALSE, !.cancelled = TRUE])
  /\ shown' = [shown EXCEPT ![r].over = Digest(r)]
  /\ UNCHANGED <<others, artifacts>>

-----------------------------------------------------------------------------
(* Delivery evidence *)

DailyKey(d, m) == [day |-> d, mode |-> m, series |-> "daily"]
TestKey == [day |-> 0, mode |-> "close_confirmed", series |-> "test"]
PartialKey(k) == [k EXCEPT !.series = "partial"]

Marked(k) == \E m \in markers : m.key = k
Intended(k) == \E i \in intents : i.key = k
ReceiptsOf(k) == {c \in receipts : c.key = k}

\* Slip: no mail may be accepted on another day than its signal's.
SameDaySend(c, d) == c.accepted = d

\* The mail was accepted on another Beijing day than its signal.  GitHub's own
\* times must place it in one close job of at most 180 minutes: queued and started
\* on the signal day, or the explicit catch-up of that day, queued, started and
\* accepted on one day.
BoundedSend(c, d) ==
  LET g == shown[c.run] IN
  /\ ~g.over
  /\ \/ g.queued = d /\ g.began = d
     \/ input[c.run].catchUp = d /\ d < g.queued /\ g.queued = g.began /\ g.began = c.accepted

\* verify_smtp_receipt for delivery day d.
Verified(c, d, m) ==
  /\ shown[c.run].sent /\ shown[c.run].kept
  /\ c.signal <= d
  /\ c.key.series # "test" =>
       /\ c.signal = d
       /\ c.accepted # d => m = "close_confirmed" /\ BoundedSend(c, d)

-----------------------------------------------------------------------------
(* Which steps run *)

After == [calendar |-> "start", start |-> "gate", gate |-> "recover", recover |-> "target",
          target |-> "prepare", prepare |-> "whole", whole |-> "disclose",
          disclose |-> "build", build |-> "choose", choose |-> "again",
          again |-> "intent", intent |-> "send", send |-> "receipt", receipt |-> "keep",
          keep |-> "mark", mark |-> "audit", audit |-> "audit"]

Normal(r) == ~input[r].validation /\ ~input[r].correction /\ ~input[r].test
Complete(r) == job[r].status = "OK" /\ (Close(r) => job[r].whole)

PrepareIf(r) == job[r].shouldSend /\ (Digest(r) \/ job[r].healthy)
WholeIf(r) == Digest(r) /\ Close(r) /\ job[r].prepared
BuildIf(r) == job[r].shouldSend /\ (Digest(r) \/ job[r].prepared)
IntentIf(r) ==
  ~input[r].validation /\ job[r].shouldSend /\ (Digest(r) => Complete(r))
\* Slip: the mail of a complete report does not wait for the stored intent.
SendUnintended(r) ==
  /\ ~input[r].validation /\ job[r].shouldSend
  /\ job[r].status # "none" /\ (input[r].test => job[r].status = "OK")

SendIf(r) ==
  /\ ~input[r].validation
  /\ Member(r) => job[r].healthy /\ job[r].intent
  /\ Digest(r) =>
       /\ job[r].shouldSend /\ job[r].status # "none"
       /\ input[r].test => job[r].status = "OK"
       /\ job[r].status = "OK" => job[r].intent /\ Complete(r)
ReceiptIf(r) ==
  /\ ~input[r].validation
  /\ Member(r) => job[r].intent
  /\ Digest(r) => job[r].shouldSend /\ job[r].sent = "ok" /\ Complete(r)
KeepIf(r) ==
  /\ Digest(r) /\ job[r].whole /\ job[r].status = "OK"
  /\ input[r].validation \/ job[r].sent = "ok"
MarkIf(r) == ~input[r].validation /\ job[r].kept

StepIf(r) ==
  LET s == job[r].step
      h == job[r].healthy IN
  CASE s \in {"calendar", "audit"} -> h
    [] s = "start" -> h /\ Digest(r) /\ job[r].admitted
    [] s = "gate" -> h /\ job[r].admitted
    [] s = "recover" -> h /\ ~input[r].validation /\ job[r].recover
    [] s = "target" -> h /\ Digest(r) /\ job[r].shouldSend
    [] s = "prepare" -> PrepareIf(r)
    [] s = "whole" -> WholeIf(r)
    [] s = "disclose" -> h /\ job[r].whole
    [] s = "build" -> BuildIf(r)
    [] s = "choose" -> h /\ Member(r) /\ job[r].shouldSend
    [] s = "again" -> h /\ Member(r) /\ ~input[r].validation /\ job[r].recover
    [] s = "intent" -> h /\ IntentIf(r)
    [] s = "send" -> SendIf(r)
    [] s = "receipt" -> h /\ ReceiptIf(r)
    [] s = "keep" -> h /\ KeepIf(r)
    [] s = "mark" -> h /\ MarkIf(r)

\* Step s of run r is due and its condition holds.
Due(r, s) == At(r, s) /\ StepIf(r)

\* The job goes on after its present step with the fields of j.
Go(r, j) == SetJob(r, [j EXCEPT !.step = After[job[r].step]])

Skip(r) ==
  /\ Running(r) /\ job[r].step # "audit" /\ ~StepIf(r)
  /\ Go(r, job[r])
  /\ UNCHANGED <<others, shown, artifacts>>

\* The step exits with an error.  In realtime mode the shared state may be ready
\* although a step after it (the evidence upload) failed.
Break(r) ==
  /\ Running(r) /\ StepIf(r) /\ job[r].step # "send"
  /\ \E ready \in BOOLEAN :
       /\ ready => At(r, "prepare") /\ Digest(r) /\ ~Close(r) /\ job[r].target # 0
       /\ Go(r, [job[r] EXCEPT !.healthy = FALSE, !.prepared = @ \/ ready])
  /\ UNCHANGED <<others, shown, artifacts>>

-----------------------------------------------------------------------------
(* Steps *)

\* Digest: check-trading-day and the `if:` of the send job.  A refused input
\* combination of a test ends in the gate.
DigestAdmitted(r) ==
  day \in TradeDays \/ (~input[r].external /\ ~Normal(r))

\* Member: clock, recovery inputs and the session are settled before the gate.
MemberTarget(r) == IF Close(r) THEN CompletedDay[<<day, hour>>] ELSE day
MemberRefused(r) ==
  \/ input[r].reviewed /\ (input[r].external \/ ~Close(r))
  \/ day \in TradeDays /\ MemberTarget(r) # day

Calendar(r) ==
  /\ Due(r, "calendar")
  /\ \/ /\ Digest(r)
        /\ Go(r, [job[r] EXCEPT !.admitted = DigestAdmitted(r)])
     \/ /\ Member(r) /\ ~MemberRefused(r)
        /\ Go(r, [job[r] EXCEPT !.admitted = (day \in TradeDays), !.target = MemberTarget(r)])
  /\ UNCHANGED <<others, shown, artifacts>>

\* Digest: the regression job is done and the send job, with a limit of its own,
\* starts; midnight may have passed since the calendar was read.
StartSend(r) ==
  /\ Due(r, "start")
  /\ Go(r, [job[r] EXCEPT !.since = Clock(day, hour)])
  /\ shown' = [shown EXCEPT ![r].began = day]
  /\ UNCHANGED <<others, artifacts>>

\* validate_catch_up_date and the two rejected combinations of a delivery test.
GateRefusesInput(r) ==
  \/ input[r].test /\ (input[r].correction \/ input[r].validation \/ input[r].external \/ ~Close(r))
  \/ input[r].catchUp # 0 /\ (input[r].catchUp >= day \/ ~Close(r) \/ ~Normal(r) \/ input[r].external)

\* pending_previous_close: before today's close, yesterday's unfinished send.
LooksBack(r) ==
  /\ Normal(r) /\ Close(r) /\ input[r].catchUp = 0 /\ hour < 15
  /\ ~Marked(DailyKey(day - 1, "close_confirmed"))
PreviousAccepted == ReceiptsOf(DailyKey(day - 1, "close_confirmed")) # {}
PreviousUncertain == ~PreviousAccepted /\ Intended(DailyKey(day - 1, "close_confirmed"))

DeliveryDay(r) ==
  IF input[r].catchUp # 0 THEN input[r].catchUp
  ELSE IF LooksBack(r) /\ PreviousAccepted THEN day - 1
  ELSE day

GateKey(r) == IF input[r].test THEN TestKey ELSE DailyKey(DeliveryDay(r), input[r].mode)

\* Corrections and validations look nothing up.
Unchecked(r) == input[r].correction \/ input[r].validation
Delivered(k) == Marked(k) \/ k \in Legacy
\* Slip: an intent alone is not held against the next send.
IntentForgotten(k) == k \notin Key
Recoverable(k) == ~Delivered(k) /\ ReceiptsOf(k) # {}
Uncertain(k) == ~Delivered(k) /\ ReceiptsOf(k) = {} /\ Intended(k)
Unverified(k, d, m) == Recoverable(k) /\ \E c \in ReceiptsOf(k) : ~Verified(c, d, m)

GateRaises(r) ==
  \/ GateRefusesInput(r)
  \/ LooksBack(r) /\ PreviousUncertain
  \/ /\ ~Unchecked(r)
     /\ \/ Unverified(GateKey(r), DeliveryDay(r), input[r].mode)
        \/ Uncertain(GateKey(r))

Gate(r) ==
  LET k == GateKey(r) IN
  /\ Due(r, "gate")
  /\ ~GateRaises(r)
  /\ Go(r, [job[r] EXCEPT !.key = k,
              !.shouldSend = Unchecked(r) \/ ~(Delivered(k) \/ Recoverable(k)),
              !.recover = ~Unchecked(r) /\ Recoverable(k)])
  /\ UNCHANGED <<others, shown, artifacts>>

EvidenceOf(r) == [key |-> job[r].key, run |-> r, attempt |-> attempt[r],
                  correction |-> input[r].correction]

\* An accepted mail without a marker gets its marker; ok = FALSE: stored, but the
\* step did not report success.
RecoverMarker(r) ==
  /\ Due(r, "recover") \/ Due(r, "again")
  /\ markers' = markers \cup {EvidenceOf(r)}
  /\ \E ok \in BOOLEAN : Go(r, [job[r] EXCEPT !.healthy = ok, !.recover = FALSE])
  /\ UNCHANGED <<others, shown, intents, receipts, mails>>

\* The latest completed session; a catch-up must be about it.
CatchUpMisses(r) == input[r].catchUp \notin {0, CompletedDay[<<day, hour>>]}

Target(r) ==
  /\ Due(r, "target")
  /\ ~CatchUpMisses(r)
  /\ Go(r, [job[r] EXCEPT !.target = CompletedDay[<<day, hour>>]])
  /\ UNCHANGED <<others, shown, artifacts>>

\* Digest: restored, refreshed and captured shared state; a failed refresh leaves
\* the job healthy.  Member: a result was computed, re-rendered or restored; a
\* realtime run on an already confirmed day has none.
Prepare(r) ==
  /\ Due(r, "prepare")
  /\ \E ready \in BOOLEAN :
       /\ Digest(r) => (ready => job[r].target # 0 /\ (~Close(r) \/ job[r].healthy))
       /\ Member(r) => (ready \/ (~Close(r) /\ ~input[r].reviewed))
       /\ Go(r, [job[r] EXCEPT !.prepared = ready])
  /\ UNCHANGED <<others, shown, artifacts>>

\* Three signals on unchanged inputs, verified and packed as one delivery whose
\* dates are the target.
Whole(r) ==
  /\ Due(r, "whole")
  /\ \E ok \in BOOLEAN : Go(r, [job[r] EXCEPT !.whole = ok])
  /\ UNCHANGED <<others, shown, artifacts>>

Disclose(r) ==
  /\ Due(r, "disclose")
  /\ Go(r, [job[r] EXCEPT !.disclosed = TRUE])
  /\ UNCHANGED <<others, shown, artifacts>>

\* The digest is complete only if all signals are; a normal close must be about
\* the delivery day.  A realtime digest is dated by the clock of its build.
DigestStatus(r) ==
  IF /\ IF Close(r) THEN job[r].whole ELSE job[r].prepared
     /\ Close(r) /\ Normal(r) => job[r].target = job[r].key.day
  THEN {"OK", "FAILED"} ELSE {"FAILED"}
BuildRefuses(r) == Digest(r) /\ job[r].whole /\ ~job[r].disclosed

Build(r) ==
  /\ Due(r, "build")
  /\ ~BuildRefuses(r)
  /\ \E s \in IF Digest(r) THEN DigestStatus(r) ELSE {"OK", "PARTIAL"} :
       Go(r, [job[r] EXCEPT !.status = s,
                !.signal = IF Digest(r) /\ ~Close(r) THEN day ELSE job[r].target])
  /\ UNCHANGED <<others, shown, artifacts>>

\* check_microcap_member_send: a partial report has its own marker, receipt and
\* intent; of several receipts only the first listed is looked at.
Choose(r) ==
  /\ Due(r, "choose")
  /\ job[r].status # "none"
  /\ \/ /\ job[r].status = "OK" \/ input[r].validation
        /\ Go(r, [job[r] EXCEPT !.shouldSend = TRUE, !.recover = FALSE, !.key =
                    IF job[r].status = "PARTIAL" THEN PartialKey(@) ELSE @])
     \/ /\ job[r].status = "PARTIAL" /\ ~input[r].validation
        /\ LET k == PartialKey(job[r].key) IN
           \/ /\ Marked(k)
              /\ Go(r, [job[r] EXCEPT !.shouldSend = FALSE, !.recover = FALSE, !.key = k])
           \/ /\ ~Marked(k)
              /\ \E c \in ReceiptsOf(k) : Verified(c, job[r].signal, input[r].mode)
              /\ Go(r, [job[r] EXCEPT !.shouldSend = FALSE, !.recover = TRUE, !.key = k])
           \/ /\ ~Marked(k) /\ ReceiptsOf(k) = {} /\ ~Intended(k)
              /\ Go(r, [job[r] EXCEPT !.shouldSend = TRUE, !.recover = FALSE, !.key = k])
  /\ UNCHANGED <<others, shown, artifacts>>

ChooseRaises(r) ==
  \/ job[r].status = "none"
  \/ /\ job[r].status = "PARTIAL" /\ ~input[r].validation
     /\ LET k == PartialKey(job[r].key) IN
        /\ ~Marked(k)
        /\ \/ \E c \in ReceiptsOf(k) : ~Verified(c, job[r].signal, input[r].mode)
           \/ ReceiptsOf(k) = {} /\ Intended(k)

PersistIntent(r) ==
  /\ Due(r, "intent")
  /\ intents' = intents \cup {EvidenceOf(r)}
  /\ \E ok \in BOOLEAN : Go(r, [job[r] EXCEPT !.intent = ok, !.healthy = ok])
  /\ UNCHANGED <<others, shown, receipts, markers, mails>>

\* A report that is not complete is mailed as a failure, without any evidence.
Failed(r) == job[r].status = "FAILED"
Mail(r) ==
  [kind |-> IF Failed(r) THEN "failure"
            ELSE IF input[r].test THEN "test"
            ELSE IF input[r].correction THEN "correction" ELSE "normal",
   run |-> r, attempt |-> attempt[r],
   key |-> IF Failed(r) THEN NoKey ELSE job[r].key,
   signal |-> IF Failed(r) THEN 0 ELSE job[r].signal]

\* SMTP accepts the message, or not; ok = FALSE: the step fails, possibly after
\* the acceptance.
SendGmail(r) ==
  /\ Due(r, "send")
  /\ \E accepted, ok \in BOOLEAN :
       /\ ok => accepted
       /\ mails' = IF accepted THEN mails \cup {Mail(r)} ELSE mails
       /\ Go(r, [job[r] EXCEPT !.healthy = @ /\ ok, !.accepted = day,
                   !.sent = IF ok THEN "ok" ELSE "failed"])
       /\ shown' = [shown EXCEPT ![r].sent = ok]
  /\ UNCHANGED <<others, intents, receipts, markers>>

PreserveReceipt(r) ==
  /\ Due(r, "receipt")
  /\ receipts' = receipts \cup {[key |-> job[r].key, run |-> r, signal |-> job[r].signal,
                                 accepted |-> job[r].accepted]}
  /\ \E ok \in BOOLEAN :
       /\ Go(r, [job[r] EXCEPT !.kept = ok, !.healthy = ok])
       /\ shown' = [shown EXCEPT ![r].kept = ok]
  /\ UNCHANGED <<others, intents, markers, mails>>

\* "Prepare delivery marker" and "Preserve verified whole delivery".
KeepState(r) ==
  /\ Due(r, "keep")
  /\ Go(r, job[r])
  /\ UNCHANGED <<others, shown, artifacts>>

MarkDelivered(r) ==
  /\ Due(r, "mark")
  /\ markers' = markers \cup {EvidenceOf(r)}
  /\ \E ok \in BOOLEAN : Go(r, [job[r] EXCEPT !.healthy = ok])
  /\ UNCHANGED <<others, shown, intents, receipts, mails>>

\* Slip: the last step is missing.
NeverFailed(r) == r \notin Runs

\* "Fail job when signal publication failed"; the run gets its conclusion.
PublicationFailed(r) == Digest(r) /\ job[r].shouldSend /\ ~Complete(r)
\* Slip: the conclusion of the last step instead of the run's.
StepConclusion(r) == IF job[r].healthy THEN "success" ELSE "skipped"

Conclusion(r) ==
  IF job[r].cancelled THEN "cancelled"
  ELSE IF job[r].healthy /\ ~PublicationFailed(r) THEN "success" ELSE "failure"

Finish(r) ==
  /\ At(r, "audit")
  /\ phase' = [phase EXCEPT ![r] = Conclusion(r)]
  /\ SetJob(r, FreshJob(0))
  /\ UNCHANGED <<day, hour, input, attempt, shown, artifacts>>

\* The scripts that refuse.
Raise(r) ==
  /\ \/ Due(r, "calendar") /\ Member(r) /\ MemberRefused(r)
     \/ Due(r, "gate") /\ GateRaises(r)
     \/ Due(r, "target") /\ CatchUpMisses(r)
     \/ Due(r, "build") /\ BuildRefuses(r)
     \/ Due(r, "choose") /\ ChooseRaises(r)
  /\ Break(r)

JobStep(r) ==
  \/ Calendar(r) \/ StartSend(r) \/ Gate(r) \/ RecoverMarker(r) \/ Target(r) \/ Prepare(r)
  \/ Whole(r)
  \/ Disclose(r) \/ Build(r) \/ Choose(r) \/ PersistIntent(r) \/ SendGmail(r)
  \/ PreserveReceipt(r) \/ KeepState(r) \/ MarkDelivered(r) \/ Skip(r) \/ Raise(r) \/ Finish(r)

Environment(r) == Dispatch(r) \/ Rerun(r) \/ Crash(r) \/ Cancel(r) \/ TimeOut(r) \/ Break(r)

Next == Tick \/ \E r \in Runs : StartJob(r) \/ JobStep(r) \/ Environment(r)

Spec == Init /\ [][Next]_vars

\* A started job is executed to its end and the group admits the pending run.
Fairness == \A r \in Runs : WF_vars(JobStep(r)) /\ WF_vars(StartJob(r))

FairSpec == Spec /\ Fairness

-----------------------------------------------------------------------------
(* Properties *)

TypeOK ==
  /\ <<day, hour>> \in Instants
  /\ input \in [Runs -> Inputs \cup {NoInput}]
  /\ phase \in [Runs -> {"absent", "pending", "running"} \cup Concluded]
  /\ attempt \in [Runs -> Nat]
  /\ job \in [Runs -> Job]
  /\ shown \in [Runs -> Shown]
  /\ intents \subseteq Evidence
  /\ receipts \subseteq Receipt
  /\ markers \subseteq Evidence
  /\ mails \subseteq Message

Automatic == {m \in mails : m.kind \in {"normal", "test"}}

\* One report of a day and mode, one partial-information report, one acceptance
\* mail of a test id: whichever of the two workflows is dispatched, re-run, cut
\* off or recovers in between, automation never mails it twice (the gate of both
\* workflows and the member's second transaction).
AtMostOneAutomaticMail == \A m, n \in Automatic : m.key = n.key => m = n

\* A delivered marker, the recovered ones included, never stands for a mail that
\* was not accepted, nor does an acceptance mail silence the report of a day
\* ("Mark digest delivered", "Mark recovered digest delivered").
MarkerMeansAccepted ==
  \A k \in markers : \E m \in mails :
    m.key = k.key /\ m.kind # "failure" /\ (m.kind = "test" <=> k.key.series = "test")

\* An intent whose outcome is unknown is never answered by another automatic mail
\* of the same key (the BLOCKED branches of the gate).
UncertainNeverRetried ==
  [][\A m \in mails' \ mails : m.kind \in {"normal", "test"} =>
       \A i \in intents : i.key = m.key => i.run = m.run /\ i.attempt = m.attempt]_vars

\* A run that got past the calendar and ends green was about a report that has
\* been mailed, by itself or before: green is never silent non-delivery.
GreenMeansDelivered ==
  [][\A r \in Runs :
       (/\ At(r, "audit") /\ phase'[r] = "success"
        /\ ~input[r].validation /\ job[r].admitted)
         => job[r].key \in Legacy \/ \E m \in mails : m.key = job[r].key]_vars

\* The receipt of a close that the digest mailed on schedule settles its day for
\* good, also when the mail was accepted after midnight: no later gate refuses it
\* (verify_smtp_receipt's bounded GitHub interval against what a run of the workflow
\* leaves).  Excepted are a job that ran into its limit afterwards, one that waited in
\* the queue past midnight, and a re-run, which hides the times of its first attempt.
CloseReceiptSettles ==
  \A c \in receipts :
    LET g == shown[c.run] IN
    (/\ Digest(c.run) /\ Close(c.run) /\ Normal(c.run) /\ input[c.run].catchUp = 0
     /\ g.sent /\ g.kept /\ ~g.over
     /\ g.queued = g.began /\ attempt[c.run] = 1)
      => Verified(c, c.key.day, "close_confirmed")

\* The close marker of a day, which silences every later run of that day, stands
\* for a mail about that very day (delivery_date, --expected-signal-date).
MarkerNamesItsReport ==
  \A k \in markers : (k.key.series = "daily" /\ k.key.mode = "close_confirmed") =>
    \E m \in mails : m.key = k.key /\ m.signal = k.key.day

\* Every run that was dispatched gets a conclusion: no run waits for the group for ever.
EveryRunConcludes ==
  \A r \in Runs : phase[r] = "pending" ~> phase[r] \in Concluded

(* Refinement: automatic sends of both workflows follow the abstract promise. *)
AbstractDays == {t[1] : t \in Instants} \cup TradeDays
AbstractKeys == [day : AbstractDays, mode : {i.mode : i \in Inputs}, series : {"daily", "partial"}]
                \cup {TestKey : i \in {x \in Inputs : x.test}}
Promise == INSTANCE AtMostOnceSend WITH
  Keys <- AbstractKeys,
  intended <- {i.key : i \in {x \in intents : ~x.correction}},
  sends <- [k \in AbstractKeys |-> Cardinality({m \in Automatic : m.key = k})],
  barred <- {i.key : i \in {x \in intents : x.correction}},
  confirmed <- {m.key : m \in markers}
KeepsPromise == Promise!Spec
=================================================================================
