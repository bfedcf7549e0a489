------------------------------ MODULE DailyDigest ------------------------------
(***************************************************************************)
(* The send job of the ETF and AI HOT digests:                             *)
(* .github/workflows/etf-allocation-digest.yml, ai-hot-digest.yml and      *)
(* scripts/check_daily_digest_delivery.py.                                 *)
(*                                                                         *)
(* There is no marker here.  A run decides whether to mail the report of a *)
(* day by reconciling what GitHub says of earlier runs: which "Send Gmail" *)
(* steps were started and how they ended, and which intent and report      *)
(* artifacts those runs left.  The earlier runs it asks for are the ones   *)
(* created since the UTC day before the report's Beijing day.              *)
(*                                                                         *)
(* Time is counted in slots of eight hours from a UTC midnight: a UTC day  *)
(* is slots 3d .. 3d+2, and the Beijing day (UTC+8) starts one slot early. *)
(***************************************************************************)
EXTENDS Integers, FiniteSets

CONSTANTS
  Runs,           \* workflow runs
  Inputs,         \* the dispatch inputs that occur
  Family,         \* "etf" or "ai-hot"
  MaxTime,        \* horizon of the model, in slots
  MaxLag,         \* slots a run may be queued or running (two six-hour jobs)
  Retention,      \* retention-days of intents and reports, in slots
  MaxAttempts,    \* bound on re-runs of one workflow run
  RerunHorizon    \* slots after its creation within which a run is re-run

VARIABLES
  now,            \* the clock
  input,          \* the inputs a run was dispatched with
  created,        \* created_at of a run; a re-run keeps it
  base,           \* digest_history at the commit a run checks out; a re-run keeps it
  phase,          \* place in the concurrency group / conclusion
  attempt,        \* run_attempt
  queued,         \* when an active attempt was enqueued
  job,            \* local state of the send job
  tries,          \* started Send Gmail steps, with the ground truth of SMTP
  intents,        \* send-intent artifacts
  reports,        \* report artifacts
  history         \* digest_history on main: the days whose articles it records

vars == <<now, input, created, base, phase, attempt, queued, job,
          tries, intents, reports, history>>

UTCDay(t) == t \div 3
BeijingDay(t) == (t + 1) \div 3

ReportDay == Nat
Latest == 0       \* an empty report_date: the report of the build's day

Input == [event : {"schedule", "workflow_dispatch"}, send_email : BOOLEAN,
          report_date : ReportDay]

ASSUME RunsAssumption == IsFiniteSet(Runs)
ASSUME InputsAssumption ==
  /\ Inputs \subseteq Input
  /\ Family \in {"etf", "ai-hot"}
  /\ Family = "etf" => \A i \in Inputs : i.report_date = Latest
ASSUME BoundsAssumption ==
  {MaxTime, MaxLag, Retention, MaxAttempts, RerunHorizon} \subseteq Nat

NoInput == [event |-> "none", send_email |-> TRUE, report_date |-> Latest]

StepName == {"build", "gate", "intent", "send", "history", "upload"}

Job == [step : StepName, healthy : BOOLEAN, cancelled : BOOLEAN,
        built : BOOLEAN, day : ReportDay, should_send : BOOLEAN, receipt : BOOLEAN]

Try == [run : Runs, attempt : Nat, day : ReportDay, conclusion : {"success", "failure"},
        accepted : BOOLEAN, known : SUBSET ReportDay]
Intent == [run : Runs, attempt : Nat, day : ReportDay, at : Nat]
Report == [run : Runs, attempt : Nat, day : ReportDay, at : Nat, receipt : BOOLEAN]

FreshJob == [step |-> "build", healthy |-> TRUE, cancelled |-> FALSE, built |-> FALSE,
             day |-> 0, should_send |-> FALSE, receipt |-> FALSE]

Init ==
  /\ now \in 3 .. 5
  /\ input = [r \in Runs |-> NoInput]
  /\ created = [r \in Runs |-> 0]
  /\ base = [r \in Runs |-> {}]
  /\ phase = [r \in Runs |-> "absent"]
  /\ attempt = [r \in Runs |-> 0]
  /\ queued = [r \in Runs |-> 0]
  /\ job = [r \in Runs |-> FreshJob]
  /\ tries = {} /\ intents = {} /\ reports = {} /\ history = {}

-----------------------------------------------------------------------------
(* Dispatch and the concurrency group *)

Concluded == {"success", "failure", "cancelled"}
Active(r) == phase[r] \in {"pending", "running"}
Running(r) == phase[r] = "running"
At(r, s) == Running(r) /\ job[r].step = s

SetJob(r, j) == job' = [job EXCEPT ![r] = j]

evidence == <<tries, intents, reports, history>>
identity == <<input, created, base>>

\* A newcomer becomes the one pending run; it replaces an older pending run.
Enqueue(r) ==
  /\ phase' = [q \in Runs |-> IF q = r THEN "pending"
                              ELSE IF phase[q] = "pending" THEN "cancelled"
                              ELSE phase[q]]
  /\ queued' = [q \in Runs |-> IF q = r THEN now
                               ELSE IF phase[q] = "running" THEN queued[q] ELSE 0]

Dispatch(r) ==
  /\ phase[r] = "absent"
  /\ \E i \in Inputs : input' = [input EXCEPT ![r] = i]
  /\ created' = [created EXCEPT ![r] = now]
  /\ base' = [base EXCEPT ![r] = history]
  /\ attempt' = [attempt EXCEPT ![r] = 1]
  /\ Enqueue(r)
  /\ UNCHANGED <<now, job, evidence>>

\* An operator re-runs a concluded run: created_at and the commit stay.
Rerun(r) ==
  /\ phase[r] \in Concluded
  /\ attempt[r] < MaxAttempts
  /\ now <= created[r] + RerunHorizon
  /\ attempt' = [attempt EXCEPT ![r] = @ + 1]
  /\ Enqueue(r)
  /\ UNCHANGED <<now, job, identity, evidence>>

\* The job is over and releases the group.
Leave(r) ==
  /\ SetJob(r, FreshJob)
  /\ queued' = [queued EXCEPT ![r] = 0]

GroupFree == \A q \in Runs : ~Running(q)

StartJob(r) ==
  /\ phase[r] = "pending"
  /\ GroupFree
  /\ phase' = [phase EXCEPT ![r] = "running"]
  /\ SetJob(r, FreshJob)
  /\ UNCHANGED <<now, attempt, queued, identity, evidence>>

\* The group does not keep a run longer than MaxLag: it starts when the one
\* before it has ended, and every job ends at its time limit.
Tick ==
  /\ now < MaxTime
  /\ \A r \in Runs : Active(r) => now < queued[r] + MaxLag
  /\ now' = now + 1
  /\ UNCHANGED <<phase, attempt, queued, job, identity, evidence>>

\* The runner disappears: no later step of the job is executed.
Crash(r) ==
  /\ Running(r)
  /\ phase' = [phase EXCEPT ![r] = "failure"]
  /\ Leave(r)
  /\ UNCHANGED <<now, attempt, identity, evidence>>

\* Cancellation or the job's time limit: only the always() upload is executed.
Cancel(r) ==
  /\ Running(r)
  /\ ~job[r].cancelled
  /\ SetJob(r, [job[r] EXCEPT !.healthy = FALSE, !.cancelled = TRUE])
  /\ UNCHANGED <<now, phase, attempt, queued, identity, evidence>>

-----------------------------------------------------------------------------
(* reconcile: what earlier runs say about the report of day d *)

Live(a) == now - a.at < Retention


\* The runs the API lists for created>= the day before the report day.
Window(d) == {q \in Runs : phase[q] # "absent" /\ UTCDay(created[q]) >= d - 1}

\* Slip: only the jobs of the latest attempt are listed.
LatestSends(q) == {s \in tries : s.run = q /\ s.attempt = attempt[q]}

Sends(q) == {s \in tries : s.run = q}

\* Artifacts of every attempt are listed; the intent is named by run_attempt.
ReportsOf(q) == {a \in reports : a.run = q /\ Live(a)}
\* Slip: intents are not downloaded.
NoIntentsOf(q) == {a \in intents : a.run = q /\ a.attempt > attempt[q]}

IntentsOf(q) == {a \in intents : a.run = q /\ a.attempt = attempt[q] /\ Live(a)}

EvidenceDays(q) == {a.day : a \in ReportsOf(q) \cup IntentsOf(q)}


\* Steps of several attempts cannot be paired with artifacts of several attempts.
Mixed(q) == attempt[q] # 1
Conflicting(q) == \E a, b \in ReportsOf(q) \cup IntentsOf(q) : a.day # b.day

Matches(q, d) == \E a \in ReportsOf(q) : a.day = d

Confirmed(q, d) ==
  /\ Matches(q, d)
  /\ \/ \E s \in Sends(q) : s.conclusion = "success"
     \/ \E a \in ReportsOf(q) : a.day = d /\ a.receipt

Uncertain(q, d) ==
  /\ ~Confirmed(q, d)
  /\ Matches(q, d) \/ EvidenceDays(q) = {} \/ d \in EvidenceDays(q)

Senders(d) == {q \in Window(d) : Sends(q) # {}}

Sendable(d) ==
  \A q \in Senders(d) : ~Mixed(q) /\ ~Conflicting(q) /\ ~Confirmed(q, d) /\ ~Uncertain(q, d)
SentConfirmed(d) ==
  /\ \A q \in Senders(d) : ~Mixed(q) /\ ~Conflicting(q)
  /\ \E q \in Senders(d) : Confirmed(q, d)
DeliveryUnknown(d) == ~Sendable(d) /\ ~SentConfirmed(d)

-----------------------------------------------------------------------------
(* Steps of the send job *)

After == [build |-> "gate", gate |-> "intent", intent |-> "send", send |-> "history",
          history |-> "upload", upload |-> "upload"]

StepIf(r) ==
  LET s == job[r].step IN
  CASE s \in {"build", "gate"} -> job[r].healthy
    [] s \in {"intent", "send"} -> job[r].healthy /\ job[r].should_send
    [] s = "history" -> job[r].healthy /\ job[r].should_send /\ Family = "etf"
    [] s = "upload" -> TRUE

Due(r, s) == At(r, s) /\ StepIf(r)

others == <<now, phase, attempt, queued, identity>>

Skip(r) ==
  /\ Running(r) /\ ~StepIf(r)
  /\ SetJob(r, [job[r] EXCEPT !.step = After[@]])
  /\ UNCHANGED <<others, evidence>>

\* A step before or after SMTP fails: a source or the API is down, validation
\* rejects the report, an upload is refused, the history cannot be pushed.
Break(r) ==
  /\ Running(r) /\ StepIf(r) /\ job[r].step \notin {"send", "upload"}
  /\ SetJob(r, [job[r] EXCEPT !.healthy = FALSE, !.step = After[@]])
  /\ UNCHANGED <<others, evidence>>

\* The report is about the Beijing day of the build, or (AI HOT) about the
\* requested one; its articles are filtered by the checked-out history.
BuiltDay(r) == IF input[r].report_date = Latest THEN BeijingDay(now) ELSE input[r].report_date

Build(r) ==
  /\ Due(r, "build")
  /\ BuiltDay(r) <= BeijingDay(now)
  /\ SetJob(r, [job[r] EXCEPT !.step = "gate", !.built = TRUE, !.day = BuiltDay(r)])
  /\ UNCHANGED <<others, evidence>>

ValidationOnly(r) == input[r].event = "workflow_dispatch" /\ ~input[r].send_email

Gate(r) ==
  /\ Due(r, "gate")
  /\ ValidationOnly(r) \/ ~DeliveryUnknown(job[r].day)
  /\ SetJob(r, [job[r] EXCEPT !.step = "intent",
       !.should_send = ~ValidationOnly(r) /\ Sendable(job[r].day)])
  /\ UNCHANGED <<others, evidence>>

\* The gate raises BLOCKED: an earlier delivery of the day is unknown.
Refuse(r) ==
  /\ Due(r, "gate")
  /\ ~ValidationOnly(r) /\ DeliveryUnknown(job[r].day)
  /\ Break(r)

\* ok = FALSE: the artifact is stored, but the step did not report success.
PersistIntent(r) ==
  /\ Due(r, "intent")
  /\ intents' = intents \cup
       {[run |-> r, attempt |-> attempt[r], day |-> job[r].day, at |-> now]}
  /\ \E ok \in BOOLEAN : SetJob(r, [job[r] EXCEPT !.step = "send", !.healthy = ok])
  /\ UNCHANGED <<others, tries, reports, history>>

SendStep(r, accepted, conclusion) ==
  [run |-> r, attempt |-> attempt[r], day |-> job[r].day, conclusion |-> conclusion,
   accepted |-> accepted, known |-> base[r]]

\* Slip: the receipt is written before SMTP answers.
ReceiptFirst(r) ==
  /\ Due(r, "send")
  /\ \E accepted \in BOOLEAN :
       /\ tries' = tries \cup {SendStep(r, accepted, IF accepted THEN "success" ELSE "failure")}
       /\ SetJob(r, [job[r] EXCEPT !.step = "history", !.healthy = accepted, !.receipt = TRUE])
  /\ UNCHANGED <<others, intents, reports, history>>

\* send_report.py: the receipt is written after the acceptance and completely
\* or not at all; the step can still fail after either.
SendGmail(r) ==
  /\ Due(r, "send")
  /\ \E accepted, receipt, ok \in BOOLEAN :
       /\ receipt => accepted
       /\ ok => receipt
       /\ tries' = tries \cup {SendStep(r, accepted, IF ok THEN "success" ELSE "failure")}
       /\ SetJob(r, [job[r] EXCEPT !.step = "history", !.healthy = ok, !.receipt = receipt])
  /\ UNCHANGED <<others, intents, reports, history>>

\* Slip: the step ends with success although the last push was rejected.
PushMayBeLost(r) ==
  /\ Due(r, "history")
  /\ history' \in {history, history \cup {job[r].day}}
  /\ SetJob(r, [job[r] EXCEPT !.step = "upload"])
  /\ UNCHANGED <<others, tries, intents, reports>>

\* Commit, pull --rebase, push.  A rebase over a history that has moved on
\* since the checkout may conflict, which ends the step (Break).
PersistHistory(r) ==
  /\ Due(r, "history")
  /\ history' = history \cup {job[r].day}
  /\ SetJob(r, [job[r] EXCEPT !.step = "upload"])
  /\ UNCHANGED <<others, tries, intents, reports>>

\* Slip: the conclusion of the last step instead of the run's.
StepConclusion(r) == IF job[r].healthy THEN "success" ELSE "skipped"

Conclusion(r) ==
  IF job[r].cancelled THEN "cancelled" ELSE IF job[r].healthy THEN "success" ELSE "failure"

\* always(): the artifacts directory; the upload may fail.  A directory without
\* metadata comes from an attempt that sent nothing, which reconcile passes over.
Finish(r) ==
  /\ At(r, "upload")
  /\ \/ /\ job[r].built
        /\ reports' = reports \cup {[run |-> r, attempt |-> attempt[r], day |-> job[r].day,
                                     at |-> now, receipt |-> job[r].receipt]}
        /\ phase' = [phase EXCEPT ![r] = Conclusion(r)]
     \/ /\ phase' = [phase EXCEPT ![r] =
             IF job[r].built /\ ~job[r].cancelled THEN "failure" ELSE Conclusion(r)]
        /\ reports' = reports
  /\ Leave(r)
  /\ UNCHANGED <<now, attempt, identity, tries, intents, history>>

JobStep(r) ==
  \/ Build(r) \/ Gate(r) \/ Refuse(r) \/ PersistIntent(r) \/ SendGmail(r)
  \/ PersistHistory(r) \/ Skip(r) \/ Finish(r)

Environment(r) == Dispatch(r) \/ Rerun(r) \/ Crash(r) \/ Cancel(r) \/ Break(r)

Next == Tick \/ \E r \in Runs : StartJob(r) \/ JobStep(r) \/ Environment(r)

Spec == Init /\ [][Next]_vars

-----------------------------------------------------------------------------
(* Properties *)

TypeOK ==
  /\ now \in 3 .. MaxTime + 5
  /\ input \in [Runs -> Inputs \cup {NoInput}]
  /\ created \in [Runs -> Nat]
  /\ base \in [Runs -> SUBSET ReportDay]
  /\ phase \in [Runs -> {"absent", "pending", "running"} \cup Concluded]
  /\ attempt \in [Runs -> Nat]
  /\ queued \in [Runs -> Nat]
  /\ job \in [Runs -> Job]
  /\ tries \subseteq Try
  /\ intents \subseteq Intent
  /\ reports \subseteq Report
  /\ history \subseteq ReportDay

\* SMTP is contacted at most once for the report of one day, whether or not the
\* first contact is known to have been accepted ("a failed/cancelled send is
\* deliberately not retried automatically").
OneSmtpContactPerDay == \A s, t \in tries : s.day = t.day => s = t

\* A green production run means that the day's report was accepted, by this run
\* or by the one the gate confirmed; an unknown delivery never ends green.
GreenMeansAccepted ==
  [][\A r \in Runs :
       (At(r, "upload") /\ phase'[r] = "success" /\ ~ValidationOnly(r))
         => \E s \in tries : s.day = job[r].day /\ s.accepted]_vars

\* The report of a day is refused only because SMTP was contacted for that very
\* day, or by a run that was re-run: the send of another day, known or unknown, is
\* otherwise never in the way (reconcile, lines 155-199).
RefusalIsAboutThisDay ==
  [][\A r \in Runs : Refuse(r) =>
       \E s \in tries : s.day = job[r].day \/ attempt[s.run] > 1]_vars

\* Articles mailed by a run that ended green are known to every report dispatched
\* afterwards: the history push is part of being green.
GreenHistoryIsKnown ==
  [][\A r \in Runs, s \in tries :
       (Dispatch(r) /\ phase[s.run] = "success" /\ attempt[s.run] = s.attempt
          /\ Family = "etf") => s.day \in base'[r]]_vars

(* A green run kept its word to the readers: the report was accepted, and the *)
(* articles it mailed are not mailed again as new ones. *)
GreenIsKept == GreenMeansAccepted /\ GreenHistoryIsKnown

(* Refinement: the mails of a family follow the abstract promise. *)
ReportDays == 0 .. BeijingDay(MaxTime + 5)
IntendedDays == {i.day : i \in intents}
Accepted(d) == {s \in tries : s.day = d /\ s.accepted}
ConfirmedDays == {a.day : a \in {b \in reports : b.receipt}}
Promise == INSTANCE AtMostOnceSend WITH
  Keys <- ReportDays,
  intended <- IntendedDays,
  sends <- [d \in ReportDays |-> Cardinality(Accepted(d))],
  barred <- {},
  confirmed <- ConfirmedDays
KeepsPromise == Promise!Spec
=============================================================================
