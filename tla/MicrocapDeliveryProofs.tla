------------------------- MODULE MicrocapDeliveryProofs -------------------------
(***************************************************************************)
(* Proofs about the delivery of the Microcap report by the digest and the  *)
(* member workflow, for every set of runs, calendar, input set, legacy     *)
(* markers, run limits and number of re-runs.                              *)
(***************************************************************************)
EXTENDS MicrocapDelivery, FiniteSetTheorems, TLAPS

-----------------------------------------------------------------------------
(* The inductive invariant *)

\* The steps of the job up to and including the one named.
UpToGate == {"calendar", "start", "gate"}
UpToBuild == UpToGate \cup {"recover", "target", "prepare", "whole", "disclose", "build"}
UpToIntent == UpToBuild \cup {"choose", "again", "intent"}
UpToSend == UpToIntent \cup {"send"}
UpToReceipt == UpToSend \cup {"receipt"}

\* Automation's or the operator's mail about k has been accepted; only an acceptance
\* mail backs the key of the acceptance test.
Backed(k) ==
  \E m \in mails : m.key = k /\ m.kind # "failure" /\ (m.kind = "test" <=> k.series = "test")

Scheduled(r) == Digest(r) /\ Close(r) /\ Normal(r) /\ input[r].catchUp = 0

\* The identities a job of r may mail under.  The day of a catch-up comes from the
\* operator; only a complete report, which is about that day, makes it a session.
KeyOf(r, k) ==
  IF input[r].test THEN k = TestKey /\ ~input[r].correction
  ELSE /\ k \in [day : Nat \ {0}, mode : {input[r].mode}, series : {"daily", "partial"}]
       /\ Digest(r) => k.series = "daily"
       /\ k.day \in AbstractDays \/ (Digest(r) /\ Close(r) /\ Normal(r))

\* The report in j is one that may be mailed under its key.
Ready(r, j) ==
  /\ j.shouldSend /\ ~input[r].validation
  /\ Digest(r) => j.status = "OK" /\ (Close(r) => j.whole)

\* GitHub shows the day the send job started, and the job counts its limit from it.
Began(r, j) == shown[r].began <= day /\ j.since < 24 * (shown[r].began + 1)

\* What has not happened yet.
Ordered(j) ==
  /\ j.step \in UpToGate => ~j.shouldSend /\ ~j.recover
  /\ j.step \in UpToBuild => j.status = "none"
  /\ j.step \in UpToIntent => ~j.intent
  /\ j.step \in UpToSend => j.sent = "no"
  /\ j.step \in UpToReceipt => ~j.kept

\* What a healthy job has done.
Done(r, j) ==
  j.healthy =>
    /\ (j.admitted /\ j.step \notin UpToGate) =>
         j.shouldSend \/ j.key \in Legacy \/ Backed(j.key)
    /\ (Ready(r, j) /\ j.step \notin UpToIntent) => j.intent
    /\ (Ready(r, j) /\ j.step \notin UpToSend) => j.sent = "ok"

\* The identity and the report of the job.
Identified(r, j) ==
  /\ j.shouldSend => KeyOf(r, j.key)
  /\ j.status \in IF Digest(r) THEN {"none", "OK", "FAILED"} ELSE {"none", "OK", "PARTIAL"}
  /\ Digest(r) => j.target \in TradeDays \cup {0}
  /\ (Digest(r) /\ Close(r) /\ Normal(r) /\ j.status = "OK") =>
       j.target = j.key.day /\ j.signal = j.key.day

\* What the evidence says about the key of the job.
Evident(r, j) ==
  /\ (j.shouldSend /\ ~Unchecked(r) /\ j.step \in UpToIntent) => ~Intended(j.key)
  /\ j.recover => ReceiptsOf(j.key) # {}
  /\ j.intent =>
       /\ Ready(r, j)
       /\ \E i \in intents : i.key = j.key /\ i.correction = input[r].correction
  /\ (j.step = "send" /\ j.intent /\ ~input[r].correction) =>
       /\ \A m \in Automatic : m.key # j.key
       /\ \A i \in intents : i.key = j.key => i.run = r /\ i.attempt = attempt[r]
  /\ (j.sent = "ok" /\ j.status # "FAILED") => Backed(j.key)
  /\ j.kept => Backed(j.key)

\* The clock of the job.
Timed(r, j) ==
  /\ j.since <= Clock(day, hour)
  /\ Clock(day, hour) <= j.since + MaxRunHours[input[r].workflow]
  /\ (Digest(r) /\ j.step = "gate" /\ j.healthy /\ j.admitted) => Began(r, j)
  /\ (Scheduled(r) /\ j.shouldSend) =>
       /\ Began(r, j)
       /\ shown[r].began <= j.key.day /\ j.key.day <= day
       /\ j.sent = "ok" => j.key.day <= j.accepted /\ j.accepted <= day

JobSafe(r, j) ==
  Ordered(j) /\ Done(r, j) /\ Identified(r, j) /\ Evident(r, j) /\ Timed(r, j)

OneRunning == \A q, r \in Runs : Running(q) /\ Running(r) => q = r

\* Only a dispatched run has inputs, and its attempts are counted from one.
Dispatched ==
  \A r \in Runs : IF phase[r] = "absent" THEN attempt[r] = 0
                  ELSE attempt[r] >= 1 /\ input[r] \in Inputs

\* Mails and artifacts: no mail without an intent of its kind, none twice, and
\* receipts and markers only of what was mailed.
MailIntended ==
  \A m \in mails : m.kind # "failure" =>
    \E i \in intents : i.key = m.key /\ (i.correction <=> m.kind = "correction")
EvidenceBacked == \A e \in receipts \cup markers : Backed(e.key)
IntentKeys == \A i \in intents : i.key \in AbstractKeys

\* In its first attempt a run leaves no receipt before the receipt step, and the
\* receipt of a scheduled close fits the times GitHub shows of that attempt.
FirstReceipt(r) ==
  (attempt[r] = 0 \/ (attempt[r] = 1 /\ (phase[r] = "pending" \/
     (Running(r) /\ job[r].step \in UpToReceipt)))) => \A c \in receipts : c.run # r
ReceiptTimes ==
  \A c \in receipts : (Scheduled(c.run) /\ attempt[c.run] = 1) =>
    /\ c.signal = c.key.day
    /\ c.accepted # c.key.day => shown[c.run].began = c.key.day

Records ==
  /\ AtMostOneAutomaticMail /\ MailIntended /\ EvidenceBacked /\ IntentKeys

IInv ==
  /\ TypeOK
  /\ OneRunning
  /\ Dispatched
  /\ Records
  /\ ReceiptTimes
  /\ \A r \in Runs : FirstReceipt(r)
  /\ \A r \in Runs : Running(r) => JobSafe(r, job[r])

-----------------------------------------------------------------------------
(* Types *)

LEMMA FreshJobType ==
  ASSUME NEW s \in Nat
  PROVE  FreshJob(s) \in Job
  BY DEF FreshJob, Job, StepName

\* Assigning a field a value of its type keeps the job's type; updates of several
\* fields follow by composing these facts.
LEMMA FieldType ==
  ASSUME NEW j \in Job
  PROVE  /\ \A v \in StepName : [j EXCEPT !.step = v] \in Job
         /\ \A v \in BOOLEAN : [j EXCEPT !.healthy = v] \in Job
         /\ \A v \in BOOLEAN : [j EXCEPT !.cancelled = v] \in Job
         /\ \A v \in Nat : [j EXCEPT !.since = v] \in Job
         /\ \A v \in BOOLEAN : [j EXCEPT !.admitted = v] \in Job
         /\ \A v \in BOOLEAN : [j EXCEPT !.shouldSend = v] \in Job
         /\ \A v \in BOOLEAN : [j EXCEPT !.recover = v] \in Job
         /\ \A v \in Key \cup {NoKey} : [j EXCEPT !.key = v] \in Job
         /\ \A v \in Nat : [j EXCEPT !.target = v] \in Job
         /\ \A v \in BOOLEAN : [j EXCEPT !.prepared = v] \in Job
         /\ \A v \in BOOLEAN : [j EXCEPT !.whole = v] \in Job
         /\ \A v \in BOOLEAN : [j EXCEPT !.disclosed = v] \in Job
         /\ \A v \in {"none", "OK", "PARTIAL", "FAILED"} : [j EXCEPT !.status = v] \in Job
         /\ \A v \in Nat : [j EXCEPT !.signal = v] \in Job
         /\ \A v \in BOOLEAN : [j EXCEPT !.intent = v] \in Job
         /\ \A v \in {"no", "ok", "failed"} : [j EXCEPT !.sent = v] \in Job
         /\ \A v \in Nat : [j EXCEPT !.accepted = v] \in Job
         /\ \A v \in BOOLEAN : [j EXCEPT !.kept = v] \in Job
  <1>1. \A v \in StepName : [j EXCEPT !.step = v] \in Job
    BY DEF Job
  <1>2. \A v \in BOOLEAN : [j EXCEPT !.healthy = v] \in Job
    BY DEF Job
  <1>3. \A v \in BOOLEAN : [j EXCEPT !.cancelled = v] \in Job
    BY DEF Job
  <1>4. \A v \in Nat : [j EXCEPT !.since = v] \in Job
    BY DEF Job
  <1>5. \A v \in BOOLEAN : [j EXCEPT !.admitted = v] \in Job
    BY DEF Job
  <1>6. \A v \in BOOLEAN : [j EXCEPT !.shouldSend = v] \in Job
    BY DEF Job
  <1>7. \A v \in BOOLEAN : [j EXCEPT !.recover = v] \in Job
    BY DEF Job
  <1>8. \A v \in Key \cup {NoKey} : [j EXCEPT !.key = v] \in Job
    BY DEF Job
  <1>9. \A v \in Nat : [j EXCEPT !.target = v] \in Job
    BY DEF Job
  <1>10. \A v \in BOOLEAN : [j EXCEPT !.prepared = v] \in Job
    BY DEF Job
  <1>11. \A v \in BOOLEAN : [j EXCEPT !.whole = v] \in Job
    BY DEF Job
  <1>12. \A v \in BOOLEAN : [j EXCEPT !.disclosed = v] \in Job
    BY DEF Job
  <1>13. \A v \in {"none", "OK", "PARTIAL", "FAILED"} : [j EXCEPT !.status = v] \in Job
    BY DEF Job
  <1>14. \A v \in Nat : [j EXCEPT !.signal = v] \in Job
    BY DEF Job
  <1>15. \A v \in BOOLEAN : [j EXCEPT !.intent = v] \in Job
    BY DEF Job
  <1>16. \A v \in {"no", "ok", "failed"} : [j EXCEPT !.sent = v] \in Job
    BY DEF Job
  <1>17. \A v \in Nat : [j EXCEPT !.accepted = v] \in Job
    BY DEF Job
  <1>18. \A v \in BOOLEAN : [j EXCEPT !.kept = v] \in Job
    BY DEF Job
  <1> QED
    BY <1>1, <1>2, <1>3, <1>4, <1>5, <1>6, <1>7, <1>8, <1>9, <1>10, <1>11, <1>12, <1>13, <1>14, <1>15, <1>16, <1>17, <1>18

LEMMA StepNames ==
  /\ "calendar" \in StepName /\ "start" \in StepName /\ "gate" \in StepName
  /\ "recover" \in StepName /\ "choose" \in StepName /\ "send" \in StepName
  BY DEF StepName

LEMMA AfterType ==
  ASSUME NEW s \in StepName
  PROVE  After[s] \in StepName
  BY DEF After, StepName

\* The next step has not gone past anything its predecessor had not.
LEMMA AfterOrder ==
  ASSUME NEW s \in StepName
  PROVE  /\ After[s] \in UpToGate => s \in UpToGate
         /\ After[s] \in UpToBuild => s \in UpToBuild
         /\ After[s] \in UpToIntent => s \in UpToIntent
         /\ After[s] \in UpToSend => s \in UpToSend
         /\ After[s] \in UpToReceipt => s \in UpToReceipt
         /\ (s \in UpToGate /\ After[s] \notin UpToGate) => s = "gate"
         /\ (s \in UpToIntent /\ After[s] \notin UpToIntent) => s = "intent"
         /\ (s \in UpToSend /\ After[s] \notin UpToSend) => s = "send"
         /\ After[s] = "gate" => s = "start"
         /\ After[s] = "send" => s = "intent"
  BY DEF After, StepName, UpToGate, UpToBuild, UpToIntent, UpToSend, UpToReceipt

LEMMA Nesting ==
  ASSUME NEW s
  PROVE  /\ s \in UpToGate => s \in UpToBuild
         /\ s \in UpToBuild => s \in UpToIntent
         /\ s \in UpToIntent => s \in UpToSend /\ s # "send"
         /\ s \in UpToSend => s \in UpToReceipt
  BY DEF UpToGate, UpToBuild, UpToIntent, UpToSend, UpToReceipt

LEMMA InputFacts ==
  ASSUME NEW i \in Inputs
  PROVE  /\ i \in Input
         /\ i.workflow \in Workflows /\ i.mode \in Modes /\ i.catchUp \in Nat
         /\ i.external \in BOOLEAN /\ i.validation \in BOOLEAN
         /\ i.correction \in BOOLEAN /\ i.test \in BOOLEAN /\ i.reviewed \in BOOLEAN
         /\ i.workflow = "member" => ~i.correction /\ ~i.test /\ i.catchUp = 0
  <1>1. i \in Input
    BY InputsAssumption
  <1> QED
    BY <1>1, InputsAssumption DEF Input

\* What is known of the running job of r.
LEMMA RunningJob ==
  ASSUME IInv, NEW r \in Runs, Running(r)
  PROVE  /\ job[r] \in Job /\ JobSafe(r, job[r]) /\ job[r].step \in StepName
         /\ job[r].key \in Key \cup {NoKey}
         /\ input[r] \in Inputs /\ (Digest(r) <=> ~Member(r))
  <1>1. job[r] \in Job /\ JobSafe(r, job[r])
    BY DEF IInv, TypeOK
  <1>2. input[r] \in Inputs
    BY DEF IInv, Dispatched, Running
  <1>3. Digest(r) <=> ~Member(r)
    BY <1>2, InputFacts DEF Digest, Member, Workflows
  <1> QED
    BY <1>1, <1>2, <1>3 DEF Job

LEMMA ClockFacts ==
  ASSUME TypeOK
  PROVE  /\ day \in Nat \ {0} /\ hour \in 0 .. 23 /\ day \in AbstractDays
         /\ Clock(day, hour) \in Nat
         /\ CompletedDay[<<day, hour>>] \in TradeDays
         /\ CompletedDay[<<day, hour>>] \in Nat \ {0}
  <1>1. <<day, hour>> \in Instants
    BY DEF TypeOK
  <1>2. <<day, hour>> \in (Nat \ {0}) \X (0 .. 23)
    BY <1>1, CalendarAssumption
  <1>3. day \in Nat \ {0} /\ hour \in 0 .. 23
    BY <1>2
  <1>4. day \in AbstractDays
    <2>1. <<day, hour>>[1] = day
      OBVIOUS
    <2> QED
      BY <1>1, <2>1 DEF AbstractDays
  <1>5. CompletedDay[<<day, hour>>] \in TradeDays
    BY <1>1, CalendarAssumption
  <1>6. TradeDays \subseteq Nat \ {0}
    BY CalendarAssumption
  <1>7. Clock(day, hour) \in Nat
    BY <1>3 DEF Clock
  <1> QED
    BY <1>3, <1>4, <1>5, <1>6, <1>7

LEMMA EvidenceType ==
  ASSUME IInv, NEW r \in Runs, Running(r)
  PROVE  /\ EvidenceOf(r) \in Evidence
         /\ EvidenceOf(r).key = job[r].key /\ EvidenceOf(r).run = r
         /\ EvidenceOf(r).attempt = attempt[r]
         /\ EvidenceOf(r).correction = input[r].correction
  <1>1. job[r].key \in Key \cup {NoKey} /\ input[r] \in Inputs
    BY RunningJob
  <1>2. input[r].correction \in BOOLEAN /\ attempt[r] \in Nat
    BY <1>1, InputFacts DEF IInv, TypeOK
  <1> QED
    BY <1>1, <1>2 DEF EvidenceOf, Evidence

-----------------------------------------------------------------------------
(* Steps that only move the job of one running run *)

\* A run leaves its first receipt at the receipt step or never.
LEMMA FirstReceiptKept ==
  ASSUME IInv, NEW r \in Runs, Running(r), NEW j, SetJob(r, j),
         UNCHANGED <<others, receipts>>,
         j.step \in UpToReceipt => job[r].step \in UpToReceipt
  PROVE  \A q \in Runs : FirstReceipt(q)'
  <1> SUFFICES ASSUME NEW q \in Runs PROVE FirstReceipt(q)'
    OBVIOUS
  <1>1. UNCHANGED <<attempt, phase, receipts>> /\ FirstReceipt(q)
    BY DEF others, IInv
  <1>2. CASE q = r
    <2>1. job'[r] = j
      BY DEF SetJob, IInv, TypeOK
    <2> QED
      BY <1>1, <1>2, <2>1 DEF FirstReceipt, Running
  <1>3. CASE q # r
    <2>1. job'[q] = job[q]
      BY <1>3 DEF SetJob, IInv, TypeOK
    <2> QED
      BY <1>1, <2>1 DEF FirstReceipt, Running
  <1> QED
    BY <1>2, <1>3

\* A step of the one running job preserves the invariant when what it writes is
\* well-formed and its job is safe afterwards.
LEMMA RunningStep ==
  ASSUME IInv, NEW r \in Runs, Running(r), UNCHANGED others,
         NEW j \in Job, SetJob(r, j),
         shown' \in [Runs -> Shown], intents' \subseteq Evidence,
         receipts' \subseteq Receipt, markers' \subseteq Evidence,
         mails' \subseteq Message, Records', ReceiptTimes',
         \A q \in Runs : FirstReceipt(q)', JobSafe(r, job[r])'
  PROVE  IInv'
  <1> USE DEF others
  <1>1. job' \in [Runs -> Job]
    BY DEF IInv, TypeOK, SetJob
  <1>2. TypeOK'
    BY <1>1 DEF IInv, TypeOK
  <1>3. OneRunning' /\ Dispatched'
    BY DEF IInv, OneRunning, Dispatched, Running
  <1>4. \A q \in Runs : Running(q)' => q = r
    BY DEF IInv, OneRunning, Running
  <1> QED
    BY <1>2, <1>3, <1>4 DEF IInv

\* A job is safe whatever happens to the markers, and of what GitHub shows only the
\* day its send job started matters.
LEMMA SameJobSafe ==
  ASSUME NEW r \in Runs, NEW j, JobSafe(r, j), job'[r] = j,
         UNCHANGED <<day, hour, intents, receipts, mails>>,
         input'[r] = input[r], attempt'[r] = attempt[r], shown'[r].began = shown[r].began
  PROVE  JobSafe(r, job[r])'
  <1> USE DEF Clock, Digest, Member, Close, Normal, Scheduled, Unchecked,
              AbstractDays, Began, Ready, Backed
  <1>1. Ordered(job[r])'
    BY DEF JobSafe, Ordered
  <1>2. Done(r, job[r])'
    BY DEF JobSafe, Done
  <1>3. Identified(r, job[r])'
    BY DEF JobSafe, Identified, KeyOf
  <1>4. Evident(r, job[r])'
    BY DEF JobSafe, Evident, Automatic, Intended, ReceiptsOf
  <1>5. Timed(r, job[r])'
    BY DEF JobSafe, Timed
  <1> QED
    BY <1>1, <1>2, <1>3, <1>4, <1>5 DEF JobSafe

LEMMA SameRecords ==
  ASSUME Records, UNCHANGED artifacts
  PROVE  Records'
  BY DEF artifacts, Records, AtMostOneAutomaticMail, Automatic, MailIntended, EvidenceBacked,
         Backed, IntentKeys, AbstractKeys, AbstractDays

LEMMA SameReceiptTimes ==
  ASSUME ReceiptTimes, UNCHANGED <<input, attempt, receipts>>,
         \A c \in receipts : shown'[c.run].began = shown[c.run].began
  PROVE  ReceiptTimes'
  BY DEF ReceiptTimes, Scheduled, Digest, Close, Normal

LEMMA QuietStep ==
  ASSUME IInv, NEW r \in Runs, Running(r), NEW j \in Job, SetJob(r, j), JobSafe(r, j),
         j.step \in UpToReceipt => job[r].step \in UpToReceipt,
         UNCHANGED <<others, shown, artifacts>>
  PROVE  IInv'
  <1>1. job'[r] = j
    BY DEF IInv, TypeOK, SetJob
  <1>2. UNCHANGED <<day, hour, input, attempt, shown, artifacts>> /\ UNCHANGED others
    BY DEF others
  <1>3. /\ shown' \in [Runs -> Shown] /\ intents' \subseteq Evidence
        /\ receipts' \subseteq Receipt /\ markers' \subseteq Evidence
        /\ mails' \subseteq Message /\ receipts' = receipts
    BY DEF IInv, TypeOK, artifacts
  <1>4. Records' /\ ReceiptTimes'
    <2>1. Records'
      BY <1>2, SameRecords DEF IInv
    <2> QED
      BY <1>2, <1>3, <2>1, SameReceiptTimes DEF IInv
  <1>5. \A q \in Runs : FirstReceipt(q)'
    BY <1>3, FirstReceiptKept
  <1>6. JobSafe(r, job[r])'
    BY <1>1, <1>2, SameJobSafe DEF artifacts
  <1> QED
    BY <1>2, <1>3, <1>4, <1>5, <1>6, RunningStep

\* The conditions of the steps that later ones rely on.
LEMMA StepConditions ==
  ASSUME NEW r \in Runs
  PROVE  /\ job[r].step = "start" =>
              (StepIf(r) <=> job[r].healthy /\ Digest(r) /\ job[r].admitted)
         /\ job[r].step = "gate" => (StepIf(r) <=> job[r].healthy /\ job[r].admitted)
         /\ job[r].step = "recover" => (StepIf(r) => job[r].recover)
         /\ job[r].step = "again" => (StepIf(r) => job[r].recover)
         /\ job[r].step = "choose" => (StepIf(r) => Member(r) /\ job[r].shouldSend)
         /\ job[r].step = "intent" => (StepIf(r) <=> job[r].healthy /\ IntentIf(r))
         /\ job[r].step = "send" => (StepIf(r) <=> SendIf(r))
         /\ job[r].step = "receipt" => (StepIf(r) <=> job[r].healthy /\ ReceiptIf(r))
         /\ job[r].step = "mark" => (StepIf(r) <=> job[r].healthy /\ MarkIf(r))
  <1>1. job[r].step = "start" =>
          (StepIf(r) <=> job[r].healthy /\ Digest(r) /\ job[r].admitted)
    BY DEF StepIf
  <1>2. job[r].step = "gate" => (StepIf(r) <=> job[r].healthy /\ job[r].admitted)
    BY DEF StepIf
  <1>3. job[r].step = "recover" => (StepIf(r) => job[r].recover)
    BY DEF StepIf
  <1>4. job[r].step = "again" => (StepIf(r) => job[r].recover)
    BY DEF StepIf
  <1>5. job[r].step = "choose" => (StepIf(r) => Member(r) /\ job[r].shouldSend)
    BY DEF StepIf
  <1>6. job[r].step = "intent" => (StepIf(r) <=> job[r].healthy /\ IntentIf(r))
    BY DEF StepIf
  <1>7. job[r].step = "send" => (StepIf(r) <=> SendIf(r))
    BY DEF StepIf
  <1>8. job[r].step = "receipt" => (StepIf(r) <=> job[r].healthy /\ ReceiptIf(r))
    BY DEF StepIf
  <1>9. job[r].step = "mark" => (StepIf(r) <=> job[r].healthy /\ MarkIf(r))
    BY DEF StepIf
  <1> QED
    BY <1>1, <1>2, <1>3, <1>4, <1>5, <1>6, <1>7, <1>8, <1>9

\* The fields the invariant reads that most steps leave alone.
Kept(j, i) ==
  /\ \A f \in {"since", "shouldSend", "key", "status", "signal", "intent", "sent",
               "accepted", "kept"} : j[f] = i[f]
  /\ j.recover => i.recover

\* j is the job of r after a step that may have settled the target or the whole
\* delivery before the report was built.
Advanced(r, j) ==
  /\ j.step = After[job[r].step]
  /\ Kept(j, job[r])
  /\ j.target = job[r].target \/ (job[r].step \in UpToBuild /\ (Digest(r) => j.target \in TradeDays))
  /\ j.whole = job[r].whole \/ job[r].step \in UpToBuild
  /\ j.healthy => job[r].healthy
  /\ (j.healthy /\ job[r].step # "calendar") => j.admitted = job[r].admitted

\* Passing a step is safe: nothing is claimed of a job that is not healthy, and a
\* healthy job has executed the steps later ones rely on.
LEMMA Passed ==
  ASSUME IInv, NEW r \in Runs, Running(r), NEW j \in Job, Advanced(r, j),
         (j.healthy /\ job[r].step \in {"start", "gate", "intent", "send"}) => ~StepIf(r)
  PROVE  JobSafe(r, j) /\ (j.step \in UpToReceipt => job[r].step \in UpToReceipt)
  <1> DEFINE i == job[r]
             s == job[r].step
  <1>1. /\ i \in Job /\ JobSafe(r, i) /\ s \in StepName /\ (Digest(r) <=> ~Member(r))
        /\ input[r] \in Inputs
    BY RunningJob
  <1>2. /\ j.step = After[s] /\ j.since = i.since /\ j.shouldSend = i.shouldSend
        /\ (j.recover => i.recover) /\ j.key = i.key /\ j.status = i.status
        /\ j.signal = i.signal /\ j.intent = i.intent /\ j.sent = i.sent
        /\ j.accepted = i.accepted /\ j.kept = i.kept
    BY DEF Advanced, Kept
  <1>3. /\ After[s] \in UpToGate => s \in UpToGate
        /\ After[s] \in UpToBuild => s \in UpToBuild
        /\ After[s] \in UpToIntent => s \in UpToIntent
        /\ After[s] \in UpToSend => s \in UpToSend
        /\ After[s] \in UpToReceipt => s \in UpToReceipt
        /\ (s \in UpToGate /\ After[s] \notin UpToGate) => s = "gate"
        /\ (s \in UpToIntent /\ After[s] \notin UpToIntent) => s = "intent"
        /\ (s \in UpToSend /\ After[s] \notin UpToSend) => s = "send"
        /\ After[s] = "gate" => s = "start"
        /\ After[s] = "send" => s = "intent"
    BY <1>1, AfterOrder
  <1>4. i.step = s /\ (s \in UpToBuild => i.status = "none" /\ ~i.intent)
    BY <1>1, Nesting DEF JobSafe, Ordered
  <1>5. Ready(r, j) => Ready(r, i) \/ (Member(r) /\ s \in UpToBuild)
    BY <1>1, <1>2, <1>4 DEF Advanced, Ready
  <1>6. Ready(r, i) => Ready(r, j) \/ s \in UpToBuild
    BY <1>2 DEF Advanced, Ready
  <1>7. /\ (s = "gate" /\ j.healthy) => ~(i.healthy /\ i.admitted)
        /\ (s = "intent" /\ j.healthy) => ~(i.healthy /\ IntentIf(r))
        /\ (s = "send" /\ j.healthy) => ~SendIf(r)
        /\ (s = "start" /\ j.healthy) => ~(i.healthy /\ Digest(r) /\ i.admitted)
    <2>1. (s = "gate" /\ j.healthy) => ~(i.healthy /\ i.admitted)
      BY StepConditions, Zenon
    <2>2. (s = "intent" /\ j.healthy) => ~(i.healthy /\ IntentIf(r))
      BY StepConditions, Zenon
    <2>3. (s = "send" /\ j.healthy) => ~SendIf(r)
      BY StepConditions, Zenon
    <2>4. (s = "start" /\ j.healthy) => ~(i.healthy /\ Digest(r) /\ i.admitted)
      BY StepConditions, Zenon
    <2> QED
      BY <2>1, <2>2, <2>3, <2>4
  <1>8. j.healthy => i.healthy /\ (s # "calendar" => j.admitted = i.admitted)
    BY DEF Advanced
  <1>9. "calendar" \in UpToGate
    BY DEF UpToGate
  <1>10. (j.healthy /\ Ready(r, j)) =>
           /\ s = "intent" => IntentIf(r)
           /\ (s = "send" /\ i.intent) => SendIf(r)
    BY <1>1, <1>2, <1>8, <1>9 DEF Advanced, Ready, IntentIf, SendIf, Complete, UpToBuild, UpToGate
  <1>11. Ordered(j)
    <2> HIDE DEF i, s
    <2> QED
      BY <1>1, <1>2, <1>3, <1>4 DEF JobSafe, Ordered
  <1>12. Done(r, j)
    <2>1. Done(r, i)
      BY <1>1 DEF JobSafe
    <2>2. (j.healthy /\ j.admitted /\ j.step \notin UpToGate) =>
            j.shouldSend \/ j.key \in Legacy \/ Backed(j.key)
      <3> HIDE DEF i, s
      <3> QED
        BY <1>2, <1>3, <1>4, <1>7, <1>8, <1>9, <2>1 DEF Done
    <2>3. s \in UpToBuild => s \in UpToIntent /\ s # "intent" /\ s \in UpToSend /\ s # "send"
      BY Nesting DEF UpToBuild, UpToGate
    <2>4. (j.healthy /\ Ready(r, j) /\ j.step \notin UpToIntent) => j.intent
      <3> HIDE DEF i, s
      <3> QED
        BY <1>2, <1>3, <1>4, <1>5, <1>7, <1>8, <1>10, <2>1, <2>3 DEF Done
    <2>5. (j.healthy /\ Ready(r, j) /\ j.step \notin UpToSend) => j.sent = "ok"
      <3>1. s \notin UpToSend \/ s = "send" => s \notin UpToIntent
        BY Nesting
      <3> HIDE DEF i, s
      <3> QED
        BY <1>2, <1>3, <1>4, <1>5, <1>7, <1>8, <1>10, <2>1, <2>3, <3>1 DEF Done
    <2> QED
      BY <2>2, <2>4, <2>5 DEF Done
  <1>13. Identified(r, j)
    <2>1. Identified(r, i)
      BY <1>1 DEF JobSafe
    <2> HIDE DEF i, s
    <2> QED
      BY <1>2, <1>4, <2>1 DEF Identified, Advanced, i, s
  <1>14. Evident(r, j)
    <2>1. Evident(r, i)
      BY <1>1 DEF JobSafe
    <2>2. j.step = "send" => s = "intent"
      BY <1>2, <1>3
    <2>3. "intent" \in UpToIntent
      BY DEF UpToIntent
    <2>4. (j.step = "send" => ~j.intent)
      BY <1>1, <1>2, <2>2, <2>3 DEF JobSafe, Ordered
    <2> HIDE DEF i, s
    <2> QED
      BY <1>2, <1>3, <1>4, <1>6, <2>1, <2>4 DEF Evident
  <1>15. Timed(r, j)
    <2>1. Timed(r, i)
      BY <1>1 DEF JobSafe
    <2>2. ~(Digest(r) /\ j.step = "gate" /\ j.healthy /\ j.admitted)
      <3>1. "start" # "calendar"
        OBVIOUS
      <3> HIDE DEF i, s
      <3> QED
        BY <1>2, <1>3, <1>7, <1>8, <3>1
    <2> HIDE DEF i, s
    <2> QED
      BY <1>2, <2>1, <2>2 DEF Timed, Began
  <1> QED
    BY <1>2, <1>3, <1>11, <1>12, <1>13, <1>14, <1>15 DEF JobSafe

\* A step that advances the job in this way and writes nothing.
LEMMA AdvanceSafe ==
  ASSUME IInv, NEW r \in Runs, Running(r), NEW j \in Job, SetJob(r, j), Advanced(r, j),
         (j.healthy /\ job[r].step \in {"start", "gate", "intent", "send"}) => ~StepIf(r),
         UNCHANGED <<others, shown, artifacts>>
  PROVE  IInv'
  BY Passed, QuietStep

LEMMA SkipSafe ==
  ASSUME IInv, NEW r \in Runs, Skip(r)
  PROVE  IInv'
  <1> DEFINE j == [job[r] EXCEPT !.step = After[job[r].step]]
  <1>1. Running(r) /\ SetJob(r, j) /\ ~StepIf(r) /\ UNCHANGED <<others, shown, artifacts>>
    BY DEF Skip, Go
  <1>2. job[r] \in Job /\ After[job[r].step] \in StepName
    BY <1>1, RunningJob, AfterType
  <1>3. j \in Job
    BY <1>2, FieldType
  <1>4. Advanced(r, j)
    BY <1>2 DEF Advanced, Kept, Job
  <1> HIDE DEF j
  <1> QED
    BY <1>1, <1>3, <1>4, AdvanceSafe

LEMMA BreakSafe ==
  ASSUME IInv, NEW r \in Runs, Break(r)
  PROVE  IInv'
  <1>1. PICK ready \in BOOLEAN :
          Go(r, [job[r] EXCEPT !.healthy = FALSE, !.prepared = @ \/ ready])
    BY DEF Break
  <1> DEFINE p == job[r].prepared \/ ready
             a == After[job[r].step]
             j == [[job[r] EXCEPT !.healthy = FALSE, !.prepared = p] EXCEPT !.step = a]
  <1>2. Running(r) /\ SetJob(r, j) /\ UNCHANGED <<others, shown, artifacts>>
    BY <1>1 DEF Break, Go
  <1>3. job[r] \in Job /\ a \in StepName /\ p \in BOOLEAN
    BY <1>2, RunningJob, AfterType
  <1>4. a = After[job[r].step]
    OBVIOUS
  <1> HIDE DEF p, a
  <1>5. j \in Job
    BY <1>3, FieldType
  <1>6. Advanced(r, j) /\ j.healthy = FALSE
    BY <1>3, <1>4 DEF Advanced, Kept, Job
  <1> HIDE DEF j
  <1> QED
    BY <1>2, <1>5, <1>6, AdvanceSafe

LEMMA CalendarSafe ==
  ASSUME IInv, NEW r \in Runs, Calendar(r)
  PROVE  IInv'
  <1>1. /\ Running(r) /\ job[r].step = "calendar" /\ UNCHANGED <<others, shown, artifacts>>
    BY DEF Calendar, Due, At
  <1>2. /\ job[r] \in Job /\ job[r].step \in UpToBuild /\ (Digest(r) <=> ~Member(r))
        /\ After["calendar"] = "start" /\ "start" \in StepName
        /\ job[r].step \notin {"start", "gate", "intent", "send"}
    BY <1>1, RunningJob, StepNames DEF UpToBuild, UpToGate, After
  <1>3. CASE Digest(r)
    <2> DEFINE a == DigestAdmitted(r)
               j == [[job[r] EXCEPT !.admitted = a] EXCEPT !.step = "start"]
    <2>1. SetJob(r, j)
      BY <1>1, <1>2, <1>3 DEF Calendar, Go
    <2>2. a \in BOOLEAN
      BY DEF DigestAdmitted
    <2> HIDE DEF a
    <2>3. j \in Job
      BY <1>2, <2>2, FieldType
    <2>4. Advanced(r, j)
      BY <1>1, <1>2, <2>2 DEF Advanced, Kept, Job
    <2> HIDE DEF j
    <2> QED
      BY <1>1, <1>2, <2>1, <2>3, <2>4, AdvanceSafe
  <1>4. CASE Member(r)
    <2> DEFINE a == day \in TradeDays
               t == MemberTarget(r)
               j == [[job[r] EXCEPT !.admitted = a, !.target = t] EXCEPT !.step = "start"]
    <2>1. SetJob(r, j)
      BY <1>1, <1>2, <1>4 DEF Calendar, Go
    <2>2. a \in BOOLEAN /\ t \in Nat
      BY ClockFacts DEF MemberTarget, IInv
    <2> HIDE DEF a, t
    <2>3. j \in Job
      BY <1>2, <2>2, FieldType
    <2>4. Advanced(r, j)
      BY <1>1, <1>2, <1>4, <2>2 DEF Advanced, Kept, Job
    <2> HIDE DEF j
    <2> QED
      BY <1>1, <1>2, <2>1, <2>3, <2>4, AdvanceSafe
  <1> QED
    BY <1>2, <1>3, <1>4

\* The steps that settle the target, the shared state, the whole delivery and its
\* disclosure, and the one that keeps it.
LEMMA TargetSafe ==
  ASSUME IInv, NEW r \in Runs, Target(r)
  PROVE  IInv'
  <1> DEFINE c == CompletedDay[<<day, hour>>]
             j == [[job[r] EXCEPT !.target = c] EXCEPT !.step = "prepare"]
  <1>1. /\ Running(r) /\ job[r].step = "target" /\ UNCHANGED <<others, shown, artifacts>>
        /\ SetJob(r, j)
    BY DEF Target, Due, At, Go, After
  <1>2. job[r] \in Job /\ job[r].step \in UpToBuild /\ "prepare" \in StepName
        /\ "prepare" = After["target"]
    BY <1>1, RunningJob DEF UpToBuild, After, StepName
  <1>3. c \in Nat /\ c \in TradeDays
    BY ClockFacts DEF IInv
  <1> HIDE DEF c
  <1>4. j \in Job
    BY <1>2, <1>3, FieldType
  <1>5. Advanced(r, j)
    BY <1>1, <1>2, <1>3 DEF Advanced, Kept, Job
  <1> HIDE DEF j
  <1> QED
    BY <1>1, <1>4, <1>5, AdvanceSafe

LEMMA PrepareSafe ==
  ASSUME IInv, NEW r \in Runs, Prepare(r)
  PROVE  IInv'
  <1>1. PICK ready \in BOOLEAN : Go(r, [job[r] EXCEPT !.prepared = ready])
    BY DEF Prepare
  <1> DEFINE j == [[job[r] EXCEPT !.prepared = ready] EXCEPT !.step = "whole"]
  <1>2. /\ Running(r) /\ job[r].step = "prepare" /\ UNCHANGED <<others, shown, artifacts>>
        /\ SetJob(r, j)
    BY <1>1 DEF Prepare, Due, At, Go, After
  <1>3. job[r] \in Job /\ "whole" \in StepName /\ "whole" = After["prepare"]
    BY <1>2, RunningJob DEF After, StepName
  <1>4. j \in Job
    BY <1>3, FieldType
  <1>5. Advanced(r, j)
    BY <1>2, <1>3 DEF Advanced, Kept, Job
  <1> HIDE DEF j
  <1> QED
    BY <1>2, <1>4, <1>5, AdvanceSafe

LEMMA WholeSafe ==
  ASSUME IInv, NEW r \in Runs, Whole(r)
  PROVE  IInv'
  <1>1. PICK ok \in BOOLEAN : Go(r, [job[r] EXCEPT !.whole = ok])
    BY DEF Whole
  <1> DEFINE j == [[job[r] EXCEPT !.whole = ok] EXCEPT !.step = "disclose"]
  <1>2. /\ Running(r) /\ job[r].step = "whole" /\ UNCHANGED <<others, shown, artifacts>>
        /\ SetJob(r, j)
    BY <1>1 DEF Whole, Due, At, Go, After
  <1>3. job[r] \in Job /\ "disclose" \in StepName /\ "disclose" = After["whole"]
        /\ job[r].step \in UpToBuild
    BY <1>2, RunningJob DEF After, StepName, UpToBuild
  <1>4. j \in Job
    BY <1>3, FieldType
  <1>5. Advanced(r, j)
    BY <1>2, <1>3 DEF Advanced, Kept, Job
  <1> HIDE DEF j
  <1> QED
    BY <1>2, <1>4, <1>5, AdvanceSafe

LEMMA DiscloseSafe ==
  ASSUME IInv, NEW r \in Runs, Disclose(r)
  PROVE  IInv'
  <1> DEFINE j == [[job[r] EXCEPT !.disclosed = TRUE] EXCEPT !.step = "build"]
  <1>1. /\ Running(r) /\ job[r].step = "disclose" /\ UNCHANGED <<others, shown, artifacts>>
        /\ SetJob(r, j)
    BY DEF Disclose, Due, At, Go, After
  <1>2. job[r] \in Job /\ "build" \in StepName /\ "build" = After["disclose"]
    BY <1>1, RunningJob DEF After, StepName
  <1>3. j \in Job
    BY <1>2, FieldType
  <1>4. Advanced(r, j)
    BY <1>1, <1>2 DEF Advanced, Kept, Job
  <1> HIDE DEF j
  <1> QED
    BY <1>1, <1>3, <1>4, AdvanceSafe

LEMMA KeepStateSafe ==
  ASSUME IInv, NEW r \in Runs, KeepState(r)
  PROVE  IInv'
  <1> DEFINE j == [job[r] EXCEPT !.step = "mark"]
  <1>1. /\ Running(r) /\ job[r].step = "keep" /\ UNCHANGED <<others, shown, artifacts>>
        /\ SetJob(r, j)
    BY DEF KeepState, Due, At, Go, After
  <1>2. job[r] \in Job /\ "mark" \in StepName /\ "mark" = After["keep"]
    BY <1>1, RunningJob DEF After, StepName
  <1>3. j \in Job
    BY <1>2, FieldType
  <1>4. Advanced(r, j)
    BY <1>1, <1>2 DEF Advanced, Kept, Job
  <1> HIDE DEF j
  <1> QED
    BY <1>1, <1>3, <1>4, AdvanceSafe

\* The limit of the send job is counted from the day GitHub shows.
LEMMA StartSendSafe ==
  ASSUME IInv, NEW r \in Runs, StartSend(r)
  PROVE  IInv'
  <1> DEFINE c == Clock(day, hour)
             j == [[job[r] EXCEPT !.since = c] EXCEPT !.step = "gate"]
  <1>1. /\ Running(r) /\ job[r].step = "start" /\ UNCHANGED <<others, artifacts>>
        /\ SetJob(r, j) /\ shown' = [shown EXCEPT ![r].began = day] /\ Digest(r)
    <2>1. Due(r, "start") => Digest(r)
      BY StepConditions, Zenon DEF Due, At
    <2> QED
      BY <2>1 DEF StartSend, Due, At, Go, After
  <1>2. /\ job[r] \in Job /\ JobSafe(r, job[r]) /\ input[r] \in Inputs
        /\ "gate" = After["start"] /\ "gate" \in StepName
    BY <1>1, RunningJob, StepNames DEF After
  <1>3. /\ day \in Nat /\ hour \in 0 .. 23 /\ c \in Nat /\ c < 24 * (day + 1)
        /\ MaxRunHours[input[r].workflow] \in Nat
    <2>1. input[r].workflow \in Workflows
      BY <1>2, InputFacts
    <2> QED
      BY <2>1, ClockFacts, LimitsAssumption DEF IInv, Clock
  <1>4. c = Clock(day, hour)
    OBVIOUS
  <1> HIDE DEF c
  <1>5. j \in Job
    BY <1>2, <1>3, FieldType
  <1>6. /\ j.step = "gate" /\ j.since = c /\ j.healthy = job[r].healthy
        /\ j.shouldSend = job[r].shouldSend /\ j.recover = job[r].recover
        /\ j.status = job[r].status /\ j.intent = job[r].intent /\ j.sent = job[r].sent
        /\ j.kept = job[r].kept /\ j.target = job[r].target /\ j.key = job[r].key
        /\ j.signal = job[r].signal /\ j.accepted = job[r].accepted
    BY <1>2 DEF Job
  <1> HIDE DEF j
  <1>7. /\ job'[r] = j /\ shown'[r].began = day /\ shown' \in [Runs -> Shown]
    BY <1>1, <1>3 DEF IInv, TypeOK, SetJob, Shown
  <1>8. /\ ~job[r].shouldSend /\ ~job[r].recover /\ job[r].status = "none" /\ ~job[r].intent
        /\ job[r].sent = "no" /\ ~job[r].kept
    BY <1>1, <1>2 DEF JobSafe, Ordered, UpToGate, UpToBuild, UpToIntent, UpToSend, UpToReceipt
  <1>9. JobSafe(r, job[r])'
    <2>1. Ordered(job[r])'
      BY <1>6, <1>7, <1>8 DEF Ordered
    <2>2. Done(r, job[r])'
      BY <1>6, <1>7, <1>8 DEF Done, Ready, UpToGate
    <2>3. Identified(r, job[r])'
      BY <1>1, <1>2, <1>6, <1>7, <1>8
      DEF JobSafe, Identified, Digest, Close, Normal, others
    <2>4. Evident(r, job[r])'
      BY <1>6, <1>7, <1>8 DEF Evident
    <2>5. Timed(r, job[r])'
      <3>1. Clock(day, hour)' = c /\ (MaxRunHours[input[r].workflow])' = MaxRunHours[input[r].workflow]
        BY <1>1, <1>4 DEF others, Clock
      <3>2. day' = day
        BY <1>1 DEF others
      <3> QED
        BY <1>3, <1>6, <1>7, <1>8, <3>1, <3>2 DEF Timed, Began
    <2> QED
      BY <2>1, <2>2, <2>3, <2>4, <2>5 DEF JobSafe
  <1>10. Records'
    BY <1>1, SameRecords DEF IInv
  <1>11. \A c1 \in receipts : c1.run = r => attempt[r] # 1
    <2>1. FirstReceipt(r) /\ job[r].step \in UpToReceipt
      BY <1>1 DEF IInv, UpToReceipt, UpToSend, UpToIntent, UpToBuild, UpToGate
    <2> QED
      BY <1>1, <2>1 DEF FirstReceipt
  <1>12. ReceiptTimes'
    <2>1. \A q \in Runs : q # r => shown'[q] = shown[q]
      BY <1>1 DEF IInv, TypeOK
    <2>2. \A c1 \in receipts : c1.run \in Runs
      BY DEF IInv, TypeOK, Receipt
    <2> QED
      BY <1>1, <1>11, <2>1, <2>2 DEF IInv, ReceiptTimes, others, artifacts, Scheduled, Digest,
         Close, Normal
  <1>13. \A q \in Runs : FirstReceipt(q)'
    <2>1. job[r].step \in UpToReceipt /\ receipts' = receipts
      BY <1>1 DEF UpToReceipt, UpToSend, UpToIntent, UpToBuild, UpToGate, artifacts
    <2> QED
      BY <1>1, <2>1, FirstReceiptKept
  <1> QED
    BY <1>1, <1>5, <1>7, <1>9, <1>10, <1>12, <1>13, RunningStep DEF IInv, TypeOK, artifacts

-----------------------------------------------------------------------------
(* The gates *)

LEMMA KeyFields ==
  ASSUME NEW d \in Nat, NEW m \in Modes
  PROVE  /\ DailyKey(d, m) \in Key /\ DailyKey(d, m).day = d /\ DailyKey(d, m).mode = m
         /\ DailyKey(d, m).series = "daily"
         /\ TestKey \in Key /\ TestKey.series = "test"
  BY DEF DailyKey, Key, TestKey, Modes

LEMMA GateKeyType ==
  ASSUME IInv, NEW r \in Runs, Running(r)
  PROVE  DeliveryDay(r) \in Nat /\ GateKey(r) \in Key
  <1>1. input[r] \in Inputs /\ day \in Nat \ {0}
    BY RunningJob, ClockFacts DEF IInv
  <1>2. input[r].catchUp \in Nat /\ input[r].mode \in Modes
    BY <1>1, InputFacts
  <1>3. DeliveryDay(r) \in Nat
    BY <1>1, <1>2 DEF DeliveryDay
  <1> QED
    BY <1>2, <1>3, KeyFields DEF GateKey

\* The gate allows a send only under an identity of the run, and for a scheduled
\* close only under the day of the clock.
LEMMA GateKeyFacts ==
  ASSUME IInv, NEW r \in Runs, Running(r), ~GateRaises(r),
         Unchecked(r) \/ ~(Delivered(GateKey(r)) \/ Recoverable(GateKey(r)))
  PROVE  KeyOf(r, GateKey(r)) /\ (Scheduled(r) => GateKey(r).day = day)
  <1> DEFINE c == input[r].catchUp
             d == DeliveryDay(r)
  <1>1. /\ input[r] \in Inputs /\ (Digest(r) <=> ~Member(r))
        /\ day \in Nat \ {0} /\ day \in AbstractDays
    BY RunningJob, ClockFacts DEF IInv
  <1>2. /\ c \in Nat /\ input[r].mode \in Modes /\ d \in Nat
        /\ Member(r) => c = 0
    BY <1>1, InputFacts, GateKeyType DEF Member
  <1>3. ~GateRefusesInput(r)
    BY DEF GateRaises
  <1>4. CASE input[r].test
    BY <1>3, <1>4 DEF GateKey, GateRefusesInput, KeyOf, Scheduled, Normal
  <1>5. CASE ~input[r].test
    <2>1. GateKey(r) = DailyKey(d, input[r].mode)
      BY <1>5 DEF GateKey
    <2>2. d = day \/ (c # 0 /\ d = c)
      <3>1. ASSUME c = 0, LooksBack(r), PreviousAccepted PROVE FALSE
        <4>1. Normal(r) /\ Close(r) /\ d = day - 1
          BY <3>1 DEF LooksBack, DeliveryDay
        <4>2. ~Unchecked(r)
          BY <4>1 DEF Normal, Unchecked
        <4>3. GateKey(r) = DailyKey(day - 1, "close_confirmed")
          BY <2>1, <4>1 DEF Close
        <4>4. Delivered(GateKey(r)) \/ Recoverable(GateKey(r))
          BY <3>1, <4>3 DEF PreviousAccepted, Recoverable
        <4> QED
          BY <4>2, <4>4
      <3> QED
        BY <3>1 DEF DeliveryDay
    <2>3. c # 0 => Digest(r) /\ Close(r) /\ Normal(r)
      BY <1>1, <1>2, <1>3 DEF GateRefusesInput
    <2>4. /\ GateKey(r) \in [day : Nat \ {0}, mode : {input[r].mode}, series : {"daily", "partial"}]
          /\ GateKey(r).day = d /\ GateKey(r).series = "daily"
      BY <1>1, <1>2, <2>1, <2>2 DEF DailyKey
    <2>5. KeyOf(r, GateKey(r))
      BY <1>1, <1>5, <2>2, <2>3, <2>4 DEF KeyOf
    <2>6. Scheduled(r) => d = day
      BY <2>2 DEF Scheduled
    <2> QED
      BY <2>4, <2>5, <2>6
  <1> QED
    BY <1>4, <1>5

\* What the records of a key say about its mail.
LEMMA RecordsBack ==
  ASSUME IInv, NEW k
  PROVE  (Marked(k) \/ ReceiptsOf(k) # {}) => Backed(k)
  BY DEF IInv, Records, EvidenceBacked, Marked, ReceiptsOf

LEMMA GateSafe ==
  ASSUME IInv, NEW r \in Runs, Gate(r)
  PROVE  IInv'
  <1> DEFINE k == GateKey(r)
             ss == Unchecked(r) \/ ~(Delivered(k) \/ Recoverable(k))
             rc == ~Unchecked(r) /\ Recoverable(k)
             j == [[job[r] EXCEPT !.key = k, !.shouldSend = ss, !.recover = rc]
                     EXCEPT !.step = "recover"]
  <1>1. /\ Running(r) /\ job[r].step = "gate" /\ UNCHANGED <<others, shown, artifacts>>
        /\ SetJob(r, j) /\ ~GateRaises(r) /\ StepIf(r)
    BY DEF Gate, Due, At, Go, After
  <1>2. job[r] \in Job /\ JobSafe(r, job[r]) /\ "recover" \in StepName /\ k \in Key
    BY <1>1, RunningJob, GateKeyType, StepNames
  <1>3. job[r].healthy /\ job[r].admitted
    BY <1>1, StepConditions, Zenon
  <1>4. ss \in BOOLEAN /\ rc \in BOOLEAN
    <2>1. input[r].correction \in BOOLEAN /\ input[r].validation \in BOOLEAN
      BY <1>1, RunningJob, InputFacts
    <2> QED
      BY <2>1 DEF Unchecked, Delivered, Recoverable, Marked
  <1>5. ss => KeyOf(r, k) /\ (Scheduled(r) => k.day = day)
    BY <1>1, GateKeyFacts
  <1>6. (ss /\ ~Unchecked(r)) => ~Intended(k)
    BY <1>1 DEF GateRaises, Uncertain, Recoverable
  <1>7. rc => ReceiptsOf(k) # {}
    BY DEF Recoverable
  <1>8. ss \/ k \in Legacy \/ Backed(k)
    BY <1>1, RecordsBack DEF Delivered, Recoverable
  <1> HIDE DEF ss, rc, k
  <1>9. j \in Job
    BY <1>2, <1>4, FieldType
  <1>10. /\ j.step = "recover" /\ j.key = k /\ j.shouldSend = ss /\ j.recover = rc
         /\ j.since = job[r].since /\ j.healthy = job[r].healthy /\ j.status = job[r].status
         /\ j.intent = job[r].intent /\ j.sent = job[r].sent /\ j.kept = job[r].kept
         /\ j.target = job[r].target
    BY <1>2 DEF Job
  <1> HIDE DEF j
  <1>11. /\ job[r].status = "none" /\ ~job[r].intent /\ job[r].sent = "no" /\ ~job[r].kept
    BY <1>1, <1>2 DEF JobSafe, Ordered, UpToGate, UpToBuild, UpToIntent, UpToSend, UpToReceipt
  <1>12. /\ "recover" \in UpToBuild /\ "recover" \in UpToIntent /\ "recover" \in UpToSend
         /\ "recover" \notin UpToGate /\ job[r].step \in UpToReceipt
    BY <1>1 DEF UpToGate, UpToBuild, UpToIntent, UpToSend, UpToReceipt
  <1>13. JobSafe(r, j)
    <2>1. Ordered(j)
      BY <1>10, <1>11, <1>12 DEF Ordered
    <2>2. Done(r, j)
      BY <1>8, <1>10, <1>12 DEF Done
    <2>3. Identified(r, j)
      BY <1>2, <1>5, <1>10, <1>11 DEF Identified, JobSafe
    <2>4. Evident(r, j)
      BY <1>6, <1>7, <1>10, <1>11 DEF Evident
    <2>5. Timed(r, j)
      <3>1. Timed(r, job[r]) /\ day \in Nat
        BY <1>2, ClockFacts DEF JobSafe, IInv
      <3>2. Digest(r) => Began(r, job[r])
        BY <1>1, <1>3, <3>1 DEF Timed
      <3>3. ss /\ Scheduled(r) => Began(r, j) /\ shown[r].began <= j.key.day /\ j.key.day <= day
        BY <1>5, <1>10, <3>1, <3>2 DEF Scheduled, Began
      <3> QED
        BY <1>10, <1>11, <3>1, <3>3 DEF Timed
    <2> QED
      BY <2>1, <2>2, <2>3, <2>4, <2>5 DEF JobSafe
  <1> QED
    BY <1>1, <1>9, <1>12, <1>13, QuietStep

\* The member's own keys: the partial-information report has the day and mode of
\* the complete one.
LEMMA PartialKeyFacts ==
  ASSUME IInv, NEW r \in Runs, Running(r), Member(r), job[r].shouldSend
  PROVE  KeyOf(r, PartialKey(job[r].key)) /\ PartialKey(job[r].key) \in Key
  <1> DEFINE k == job[r].key
  <1>1. KeyOf(r, k) /\ input[r] \in Inputs /\ ~Digest(r)
    BY RunningJob DEF JobSafe, Identified
  <1>2. ~input[r].test /\ input[r].mode \in Modes
    BY <1>1, InputFacts DEF Member
  <1>3. /\ k \in [day : Nat \ {0}, mode : {input[r].mode}, series : {"daily", "partial"}]
        /\ k.day \in AbstractDays
    BY <1>1, <1>2 DEF KeyOf
  <1>4. /\ PartialKey(k) \in [day : Nat \ {0}, mode : {input[r].mode}, series : {"daily", "partial"}]
        /\ PartialKey(k).day = k.day
    BY <1>3 DEF PartialKey
  <1> QED
    BY <1>1, <1>2, <1>3, <1>4 DEF KeyOf, Key

LEMMA ChooseSafe ==
  ASSUME IInv, NEW r \in Runs, Choose(r)
  PROVE  IInv'
  <1> DEFINE pk == PartialKey(job[r].key)
             v == input[r].validation
  <1>1. PICK ss \in BOOLEAN, rc \in BOOLEAN, k \in {job[r].key, pk} :
          /\ Go(r, [job[r] EXCEPT !.shouldSend = ss, !.recover = rc, !.key = k])
          /\ ss => ~rc /\ (v \/ k = job[r].key \/ ~Intended(k))
          /\ ~ss => Backed(k)
          /\ rc => ReceiptsOf(k) # {}
    <2>1. CASE job[r].status = "OK" \/ v
      BY <2>1, Zenon DEF Choose
    <2>2. CASE Marked(pk) /\ Go(r, [job[r] EXCEPT !.shouldSend = FALSE, !.recover = FALSE, !.key = pk])
      BY <2>2, RecordsBack
    <2>3. CASE ReceiptsOf(pk) # {} /\ Go(r, [job[r] EXCEPT !.shouldSend = FALSE, !.recover = TRUE, !.key = pk])
      BY <2>3, RecordsBack
    <2>4. CASE ~Intended(pk) /\ Go(r, [job[r] EXCEPT !.shouldSend = TRUE, !.recover = FALSE, !.key = pk])
      BY <2>4
    <2> QED
      BY <2>1, <2>2, <2>3, <2>4 DEF Choose
  <1> DEFINE j == [[job[r] EXCEPT !.shouldSend = ss, !.recover = rc, !.key = k]
                     EXCEPT !.step = "again"]
  <1>2. /\ Running(r) /\ job[r].step = "choose" /\ UNCHANGED <<others, shown, artifacts>>
        /\ SetJob(r, j) /\ StepIf(r)
    BY <1>1 DEF Choose, Due, At, Go, After
  <1>3. Member(r) /\ job[r].shouldSend
    BY <1>2, StepConditions, Zenon
  <1>4. /\ job[r] \in Job /\ JobSafe(r, job[r]) /\ "again" \in StepName
        /\ ~Digest(r) /\ KeyOf(r, job[r].key)
    BY <1>2, <1>3, RunningJob DEF StepName, JobSafe, Identified
  <1>5. KeyOf(r, k) /\ k \in Key \cup {NoKey}
    BY <1>2, <1>3, <1>4, PartialKeyFacts DEF Job
  <1> HIDE DEF pk
  <1>6. j \in Job
    BY <1>4, <1>5, FieldType
  <1>7. /\ j.step = "again" /\ j.key = k /\ j.shouldSend = ss /\ j.recover = rc
        /\ j.since = job[r].since /\ j.healthy = job[r].healthy /\ j.status = job[r].status
        /\ j.intent = job[r].intent /\ j.sent = job[r].sent /\ j.kept = job[r].kept
        /\ j.target = job[r].target
    BY <1>4 DEF Job
  <1> HIDE DEF j
  <1>8. ~job[r].intent /\ job[r].sent = "no" /\ ~job[r].kept
    BY <1>2, <1>4 DEF JobSafe, Ordered, UpToGate, UpToBuild, UpToIntent, UpToSend, UpToReceipt
  <1>9. /\ "again" \in UpToIntent /\ "again" \in UpToSend /\ "again" \in UpToReceipt
        /\ "again" \notin UpToGate /\ "again" \notin UpToBuild
        /\ "choose" \in UpToIntent /\ "choose" \in UpToReceipt
    BY DEF UpToGate, UpToBuild, UpToIntent, UpToSend, UpToReceipt
  <1>10. JobSafe(r, j)
    <2>1. Ordered(j)
      BY <1>7, <1>8, <1>9 DEF Ordered
    <2>2. Done(r, j)
      BY <1>1, <1>7, <1>9 DEF Done
    <2>3. Identified(r, j)
      BY <1>4, <1>5, <1>7 DEF JobSafe, Identified
    <2>4. Evident(r, j)
      <3>1. ~Unchecked(r) => ~v /\ ~Intended(job[r].key)
        BY <1>2, <1>3, <1>4, <1>9 DEF JobSafe, Evident, Unchecked
      <3> QED
        BY <1>1, <1>7, <1>8, <3>1 DEF Evident
    <2>5. Timed(r, j)
      BY <1>4, <1>7 DEF JobSafe, Timed, Scheduled
    <2> QED
      BY <2>1, <2>2, <2>3, <2>4, <2>5 DEF JobSafe
  <1> QED
    BY <1>2, <1>6, <1>9, <1>10, QuietStep

\* A complete report of a close is about the delivery day.
LEMMA BuildSafe ==
  ASSUME IInv, NEW r \in Runs, Build(r)
  PROVE  IInv'
  <1> DEFINE g == IF Digest(r) /\ ~Close(r) THEN day ELSE job[r].target
  <1>1. PICK s \in {"OK", "PARTIAL", "FAILED"} :
          /\ s \in IF Digest(r) THEN DigestStatus(r) ELSE {"OK", "PARTIAL"}
          /\ Go(r, [job[r] EXCEPT !.status = s, !.signal = g])
    BY DEF Build, DigestStatus
  <1> DEFINE j == [[job[r] EXCEPT !.status = s, !.signal = g] EXCEPT !.step = "choose"]
  <1>2. /\ Running(r) /\ job[r].step = "build" /\ UNCHANGED <<others, shown, artifacts>>
        /\ SetJob(r, j)
    BY <1>1 DEF Build, Due, At, Go, After
  <1>3. job[r] \in Job /\ JobSafe(r, job[r]) /\ "choose" \in StepName
    BY <1>2, RunningJob, StepNames
  <1>4. g \in Nat /\ (Close(r) => g = job[r].target)
    BY <1>3, ClockFacts DEF IInv, Job
  <1>5. /\ Digest(r) => s \in {"OK", "FAILED"}
        /\ ~Digest(r) => s \in {"OK", "PARTIAL"}
        /\ (Digest(r) /\ Close(r) /\ Normal(r) /\ s = "OK") => job[r].target = job[r].key.day
    BY <1>1 DEF DigestStatus
  <1> HIDE DEF g
  <1>6. j \in Job
    BY <1>3, <1>4, FieldType
  <1>7. /\ j.step = "choose" /\ j.status = s /\ j.signal = g /\ j.key = job[r].key
        /\ j.shouldSend = job[r].shouldSend /\ j.recover = job[r].recover
        /\ j.since = job[r].since /\ j.healthy = job[r].healthy /\ j.admitted = job[r].admitted
        /\ j.intent = job[r].intent /\ j.sent = job[r].sent /\ j.kept = job[r].kept
        /\ j.target = job[r].target
    BY <1>3 DEF Job
  <1> HIDE DEF j
  <1>8. ~job[r].intent /\ job[r].sent = "no" /\ ~job[r].kept
    BY <1>2, <1>3 DEF JobSafe, Ordered, UpToGate, UpToBuild, UpToIntent, UpToSend, UpToReceipt
  <1>9. /\ "choose" \in UpToIntent /\ "choose" \in UpToSend /\ "choose" \in UpToReceipt
        /\ "choose" \notin UpToGate /\ "choose" \notin UpToBuild
        /\ "build" \in UpToIntent /\ "build" \in UpToReceipt /\ "build" \notin UpToGate
    BY DEF UpToGate, UpToBuild, UpToIntent, UpToSend, UpToReceipt
  <1>10. JobSafe(r, j)
    <2>1. Ordered(j)
      BY <1>7, <1>8, <1>9 DEF Ordered
    <2>2. Done(r, j)
      BY <1>2, <1>3, <1>7, <1>9 DEF JobSafe, Done
    <2>3. Identified(r, j)
      BY <1>3, <1>4, <1>5, <1>7 DEF JobSafe, Identified
    <2>4. Evident(r, j)
      BY <1>2, <1>3, <1>7, <1>8, <1>9 DEF JobSafe, Evident
    <2>5. Timed(r, j)
      BY <1>3, <1>7, <1>8 DEF JobSafe, Timed, Began
    <2> QED
      BY <2>1, <2>2, <2>3, <2>4, <2>5 DEF JobSafe
  <1> QED
    BY <1>2, <1>6, <1>9, <1>10, QuietStep

-----------------------------------------------------------------------------
(* Cancellation, the limit of the job, and steps that write evidence *)

\* A job that stays at its step and is no longer healthy claims no more than before.
LEMMA Ailing ==
  ASSUME NEW r \in Runs, JobSafe(r, job[r]), NEW j, j.step = job[r].step, j.healthy = FALSE,
         Kept(j, job[r]), j.target = job[r].target, j.whole = job[r].whole
  PROVE  JobSafe(r, j)
  <1>1. /\ j.since = job[r].since /\ j.shouldSend = job[r].shouldSend
        /\ (j.recover => job[r].recover) /\ j.key = job[r].key /\ j.status = job[r].status
        /\ j.signal = job[r].signal /\ j.intent = job[r].intent /\ j.sent = job[r].sent
        /\ j.accepted = job[r].accepted /\ j.kept = job[r].kept
    BY DEF Kept
  <1>2. Ordered(j)
    BY <1>1 DEF JobSafe, Ordered
  <1>3. Done(r, j)
    BY DEF Done
  <1>4. Identified(r, j)
    BY <1>1 DEF JobSafe, Identified
  <1>5. Evident(r, j)
    BY <1>1 DEF JobSafe, Evident, Ready
  <1>6. Timed(r, j)
    BY <1>1 DEF JobSafe, Timed, Began
  <1> QED
    BY <1>2, <1>3, <1>4, <1>5, <1>6 DEF JobSafe

LEMMA CancelledJob ==
  ASSUME IInv, NEW r \in Runs, Running(r)
  PROVE  LET j == [job[r] EXCEPT !.healthy = FALSE, !.cancelled = TRUE] IN
         j \in Job /\ JobSafe(r, j) /\ j.step = job[r].step
  <1> DEFINE j == [job[r] EXCEPT !.healthy = FALSE, !.cancelled = TRUE]
  <1>1. job[r] \in Job /\ JobSafe(r, job[r])
    BY RunningJob
  <1>2. j \in Job
    BY <1>1, FieldType
  <1>3. /\ j.step = job[r].step /\ j.healthy = FALSE /\ Kept(j, job[r])
        /\ j.target = job[r].target /\ j.whole = job[r].whole
    BY <1>1 DEF Job, Kept
  <1> HIDE DEF j
  <1>4. JobSafe(r, j)
    BY <1>1, <1>3, Ailing
  <1> QED
    BY <1>2, <1>3, <1>4 DEF j

LEMMA CancelSafe ==
  ASSUME IInv, NEW r \in Runs, Cancel(r)
  PROVE  IInv'
  <1> DEFINE j == [job[r] EXCEPT !.healthy = FALSE, !.cancelled = TRUE]
  <1>1. Running(r) /\ SetJob(r, j) /\ UNCHANGED <<others, shown, artifacts>>
    BY DEF Cancel
  <1>2. j \in Job /\ JobSafe(r, j) /\ j.step = job[r].step
    BY <1>1, CancelledJob
  <1> HIDE DEF j
  <1> QED
    BY <1>1, <1>2, QuietStep

LEMMA TimeOutSafe ==
  ASSUME IInv, NEW r \in Runs, TimeOut(r)
  PROVE  IInv'
  <1> DEFINE j == [job[r] EXCEPT !.healthy = FALSE, !.cancelled = TRUE]
             over == Digest(r)
  <1>1. Running(r) /\ SetJob(r, j) /\ UNCHANGED <<others, artifacts>>
    BY DEF TimeOut
  <1>2. shown' = [shown EXCEPT ![r].over = over] /\ over \in BOOLEAN
    BY DEF TimeOut, Digest
  <1>3. j \in Job /\ JobSafe(r, j) /\ j.step = job[r].step
    BY <1>1, CancelledJob
  <1> HIDE DEF j, over
  <1>4. /\ shown' \in [Runs -> Shown]
        /\ \A q \in Runs : shown'[q].began = shown[q].began
    BY <1>2 DEF IInv, TypeOK, Shown
  <1>5. job'[r] = j /\ UNCHANGED <<day, hour, input, attempt, artifacts, receipts>>
    BY <1>1 DEF IInv, TypeOK, SetJob, others, artifacts
  <1>6. JobSafe(r, job[r])'
    BY <1>3, <1>4, <1>5, SameJobSafe DEF artifacts
  <1>7. Records'
    BY <1>1, SameRecords DEF IInv
  <1>8. ReceiptTimes'
    <2>1. \A c \in receipts : c.run \in Runs
      BY DEF IInv, TypeOK, Receipt
    <2> QED
      BY <1>4, <1>5, <2>1, SameReceiptTimes DEF IInv
  <1>9. \A q \in Runs : FirstReceipt(q)'
    BY <1>1, <1>3, <1>5, FirstReceiptKept
  <1> QED
    BY <1>1, <1>3, <1>4, <1>6, <1>7, <1>8, <1>9, RunningStep DEF IInv, TypeOK, artifacts

\* What holds of the job that is about to store its intent.
LEMMA IntentFacts ==
  ASSUME IInv, NEW r \in Runs, Running(r), job[r].step = "intent", StepIf(r)
  PROVE  /\ Ready(r, job[r]) /\ job[r].key \in AbstractKeys
         /\ ~input[r].correction => ~Intended(job[r].key)
  <1> DEFINE i == job[r]
  <1>1. job[r] \in Job /\ JobSafe(r, i) /\ input[r] \in Inputs
    BY RunningJob
  <1>2. Ready(r, i)
    <2>1. IntentIf(r)
      BY StepConditions, Zenon
    <2> QED
      BY <2>1 DEF IntentIf, Complete, Ready
  <1>3. ~input[r].correction => ~Intended(i.key)
    <2>1. "intent" \in UpToIntent
      BY DEF UpToIntent
    <2>2. ~input[r].correction => ~Unchecked(r)
      BY <1>2 DEF Unchecked, Ready
    <2> QED
      BY <1>1, <1>2, <2>1, <2>2 DEF JobSafe, Evident, Ready
  <1>4. i.key \in AbstractKeys
    <2>1. KeyOf(r, i.key) /\ Identified(r, i)
      BY <1>1, <1>2 DEF JobSafe, Identified, Ready
    <2>2. CASE input[r].test
      BY <1>1, <2>1, <2>2 DEF KeyOf, AbstractKeys
    <2>3. CASE ~input[r].test
      <3>1. /\ i.key \in [day : Nat \ {0}, mode : {input[r].mode}, series : {"daily", "partial"}]
            /\ i.key.day \in AbstractDays \/ (Digest(r) /\ Close(r) /\ Normal(r))
        BY <2>1, <2>3 DEF KeyOf
      <3>2. i.key.day \in AbstractDays
        <4>1. CASE Digest(r) /\ Close(r) /\ Normal(r)
          <5>1. i.status = "OK" /\ i.target = i.key.day /\ i.target \in TradeDays \cup {0}
            BY <1>2, <2>1, <4>1 DEF Ready, Identified
          <5> QED
            BY <3>1, <5>1 DEF AbstractDays
        <4> QED
          BY <3>1, <4>1
      <3> QED
        BY <1>1, <3>1, <3>2 DEF AbstractKeys
    <2> QED
      BY <2>2, <2>3
  <1> QED
    BY <1>2, <1>3, <1>4

\* An intent is stored for the key of a job about to send.
LEMMA PersistIntentSafe ==
  ASSUME IInv, NEW r \in Runs, PersistIntent(r)
  PROVE  IInv'
  <1>1. PICK ok \in BOOLEAN : Go(r, [job[r] EXCEPT !.intent = ok, !.healthy = ok])
    BY DEF PersistIntent
  <1> DEFINE e == EvidenceOf(r)
             i == job[r]
             j == [[job[r] EXCEPT !.intent = ok, !.healthy = ok] EXCEPT !.step = "send"]
  <1>2. /\ Running(r) /\ job[r].step = "intent" /\ UNCHANGED <<others, shown, receipts, markers, mails>>
        /\ SetJob(r, j) /\ StepIf(r) /\ intents' = intents \cup {e}
    BY <1>1 DEF PersistIntent, Due, At, Go, After
  <1>3. job[r] \in Job /\ JobSafe(r, job[r]) /\ "send" \in StepName /\ input[r] \in Inputs
        /\ (Digest(r) <=> ~Member(r))
    BY <1>2, RunningJob, StepNames
  <1>5. /\ e \in Evidence /\ e.key = job[r].key /\ e.run = r /\ e.attempt = attempt[r]
        /\ e.correction = input[r].correction
    BY <1>2, EvidenceType
  <1>6. j \in Job
    BY <1>3, FieldType
  <1>7. /\ j.step = "send" /\ j.key = i.key /\ j.shouldSend = i.shouldSend
        /\ j.recover = i.recover /\ j.since = i.since /\ j.healthy = ok
        /\ j.admitted = i.admitted /\ j.intent = ok /\ j.sent = i.sent
        /\ j.kept = i.kept /\ j.target = i.target /\ j.status = i.status
        /\ j.signal = i.signal /\ j.whole = i.whole /\ j.accepted = i.accepted
    BY <1>3 DEF Job
  <1> HIDE DEF j, e
  <1>8. Ready(r, i)
    BY <1>2, IntentFacts
  <1>9. i.sent = "no" /\ ~i.kept
    BY <1>2, <1>3 DEF JobSafe, Ordered, UpToReceipt, UpToSend, UpToIntent
  <1>10. /\ "send" \notin UpToIntent /\ "send" \in UpToSend /\ "send" \in UpToReceipt
         /\ "send" \notin UpToGate /\ "send" \notin UpToBuild
         /\ "intent" \in UpToIntent /\ "intent" \in UpToReceipt /\ "intent" \notin UpToGate
    BY DEF UpToGate, UpToBuild, UpToIntent, UpToSend, UpToReceipt
  <1>11. ~input[r].correction => ~Intended(i.key)
    BY <1>2, IntentFacts
  <1>13. job'[r] = j /\ UNCHANGED <<day, hour, input, attempt, shown, mails, receipts, phase>>
    BY <1>2 DEF IInv, TypeOK, SetJob, others
  <1>14. JobSafe(r, job[r])'
    <2>1. Ordered(job[r])'
      BY <1>7, <1>9, <1>10, <1>13 DEF Ordered
    <2>2. Done(r, job[r])'
      BY <1>2, <1>3, <1>7, <1>8, <1>10, <1>13 DEF JobSafe, Done, Ready
    <2>3. Identified(r, job[r])'
      BY <1>3, <1>7, <1>13
      DEF JobSafe, Identified, KeyOf, Digest, Close, Normal, AbstractDays
    <2>4. Evident(r, job[r])'
      <3>1. Ready(r, job[r])'
        BY <1>7, <1>8, <1>13 DEF Ready, Digest, Close
      <3>2. \A m \in mails : m \in Automatic => m.kind # "failure" /\ m.kind # "correction"
        BY DEF Automatic
      <3>3. ~input[r].correction => \A m \in Automatic : m.key # i.key
        BY <1>11, <3>2 DEF IInv, Records, MailIntended, Intended, Automatic
      <3>4. ~input[r].correction => \A x \in intents' : x.key = i.key => x.run = r /\ x.attempt = attempt[r]
        BY <1>2, <1>5, <1>11 DEF Intended
      <3>5. \E x \in intents' : x.key = i.key /\ x.correction = input[r].correction
        BY <1>2, <1>5
      <3>6. i.recover => ReceiptsOf(i.key) # {}
        BY <1>3 DEF JobSafe, Evident
      <3> QED
        BY <1>7, <1>9, <1>10, <1>13, <3>1, <3>3, <3>4, <3>5, <3>6
        DEF Evident, Automatic, ReceiptsOf
    <2>5. Timed(r, job[r])'
      BY <1>3, <1>7, <1>9, <1>13
      DEF JobSafe, Timed, Began, Clock, Scheduled, Digest, Close, Normal
    <2> QED
      BY <2>1, <2>2, <2>3, <2>4, <2>5 DEF JobSafe
  <1>15. i.key \in AbstractKeys
    BY <1>2, IntentFacts
  <1>16. Records'
    <2>1. AtMostOneAutomaticMail'
      BY <1>13 DEF IInv, Records, AtMostOneAutomaticMail, Automatic
    <2>2. MailIntended'
      BY <1>2, <1>13 DEF IInv, Records, MailIntended
    <2>3. EvidenceBacked'
      BY <1>2 DEF IInv, Records, EvidenceBacked, Backed
    <2>4. IntentKeys'
      BY <1>2, <1>5, <1>15 DEF IInv, Records, IntentKeys, AbstractKeys, AbstractDays
    <2> QED
      BY <2>1, <2>2, <2>3, <2>4 DEF Records
  <1>17. ReceiptTimes'
    BY <1>13, SameReceiptTimes DEF IInv
  <1>18. \A q \in Runs : FirstReceipt(q)'
    BY <1>2, <1>10, <1>13, FirstReceiptKept
  <1> QED
    BY <1>2, <1>5, <1>6, <1>14, <1>16, <1>17, <1>18, RunningStep DEF IInv, TypeOK

\* What holds of the mail that the job of r is about to send.
LEMMA MailFacts ==
  ASSUME IInv, NEW r \in Runs, Running(r), job[r].step = "send", StepIf(r)
  PROVE  /\ Mail(r) \in Message /\ Mail(r).run = r /\ Mail(r).attempt = attempt[r]
         /\ Failed(r) => Mail(r).kind = "failure"
         /\ ~Failed(r) =>
              /\ job[r].intent /\ Mail(r).key = job[r].key /\ Mail(r).kind # "failure"
              /\ Mail(r).kind = "correction" <=> input[r].correction
              /\ Mail(r).kind = "test" <=> job[r].key.series = "test"
              /\ \E i \in intents : i.key = job[r].key /\ i.correction = input[r].correction
              /\ ~input[r].correction =>
                   /\ \A m \in Automatic : m.key # job[r].key
                   /\ \A i \in intents : i.key = job[r].key => i.run = r /\ i.attempt = attempt[r]
  <1> DEFINE k == IF Failed(r) THEN NoKey ELSE job[r].key
             g == IF Failed(r) THEN 0 ELSE job[r].signal
             d == IF Failed(r) THEN "failure" ELSE IF input[r].test THEN "test"
                  ELSE IF input[r].correction THEN "correction" ELSE "normal"
  <1>1. /\ job[r] \in Job /\ JobSafe(r, job[r]) /\ input[r] \in Inputs
        /\ (Digest(r) <=> ~Member(r)) /\ job[r].key \in Key \cup {NoKey}
    BY RunningJob
  <1>2. SendIf(r)
    BY StepConditions, Zenon
  <1>3. Mail(r) = [kind |-> d, run |-> r, attempt |-> attempt[r], key |-> k, signal |-> g]
    BY DEF Mail
  <1>4. /\ k \in Key \cup {NoKey} /\ g \in Nat /\ attempt[r] \in Nat
        /\ d \in {"normal", "correction", "test", "failure"}
    BY <1>1 DEF Job, IInv, TypeOK
  <1>5. ASSUME ~Failed(r)
        PROVE  job[r].intent
    <2>1. CASE Member(r)
      BY <1>2, <2>1 DEF SendIf
    <2>2. CASE Digest(r)
      <3>1. job[r].status \in {"none", "OK", "FAILED"}
        BY <1>1, <2>2 DEF JobSafe, Identified
      <3> QED
        BY <1>2, <1>5, <2>2, <3>1 DEF SendIf, Failed
    <2> QED
      BY <1>1, <2>1, <2>2
  <1>6. ASSUME ~Failed(r)
        PROVE  /\ d # "failure" /\ k = job[r].key
               /\ d = "correction" <=> input[r].correction
               /\ d = "test" <=> job[r].key.series = "test"
    <2>1. KeyOf(r, job[r].key) /\ input[r].correction \in BOOLEAN /\ input[r].test \in BOOLEAN
      BY <1>1, <1>5, <1>6, InputFacts DEF JobSafe, Evident, Ready, Identified
    <2>2. input[r].test => job[r].key.series = "test" /\ ~input[r].correction
      BY <2>1, KeyFields DEF KeyOf, TestKey
    <2>3. ~input[r].test => job[r].key.series # "test"
      BY <2>1 DEF KeyOf
    <2> QED
      BY <1>6, <2>1, <2>2, <2>3
  <1>7. ASSUME ~Failed(r)
        PROVE  /\ \E i \in intents : i.key = job[r].key /\ i.correction = input[r].correction
               /\ ~input[r].correction =>
                   /\ \A m \in Automatic : m.key # job[r].key
                   /\ \A i \in intents : i.key = job[r].key => i.run = r /\ i.attempt = attempt[r]
    BY <1>1, <1>5, <1>7 DEF JobSafe, Evident
  <1>8. Failed(r) => d = "failure"
    OBVIOUS
  <1> HIDE DEF k, g, d
  <1>9. /\ Mail(r) \in Message /\ Mail(r).run = r /\ Mail(r).attempt = attempt[r]
        /\ Mail(r).kind = d /\ Mail(r).key = k
    BY <1>3, <1>4 DEF Message
  <1> QED
    BY <1>5, <1>6, <1>7, <1>8, <1>9

LEMMA SendGmailSafe ==
  ASSUME IInv, NEW r \in Runs, SendGmail(r)
  PROVE  IInv'
  <1>1. PICK accepted \in BOOLEAN, ok \in BOOLEAN :
          /\ ok => accepted
          /\ mails' = IF accepted THEN mails \cup {Mail(r)} ELSE mails
          /\ Go(r, [job[r] EXCEPT !.healthy = @ /\ ok, !.accepted = day,
                      !.sent = IF ok THEN "ok" ELSE "failed"])
          /\ shown' = [shown EXCEPT ![r].sent = ok]
    BY DEF SendGmail
  <1> DEFINE i == job[r]
             h == job[r].healthy /\ ok
             s == IF ok THEN "ok" ELSE "failed"
             j == [[job[r] EXCEPT !.healthy = h, !.accepted = day, !.sent = s]
                     EXCEPT !.step = "receipt"]
  <1>2. /\ Running(r) /\ job[r].step = "send" /\ UNCHANGED <<others, intents, receipts, markers>>
        /\ SetJob(r, j) /\ StepIf(r)
    BY <1>1 DEF SendGmail, Due, At, Go, After
  <1>3. job[r] \in Job /\ JobSafe(r, job[r]) /\ "receipt" \in StepName /\ day \in Nat
    BY <1>2, RunningJob, ClockFacts DEF IInv, StepName
  <1>4. /\ h \in BOOLEAN /\ s \in {"ok", "failed"} /\ (s = "ok" => ok)
        /\ (h => s = "ok" /\ job[r].healthy)
    OBVIOUS
  <1> HIDE DEF h, s
  <1>5. j \in Job
    BY <1>3, <1>4, FieldType
  <1>6. /\ j.step = "receipt" /\ j.key = i.key /\ j.shouldSend = i.shouldSend
        /\ j.recover = i.recover /\ j.since = i.since /\ j.healthy = h
        /\ j.admitted = i.admitted /\ j.intent = i.intent /\ j.sent = s
        /\ j.kept = i.kept /\ j.target = i.target /\ j.status = i.status
        /\ j.signal = i.signal /\ j.whole = i.whole /\ j.accepted = day
    BY <1>3 DEF Job
  <1> HIDE DEF j
  <1>7. /\ mails \subseteq mails' /\ mails' \subseteq mails \cup {Mail(r)}
        /\ ok => Mail(r) \in mails'
    BY <1>1
  <1>8. ~i.kept
    BY <1>2, <1>3 DEF JobSafe, Ordered, UpToReceipt, UpToSend
  <1>9. /\ "receipt" \notin UpToSend /\ "receipt" \in UpToReceipt
        /\ "receipt" \notin UpToGate /\ "receipt" \notin UpToBuild /\ "receipt" \notin UpToIntent
        /\ "send" \in UpToReceipt /\ "send" \notin UpToIntent /\ "send" \notin UpToGate
    BY DEF UpToGate, UpToBuild, UpToIntent, UpToSend, UpToReceipt
  <1>10. /\ job'[r] = j /\ shown' \in [Runs -> Shown]
         /\ \A q \in Runs : shown'[q].began = shown[q].began
         /\ UNCHANGED <<day, hour, input, attempt, phase, receipts, intents, markers>>
    BY <1>1, <1>2 DEF IInv, TypeOK, SetJob, Shown, others
  <1>11. \A k : Backed(k) => Backed(k)'
    BY <1>7 DEF Backed
  <1>12. (s = "ok" /\ ~Failed(r)) => Backed(i.key)'
    <2>1. ASSUME s = "ok", ~Failed(r)
          PROVE  \E m \in mails' : m.key = i.key /\ m.kind # "failure" /\ (m.kind = "test" <=> i.key.series = "test")
      BY <1>2, <1>4, <1>7, <2>1, MailFacts
    <2>2. (i.key)' = i.key
      BY <1>6, <1>10
    <2> QED
      BY <2>1, <2>2 DEF Backed
  <1>13. JobSafe(r, job[r])'
    <2>1. Ordered(job[r])'
      BY <1>6, <1>8, <1>9, <1>10 DEF Ordered
    <2>2. Done(r, job[r])'
      <3>1. Done(r, i)
        BY <1>3 DEF JobSafe
      <3>2. Ready(r, job[r])' => Ready(r, i)
        BY <1>6, <1>10 DEF Ready, Digest, Close
      <3> QED
        BY <1>2, <1>4, <1>6, <1>9, <1>10, <1>11, <3>1, <3>2 DEF Done
    <2>3. Identified(r, job[r])'
      BY <1>3, <1>6, <1>10
      DEF JobSafe, Identified, KeyOf, Digest, Close, Normal, AbstractDays
    <2>4. Evident(r, job[r])'
      <3>1. Evident(r, i)
        BY <1>3 DEF JobSafe
      <3>2. i.intent => Ready(r, job[r])'
        BY <1>6, <1>10, <3>1 DEF Evident, Ready, Digest, Close
      <3> QED
        BY <1>6, <1>8, <1>9, <1>10, <1>12, <3>1, <3>2 DEF Evident, ReceiptsOf, Failed
    <2>5. Timed(r, job[r])'
      BY <1>3, <1>6, <1>10
      DEF JobSafe, Timed, Began, Clock, Scheduled, Digest, Close, Normal
    <2> QED
      BY <2>1, <2>2, <2>3, <2>4, <2>5 DEF JobSafe
  <1>14. Records'
    <2>1. \A m \in Automatic' : m \in Automatic \/ (m = Mail(r) /\ m.kind \in {"normal", "test"})
      BY <1>7 DEF Automatic
    <2>2. Mail(r).kind \in {"normal", "test"} =>
            \A m \in Automatic : m.key # Mail(r).key
      BY <1>2, MailFacts
    <2>3. AtMostOneAutomaticMail'
      BY <2>1, <2>2 DEF IInv, Records, AtMostOneAutomaticMail
    <2>4. Mail(r).kind # "failure" =>
            \E x \in intents : x.key = Mail(r).key /\ (x.correction <=> Mail(r).kind = "correction")
      BY <1>2, MailFacts
    <2>5. MailIntended'
      BY <1>7, <1>10, <2>4 DEF IInv, Records, MailIntended
    <2>6. EvidenceBacked'
      BY <1>10, <1>11 DEF IInv, Records, EvidenceBacked
    <2>7. IntentKeys'
      BY <1>10 DEF IInv, Records, IntentKeys, AbstractKeys, AbstractDays
    <2> QED
      BY <2>3, <2>5, <2>6, <2>7 DEF Records
  <1>15. ReceiptTimes'
    <2>1. \A c \in receipts : c.run \in Runs
      BY DEF IInv, TypeOK, Receipt
    <2> QED
      BY <1>10, <2>1, SameReceiptTimes DEF IInv
  <1>16. \A q \in Runs : FirstReceipt(q)'
    BY <1>2, <1>9, <1>10, FirstReceiptKept
  <1>17. mails' \subseteq Message
    BY <1>2, <1>7, MailFacts DEF IInv, TypeOK
  <1> QED
    BY <1>2, <1>5, <1>10, <1>13, <1>14, <1>15, <1>16, <1>17, RunningStep DEF IInv, TypeOK

\* The receipt is of an accepted mail, and of a scheduled close it names the day its
\* send job started unless the mail was accepted that very day.
LEMMA PreserveReceiptSafe ==
  ASSUME IInv, NEW r \in Runs, PreserveReceipt(r)
  PROVE  IInv'
  <1>1. PICK ok \in BOOLEAN : /\ Go(r, [job[r] EXCEPT !.kept = ok, !.healthy = ok])
                              /\ shown' = [shown EXCEPT ![r].kept = ok]
    BY DEF PreserveReceipt
  <1> DEFINE i == job[r]
             c == [key |-> job[r].key, run |-> r, signal |-> job[r].signal,
                   accepted |-> job[r].accepted]
             j == [[job[r] EXCEPT !.kept = ok, !.healthy = ok] EXCEPT !.step = "keep"]
  <1>2. /\ Running(r) /\ job[r].step = "receipt" /\ UNCHANGED <<others, intents, markers, mails>>
        /\ SetJob(r, j) /\ StepIf(r) /\ receipts' = receipts \cup {c}
    BY <1>1 DEF PreserveReceipt, Due, At, Go, After
  <1>3. /\ job[r] \in Job /\ JobSafe(r, job[r]) /\ "keep" \in StepName
        /\ (Digest(r) <=> ~Member(r)) /\ input[r] \in Inputs
        /\ job[r].key \in Key \cup {NoKey}
    BY <1>2, RunningJob DEF StepName
  <1>4. i.healthy /\ ReceiptIf(r)
    BY <1>2, StepConditions, Zenon
  <1>5. j \in Job
    BY <1>3, FieldType
  <1>6. /\ j.step = "keep" /\ j.key = i.key /\ j.shouldSend = i.shouldSend
        /\ j.recover = i.recover /\ j.since = i.since /\ j.healthy = ok
        /\ j.admitted = i.admitted /\ j.intent = i.intent /\ j.sent = i.sent
        /\ j.kept = ok /\ j.target = i.target /\ j.status = i.status
        /\ j.signal = i.signal /\ j.whole = i.whole /\ j.accepted = i.accepted
    BY <1>3 DEF Job
  <1>7. /\ c \in Receipt /\ c.key = i.key /\ c.run = r /\ c.signal = i.signal
        /\ c.accepted = i.accepted
    BY <1>3 DEF Receipt, Job
  <1> HIDE DEF j, c
  <1>8. /\ "receipt" \notin UpToSend /\ "receipt" \notin UpToGate /\ "receipt" \notin UpToIntent
        /\ "keep" \notin UpToGate /\ "keep" \notin UpToBuild /\ "keep" \notin UpToIntent
        /\ "keep" \notin UpToSend /\ "keep" \notin UpToReceipt
    BY DEF UpToGate, UpToBuild, UpToIntent, UpToSend, UpToReceipt
  <1>9. i.sent = "ok" /\ i.shouldSend /\ i.status # "FAILED" /\ (Digest(r) => i.status = "OK" )
    <2>1. CASE Member(r)
      <3>1. i.intent /\ Ready(r, i)
        BY <1>3, <1>4, <2>1 DEF ReceiptIf, JobSafe, Evident
      <3> QED
        BY <1>2, <1>3, <1>4, <1>8, <2>1, <3>1 DEF JobSafe, Done, Ready, Identified
    <2>2. CASE Digest(r)
      BY <1>4, <2>2 DEF ReceiptIf, Complete
    <2> QED
      BY <1>3, <2>1, <2>2
  <1>10. Backed(i.key)
    BY <1>3, <1>9 DEF JobSafe, Evident
  <1>11. /\ job'[r] = j /\ shown' \in [Runs -> Shown]
         /\ \A q \in Runs : shown'[q].began = shown[q].began
         /\ UNCHANGED <<day, hour, input, attempt, phase, mails, intents, markers>>
    BY <1>1, <1>2 DEF IInv, TypeOK, SetJob, Shown, others
  <1>12. (i.key)' = i.key
    BY <1>6, <1>11
  <1>13. \A k : Backed(k) <=> Backed(k)'
    BY <1>11 DEF Backed
  <1>14. JobSafe(r, job[r])'
    <2>1. Ordered(job[r])'
      BY <1>6, <1>8, <1>11 DEF Ordered
    <2>2. Done(r, job[r])'
      <3>1. Done(r, i)
        BY <1>3 DEF JobSafe
      <3>2. Ready(r, job[r])' => Ready(r, i)
        BY <1>6, <1>11 DEF Ready, Digest, Close
      <3> QED
        BY <1>2, <1>4, <1>6, <1>8, <1>9, <1>11, <3>1, <3>2 DEF Done
    <2>3. Identified(r, job[r])'
      BY <1>3, <1>6, <1>11
      DEF JobSafe, Identified, KeyOf, Digest, Close, Normal, AbstractDays
    <2>4. Evident(r, job[r])'
      <3>1. Evident(r, i)
        BY <1>3 DEF JobSafe
      <3>2. i.intent => Ready(r, job[r])'
        BY <1>6, <1>11, <3>1 DEF Evident, Ready, Digest, Close
      <3>3. Backed(i.key)'
        BY <1>10, <1>11, <1>12 DEF Backed
      <3> QED
        BY <1>2, <1>6, <1>8, <1>11, <3>1, <3>2, <3>3 DEF Evident, ReceiptsOf
    <2>5. Timed(r, job[r])'
      BY <1>3, <1>6, <1>11
      DEF JobSafe, Timed, Began, Clock, Scheduled, Digest, Close, Normal
    <2> QED
      BY <2>1, <2>2, <2>3, <2>4, <2>5 DEF JobSafe
  <1>15. Records'
    <2>1. AtMostOneAutomaticMail' /\ MailIntended'
      BY <1>11 DEF IInv, Records, AtMostOneAutomaticMail, Automatic, MailIntended
    <2>2. EvidenceBacked'
      BY <1>2, <1>7, <1>10, <1>11, <1>13 DEF IInv, Records, EvidenceBacked
    <2>3. IntentKeys'
      BY <1>11 DEF IInv, Records, IntentKeys, AbstractKeys, AbstractDays
    <2> QED
      BY <2>1, <2>2, <2>3 DEF Records
  <1>16. ASSUME Scheduled(r)
         PROVE  /\ c.signal = c.key.day
                /\ c.accepted # c.key.day => shown[r].began = c.key.day
    <2>1. Digest(r) /\ Close(r) /\ Normal(r) /\ ~input[r].test
      BY <1>16 DEF Scheduled, Normal
    <2>2. /\ i.signal = i.key.day
          /\ shown[r].began <= i.key.day /\ i.since < 24 * (shown[r].began + 1)
          /\ i.key.day <= i.accepted /\ i.accepted <= day
          /\ Clock(day, hour) <= i.since + MaxRunHours[input[r].workflow]
      BY <1>3, <1>9, <1>16, <2>1 DEF JobSafe, Identified, Timed, Began
    <2>3. i.key.day \in Nat
      BY <1>3, <1>9, <2>1 DEF JobSafe, Identified, KeyOf
    <2>4. /\ i.since \in Nat /\ i.accepted \in Nat /\ shown[r].began \in Nat
          /\ day \in Nat /\ hour \in 0 .. 23 /\ MaxRunHours[input[r].workflow] \in 0 .. 24
      <3>1. input[r].workflow \in Workflows
        BY <1>3, InputFacts
      <3> QED
        BY <1>3, <3>1, ClockFacts, LimitsAssumption DEF Job, Shown, IInv, TypeOK
    <2> DEFINE d == i.key.day
               b == shown[r].began
               m == MaxRunHours[input[r].workflow]
    <2>5. b <= d /\ i.since < 24 * (b + 1) /\ d <= i.accepted /\ i.accepted <= day
          /\ 24 * day + hour <= i.since + m
      BY <2>2 DEF Clock
    <2>6. d \in Nat /\ b \in Nat /\ m \in 0 .. 24
      BY <2>3, <2>4
    <2> HIDE DEF d, b, m, i
    <2>7. i.accepted # d => b = d
      BY <2>4, <2>5, <2>6
    <2> QED
      BY <1>7, <2>2, <2>7 DEF b, d, i
  <1>17. ReceiptTimes'
    <2>1. \A x \in receipts : x.run \in Runs
      BY DEF IInv, TypeOK, Receipt
    <2> QED
      BY <1>2, <1>7, <1>11, <1>16, <2>1
      DEF IInv, ReceiptTimes, Scheduled, Digest, Close, Normal
  <1>18. ASSUME NEW q \in Runs PROVE FirstReceipt(q)'
    <2>1. CASE q = r
      <3>1. attempt[r] # 0 /\ phase[r] = "running"
        BY <1>2 DEF IInv, Dispatched, Running, TypeOK
      <3> QED
        BY <1>6, <1>8, <1>11, <2>1, <3>1 DEF FirstReceipt, Running
    <2>2. CASE q # r
      <3>1. job'[q] = job[q] /\ FirstReceipt(q)
        BY <1>2, <2>2 DEF IInv, TypeOK, SetJob
      <3> QED
        BY <1>2, <1>7, <1>11, <2>2, <3>1 DEF FirstReceipt, Running
    <2> QED
      BY <2>1, <2>2
  <1>19. receipts' \subseteq Receipt
    BY <1>2, <1>7 DEF IInv, TypeOK
  <1> QED
    BY <1>2, <1>5, <1>11, <1>14, <1>15, <1>17, <1>18, <1>19, RunningStep DEF IInv, TypeOK

\* A marker is written for a key whose mail was accepted.
LEMMA MarkerStep ==
  ASSUME IInv, NEW r \in Runs, Running(r), NEW j \in Job, SetJob(r, j), Advanced(r, j),
         job[r].step \notin {"start", "gate", "intent", "send"}, Backed(job[r].key),
         markers' = markers \cup {EvidenceOf(r)},
         UNCHANGED <<others, shown, intents, receipts, mails>>
  PROVE  IInv'
  <1>1. JobSafe(r, j) /\ (j.step \in UpToReceipt => job[r].step \in UpToReceipt)
    BY Passed
  <1>2. /\ job'[r] = j
        /\ UNCHANGED <<day, hour, input, attempt, phase, shown, intents, receipts, mails>>
    BY DEF IInv, TypeOK, SetJob, others
  <1>3. JobSafe(r, job[r])'
    BY <1>1, <1>2, SameJobSafe
  <1>4. EvidenceOf(r) \in Evidence /\ EvidenceOf(r).key = job[r].key
    BY EvidenceType
  <1>5. Records'
    <2>1. AtMostOneAutomaticMail' /\ MailIntended'
      BY <1>2 DEF IInv, Records, AtMostOneAutomaticMail, Automatic, MailIntended
    <2>2. EvidenceBacked'
      BY <1>2, <1>4 DEF IInv, Records, EvidenceBacked, Backed
    <2>3. IntentKeys'
      BY <1>2 DEF IInv, Records, IntentKeys, AbstractKeys, AbstractDays
    <2> QED
      BY <2>1, <2>2, <2>3 DEF Records
  <1>6. ReceiptTimes'
    BY <1>2, SameReceiptTimes DEF IInv
  <1>7. \A q \in Runs : FirstReceipt(q)'
    BY <1>1, <1>2, FirstReceiptKept
  <1>8. markers' \subseteq Evidence
    BY <1>4 DEF IInv, TypeOK
  <1> QED
    BY <1>2, <1>3, <1>5, <1>6, <1>7, <1>8, RunningStep DEF IInv, TypeOK

LEMMA MarkerFacts ==
  ASSUME IInv, NEW r \in Runs, Running(r), job[r].step \in {"recover", "again", "mark"}, StepIf(r)
  PROVE  Backed(job[r].key)
  <1>1. JobSafe(r, job[r])
    BY RunningJob
  <1>2. CASE job[r].step \in {"recover", "again"}
    <2>1. job[r].recover
      BY <1>2, StepConditions, Zenon
    <2> QED
      BY <1>1, <2>1, RecordsBack DEF JobSafe, Evident
  <1>3. CASE job[r].step = "mark"
    <2>1. MarkIf(r)
      BY <1>3, StepConditions, Zenon
    <2> QED
      BY <1>1, <2>1 DEF MarkIf, JobSafe, Evident
  <1> QED
    BY <1>2, <1>3

LEMMA RecoverMarkerSafe ==
  ASSUME IInv, NEW r \in Runs, RecoverMarker(r)
  PROVE  IInv'
  <1>1. PICK ok \in BOOLEAN : Go(r, [job[r] EXCEPT !.healthy = ok, !.recover = FALSE])
    BY DEF RecoverMarker
  <1> DEFINE a == After[job[r].step]
             j == [[job[r] EXCEPT !.healthy = ok, !.recover = FALSE] EXCEPT !.step = a]
  <1>2. /\ Running(r) /\ UNCHANGED <<others, shown, intents, receipts, mails>>
        /\ SetJob(r, j) /\ StepIf(r) /\ job[r].step \in {"recover", "again"}
        /\ markers' = markers \cup {EvidenceOf(r)}
    BY <1>1 DEF RecoverMarker, Due, At, Go
  <1>3. job[r] \in Job /\ JobSafe(r, job[r]) /\ a \in StepName
    BY <1>2, RunningJob, AfterType
  <1>4. job[r].healthy
    BY <1>2 DEF StepIf
  <1>5. Backed(job[r].key)
    BY <1>2, MarkerFacts
  <1>6. a = After[job[r].step]
    OBVIOUS
  <1> HIDE DEF a
  <1>7. j \in Job
    BY <1>3, FieldType
  <1>8. Advanced(r, j)
    BY <1>3, <1>4, <1>6 DEF Advanced, Kept, Job
  <1> HIDE DEF j
  <1> QED
    BY <1>2, <1>5, <1>7, <1>8, MarkerStep

LEMMA MarkDeliveredSafe ==
  ASSUME IInv, NEW r \in Runs, MarkDelivered(r)
  PROVE  IInv'
  <1>1. PICK ok \in BOOLEAN : Go(r, [job[r] EXCEPT !.healthy = ok])
    BY DEF MarkDelivered
  <1> DEFINE j == [[job[r] EXCEPT !.healthy = ok] EXCEPT !.step = "audit"]
  <1>2. /\ Running(r) /\ UNCHANGED <<others, shown, intents, receipts, mails>>
        /\ SetJob(r, j) /\ StepIf(r) /\ job[r].step = "mark"
        /\ markers' = markers \cup {EvidenceOf(r)}
    BY <1>1 DEF MarkDelivered, Due, At, Go, After
  <1>3. job[r] \in Job /\ JobSafe(r, job[r]) /\ "audit" \in StepName /\ "audit" = After["mark"]
    BY <1>2, RunningJob DEF StepName, After
  <1>4. job[r].healthy
    BY <1>2 DEF StepIf
  <1>5. Backed(job[r].key)
    BY <1>2, MarkerFacts
  <1>6. j \in Job
    BY <1>3, FieldType
  <1>7. Advanced(r, j)
    BY <1>2, <1>3, <1>4 DEF Advanced, Kept, Job
  <1> HIDE DEF j
  <1> QED
    BY <1>2, <1>5, <1>6, <1>7, MarkerStep

-----------------------------------------------------------------------------
(* Dispatch, the concurrency group and the clock *)

\* A step that starts no job and leaves the running one alone.
LEMMA NothingStarts ==
  ASSUME IInv, TypeOK', Dispatched', ReceiptTimes', \A q \in Runs : FirstReceipt(q)',
         UNCHANGED <<day, hour, artifacts>>,
         \A q \in Runs : Running(q)' =>
           /\ Running(q) /\ job'[q] = job[q] /\ input'[q] = input[q]
           /\ attempt'[q] = attempt[q] /\ shown'[q].began = shown[q].began
  PROVE  IInv'
  <1>1. Records'
    BY SameRecords DEF IInv
  <1>2. OneRunning'
    BY DEF IInv, OneRunning
  <1>3. ASSUME NEW q \in Runs, Running(q)' PROVE JobSafe(q, job[q])'
    <2>1. JobSafe(q, job[q])
      BY <1>3 DEF IInv
    <2>2. /\ job'[q] = job[q] /\ input'[q] = input[q] /\ attempt'[q] = attempt[q]
          /\ shown'[q].began = shown[q].began
          /\ UNCHANGED <<day, hour, intents, receipts, mails>>
      BY <1>3 DEF artifacts
    <2> QED
      BY <2>1, <2>2, SameJobSafe
  <1> QED
    BY <1>1, <1>2, <1>3 DEF IInv

LEMMA EnqueueFacts ==
  ASSUME IInv, NEW r \in Runs, ~Running(r), Enqueue(r)
  PROVE  /\ phase' \in [Runs -> {"absent", "pending", "running"} \cup Concluded]
         /\ attempt' \in [Runs -> Nat] /\ shown' \in [Runs -> Shown]
         /\ phase'[r] = "pending" /\ attempt'[r] = attempt[r] + 1
         /\ \A q \in Runs : q # r =>
              /\ attempt'[q] = attempt[q] /\ shown'[q] = shown[q]
              /\ phase'[q] = phase[q] \/ (phase[q] = "pending" /\ phase'[q] = "cancelled")
         /\ \A q \in Runs : Running(q)' => Running(q) /\ q # r
  <1>1. NothingShown(day) \in Shown
    BY ClockFacts DEF IInv, NothingShown, Shown
  <1>2. phase' \in [Runs -> {"absent", "pending", "running"} \cup Concluded]
    BY DEF IInv, TypeOK, Enqueue, Concluded
  <1>3. /\ attempt' \in [Runs -> Nat] /\ shown' \in [Runs -> Shown]
        /\ attempt'[r] = attempt[r] + 1
        /\ \A q \in Runs : q # r => attempt'[q] = attempt[q] /\ shown'[q] = shown[q]
    BY <1>1 DEF IInv, TypeOK, Enqueue
  <1>4. /\ phase'[r] = "pending"
        /\ \A q \in Runs : q # r =>
             phase'[q] = phase[q] \/ (phase[q] = "pending" /\ phase'[q] = "cancelled")
    BY DEF Enqueue
  <1>5. \A q \in Runs : Running(q)' => Running(q) /\ q # r
    BY <1>4 DEF Running
  <1> QED
    BY <1>2, <1>3, <1>4, <1>5

LEMMA DispatchSafe ==
  ASSUME IInv, NEW r \in Runs, Dispatch(r)
  PROVE  IInv'
  <1>1. PICK i \in Inputs : input' = [input EXCEPT ![r] = i]
    BY DEF Dispatch
  <1>2. Enqueue(r) /\ phase[r] = "absent" /\ UNCHANGED <<day, hour, job, artifacts>>
    BY DEF Dispatch
  <1>3. ~Running(r) /\ attempt[r] = 0 /\ attempt \in [Runs -> Nat]
    BY <1>2 DEF Running, IInv, Dispatched, TypeOK
  <1>4. /\ phase' \in [Runs -> {"absent", "pending", "running"} \cup Concluded]
        /\ attempt' \in [Runs -> Nat] /\ shown' \in [Runs -> Shown]
        /\ phase'[r] = "pending" /\ attempt'[r] = 1
        /\ \A q \in Runs : q # r =>
              /\ attempt'[q] = attempt[q] /\ shown'[q] = shown[q]
              /\ phase'[q] = phase[q] \/ (phase[q] = "pending" /\ phase'[q] = "cancelled")
        /\ \A q \in Runs : Running(q)' => Running(q) /\ q # r
    BY <1>2, <1>3, EnqueueFacts
  <1>5. /\ input' \in [Runs -> Inputs \cup {NoInput}] /\ input'[r] \in Inputs
        /\ \A q \in Runs : q # r => input'[q] = input[q]
    BY <1>1 DEF IInv, TypeOK
  <1>6. TypeOK'
    BY <1>2, <1>4, <1>5 DEF IInv, TypeOK, artifacts
  <1>7. Dispatched'
    BY <1>4, <1>5 DEF IInv, Dispatched
  <1>8. \A c \in receipts : c.run \in Runs /\ c.run # r
    BY <1>3 DEF IInv, TypeOK, Receipt, FirstReceipt
  <1>9. ReceiptTimes'
    BY <1>2, <1>4, <1>5, <1>8
    DEF IInv, ReceiptTimes, Scheduled, Digest, Close, Normal, artifacts
  <1>10. \A q \in Runs : FirstReceipt(q)'
    BY <1>2, <1>4, <1>8 DEF IInv, FirstReceipt, Running, artifacts
  <1> QED
    BY <1>2, <1>4, <1>5, <1>6, <1>7, <1>9, <1>10, NothingStarts

LEMMA RerunSafe ==
  ASSUME IInv, NEW r \in Runs, Rerun(r)
  PROVE  IInv'
  <1>1. Enqueue(r) /\ phase[r] \in Concluded /\ UNCHANGED <<day, hour, input, job, artifacts>>
    BY DEF Rerun
  <1>2. ~Running(r) /\ attempt[r] >= 1 /\ attempt \in [Runs -> Nat] /\ input[r] \in Inputs
    BY <1>1 DEF Running, Concluded, IInv, Dispatched, TypeOK
  <1>3. /\ phase' \in [Runs -> {"absent", "pending", "running"} \cup Concluded]
        /\ attempt' \in [Runs -> Nat] /\ shown' \in [Runs -> Shown]
        /\ phase'[r] = "pending" /\ attempt'[r] = attempt[r] + 1
        /\ \A q \in Runs : q # r =>
              /\ attempt'[q] = attempt[q] /\ shown'[q] = shown[q]
              /\ phase'[q] = phase[q] \/ (phase[q] = "pending" /\ phase'[q] = "cancelled")
        /\ \A q \in Runs : Running(q)' => Running(q) /\ q # r
    BY <1>1, <1>2, EnqueueFacts
  <1>4. attempt'[r] \in Nat /\ attempt'[r] > 1 /\ attempt'[r] # 1 /\ attempt'[r] # 0
    BY <1>2, <1>3
  <1>5. TypeOK'
    BY <1>1, <1>3 DEF IInv, TypeOK, artifacts
  <1>6. Dispatched'
    BY <1>1, <1>2, <1>3, <1>4 DEF IInv, Dispatched
  <1>7. \A c \in receipts : c.run \in Runs
    BY DEF IInv, TypeOK, Receipt
  <1>8. ReceiptTimes'
    BY <1>1, <1>3, <1>4, <1>7
    DEF IInv, ReceiptTimes, Scheduled, Digest, Close, Normal, artifacts
  <1>9. \A q \in Runs : FirstReceipt(q)'
    BY <1>1, <1>3, <1>4 DEF IInv, FirstReceipt, Running, artifacts
  <1> QED
    BY <1>1, <1>3, <1>5, <1>6, <1>8, <1>9, NothingStarts

\* Ending the job of r: Crash and Finish.
LEMMA EndSafe ==
  ASSUME IInv, NEW r \in Runs, Running(r), NEW c \in Concluded,
         phase' = [phase EXCEPT ![r] = c], SetJob(r, FreshJob(0)),
         UNCHANGED <<day, hour, input, attempt, shown, artifacts>>
  PROVE  IInv'
  <1>1. /\ phase' \in [Runs -> {"absent", "pending", "running"} \cup Concluded]
        /\ phase'[r] = c /\ \A q \in Runs : q # r => phase'[q] = phase[q]
    BY DEF IInv, TypeOK
  <1>2. c \notin {"absent", "pending", "running"} /\ phase[r] = "running"
    BY DEF Concluded, Running
  <1>3. job' \in [Runs -> Job] /\ \A q \in Runs : q # r => job'[q] = job[q]
    BY FreshJobType DEF IInv, TypeOK, SetJob
  <1>4. TypeOK'
    BY <1>1, <1>3 DEF IInv, TypeOK, artifacts
  <1>5. Dispatched'
    BY <1>1, <1>2 DEF IInv, Dispatched
  <1>6. ReceiptTimes'
    BY SameReceiptTimes DEF IInv, artifacts
  <1>7. \A q \in Runs : FirstReceipt(q)'
    <2>1. attempt[r] # 0
      BY <1>2 DEF IInv, Dispatched, TypeOK
    <2> QED
      BY <1>1, <1>2, <1>3, <2>1 DEF IInv, FirstReceipt, Running, artifacts
  <1>8. \A q \in Runs : Running(q)' => Running(q) /\ q # r
    BY <1>1, <1>2 DEF Running
  <1> QED
    BY <1>3, <1>4, <1>5, <1>6, <1>7, <1>8, NothingStarts

LEMMA CrashSafe ==
  ASSUME IInv, NEW r \in Runs, Crash(r)
  PROVE  IInv'
  BY EndSafe DEF Crash, Concluded

LEMMA FinishSafe ==
  ASSUME IInv, NEW r \in Runs, Finish(r)
  PROVE  IInv'
  <1>1. Conclusion(r) \in Concluded
    BY DEF Conclusion, Concluded
  <1> QED
    BY <1>1, EndSafe DEF Finish, At

LEMMA FreshJobSafe ==
  ASSUME IInv, NEW r \in Runs, input[r] \in Inputs
  PROVE  JobSafe(r, FreshJob(Clock(day, hour)))
  <1> DEFINE j == FreshJob(Clock(day, hour))
  <1>1. /\ j.step = "calendar" /\ j.since = Clock(day, hour) /\ ~j.shouldSend /\ ~j.recover
        /\ j.status = "none" /\ ~j.intent /\ j.sent = "no" /\ ~j.kept /\ j.target = 0
    BY DEF FreshJob
  <1>2. Clock(day, hour) \in Nat /\ MaxRunHours[input[r].workflow] \in 0 .. 24
    <2>1. input[r].workflow \in Workflows
      BY InputFacts
    <2> QED
      BY <2>1, ClockFacts, LimitsAssumption DEF IInv
  <1> HIDE DEF j
  <1>3. Ordered(j)
    BY <1>1 DEF Ordered
  <1>4. Done(r, j)
    BY <1>1 DEF Done, Ready, UpToGate
  <1>5. Identified(r, j)
    BY <1>1 DEF Identified
  <1>6. Evident(r, j)
    BY <1>1 DEF Evident
  <1>7. Timed(r, j)
    BY <1>1, <1>2 DEF Timed
  <1> QED
    BY <1>3, <1>4, <1>5, <1>6, <1>7 DEF JobSafe, j

LEMMA StartJobSafe ==
  ASSUME IInv, NEW r \in Runs, StartJob(r)
  PROVE  IInv'
  <1> DEFINE j == FreshJob(Clock(day, hour))
             b == IF Member(r) THEN day ELSE 0
  <1>1. /\ phase' = [phase EXCEPT ![r] = "running"] /\ SetJob(r, j)
        /\ shown' = [shown EXCEPT ![r].began = b]
        /\ UNCHANGED <<day, hour, input, attempt, artifacts>>
        /\ phase[r] = "pending" /\ \A q \in Runs : ~Running(q)
    BY DEF StartJob, GroupFree
  <1>2. Clock(day, hour) \in Nat /\ b \in Nat /\ input[r] \in Inputs /\ attempt[r] # 0
    BY <1>1, ClockFacts DEF IInv, Dispatched, TypeOK
  <1>3. j \in Job /\ j.step = "calendar" /\ ~j.shouldSend /\ j.step # "gate"
    <2>1. j \in Job
      BY <1>2, FreshJobType
    <2> QED
      BY <2>1 DEF FreshJob
  <1>4. JobSafe(r, j)
    BY <1>2, FreshJobSafe
  <1> HIDE DEF j, b
  <1>5. /\ phase' \in [Runs -> {"absent", "pending", "running"} \cup Concluded]
        /\ job' \in [Runs -> Job] /\ shown' \in [Runs -> Shown] /\ job'[r] = j
        /\ phase'[r] = "running"
        /\ \A q \in Runs : q # r =>
             job'[q] = job[q] /\ phase'[q] = phase[q] /\ shown'[q] = shown[q]
    BY <1>1, <1>2, <1>3 DEF IInv, TypeOK, SetJob, Shown
  <1>6. TypeOK'
    BY <1>1, <1>5 DEF IInv, TypeOK, artifacts
  <1>7. Dispatched' /\ OneRunning'
    BY <1>1, <1>2, <1>5 DEF IInv, Dispatched, OneRunning, Running
  <1>8. \A c \in receipts : c.run \in Runs /\ (c.run = r => attempt[r] # 1)
    BY <1>1 DEF IInv, FirstReceipt, TypeOK, Receipt
  <1>9. ReceiptTimes'
    BY <1>1, <1>5, <1>8
    DEF IInv, ReceiptTimes, Scheduled, Digest, Close, Normal, artifacts
  <1>10. \A q \in Runs : FirstReceipt(q)'
    BY <1>1, <1>2, <1>5, <1>8 DEF IInv, FirstReceipt, Running, artifacts
  <1>11. Records'
    BY <1>1, SameRecords DEF IInv
  <1>12. JobSafe(r, job[r])'
    <2> USE DEF artifacts, Clock, Digest, Close, Normal, Scheduled, Unchecked, Ready, Backed
    <2>1. Ordered(job[r])'
      BY <1>4, <1>5 DEF JobSafe, Ordered
    <2>2. Done(r, job[r])'
      BY <1>1, <1>4, <1>5 DEF JobSafe, Done
    <2>3. Identified(r, job[r])'
      BY <1>1, <1>4, <1>5 DEF JobSafe, Identified, KeyOf, AbstractDays
    <2>4. Evident(r, job[r])'
      BY <1>1, <1>4, <1>5 DEF JobSafe, Evident, Automatic, Intended, ReceiptsOf
    <2>5. Timed(r, job[r])'
      BY <1>1, <1>3, <1>4, <1>5 DEF JobSafe, Timed
    <2> QED
      BY <2>1, <2>2, <2>3, <2>4, <2>5 DEF JobSafe
  <1>13. \A q \in Runs : Running(q)' => q = r
    BY <1>1, <1>5 DEF Running
  <1> QED
    BY <1>6, <1>7, <1>9, <1>10, <1>11, <1>12, <1>13 DEF IInv

\* The clock only moves forward, and never past the limit of a running job.
LEMMA TickSafe ==
  ASSUME IInv, Tick
  PROVE  IInv'
  <1>1. PICK t \in Instants :
          /\ Clock(t[1], t[2]) > Clock(day, hour) /\ day' = t[1] /\ hour' = t[2]
          /\ \A r \in Runs :
               Running(r) => Clock(t[1], t[2]) <= job[r].since + MaxRunHours[input[r].workflow]
    BY DEF Tick
  <1>2. UNCHANGED <<input, phase, attempt, job, shown, artifacts>>
    BY DEF Tick
  <1>3. day' \in Nat /\ hour' \in 0 .. 23 /\ <<day, hour>>' \in Instants
    <2>1. t \in (Nat \ {0}) \X (0 .. 23)
      BY CalendarAssumption
    <2>2. <<day, hour>>' = t
      BY <1>1, <2>1
    <2> QED
      BY <1>1, <2>1, <2>2
  <1>4. day \in Nat /\ hour \in 0 .. 23
    BY ClockFacts DEF IInv
  <1>5. /\ Clock(day, hour)' = Clock(t[1], t[2]) /\ Clock(day, hour)' > Clock(day, hour)
        /\ Clock(day, hour) \in Nat /\ Clock(day, hour)' \in Nat /\ day <= day'
    BY <1>1, <1>3, <1>4 DEF Clock
  <1>6. TypeOK'
    BY <1>2, <1>3 DEF IInv, TypeOK, artifacts
  <1>7. OneRunning' /\ Dispatched' /\ Records' /\ ReceiptTimes'
    <2>1. Records'
      BY <1>2, SameRecords DEF IInv
    <2>2. ReceiptTimes'
      BY <1>2, SameReceiptTimes DEF IInv, artifacts
    <2> QED
      BY <1>2, <2>1, <2>2 DEF IInv, OneRunning, Dispatched, Running
  <1>8. \A q \in Runs : FirstReceipt(q)'
    BY <1>2 DEF IInv, FirstReceipt, Running, artifacts
  <1>9. ASSUME NEW q \in Runs, Running(q)' PROVE JobSafe(q, job[q])'
    <2>1. Running(q)
      BY <1>2, <1>9 DEF Running
    <2>2. /\ JobSafe(q, job[q]) /\ job[q] \in Job /\ input[q] \in Inputs
      BY <2>1, RunningJob
    <2> USE DEF artifacts, Digest, Close, Normal, Scheduled, Unchecked, Ready, Backed
    <2>3. Ordered(job[q])'
      BY <1>2, <2>2 DEF JobSafe, Ordered
    <2>4. Done(q, job[q])'
      BY <1>2, <2>2 DEF JobSafe, Done
    <2>5. Identified(q, job[q])'
      BY <1>2, <2>2 DEF JobSafe, Identified, KeyOf, AbstractDays
    <2>6. Evident(q, job[q])'
      BY <1>2, <2>2 DEF JobSafe, Evident, Automatic, Intended, ReceiptsOf
    <2>7. Timed(q, job[q])'
      <3> DEFINE j == job[q]
                 m == MaxRunHours[input[q].workflow]
                 b == shown[q].began
      <3>1. /\ j.since \in Nat /\ j.accepted \in Nat /\ b \in Nat /\ m \in Nat
            /\ (Scheduled(q) /\ j.shouldSend) => j.key.day \in Nat
        <4>1. input[q].workflow \in Workflows
          BY <2>2, InputFacts
        <4>2. (Scheduled(q) /\ j.shouldSend) => j.key.day \in Nat
          BY <2>2 DEF JobSafe, Identified, KeyOf
        <4>3. b \in Nat
          BY DEF IInv, TypeOK, Shown
        <4>4. j.since \in Nat /\ j.accepted \in Nat
          BY <2>2 DEF Job
        <4>5. m \in Nat
          BY <4>1, LimitsAssumption
        <4> QED
          BY <4>2, <4>3, <4>4, <4>5
      <3>2. Clock(day, hour)' <= j.since + m
        BY <1>1, <1>5, <2>1
      <3>3. j.since <= Clock(day, hour)'
        BY <1>5, <2>2, <3>1 DEF JobSafe, Timed
      <3>4. Began(q, j) => b <= day' /\ j.since < 24 * (b + 1)
        BY <1>3, <1>4, <1>5, <3>1 DEF Began
      <3>5. Scheduled(q) /\ j.shouldSend =>
              /\ Began(q, j) /\ b <= j.key.day /\ j.key.day <= day'
              /\ j.sent = "ok" => j.key.day <= j.accepted /\ j.accepted <= day'
        BY <1>3, <1>4, <1>5, <2>2, <3>1 DEF JobSafe, Timed
      <3>6. (Digest(q) /\ j.step = "gate" /\ j.healthy /\ j.admitted) => Began(q, j)
        BY <2>2 DEF JobSafe, Timed
      <3>7. /\ (job[q])' = j /\ (shown[q].began)' = b
            /\ (MaxRunHours[input[q].workflow])' = m
            /\ Scheduled(q)' = Scheduled(q) /\ Digest(q)' = Digest(q)
        BY <1>2
      <3>8. ((Digest(q) /\ j.step = "gate" /\ j.healthy /\ j.admitted) => Began(q, j))'
        BY <3>4, <3>6, <3>7, <1>2 DEF Began
      <3>9. ((Scheduled(q) /\ j.shouldSend) =>
               /\ Began(q, j) /\ b <= j.key.day /\ j.key.day <= day
               /\ j.sent = "ok" => j.key.day <= j.accepted /\ j.accepted <= day)'
        BY <3>4, <3>5, <3>7, <1>2 DEF Began
      <3>10. (j.since <= Clock(day, hour) /\ Clock(day, hour) <= j.since + m)'
        BY <3>2, <3>3, <3>7
      <3> QED
        BY <3>8, <3>9, <3>10 DEF Timed
    <2> QED
      BY <2>3, <2>4, <2>5, <2>6, <2>7 DEF JobSafe
  <1> QED
    BY <1>6, <1>7, <1>8, <1>9 DEF IInv

-----------------------------------------------------------------------------
(* The invariant *)

LEMMA InitSafe == Init => IInv
  <1> SUFFICES ASSUME Init PROVE IInv
    OBVIOUS
  <1>1. FreshJob(0) \in Job /\ NothingShown(0) \in Shown
    BY FreshJobType DEF NothingShown, Shown
  <1>2. <<day, hour>> \in Instants
    <2>1. PICK t \in Instants : day = t[1] /\ hour = t[2]
      BY DEF Init
    <2>2. t \in (Nat \ {0}) \X (0 .. 23)
      BY CalendarAssumption
    <2> QED
      BY <2>1, <2>2
  <1>3. TypeOK
    BY <1>1, <1>2 DEF Init, TypeOK
  <1>4. Records /\ ReceiptTimes
    BY DEF Init, Records, AtMostOneAutomaticMail, Automatic, MailIntended, EvidenceBacked,
           IntentKeys, ReceiptTimes
  <1>5. \A r \in Runs : ~Running(r) /\ FirstReceipt(r) /\ phase[r] = "absent" /\ attempt[r] = 0
    BY DEF Init, Running, FirstReceipt
  <1> QED
    BY <1>3, <1>4, <1>5 DEF IInv, OneRunning, Dispatched

LEMMA NextSafe == IInv /\ [Next]_vars => IInv'
  <1> SUFFICES ASSUME IInv, [Next]_vars PROVE IInv'
    OBVIOUS
  <1>1. CASE Tick
    BY <1>1, TickSafe
  <1>2. ASSUME NEW r \in Runs, StartJob(r) PROVE IInv'
    BY <1>2, StartJobSafe
  <1>3. ASSUME NEW r \in Runs, JobStep(r) PROVE IInv'
    <2>1. CASE Calendar(r) \/ StartSend(r) \/ Gate(r) \/ Choose(r) \/ Build(r)
      BY <2>1, CalendarSafe, StartSendSafe, GateSafe, ChooseSafe, BuildSafe
    <2>2. CASE Target(r) \/ Prepare(r) \/ Whole(r) \/ Disclose(r) \/ KeepState(r)
      BY <2>2, TargetSafe, PrepareSafe, WholeSafe, DiscloseSafe, KeepStateSafe
    <2>3. CASE PersistIntent(r) \/ SendGmail(r) \/ PreserveReceipt(r) \/ MarkDelivered(r)
               \/ RecoverMarker(r)
      BY <2>3, PersistIntentSafe, SendGmailSafe, PreserveReceiptSafe, MarkDeliveredSafe,
         RecoverMarkerSafe
    <2>4. CASE Raise(r) \/ Skip(r) \/ Finish(r)
      BY <2>4, BreakSafe, SkipSafe, FinishSafe DEF Raise
    <2> QED
      BY <1>3, <2>1, <2>2, <2>3, <2>4 DEF JobStep
  <1>4. ASSUME NEW r \in Runs, Environment(r) PROVE IInv'
    BY <1>4, DispatchSafe, RerunSafe, CrashSafe, CancelSafe, TimeOutSafe, BreakSafe
    DEF Environment
  <1>5. CASE UNCHANGED vars
    <2>1. IInv /\ UNCHANGED vars
      BY <1>5
    <2>2. TypeOK' /\ Dispatched'
      BY <2>1 DEF IInv, TypeOK, Dispatched, vars
    <2>3. ReceiptTimes'
      BY <2>1, SameReceiptTimes DEF IInv, vars
    <2>4. \A q \in Runs : FirstReceipt(q)'
      BY <2>1 DEF IInv, FirstReceipt, Running, vars
    <2> QED
      BY <2>1, <2>2, <2>3, <2>4, NothingStarts DEF vars, artifacts, Running
  <1> QED
    BY <1>1, <1>2, <1>3, <1>4, <1>5 DEF Next

\* The inductive invariant holds in every reachable state.
THEOREM Invariance == Spec => []IInv
  BY InitSafe, NextSafe, PTL DEF Spec

\* The state stays within its types: every run has one of the phases of a workflow
\* run, every mail and artifact a well-formed key.
THEOREM TypeCorrectness == Spec => []TypeOK
  <1>1. IInv => TypeOK
    BY DEF IInv
  <1> QED
    BY <1>1, Invariance, PTL

\* The gates of both workflows, the member's second transaction, the intent and the
\* shared group together never let automation mail one report, one partial report or
\* one acceptance test twice.
THEOREM AtMostOnce == Spec => []AtMostOneAutomaticMail
  <1>1. IInv => AtMostOneAutomaticMail
    BY DEF IInv, Records
  <1> QED
    BY <1>1, Invariance, PTL

\* A delivered marker, recovered or not, stands for an accepted mail of its key.
THEOREM MarkerBacked == Spec => []MarkerMeansAccepted
  <1>1. IInv => MarkerMeansAccepted
    BY DEF IInv, Records, EvidenceBacked, Backed, MarkerMeansAccepted
  <1> QED
    BY <1>1, Invariance, PTL

\* What a scheduled close leaves satisfies the bounded interval later gates verify.
THEOREM ReceiptSettles == Spec => []CloseReceiptSettles
  <1>1. ASSUME IInv PROVE CloseReceiptSettles
    <2> SUFFICES ASSUME NEW c \in receipts,
                        Scheduled(c.run), attempt[c.run] = 1,
                        shown[c.run].sent, shown[c.run].kept, ~shown[c.run].over,
                        shown[c.run].queued = shown[c.run].began
                 PROVE  Verified(c, c.key.day, "close_confirmed")
      BY DEF CloseReceiptSettles, Scheduled
    <2>1. /\ c.signal = c.key.day
          /\ c.accepted # c.key.day => shown[c.run].began = c.key.day
      BY <1>1 DEF IInv, ReceiptTimes
    <2>2. c.signal \in Nat
      BY <1>1 DEF IInv, TypeOK, Receipt
    <2>3. c.accepted # c.key.day => BoundedSend(c, c.key.day)
      BY <2>1 DEF BoundedSend
    <2> QED
      BY <2>1, <2>2, <2>3 DEF Verified
  <1> QED
    BY <1>1, Invariance, PTL

-----------------------------------------------------------------------------
(* Properties of steps *)

\* Which actions add to the intents, markers and mails.
LEMMA WhoWrites ==
  ASSUME Next
  PROVE  \/ UNCHANGED <<intents, markers, mails>>
         \/ \E r \in Runs : /\ PersistIntent(r) \/ SendGmail(r) \/ MarkDelivered(r)
                               \/ RecoverMarker(r)
                            /\ Running(r) /\ StepIf(r)
  <1> USE DEF artifacts, others
  <1>1. CASE Tick
    BY <1>1 DEF Tick
  <1>2. ASSUME NEW r \in Runs, StartJob(r) \/ Environment(r)
        PROVE  UNCHANGED <<intents, markers, mails>>
    BY <1>2 DEF StartJob, Environment, Dispatch, Rerun, Crash, Cancel, TimeOut, Break
  <1>3. ASSUME NEW r \in Runs, JobStep(r)
        PROVE  \/ UNCHANGED <<intents, markers, mails>>
               \/ PersistIntent(r) \/ SendGmail(r) \/ MarkDelivered(r) \/ RecoverMarker(r)
    <2>1. CASE Calendar(r) \/ StartSend(r) \/ Gate(r) \/ Choose(r) \/ Build(r)
      BY <2>1 DEF Calendar, StartSend, Gate, Choose, Build
    <2>2. CASE Target(r) \/ Prepare(r) \/ Whole(r) \/ Disclose(r) \/ KeepState(r)
      BY <2>2 DEF Target, Prepare, Whole, Disclose, KeepState
    <2>3. CASE Raise(r) \/ Skip(r) \/ Finish(r) \/ PreserveReceipt(r)
      BY <2>3 DEF Raise, Break, Skip, Finish, PreserveReceipt
    <2> QED
      BY <1>3, <2>1, <2>2, <2>3 DEF JobStep
  <1>4. ASSUME NEW r \in Runs,
               PersistIntent(r) \/ SendGmail(r) \/ MarkDelivered(r) \/ RecoverMarker(r)
        PROVE  Running(r) /\ StepIf(r)
    BY <1>4 DEF PersistIntent, SendGmail, MarkDelivered, RecoverMarker, Due, At
  <1> QED
    BY <1>1, <1>2, <1>3, <1>4 DEF Next

\* Once an intent exists, only the attempt that wrote it may still mail its key.
THEOREM UncertainStays == Spec => UncertainNeverRetried
  <1> DEFINE A == \A m \in mails' \ mails : m.kind \in {"normal", "test"} =>
                    \A i \in intents : i.key = m.key => i.run = m.run /\ i.attempt = m.attempt
  <1>1. ASSUME IInv, Next PROVE A
    <2>1. ASSUME NEW r \in Runs, SendGmail(r) PROVE A
      <3>1. /\ Running(r) /\ job[r].step = "send" /\ StepIf(r)
            /\ mails' \subseteq mails \cup {Mail(r)}
        BY <2>1 DEF SendGmail, Due, At
      <3> QED
        BY <1>1, <3>1, MailFacts
    <2>2. ASSUME NEW r \in Runs, PersistIntent(r) \/ MarkDelivered(r) \/ RecoverMarker(r)
          PROVE  A
      BY <2>2 DEF PersistIntent, MarkDelivered, RecoverMarker
    <2> QED
      BY <1>1, <2>1, <2>2, WhoWrites
  <1>2. IInv /\ [Next]_vars => [A]_vars
    BY <1>1
  <1> QED
    BY <1>2, Invariance, PTL DEF Spec, UncertainNeverRetried

\* Only its own last step ends a run green.
LEMMA WhoSucceeds ==
  ASSUME IInv, Next, NEW r \in Runs, Running(r), phase'[r] = "success"
  PROVE  Finish(r)
  <1> USE DEF artifacts, others
  <1>1. phase \in [Runs -> {"absent", "pending", "running"} \cup Concluded] /\ phase[r] = "running"
    BY DEF IInv, TypeOK, Running
  <1>2. CASE Tick
    BY <1>1, <1>2 DEF Tick
  <1>3. ASSUME NEW q \in Runs, StartJob(q) \/ Environment(q)
        PROVE  FALSE
    <2>1. CASE StartJob(q)
      BY <1>1, <2>1 DEF StartJob
    <2>2. CASE Dispatch(q) \/ Rerun(q)
      BY <1>1, <2>2 DEF Dispatch, Rerun, Enqueue, Concluded
    <2>3. CASE Crash(q) \/ Cancel(q) \/ TimeOut(q) \/ Break(q)
      BY <1>1, <2>3 DEF Crash, Cancel, TimeOut, Break
    <2> QED
      BY <1>3, <2>1, <2>2, <2>3 DEF Environment
  <1>4. ASSUME NEW q \in Runs, JobStep(q)
        PROVE  Finish(r)
    <2>1. CASE Finish(q)
      BY <1>1, <2>1 DEF Finish
    <2>2. CASE Calendar(q) \/ StartSend(q) \/ Gate(q) \/ Choose(q) \/ Build(q)
      BY <1>1, <2>2 DEF Calendar, StartSend, Gate, Choose, Build
    <2>3. CASE Target(q) \/ Prepare(q) \/ Whole(q) \/ Disclose(q) \/ KeepState(q)
      BY <1>1, <2>3 DEF Target, Prepare, Whole, Disclose, KeepState
    <2>4. CASE PersistIntent(q) \/ SendGmail(q) \/ PreserveReceipt(q) \/ MarkDelivered(q)
               \/ RecoverMarker(q) \/ Raise(q) \/ Skip(q)
      BY <1>1, <2>4 DEF PersistIntent, SendGmail, PreserveReceipt, MarkDelivered,
                        RecoverMarker, Raise, Break, Skip
    <2> QED
      BY <1>4, <2>1, <2>2, <2>3, <2>4 DEF JobStep
  <1> QED
    BY <1>2, <1>3, <1>4 DEF Next

\* A run that ends green was about a report that has been mailed.
THEOREM GreenIsDelivery == Spec => GreenMeansDelivered
  <1> DEFINE A == \A r \in Runs :
                    (/\ At(r, "audit") /\ phase'[r] = "success"
                     /\ ~input[r].validation /\ job[r].admitted)
                      => job[r].key \in Legacy \/ \E m \in mails : m.key = job[r].key
  <1>1. ASSUME IInv, Next PROVE A
    <2> SUFFICES ASSUME NEW r \in Runs, Running(r), job[r].step = "audit",
                        phase'[r] = "success", ~input[r].validation, job[r].admitted
                 PROVE  job[r].key \in Legacy \/ Backed(job[r].key)
      BY DEF At, Backed
    <2> DEFINE i == job[r]
    <2>1. JobSafe(r, i) /\ (Digest(r) <=> ~Member(r))
      BY <1>1, RunningJob
    <2>2. i.healthy /\ ~PublicationFailed(r)
      <3>1. Finish(r)
        BY <1>1, WhoSucceeds
      <3>2. phase' = [phase EXCEPT ![r] = Conclusion(r)] /\ phase \in [Runs -> {"absent", "pending", "running"} \cup Concluded]
        BY <1>1, <3>1 DEF Finish, IInv, TypeOK
      <3>3. Conclusion(r) = "success"
        BY <3>2
      <3> QED
        BY <3>3 DEF Conclusion
    <2>3. "audit" \notin UpToSend /\ "audit" \notin UpToGate
      BY DEF UpToGate, UpToBuild, UpToIntent, UpToSend
    <2>4. i.shouldSend \/ i.key \in Legacy \/ Backed(i.key)
      BY <2>1, <2>2, <2>3 DEF JobSafe, Done
    <2>5. CASE i.shouldSend
      <3>1. Digest(r) => Complete(r)
        BY <2>2, <2>5 DEF PublicationFailed
      <3>2. Ready(r, i)
        BY <2>5, <3>1 DEF Ready, Complete
      <3>3. i.sent = "ok"
        BY <2>1, <2>2, <2>3, <3>2 DEF JobSafe, Done
      <3>4. i.status # "FAILED"
        BY <2>1, <3>1 DEF JobSafe, Identified, Complete
      <3> QED
        BY <2>1, <3>3, <3>4 DEF JobSafe, Evident
    <2> QED
      BY <2>4, <2>5
  <1>2. IInv /\ [Next]_vars => [A]_vars
    BY <1>1
  <1> QED
    BY <1>2, Invariance, PTL DEF Spec, GreenMeansDelivered

-----------------------------------------------------------------------------
(* The abstract promise *)

\* What the refinement mapping shows of the state.
IntendedKeys == {i.key : i \in {x \in intents : ~x.correction}}
SendsOf(k) == Cardinality({m \in Automatic : m.key = k})
BarredKeys == {i.key : i \in {x \in intents : x.correction}}
ConfirmedKeys == {m.key : m \in markers}

LEMMA SendCount ==
  ASSUME IInv, NEW k
  PROVE  /\ (\A m \in Automatic : m.key # k) => SendsOf(k) = 0
         /\ (\E m \in Automatic : m.key = k) => SendsOf(k) = 1
  <1>1. ASSUME \A m \in Automatic : m.key # k
        PROVE  SendsOf(k) = 0
    <2>1. {m \in Automatic : m.key = k} = {}
      BY <1>1
    <2> QED
      BY <2>1, FS_EmptySet DEF SendsOf
  <1>2. ASSUME NEW n \in Automatic, n.key = k
        PROVE  SendsOf(k) = 1
    <2>1. {m \in Automatic : m.key = k} = {n}
      BY <1>2 DEF IInv, Records, AtMostOneAutomaticMail
    <2> QED
      BY <2>1, FS_Singleton DEF SendsOf
  <1> QED
    BY <1>1, <1>2

\* What backs a key in the artifacts backs it in the promise.
LEMMA BackedIsKept ==
  ASSUME IInv, NEW k, Backed(k)
  PROVE  k \in AbstractKeys /\ (SendsOf(k) > 0 \/ k \in BarredKeys)
  <1>1. PICK m \in mails : m.key = k /\ m.kind # "failure"
    BY DEF Backed
  <1>2. PICK i \in intents : i.key = k /\ (i.correction <=> m.kind = "correction")
    BY <1>1 DEF IInv, Records, MailIntended
  <1>3. k \in AbstractKeys
    BY <1>2 DEF IInv, Records, IntentKeys
  <1>4. CASE m.kind = "correction"
    BY <1>2, <1>3, <1>4 DEF BarredKeys
  <1>5. CASE m.kind # "correction"
    <2>1. m \in Message
      BY DEF IInv, TypeOK
    <2>2. m \in Automatic
      BY <1>1, <1>5, <2>1 DEF Automatic, Message
    <2>3. SendsOf(k) = 1
      BY <1>1, <2>2, SendCount
    <2> QED
      BY <1>3, <2>3
  <1> QED
    BY <1>4, <1>5

LEMMA KeysConstant == AbstractKeys' = AbstractKeys
  BY DEF AbstractKeys, AbstractDays

\* The mapped state changes with the records only.
LEMMA MappedState ==
  /\ UNCHANGED intents => IntendedKeys' = IntendedKeys /\ BarredKeys' = BarredKeys
  /\ UNCHANGED mails => [k \in AbstractKeys |-> SendsOf(k)]' = [k \in AbstractKeys |-> SendsOf(k)]
  /\ UNCHANGED markers => ConfirmedKeys' = ConfirmedKeys
  BY KeysConstant DEF IntendedKeys, BarredKeys, ConfirmedKeys, SendsOf, Automatic

LEMMA PromiseInit == Init => Promise!Init
  <1> SUFFICES ASSUME Init PROVE Promise!Init
    OBVIOUS
  <1>1. IInv
    BY InitSafe
  <1>2. \A k : SendsOf(k) = 0
    BY <1>1, SendCount DEF Init, Automatic
  <1> QED
    BY <1>2 DEF Init, Promise!Init, SendsOf

\* An automatic intent commits to its key, the operator's bars it.
LEMMA IntentPromised ==
  ASSUME IInv, NEW r \in Runs, PersistIntent(r), Running(r), StepIf(r)
  PROVE  Promise!Next
  <1> DEFINE e == EvidenceOf(r)
  <1>0. PICK k : k = job[r].key
    OBVIOUS
  <1>1. /\ intents' = intents \cup {e} /\ UNCHANGED <<mails, markers>>
        /\ job[r].step = "intent"
    BY DEF PersistIntent, Due, At
  <1>2. e.key = k /\ e.correction = input[r].correction
    BY <1>0, EvidenceType
  <1>3. k \in AbstractKeys /\ (~input[r].correction => ~Intended(k))
    BY <1>0, <1>1, IntentFacts
  <1> HIDE DEF e
  <1>4. CASE ~input[r].correction
    <2>1. k \notin IntendedKeys \cup BarredKeys
      BY <1>3, <1>4 DEF Intended, IntendedKeys, BarredKeys
    <2>2. IntendedKeys' = IntendedKeys \cup {k} /\ BarredKeys' = BarredKeys
      BY <1>1, <1>2, <1>4 DEF IntendedKeys, BarredKeys
    <2>3. Promise!Intend(k)
      BY <1>1, <2>1, <2>2, MappedState
      DEF Promise!Intend, IntendedKeys, BarredKeys, ConfirmedKeys, SendsOf
    <2> QED
      BY <1>3, <2>3 DEF Promise!Next
  <1>5. CASE input[r].correction
    <2>1. IntendedKeys' = IntendedKeys /\ BarredKeys' = BarredKeys \cup {k}
      BY <1>1, <1>2, <1>5 DEF IntendedKeys, BarredKeys
    <2>2. Promise!Correct(k)
      BY <1>1, <2>1, MappedState
      DEF Promise!Correct, IntendedKeys, BarredKeys, ConfirmedKeys, SendsOf
    <2> QED
      BY <1>3, <2>2 DEF Promise!Next
  <1> QED
    BY <1>4, <1>5

\* The accepted automatic mail is the first of its key; what the operator mails and a
\* failure report leave the promise alone.
LEMMA MailPromised ==
  ASSUME IInv, NEW r \in Runs, SendGmail(r), Running(r), StepIf(r)
  PROVE  [Promise!Next]_(Promise!vars)
  <1> DEFINE m == Mail(r)
  <1>1. /\ mails' = mails \/ mails' = mails \cup {m}
        /\ UNCHANGED <<intents, markers>> /\ job[r].step = "send"
    BY DEF SendGmail, Due, At
  <1>2. /\ m \in Message /\ (m.kind \in {"normal", "test"} =>
                               m.key = job[r].key /\ ~Failed(r) /\ ~input[r].correction)
    BY <1>1, MailFacts
  <1>3. PICK k : k = m.key
    OBVIOUS
  <1>4. m.kind \in {"normal", "test"} =>
          /\ \E i \in intents : i.key = k /\ i.correction = FALSE
          /\ \A n \in Automatic : n.key # k
    BY <1>1, <1>2, <1>3, MailFacts, InputFacts, RunningJob
  <1>5. Automatic' = Automatic \/ (m.kind \in {"normal", "test"} /\ Automatic' = Automatic \cup {m})
    BY <1>1 DEF Automatic
  <1> HIDE DEF m
  <1>6. CASE Automatic' = Automatic
    <2>1. [x \in AbstractKeys |-> SendsOf(x)]' = [x \in AbstractKeys |-> SendsOf(x)]
      BY <1>6, KeysConstant DEF SendsOf
    <2> QED
      BY <1>1, <2>1, MappedState
      DEF Promise!vars, SendsOf, IntendedKeys, BarredKeys, ConfirmedKeys
  <1>7. CASE m.kind \in {"normal", "test"} /\ Automatic' = Automatic \cup {m}
    <2>1. k \in AbstractKeys /\ k \in IntendedKeys
      BY <1>4, <1>7 DEF IInv, Records, IntentKeys, IntendedKeys
    <2>2. SendsOf(k) = 0
      BY <1>4, <1>7, SendCount
    <2>3. SendsOf(k)' = 1
      <3>1. {n \in Automatic' : n.key = k} = {m}
        BY <1>3, <1>4, <1>7
      <3> QED
        BY <3>1, FS_Singleton DEF SendsOf
    <2>4. ASSUME NEW x \in AbstractKeys, x # k
          PROVE  SendsOf(x)' = SendsOf(x)
      <3>1. {n \in Automatic' : n.key = x} = {n \in Automatic : n.key = x}
        BY <1>3, <1>7, <2>4
      <3> QED
        BY <3>1 DEF SendsOf
    <2>5. [x \in AbstractKeys |-> SendsOf(x)]' =
            [[x \in AbstractKeys |-> SendsOf(x)] EXCEPT ![k] = 1]
      BY <2>1, <2>3, <2>4, KeysConstant
    <2>6. Promise!Accept(k)
      BY <1>1, <2>1, <2>2, <2>5, MappedState
      DEF Promise!Accept, IntendedKeys, BarredKeys, ConfirmedKeys, SendsOf
    <2> QED
      BY <2>1, <2>6 DEF Promise!Next
  <1> QED
    BY <1>5, <1>6, <1>7

\* A marker confirms a key that has been mailed.
LEMMA MarkerPromised ==
  ASSUME IInv, NEW r \in Runs, RecoverMarker(r) \/ MarkDelivered(r), Running(r), StepIf(r)
  PROVE  Promise!Next
  <1> DEFINE e == EvidenceOf(r)
  <1>1. /\ markers' = markers \cup {e} /\ UNCHANGED <<mails, intents>>
        /\ job[r].step \in {"recover", "again", "mark"}
    BY DEF RecoverMarker, MarkDelivered, Due, At
  <1>2. PICK k : k = job[r].key
    OBVIOUS
  <1>3. e.key = k
    BY <1>2, EvidenceType
  <1> HIDE DEF e
  <1>4. k \in AbstractKeys /\ (SendsOf(k) > 0 \/ k \in BarredKeys)
    BY <1>1, <1>2, MarkerFacts, BackedIsKept
  <1>5. ConfirmedKeys' = ConfirmedKeys \cup {k}
    BY <1>1, <1>3 DEF ConfirmedKeys
  <1>6. Promise!Confirm(k)
    BY <1>1, <1>4, <1>5, MappedState
    DEF Promise!Confirm, IntendedKeys, BarredKeys, ConfirmedKeys, SendsOf
  <1> QED
    BY <1>4, <1>6 DEF Promise!Next

\* Both workflows together implement the promise of AtMostOnceSend: automation commits
\* once to a report, mails it at most once, never after a correction of it, and marks
\* only what was mailed.
THEOREM PromiseKept == Spec => KeepsPromise
  <1>1. IInv /\ [Next]_vars => [Promise!Next]_(Promise!vars)
    <2> SUFFICES ASSUME IInv, [Next]_vars PROVE [Promise!Next]_(Promise!vars)
      OBVIOUS
    <2>1. CASE UNCHANGED <<intents, markers, mails>>
      BY <2>1, MappedState
      DEF Promise!vars, SendsOf, IntendedKeys, BarredKeys, ConfirmedKeys
    <2>2. CASE UNCHANGED vars
      BY <2>1, <2>2 DEF vars
    <2>3. ASSUME NEW r \in Runs, Running(r), StepIf(r),
                 PersistIntent(r) \/ SendGmail(r) \/ MarkDelivered(r) \/ RecoverMarker(r)
          PROVE  [Promise!Next]_(Promise!vars)
      BY <2>3, IntentPromised, MailPromised, MarkerPromised
    <2> QED
      BY <2>1, <2>2, <2>3, WhoWrites
  <1> QED
    BY <1>1, PromiseInit, Invariance, PTL DEF Spec, KeepsPromise, Promise!Spec

=================================================================================
