--------------------------- MODULE IcimDeliveryProofs ---------------------------
(***************************************************************************)
(* Proofs about the IC/IM delivery job, for every set of runs, calendar,   *)
(* input set and number of re-runs.                                        *)
(***************************************************************************)
EXTENDS IcimDelivery, FiniteSetTheorems, TLAPS

-----------------------------------------------------------------------------
(* The inductive invariant *)

\* The steps of the job up to and including the intent, and then the send.
BeforeSignal == {"classify", "gate", "calendar", "restore", "signal"}
BeforeResultDay == BeforeSignal \cup {"build", "prepare", "resultgate"}
BeforeIntent == BeforeResultDay \cup {"intent"}
BeforeSend == BeforeIntent \cup {"send"}

\* The day a job targets lies at most MaxGap before the day it read from the
\* clock, and the job cannot live past the day after that.
Targeted(j) ==
  /\ j.target <= j.today /\ j.today <= j.target + MaxGap
  /\ j.today <= day /\ j.since < 24 * (j.today + 1)

\* The job has, or is about to have, a result that automation would mail.
Automatic(r, j) == j.exit = "zero" /\ ~input[r].correction

\* What holds of the state j of the running job of r.
JobSafe(r, j) ==
  /\ j.since <= Clock(day, hour) /\ Clock(day, hour) <= j.since + MaxRunHours
  /\ j.step \in BeforeSignal => j.exit = "none"
  /\ j.step \in BeforeResultDay => j.resultDay = "none"
  /\ j.step \in BeforeIntent => ~j.intent
  /\ j.step \in BeforeSend => j.sent = "no"
  /\ (j.step \in {"restore", "signal"} /\ j.healthy /\ j.shouldSend) => Targeted(j)
  /\ j.exit = "zero" => Targeted(j) /\ j.key = [day |-> j.target, mode |-> input[r].mode]
  /\ (j.step = "intent" /\ j.resultDay = "send" /\ Automatic(r, j)) =>
       \A i \in intents : i.key # j.key
  /\ (j.step = "send" /\ j.intent /\ Automatic(r, j)) =>
       /\ \A m \in NormalMails : m.key # j.key
       /\ \E i \in intents : i.key = j.key
       /\ \A i \in intents : i.key = j.key => i.run = r /\ i.attempt = attempt[r]
  /\ (j.sent = "ok" /\ j.exit = "zero") =>
       \E m \in mails : m.key = j.key /\ m.kind # "failure"

OneRunning == \A q, r \in Runs : Running(q) /\ Running(r) => q = r
IntentBeforeMail == \A m \in NormalMails : \E i \in intents : i.key = m.key
IntentDated == \A i \in intents : i.key.day <= i.created /\ i.created <= day

IInv ==
  /\ TypeOK
  /\ OneRunning
  /\ IntentBeforeMail
  /\ IntentDated
  /\ AtMostOneNormalMail
  /\ MarkerMeansAccepted
  /\ \A r \in Runs : Running(r) => JobSafe(r, job[r])

-----------------------------------------------------------------------------
(* Types *)

LEMMA FreshJobType ==
  ASSUME NEW s \in Nat
  PROVE  FreshJob(s) \in Job
  BY DEF FreshJob, Job, StepName

\* Assigning a field a value of its type keeps the job's type.  Updates of several
\* fields follow by composing these facts.
LEMMA FieldType ==
  ASSUME NEW j \in Job
  PROVE  /\ \A v \in StepName : [j EXCEPT !.step = v] \in Job
         /\ \A v \in BOOLEAN : [j EXCEPT !.healthy = v] \in Job
         /\ \A v \in BOOLEAN : [j EXCEPT !.cancelled = v] \in Job
         /\ \A v \in BOOLEAN : [j EXCEPT !.shouldSend = v] \in Job
         /\ \A v \in Nat : [j EXCEPT !.today = v] \in Job
         /\ \A v \in BOOLEAN : [j EXCEPT !.tradeDay = v] \in Job
         /\ \A v \in Nat : [j EXCEPT !.target = v] \in Job
         /\ \A v \in SUBSET (Nat \X Runs) : [j EXCEPT !.chain = v] \in Job
         /\ \A v \in {"skipped", "success", "failure"} : [j EXCEPT !.ran = v] \in Job
         /\ \A v \in {"none", "zero", "nonzero"} : [j EXCEPT !.exit = v] \in Job
         /\ \A v \in Key \cup {NoKey} : [j EXCEPT !.key = v] \in Job
         /\ \A v \in BOOLEAN : [j EXCEPT !.built = v] \in Job
         /\ \A v \in BOOLEAN : [j EXCEPT !.prepared = v] \in Job
         /\ \A v \in {"none", "send", "skip"} : [j EXCEPT !.resultDay = v] \in Job
         /\ \A v \in BOOLEAN : [j EXCEPT !.intent = v] \in Job
         /\ \A v \in {"no", "ok", "failed"} : [j EXCEPT !.sent = v] \in Job
         /\ \A v \in BOOLEAN : [j EXCEPT !.verified = v] \in Job
  <1>1. \A v \in StepName : [j EXCEPT !.step = v] \in Job
    BY DEF Job
  <1>2. \A v \in BOOLEAN : [j EXCEPT !.healthy = v] \in Job
    BY DEF Job
  <1>3. \A v \in BOOLEAN : [j EXCEPT !.cancelled = v] \in Job
    BY DEF Job
  <1>4. \A v \in BOOLEAN : [j EXCEPT !.shouldSend = v] \in Job
    BY DEF Job
  <1>5. \A v \in Nat : [j EXCEPT !.today = v] \in Job
    BY DEF Job
  <1>6. \A v \in BOOLEAN : [j EXCEPT !.tradeDay = v] \in Job
    BY DEF Job
  <1>7. \A v \in Nat : [j EXCEPT !.target = v] \in Job
    BY DEF Job
  <1>8. \A v \in SUBSET (Nat \X Runs) : [j EXCEPT !.chain = v] \in Job
    BY DEF Job
  <1>9. \A v \in {"skipped", "success", "failure"} : [j EXCEPT !.ran = v] \in Job
    BY DEF Job
  <1>10. \A v \in {"none", "zero", "nonzero"} : [j EXCEPT !.exit = v] \in Job
    BY DEF Job
  <1>11. \A v \in Key \cup {NoKey} : [j EXCEPT !.key = v] \in Job
    BY DEF Job
  <1>12. \A v \in BOOLEAN : [j EXCEPT !.built = v] \in Job
    BY DEF Job
  <1>13. \A v \in BOOLEAN : [j EXCEPT !.prepared = v] \in Job
    BY DEF Job
  <1>14. \A v \in {"none", "send", "skip"} : [j EXCEPT !.resultDay = v] \in Job
    BY DEF Job
  <1>15. \A v \in BOOLEAN : [j EXCEPT !.intent = v] \in Job
    BY DEF Job
  <1>16. \A v \in {"no", "ok", "failed"} : [j EXCEPT !.sent = v] \in Job
    BY DEF Job
  <1>17. \A v \in BOOLEAN : [j EXCEPT !.verified = v] \in Job
    BY DEF Job
  <1> QED
    BY <1>1, <1>2, <1>3, <1>4, <1>5, <1>6, <1>7, <1>8, <1>9, <1>10, <1>11, <1>12, <1>13, <1>14, <1>15, <1>16, <1>17

LEMMA StepNames ==
  /\ "gate" \in StepName /\ "calendar" \in StepName /\ "restore" \in StepName
  /\ "signal" \in StepName /\ "build" \in StepName /\ "prepare" \in StepName
  /\ "resultgate" \in StepName /\ "intent" \in StepName /\ "send" \in StepName
  /\ "verify" \in StepName /\ "ledger" \in StepName /\ "mark" \in StepName
  /\ "audit" \in StepName
  BY DEF StepName

LEMMA AfterType ==
  ASSUME NEW s \in StepName
  PROVE  After[s] \in StepName
  BY DEF After, StepName

LEMMA LatestLedgerType ==
  ASSUME TypeOK
  PROVE  LatestLedger \in SUBSET (Nat \X Runs)
  <1>1. ASSUME NEW n \in DOMAIN ledgers
        PROVE  ledgers[n].chain \subseteq Nat \X Runs
    <2> DEFINE Ledger == [run : Runs, chain : SUBSET (Nat \X Runs)]
    <2>1. ledgers \in Seq(Ledger)
      BY DEF TypeOK
    <2> HIDE DEF Ledger
    <2>2. ledgers[n] \in Ledger
      BY <2>1
    <2> QED
      BY <2>2 DEF Ledger
  <1>2. ASSUME NEW e \in LatestLedger
        PROVE  \E n \in DOMAIN ledgers : e \in ledgers[n].chain
    BY DEF LatestLedger
  <1> QED
    BY <1>1, <1>2

LEMMA EvidenceType ==
  ASSUME TypeOK, NEW r \in Runs
  PROVE  Evidence(r) \in Artifact
  <1>1. job[r].key \in Key \cup {NoKey}
    BY DEF TypeOK, Job
  <1>2. input[r].correction \in BOOLEAN
    <2>1. input[r] \in Input \/ input[r] = NoInput
      BY InputsAssumption DEF TypeOK
    <2>2. CASE input[r] \in Input
      BY <2>2 DEF Input
    <2>3. CASE input[r] = NoInput
      BY <2>3 DEF NoInput
    <2> QED
      BY <2>1, <2>2, <2>3
  <1> QED
    BY <1>1, <1>2 DEF TypeOK, Evidence, Artifact

-----------------------------------------------------------------------------
(* Steps that only move the job of one running run *)

\* Such a step preserves the invariant when the new state of the job is safe.
LEMMA QuietStep ==
  ASSUME IInv, NEW r \in Runs, Running(r), NEW j \in Job, SetJob(r, j),
         JobSafe(r, j), UNCHANGED <<others, artifacts>>
  PROVE  IInv'
  <1> USE DEF others, artifacts
  <1>1. TypeOK'
    <2>1. job' \in [Runs -> Job]
      BY DEF IInv, TypeOK, SetJob
    <2> QED
      BY <2>1 DEF IInv, TypeOK
  <1>2. OneRunning'
    BY DEF IInv, OneRunning, Running
  <1>3. IntentBeforeMail' /\ AtMostOneNormalMail' /\ MarkerMeansAccepted'
    BY DEF IInv, IntentBeforeMail, NormalMails, AtMostOneNormalMail, MarkerMeansAccepted
  <1>4. IntentDated'
    BY DEF IInv, IntentDated
  <1>5. ASSUME NEW q \in Runs, Running(q)' PROVE JobSafe(q, job[q])'
    <2>1. q = r
      BY <1>5 DEF IInv, OneRunning, Running
    <2>2. job'[q] = j
      BY <2>1 DEF IInv, TypeOK, SetJob
    <2>3. JobSafe(r, j)'
      BY DEF JobSafe, Targeted, Automatic, NormalMails, Clock
    <2> QED
      BY <2>1, <2>2, <2>3 DEF JobSafe, Targeted, Automatic, NormalMails, Clock
  <1> QED
    BY <1>1, <1>2, <1>3, <1>4, <1>5 DEF IInv

LEMMA RunningJob ==
  ASSUME IInv, NEW r \in Runs, Running(r)
  PROVE  job[r] \in Job /\ JobSafe(r, job[r]) /\ job[r].step \in StepName
  BY DEF IInv, TypeOK, Job

\* The fields the invariant reads that most steps leave alone.
Kept(j, i) ==
  \A f \in {"since", "exit", "resultDay", "intent", "sent", "target", "today", "key"} :
    j[f] = i[f]

\* Passing a step without executing it is safe: nothing is claimed about the
\* later steps unless their predecessors succeeded.
LEMMA Passed ==
  ASSUME IInv, NEW r \in Runs, Running(r), NEW j \in Job,
         j.step = After[job[r].step],
         Kept(j, job[r]),
         job[r].step = "calendar" => ~(j.healthy /\ j.shouldSend),
         (job[r].step = "restore" /\ j.healthy /\ j.shouldSend) =>
           job[r].healthy /\ job[r].shouldSend
  PROVE  JobSafe(r, j)
  <1> DEFINE i == job[r]
  <1>1. i \in Job /\ JobSafe(r, i) /\ i.step \in StepName
    BY RunningJob
  <1>2. /\ j.since = i.since /\ j.exit = i.exit /\ j.resultDay = i.resultDay
        /\ j.intent = i.intent /\ j.sent = i.sent /\ j.target = i.target
        /\ j.today = i.today /\ j.key = i.key
    BY <1>1 DEF Job, Kept
  <1>3. /\ j.step \in BeforeSignal => i.step \in BeforeSignal
        /\ j.step \in BeforeResultDay => i.step \in BeforeResultDay
        /\ j.step \in BeforeIntent => i.step \in BeforeIntent
        /\ j.step \in BeforeSend => i.step \in BeforeSend
        /\ j.step = "restore" => i.step = "calendar"
        /\ j.step = "signal" => i.step = "restore"
        /\ j.step = "intent" => i.step \in BeforeResultDay
        /\ j.step = "send" => i.step \in BeforeIntent
    BY <1>1 DEF After, StepName, BeforeSend, BeforeIntent, BeforeResultDay, BeforeSignal
  <1> HIDE DEF i
  <1> QED
    BY <1>1, <1>2, <1>3 DEF JobSafe, Targeted, Automatic, i

LEMMA CalendarIf ==
  ASSUME NEW r \in Runs, job[r].step = "calendar"
  PROVE  StepIf(r) <=> (job[r].healthy /\ job[r].shouldSend)
  BY DEF StepIf

LEMMA SkipSafe ==
  ASSUME IInv, NEW r \in Runs, Skip(r)
  PROVE  IInv'
  <1> DEFINE j == [job[r] EXCEPT !.step = After[@]]
  <1>1. Running(r) /\ SetJob(r, j) /\ UNCHANGED <<others, artifacts>>
    BY DEF Skip
  <1>2. job[r] \in Job /\ job[r].step \in StepName
    BY <1>1, RunningJob
  <1>3. j \in Job
    BY <1>2, AfterType DEF Job
  <1>4. JobSafe(r, j)
    <2>1. /\ j.healthy = job[r].healthy /\ j.shouldSend = job[r].shouldSend
          /\ j.step = After[job[r].step]
          /\ Kept(j, job[r])
      BY <1>2 DEF Job, Kept
    <2>2. job[r].step = "calendar" => ~(j.healthy /\ j.shouldSend)
      <3>1. ~StepIf(r)
        BY DEF Skip
      <3> HIDE DEF j
      <3> QED
        BY <2>1, <3>1, CalendarIf, Zenon
    <2> HIDE DEF j
    <2> QED
      BY <1>1, <1>3, <2>1, <2>2, Passed
  <1> QED
    BY <1>1, <1>3, <1>4, QuietStep

LEMMA BreakSafe ==
  ASSUME IInv, NEW r \in Runs, Break(r)
  PROVE  IInv'
  <1> DEFINE ran == IF job[r].step = "signal" THEN "failure" ELSE job[r].ran
             j == [job[r] EXCEPT !.healthy = FALSE, !.step = After[@], !.ran = ran]
  <1>1. Running(r) /\ SetJob(r, j) /\ UNCHANGED <<others, artifacts>>
    BY DEF Break
  <1>2. job[r] \in Job /\ job[r].step \in StepName
    BY <1>1, RunningJob
  <1>3. j \in Job
    <2>1. ran \in {"skipped", "success", "failure"}
      BY <1>2 DEF Job
    <2> HIDE DEF ran
    <2> QED
      BY <1>2, <2>1, AfterType DEF Job
  <1>4. JobSafe(r, j)
    <2>1. /\ j.healthy = FALSE
          /\ j.step = After[job[r].step]
          /\ Kept(j, job[r])
      BY <1>2 DEF Job, Kept
    <2> HIDE DEF j
    <2>2. ~(j.healthy /\ j.shouldSend)
      BY <2>1, Zenon
    <2> QED
      BY <1>1, <1>3, <2>1, <2>2, Passed
  <1> QED
    BY <1>1, <1>3, <1>4, QuietStep

\* Executing a step that leaves those fields alone.
LEMMA Executed ==
  ASSUME IInv, NEW r \in Runs, Running(r), UNCHANGED <<others, artifacts>>,
         NEW j \in Job, SetJob(r, j), Kept(j, job[r]), j.step = After[job[r].step],
         job[r].step # "calendar",
         j.healthy = job[r].healthy, job[r].step = "gate" \/ j.shouldSend = job[r].shouldSend
  PROVE  IInv'
  <1>1. JobSafe(r, j)
    BY Passed, Zenon
  <1> QED
    BY <1>1, QuietStep

LEMMA ClassifySafe ==
  ASSUME IInv, NEW r \in Runs, Classify(r)
  PROVE  IInv'
  <1> DEFINE j == [job[r] EXCEPT !.step = "gate"]
  <1>1. /\ Running(r) /\ SetJob(r, j) /\ UNCHANGED <<others, artifacts>>
        /\ job[r].step = "classify"
    BY DEF Classify, Due, At
  <1>2. job[r] \in Job
    BY <1>1, RunningJob
  <1>3. j \in Job
    BY <1>2, FieldType, StepNames
  <1>4. /\ Kept(j, job[r]) /\ j.step = After["classify"]
        /\ j.healthy = job[r].healthy /\ j.shouldSend = job[r].shouldSend
    BY <1>2 DEF Job, Kept, After
  <1> HIDE DEF j
  <1> QED
    BY <1>1, <1>3, <1>4, Executed

LEMMA RestoreLedgerSafe ==
  ASSUME IInv, NEW r \in Runs, RestoreLedger(r)
  PROVE  IInv'
  <1> DEFINE j == [job[r] EXCEPT !.step = "signal", !.chain = LatestLedger]
  <1>1. /\ Running(r) /\ SetJob(r, j) /\ UNCHANGED <<others, artifacts>>
        /\ job[r].step = "restore"
    BY DEF RestoreLedger, Due, At
  <1>2. job[r] \in Job
    BY <1>1, RunningJob
  <1>3. j \in Job
    BY <1>2, LatestLedgerType, FieldType, StepNames DEF IInv
  <1>4. /\ Kept(j, job[r]) /\ j.step = After["restore"]
        /\ j.healthy = job[r].healthy /\ j.shouldSend = job[r].shouldSend
    BY <1>2 DEF Job, Kept, After
  <1> HIDE DEF j
  <1> QED
    BY <1>1, <1>3, <1>4, Executed

LEMMA BuildDigestSafe ==
  ASSUME IInv, NEW r \in Runs, BuildDigest(r)
  PROVE  IInv'
  <1> DEFINE j == [job[r] EXCEPT !.step = "prepare", !.built = TRUE]
  <1>1. /\ Running(r) /\ SetJob(r, j) /\ UNCHANGED <<others, artifacts>>
        /\ job[r].step = "build"
    BY DEF BuildDigest, Due, At
  <1>2. job[r] \in Job
    BY <1>1, RunningJob
  <1>3. j \in Job
    BY <1>2, FieldType, StepNames
  <1>4. /\ Kept(j, job[r]) /\ j.step = After["build"]
        /\ j.healthy = job[r].healthy /\ j.shouldSend = job[r].shouldSend
    BY <1>2 DEF Job, Kept, After
  <1> HIDE DEF j
  <1> QED
    BY <1>1, <1>3, <1>4, Executed

LEMMA PrepareMarkerSafe ==
  ASSUME IInv, NEW r \in Runs, PrepareMarker(r)
  PROVE  IInv'
  <1> DEFINE j == [job[r] EXCEPT !.step = "resultgate", !.prepared = TRUE]
  <1>1. /\ Running(r) /\ SetJob(r, j) /\ UNCHANGED <<others, artifacts>>
        /\ job[r].step = "prepare"
    BY DEF PrepareMarker, Due, At
  <1>2. job[r] \in Job
    BY <1>1, RunningJob
  <1>3. j \in Job
    BY <1>2, FieldType, StepNames
  <1>4. /\ Kept(j, job[r]) /\ j.step = After["prepare"]
        /\ j.healthy = job[r].healthy /\ j.shouldSend = job[r].shouldSend
    BY <1>2 DEF Job, Kept, After
  <1> HIDE DEF j
  <1> QED
    BY <1>1, <1>3, <1>4, Executed

LEMMA VerifyRecoverySafe ==
  ASSUME IInv, NEW r \in Runs, VerifyRecovery(r)
  PROVE  IInv'
  <1> DEFINE j == [job[r] EXCEPT !.step = "ledger", !.verified = TRUE]
  <1>1. /\ Running(r) /\ SetJob(r, j) /\ UNCHANGED <<others, artifacts>>
        /\ job[r].step = "verify"
    BY DEF VerifyRecovery, Due, At
  <1>2. job[r] \in Job
    BY <1>1, RunningJob
  <1>3. j \in Job
    BY <1>2, FieldType, StepNames
  <1>4. /\ Kept(j, job[r]) /\ j.step = After["verify"]
        /\ j.healthy = job[r].healthy /\ j.shouldSend = job[r].shouldSend
    BY <1>2 DEF Job, Kept, After
  <1> HIDE DEF j
  <1> QED
    BY <1>1, <1>3, <1>4, Executed

LEMMA DeliveryGateSafe ==
  ASSUME IInv, NEW r \in Runs, DeliveryGate(r)
  PROVE  IInv'
  <1> DEFINE send == ~TooEarly(r) /\ GateSends(r, TodayKey(r))
             j == [job[r] EXCEPT !.step = "calendar", !.shouldSend = send]
  <1>1. /\ Running(r) /\ SetJob(r, j) /\ UNCHANGED <<others, artifacts>>
        /\ job[r].step = "gate"
    BY DEF DeliveryGate, Due, At
  <1>2. job[r] \in Job
    BY <1>1, RunningJob
  <1>3. send \in BOOLEAN
    OBVIOUS
  <1> HIDE DEF send
  <1>4. j \in Job
    BY <1>2, <1>3, FieldType, StepNames
  <1>5. Kept(j, job[r]) /\ j.step = After["gate"] /\ j.healthy = job[r].healthy
    BY <1>2 DEF Job, Kept, After
  <1> HIDE DEF j
  <1> QED
    BY <1>1, <1>4, <1>5, Executed

LEMMA CompletedDayRange ==
  ASSUME NEW d \in Days, NEW h \in Hours
  PROVE  /\ CompletedDay[d, h] \in Nat
         /\ CompletedDay[d, h] <= d
         /\ d <= CompletedDay[d, h] + MaxGap
  <1>1. <<d, h>> \in Days \X Hours
    OBVIOUS
  <1>2. CompletedDay[d, h] \in Nat
    BY <1>1, CalendarAssumption
  <1> QED
    BY <1>2, CalendarAssumption

\* The day and the target are read from one clock.
LEMMA CalendarSafe ==
  ASSUME IInv, NEW r \in Runs, Calendar(r)
  PROVE  IInv'
  <1> DEFINE goal == IF input[r].mode = "realtime" THEN day ELSE CompletedDay[day, hour]
             trade == day \in TradeDays
             j == [job[r] EXCEPT !.step = "restore", !.today = day, !.tradeDay = trade,
                                 !.target = goal]
  <1>1. /\ Running(r) /\ SetJob(r, j) /\ UNCHANGED <<others, artifacts>>
        /\ job[r].step = "calendar"
    BY DEF Calendar, Due, At
  <1>2. job[r] \in Job /\ JobSafe(r, job[r])
    BY <1>1, RunningJob
  <1>3. /\ day \in Nat /\ hour \in 0 .. 23 /\ MaxGap \in Nat
        /\ goal \in Nat /\ goal <= day /\ day <= goal + MaxGap
    <2>1. day \in Days /\ hour \in Hours
      BY DEF IInv, TypeOK
    <2>2. day \in Nat /\ hour \in 0 .. 23 /\ MaxGap \in Nat
      BY <2>1, CalendarAssumption
    <2> DEFINE c == CompletedDay[day, hour]
    <2>3. c \in Nat /\ c <= day /\ day <= c + MaxGap
      BY <2>1, CompletedDayRange
    <2>4. goal = day \/ goal = c
      OBVIOUS
    <2> HIDE DEF goal, c
    <2> QED
      BY <2>2, <2>3, <2>4
  <1>4. trade \in BOOLEAN
    OBVIOUS
  <1> HIDE DEF goal, trade
  <1>5. j \in Job
    BY <1>2, <1>3, <1>4, FieldType, StepNames
  <1>6. /\ j.step = "restore" /\ j.today = day /\ j.target = goal
        /\ j.since = job[r].since /\ j.exit = job[r].exit /\ j.sent = job[r].sent
        /\ j.intent = job[r].intent /\ j.resultDay = job[r].resultDay
    BY <1>2 DEF Job
  <1> HIDE DEF j
  <1>7. Targeted(j)
    BY <1>2, <1>3, <1>6 DEF JobSafe, Targeted, Clock, Job
  <1>8. JobSafe(r, j)
    BY <1>1, <1>2, <1>6, <1>7
    DEF JobSafe, BeforeSend, BeforeIntent, BeforeResultDay, BeforeSignal
  <1> QED
    BY <1>1, <1>5, <1>8, QuietStep

LEMMA SignalIf ==
  ASSUME NEW r \in Runs, job[r].step = "signal", StepIf(r)
  PROVE  job[r].healthy /\ job[r].shouldSend
  BY DEF StepIf, LedgerPathIf

LEMMA ExtendType ==
  ASSUME TypeOK, NEW r \in Runs, NEW chain \in SUBSET (Nat \X Runs), NEW target
  PROVE  Extend(chain, target, r) \in SUBSET (Nat \X Runs)
  <1>1. ASSUME NEW d \in TradeDays
        PROVE  <<d, r>> \in Nat \X Runs
    BY CalendarAssumption
  <1>2. ASSUME NEW e \in Extend(chain, target, r)
        PROVE  e \in Nat \X Runs
    <2>1. e \in chain \/ \E d \in TradeDays : e = <<d, r>>
      BY DEF Extend
    <2> QED
      BY <1>1, <2>1
  <1> QED
    BY <1>2

LEMMA RunSignalSafe ==
  ASSUME IInv, NEW r \in Runs, RunSignal(r)
  PROVE  IInv'
  <1>1. /\ Running(r) /\ UNCHANGED <<others, artifacts>>
        /\ job[r].step = "signal" /\ StepIf(r)
    BY DEF RunSignal, Due, At
  <1>2. job[r] \in Job /\ JobSafe(r, job[r])
    BY <1>1, RunningJob
  <1>3. Targeted(job[r])
    BY <1>1, <1>2, SignalIf DEF JobSafe
  <1> DEFINE key == [day |-> job[r].target, mode |-> input[r].mode]
             chain == IF input[r].mode = "realtime" THEN job[r].chain
                      ELSE Extend(job[r].chain, job[r].target, r)
             good == [job[r] EXCEPT !.step = "build", !.ran = "success", !.exit = "zero",
                                    !.key = key, !.chain = chain]
             bad == [job[r] EXCEPT !.step = "build", !.ran = "success", !.exit = "nonzero"]
  <1>4. CASE SetJob(r, good)
    <2>1. key \in Key
      <3>1. input[r].mode \in Modes
        <4>1. input[r] \in Input \/ input[r] = NoInput
          BY InputsAssumption DEF IInv, TypeOK
        <4> QED
          BY <4>1 DEF Input, NoInput, Modes
      <3> QED
        BY <1>2, <3>1 DEF Key, SignalDays, Job
    <2>2. chain \in SUBSET (Nat \X Runs)
      <3>1. job[r].chain \in SUBSET (Nat \X Runs)
        BY <1>2 DEF Job
      <3> QED
        BY <3>1, ExtendType DEF IInv
    <2> HIDE DEF chain
    <2>3. good \in Job
      <3> HIDE DEF key
      <3> QED
        BY <1>2, <2>1, <2>2, FieldType, StepNames
    <2>4. /\ good.step = "build" /\ good.key = key /\ good.exit = "zero"
          /\ good.today = job[r].today /\ good.target = job[r].target
          /\ good.since = job[r].since /\ good.sent = job[r].sent
          /\ good.intent = job[r].intent /\ good.resultDay = job[r].resultDay
      BY <1>2 DEF Job
    <2> HIDE DEF good
    <2>5. JobSafe(r, good)
      BY <1>1, <1>2, <1>3, <2>4
      DEF JobSafe, Targeted, BeforeSend, BeforeIntent, BeforeResultDay, BeforeSignal
    <2> QED
      BY <1>1, <1>4, <2>3, <2>5, QuietStep
  <1>5. CASE SetJob(r, bad)
    <2>1. bad \in Job
      BY <1>2, FieldType, StepNames
    <2>2. /\ bad.step = "build" /\ bad.exit = "nonzero"
          /\ bad.since = job[r].since /\ bad.sent = job[r].sent
          /\ bad.intent = job[r].intent /\ bad.resultDay = job[r].resultDay
      BY <1>2 DEF Job
    <2> HIDE DEF bad
    <2>3. JobSafe(r, bad)
      BY <1>1, <1>2, <2>2
      DEF JobSafe, BeforeSend, BeforeIntent, BeforeResultDay, BeforeSignal
    <2> QED
      BY <1>1, <1>5, <2>1, <2>3, QuietStep
  <1> QED
    BY <1>4, <1>5 DEF RunSignal

\* Every intent of the target's key is still live: the target is at most MaxGap
\* days before the job's day and the job's day at most one before now.
LEMMA IntentsAreLive ==
  ASSUME IInv, NEW r \in Runs, Running(r), job[r].exit = "zero",
         NEW i \in intents, i.key = job[r].key
  PROVE  Live(i)
  <1>1. job[r] \in Job /\ JobSafe(r, job[r])
    BY RunningJob
  <1>2. /\ Targeted(job[r]) /\ i.key.day = job[r].target
        /\ Clock(day, hour) <= job[r].since + MaxRunHours
    BY <1>1 DEF JobSafe
  <1>3. i.key.day <= i.created
    BY DEF IInv, IntentDated
  <1>4. day \in Nat /\ hour \in 0 .. 23 /\ i.created \in Nat
    BY CalendarAssumption DEF IInv, TypeOK, Artifact
  <1>5. job[r].today \in Nat /\ job[r].target \in Nat /\ job[r].since \in Nat
    BY <1>1 DEF Job
  <1>6. MaxRunHours \in 0 .. 24 /\ MaxGap \in Nat /\ Retention > MaxGap + 1
        /\ Retention \in Nat
    BY CalendarAssumption, RetentionAssumption
  <1>7. day <= job[r].today + 1
    BY <1>2, <1>4, <1>5, <1>6 DEF Targeted, Clock
  <1> QED
    BY <1>2, <1>3, <1>4, <1>5, <1>6, <1>7 DEF Targeted, Live

LEMMA ResultDayGateSafe ==
  ASSUME IInv, NEW r \in Runs, ResultDayGate(r)
  PROVE  IInv'
  <1> DEFINE answer == IF GateSends(r, job[r].key) THEN "send" ELSE "skip"
             j == [job[r] EXCEPT !.step = "intent", !.resultDay = answer]
  <1>1. /\ Running(r) /\ SetJob(r, j) /\ UNCHANGED <<others, artifacts>>
        /\ job[r].step = "resultgate" /\ ~GateBlocks(r, job[r].key)
    BY DEF ResultDayGate, Due, At
  <1>2. job[r] \in Job /\ JobSafe(r, job[r])
    BY <1>1, RunningJob
  <1>3. answer \in {"send", "skip"}
    OBVIOUS
  <1>4. j \in Job
    <2> HIDE DEF answer
    <2> QED
      BY <1>2, <1>3, FieldType, StepNames
  <1>5. /\ j.step = "intent" /\ j.resultDay = answer /\ j.key = job[r].key
        /\ j.exit = job[r].exit /\ j.today = job[r].today /\ j.target = job[r].target
        /\ j.since = job[r].since /\ j.sent = job[r].sent /\ j.intent = job[r].intent
    BY <1>2 DEF Job
  <1>6. ASSUME answer = "send", Automatic(r, j), NEW i \in intents
        PROVE  i.key # j.key
    <2>1. ~MarkerExists(job[r].key) /\ ~PendingSendExists(job[r].key)
      BY <1>1, <1>6, Zenon DEF GateSends, GateBlocks, Automatic
    <2>2. i.key = job[r].key => Live(i)
      BY <1>1, <1>5, <1>6, IntentsAreLive DEF Automatic
    <2> QED
      BY <1>5, <2>1, <2>2 DEF PendingSendExists
  <1> HIDE DEF j, answer
  <1>7. JobSafe(r, j)
    BY <1>1, <1>2, <1>5, <1>6
    DEF JobSafe, Targeted, BeforeSend, BeforeIntent, BeforeResultDay, BeforeSignal
  <1> QED
    BY <1>1, <1>4, <1>7, QuietStep

LEMMA CancelSafe ==
  ASSUME IInv, NEW r \in Runs, Cancel(r)
  PROVE  IInv'
  <1> DEFINE j == [job[r] EXCEPT !.healthy = FALSE, !.cancelled = TRUE]
  <1>1. Running(r) /\ SetJob(r, j) /\ UNCHANGED <<others, artifacts>>
    BY DEF Cancel, others, artifacts
  <1>2. job[r] \in Job /\ JobSafe(r, job[r])
    BY <1>1, RunningJob
  <1>3. j \in Job
    BY <1>2 DEF Job
  <1>4. /\ j.step = job[r].step /\ j.resultDay = job[r].resultDay /\ j.key = job[r].key
        /\ j.exit = job[r].exit /\ j.today = job[r].today /\ j.target = job[r].target
        /\ j.since = job[r].since /\ j.sent = job[r].sent /\ j.intent = job[r].intent
        /\ j.healthy = FALSE
    BY <1>2 DEF Job
  <1> HIDE DEF j
  <1>5. JobSafe(r, j)
    BY <1>2, <1>4 DEF JobSafe, Targeted, Automatic
  <1> QED
    BY <1>1, <1>3, <1>5, QuietStep

-----------------------------------------------------------------------------
(* Dispatch, the concurrency group and the clock *)

\* The conjuncts of the invariant that speak about the artifacts and mails only.
Evident == IntentBeforeMail /\ IntentDated /\ AtMostOneNormalMail /\ MarkerMeansAccepted

LEMMA EvidentKept ==
  ASSUME IInv, UNCHANGED <<day, artifacts>>
  PROVE  Evident'
  BY DEF IInv, Evident, artifacts, IntentBeforeMail, NormalMails, IntentDated,
         AtMostOneNormalMail, MarkerMeansAccepted

\* A step that starts no job and leaves the running one alone.
LEMMA NothingStarts ==
  ASSUME IInv, TypeOK', UNCHANGED <<day, hour, artifacts>>,
         \A q \in Runs : Running(q)' =>
           /\ Running(q) /\ job'[q] = job[q] /\ input'[q] = input[q]
           /\ attempt'[q] = attempt[q]
  PROVE  IInv'
  <1>1. Evident'
    BY EvidentKept
  <1>2. OneRunning'
    BY DEF IInv, OneRunning
  <1>3. ASSUME NEW q \in Runs, Running(q)' PROVE JobSafe(q, job[q])'
    <2>1. JobSafe(q, job[q])
      BY <1>3 DEF IInv
    <2>2. /\ job'[q] = job[q] /\ input'[q] = input[q] /\ attempt'[q] = attempt[q]
          /\ UNCHANGED <<day, hour, artifacts>>
      BY <1>3
    <2> QED
      BY <2>1, <2>2 DEF JobSafe, Targeted, Automatic, NormalMails, Clock, artifacts
  <1> QED
    BY <1>1, <1>2, <1>3 DEF IInv, Evident

LEMMA EnqueueType ==
  ASSUME TypeOK, NEW r \in Runs, Enqueue(r)
  PROVE  /\ phase' \in [Runs -> {"absent", "pending", "running"} \cup Concluded]
         /\ \A q \in Runs : Running(q)' => Running(q) /\ q # r
  BY DEF TypeOK, Enqueue, Running, Concluded

LEMMA DispatchSafe ==
  ASSUME IInv, NEW r \in Runs, Dispatch(r)
  PROVE  IInv'
  <1> USE DEF artifacts
  <1>1. PICK i \in Inputs : input' = [input EXCEPT ![r] = i]
    BY DEF Dispatch
  <1>2. /\ attempt' = [attempt EXCEPT ![r] = 1] /\ Enqueue(r)
        /\ UNCHANGED <<day, hour, job, artifacts>>
    BY DEF Dispatch
  <1>3. TypeOK'
    BY <1>1, <1>2, EnqueueType DEF IInv, TypeOK
  <1> QED
    BY <1>1, <1>2, <1>3, EnqueueType, NothingStarts DEF IInv, TypeOK

LEMMA RerunSafe ==
  ASSUME IInv, NEW r \in Runs, Rerun(r)
  PROVE  IInv'
  <1> USE DEF artifacts
  <1>1. /\ attempt' = [attempt EXCEPT ![r] = @ + 1] /\ Enqueue(r)
        /\ UNCHANGED <<day, hour, input, job, artifacts>>
    BY DEF Rerun
  <1>2. TypeOK'
    BY <1>1, EnqueueType DEF IInv, TypeOK
  <1> QED
    BY <1>1, <1>2, EnqueueType, NothingStarts DEF IInv, TypeOK

\* Ending the job of r: Crash and Finish.
LEMMA EndSafe ==
  ASSUME IInv, NEW r \in Runs, NEW c \in Concluded, phase' = [phase EXCEPT ![r] = c],
         SetJob(r, FreshJob(0)), UNCHANGED <<day, hour, input, attempt, artifacts>>
  PROVE  IInv'
  <1>1. TypeOK'
    BY FreshJobType DEF IInv, TypeOK, SetJob, artifacts
  <1>2. \A q \in Runs : Running(q)' => Running(q) /\ q # r
    BY DEF IInv, TypeOK, Running, Concluded
  <1> QED
    BY <1>1, <1>2, NothingStarts DEF IInv, TypeOK, SetJob

LEMMA CrashSafe ==
  ASSUME IInv, NEW r \in Runs, Crash(r)
  PROVE  IInv'
  BY EndSafe DEF Crash, Concluded

LEMMA FinishSafe ==
  ASSUME IInv, NEW r \in Runs, Finish(r)
  PROVE  IInv'
  <1>1. Conclusion(r) \in Concluded
    BY DEF Conclusion, Concluded
  <1> QED
    BY <1>1, EndSafe DEF Finish

LEMMA StartJobSafe ==
  ASSUME IInv, NEW r \in Runs, StartJob(r)
  PROVE  IInv'
  <1> USE DEF artifacts
  <1> DEFINE j == FreshJob(Clock(day, hour))
  <1>1. /\ phase' = [phase EXCEPT ![r] = "running"] /\ SetJob(r, j)
        /\ UNCHANGED <<day, hour, input, attempt, artifacts>>
        /\ \A q \in Runs : ~Running(q)
    BY DEF StartJob, GroupFree
  <1>2. day \in Nat /\ hour \in Nat /\ Clock(day, hour) \in Nat
    <2>1. day \in Nat /\ hour \in 0 .. 23
      BY CalendarAssumption DEF IInv, TypeOK
    <2> QED
      BY <2>1 DEF Clock
  <1>3. TypeOK'
    BY <1>1, <1>2, FreshJobType DEF IInv, TypeOK, SetJob
  <1>4. \A q \in Runs : Running(q)' => q = r
    BY <1>1 DEF IInv, TypeOK, Running
  <1>5. Evident'
    BY <1>1, EvidentKept
  <1>6. JobSafe(r, job[r])'
    <2>1. job'[r] = j
      BY <1>1 DEF IInv, TypeOK, SetJob
    <2>2. /\ j.step = "classify" /\ j.exit = "none" /\ j.resultDay = "none"
          /\ j.intent = FALSE /\ j.sent = "no" /\ j.since = Clock(day, hour)
      BY DEF FreshJob
    <2> HIDE DEF j
    <2> QED
      BY <1>1, <1>2, <2>1, <2>2, RetentionAssumption
      DEF JobSafe, BeforeSend, BeforeIntent, BeforeResultDay, BeforeSignal, Clock
  <1> QED
    BY <1>3, <1>4, <1>5, <1>6 DEF IInv, OneRunning, Evident

\* The clock only moves forward, and never past the limit of a running job.
LEMMA TickSafe ==
  ASSUME IInv, Tick
  PROVE  IInv'
  <1> USE DEF artifacts
  <1>1. PICK d \in Days, h \in Hours :
          /\ Clock(d, h) > Clock(day, hour) /\ day' = d /\ hour' = h
          /\ \A r \in Runs : Running(r) => Clock(d, h) <= job[r].since + MaxRunHours
    BY DEF Tick
  <1>2. UNCHANGED <<input, phase, attempt, job, artifacts>>
    BY DEF Tick
  <1>3. /\ day \in Nat /\ hour \in 0 .. 23 /\ d \in Nat /\ h \in 0 .. 23
    BY CalendarAssumption DEF IInv, TypeOK
  <1>4. day <= d
    BY <1>1, <1>3 DEF Clock
  <1>5. TypeOK'
    BY <1>1, <1>2 DEF IInv, TypeOK
  <1>6. OneRunning' /\ IntentBeforeMail' /\ AtMostOneNormalMail' /\ MarkerMeansAccepted'
    BY <1>2 DEF IInv, OneRunning, Running, IntentBeforeMail, NormalMails,
                AtMostOneNormalMail, MarkerMeansAccepted
  <1>7. IntentDated'
    <2>1. \A i \in intents : i.created \in Nat
      BY CalendarAssumption DEF IInv, TypeOK, Artifact
    <2> QED
      BY <1>1, <1>2, <1>3, <1>4, <2>1 DEF IInv, IntentDated
  <1>8. ASSUME NEW q \in Runs, Running(q)' PROVE JobSafe(q, job[q])'
    <2>1. Running(q) /\ job'[q] = job[q] /\ input'[q] = input[q]
          /\ attempt'[q] = attempt[q]
      BY <1>2, <1>8 DEF Running
    <2>2. job[q] \in Job /\ JobSafe(q, job[q])
      BY <2>1, RunningJob
    <2>3. job[q].since \in Nat /\ job[q].today \in Nat /\ MaxRunHours \in Nat
      BY <2>2, RetentionAssumption DEF Job
    <2>4. job[q].since <= Clock(d, h) /\ Clock(d, h) <= job[q].since + MaxRunHours
      BY <1>1, <1>3, <2>1, <2>2, <2>3 DEF JobSafe, Clock
    <2>5. Targeted(job[q]) => Targeted(job[q])'
      BY <1>1, <1>2, <1>3, <1>4, <2>3 DEF Targeted
    <2> QED
      BY <1>1, <1>2, <2>1, <2>2, <2>4, <2>5 DEF JobSafe, Automatic, NormalMails, Clock
  <1> QED
    BY <1>5, <1>6, <1>7, <1>8 DEF IInv

-----------------------------------------------------------------------------
(* Steps that leave evidence *)

LEMMA OnlyRuns ==
  ASSUME IInv, NEW r \in Runs, Running(r), phase' = phase,
         NEW q \in Runs, Running(q)'
  PROVE  q = r
  BY DEF IInv, OneRunning, Running

LEMMA IntentStepIf ==
  ASSUME NEW r \in Runs, job[r].step = "intent", StepIf(r)
  PROVE  job[r].resultDay = "send" /\ job[r].exit = "zero"
  BY DEF StepIf, IntentIf

LEMMA PersistIntentSafe ==
  ASSUME IInv, NEW r \in Runs, PersistIntent(r)
  PROVE  IInv'
  <1> USE DEF others
  <1> DEFINE e == Evidence(r)
  <1>1. /\ Running(r) /\ job[r].step = "intent" /\ StepIf(r)
        /\ intents' = intents \cup {e}
        /\ UNCHANGED <<others, markers, ledgers, mails>>
    BY DEF PersistIntent, Due, At
  <1>2. PICK ok \in BOOLEAN :
          SetJob(r, [job[r] EXCEPT !.step = "send", !.intent = ok, !.healthy = ok])
    BY DEF PersistIntent
  <1> DEFINE j == [job[r] EXCEPT !.step = "send", !.intent = ok, !.healthy = ok]
  <1>3. job[r] \in Job /\ JobSafe(r, job[r])
    BY <1>1, RunningJob
  <1>4. j \in Job
    BY <1>3, FieldType, StepNames
  <1>5. job' = [job EXCEPT ![r] = j] /\ job'[r] = j
    BY <1>2 DEF SetJob, IInv, TypeOK
  <1>6. /\ j.step = "send" /\ j.resultDay = job[r].resultDay /\ j.key = job[r].key
        /\ j.exit = job[r].exit /\ j.today = job[r].today /\ j.target = job[r].target
        /\ j.since = job[r].since /\ j.sent = job[r].sent
    BY <1>3 DEF Job
  <1>7. e \in Artifact /\ e.key = job[r].key /\ e.run = r /\ e.attempt = attempt[r]
        /\ e.created = day
    BY EvidenceType DEF IInv, Evidence
  <1>8. job[r].exit = "zero" /\ job[r].resultDay = "send"
    BY <1>1, IntentStepIf
  <1>9. /\ Automatic(r, job[r]) => \A i \in intents : i.key # e.key
        /\ e.key.day = job[r].target /\ e.key.day <= day
    <2>1. Targeted(job[r]) /\ e.key.day = job[r].target
      BY <1>3, <1>7, <1>8 DEF JobSafe
    <2>2. day \in Nat /\ job[r].today \in Nat /\ job[r].target \in Nat
      BY <1>3, CalendarAssumption DEF IInv, TypeOK, Job
    <2> QED
      BY <1>1, <1>3, <1>7, <1>8, <2>1, <2>2 DEF JobSafe, Targeted
  <1> HIDE DEF e, j
  <1>10. TypeOK'
    BY <1>1, <1>4, <1>5, <1>7 DEF IInv, TypeOK
  <1>11. OneRunning' /\ AtMostOneNormalMail' /\ MarkerMeansAccepted'
    BY <1>1 DEF IInv, OneRunning, Running, AtMostOneNormalMail, NormalMails,
                MarkerMeansAccepted
  <1>12. IntentBeforeMail'
    BY <1>1 DEF IInv, IntentBeforeMail, NormalMails
  <1>13. IntentDated'
    <2>1. day \in Nat
      BY CalendarAssumption DEF IInv, TypeOK
    <2> QED
      BY <1>1, <1>7, <1>9, <2>1 DEF IInv, IntentDated
  <1>14. JobSafe(r, job[r])'
    <2>1. Automatic(r, job[r]) => \A m \in NormalMails : m.key # e.key
      BY <1>9 DEF IInv, IntentBeforeMail
    <2>2. \A i \in intents' : i = e \/ i \in intents
      BY <1>1
    <2>3. e \in intents'
      BY <1>1
    <2> QED
      BY <1>1, <1>3, <1>5, <1>6, <1>7, <1>8, <1>9, <2>1, <2>2, <2>3
      DEF JobSafe, Targeted, Automatic, NormalMails, Clock,
          BeforeSend, BeforeIntent, BeforeResultDay, BeforeSignal
  <1> QED
    BY <1>1, <1>10, <1>11, <1>12, <1>13, <1>14, OnlyRuns DEF IInv

LEMMA SendStepIf ==
  ASSUME NEW r \in Runs, job[r].step = "send", StepIf(r)
  PROVE  (job[r].exit = "zero" /\ job[r].intent) \/ job[r].exit = "nonzero"
  BY DEF StepIf, SendIf

LEMMA MailType ==
  ASSUME TypeOK, NEW r \in Runs
  PROVE  Mail(r) \in Message
  <1>1. /\ job[r].key \in Key \cup {NoKey} /\ job[r].chain \subseteq Nat \X Runs
        /\ attempt[r] \in Nat
    BY DEF TypeOK, Job
  <1> DEFINE kind == Kind(r)
             key == IF job[r].exit = "nonzero" THEN NoKey ELSE job[r].key
             src == {e \in job[r].chain : e[1] = job[r].key.day /\ job[r].exit = "zero"}
  <1>2. kind \in {"normal", "correction", "failure"}
    BY DEF Kind
  <1>3. key \in Key \cup {NoKey}
    BY <1>1
  <1>4. src \in SUBSET (Nat \X Runs)
    BY <1>1
  <1>5. Mail(r) = [kind |-> kind, run |-> r, attempt |-> attempt[r], key |-> key, src |-> src]
    BY DEF Mail
  <1> HIDE DEF kind, key, src
  <1> QED
    BY <1>1, <1>2, <1>3, <1>4, <1>5 DEF Message

\* What the mail of r says about the job of r.
LEMMA MailFacts ==
  ASSUME NEW r \in Runs
  PROVE  /\ Mail(r).run = r /\ Mail(r).attempt = attempt[r]
         /\ job[r].exit = "zero" => Mail(r).key = job[r].key /\ Mail(r).kind # "failure"
         /\ Mail(r).kind = "normal" => job[r].exit # "nonzero" /\ ~input[r].correction
  BY DEF Mail, Kind

\* The only mail a sending run can add to its key is the first normal one.
LEMMA MailIsNew ==
  ASSUME IInv, NEW r \in Runs, Running(r), job[r].step = "send", StepIf(r),
         Mail(r).kind = "normal"
  PROVE  /\ \A m \in NormalMails : m.key # Mail(r).key
         /\ \E i \in intents : i.key = Mail(r).key
         /\ \A i \in intents : i.key = Mail(r).key => i.run = r /\ i.attempt = attempt[r]
  <1>1. job[r].exit = "zero" /\ job[r].intent /\ ~input[r].correction
    BY SendStepIf, MailFacts
  <1>2. Mail(r).key = job[r].key
    BY <1>1, MailFacts
  <1>3. JobSafe(r, job[r])
    BY RunningJob
  <1> QED
    BY <1>1, <1>2, <1>3 DEF JobSafe, Automatic

LEMMA SendGmailSafe ==
  ASSUME IInv, NEW r \in Runs, SendGmail(r)
  PROVE  IInv'
  <1> USE DEF others
  <1>1. /\ Running(r) /\ job[r].step = "send" /\ StepIf(r)
        /\ UNCHANGED <<others, intents, markers, ledgers>>
    BY DEF SendGmail, Due, At
  <1>2. PICK sent \in {"ok", "failed"}, healthy \in BOOLEAN :
          /\ SetJob(r, [job[r] EXCEPT !.step = "verify", !.healthy = healthy, !.sent = sent])
          /\ mails' = mails \cup {Mail(r)} \/ (mails' = mails /\ sent = "failed")
    <2>1. job[r].healthy \in BOOLEAN
      BY DEF IInv, TypeOK, Job
    <2>2. CASE mails' = mails \cup {Mail(r)} /\ \E ok \in BOOLEAN :
                 SetJob(r, [job[r] EXCEPT !.step = "verify", !.healthy = @ /\ ok,
                                          !.sent = IF ok THEN "ok" ELSE "failed"])
      <3>1. PICK ok \in BOOLEAN :
                 SetJob(r, [job[r] EXCEPT !.step = "verify", !.healthy = @ /\ ok,
                                          !.sent = IF ok THEN "ok" ELSE "failed"])
        BY <2>2
      <3> DEFINE h == job[r].healthy /\ ok
                 s == IF ok THEN "ok" ELSE "failed"
      <3>2. h \in BOOLEAN /\ s \in {"ok", "failed"}
        OBVIOUS
      <3>3. SetJob(r, [job[r] EXCEPT !.step = "verify", !.healthy = h, !.sent = s])
        BY <3>1
      <3> HIDE DEF h, s
      <3> QED
        BY <2>2, <3>2, <3>3
    <2>3. CASE mails' = mails /\ SetJob(r, [job[r] EXCEPT !.step = "verify",
                                               !.healthy = FALSE, !.sent = "failed"])
      BY <2>3
    <2> QED
      BY <2>2, <2>3 DEF SendGmail
  <1> DEFINE j == [job[r] EXCEPT !.step = "verify", !.healthy = healthy, !.sent = sent]
  <1>3. job[r] \in Job /\ JobSafe(r, job[r])
    BY <1>1, RunningJob
  <1>4. j \in Job
    BY <1>3, FieldType, StepNames
  <1>5. job' = [job EXCEPT ![r] = j] /\ job'[r] = j
    BY <1>2 DEF SetJob, IInv, TypeOK
  <1>6. /\ j.step = "verify" /\ j.resultDay = job[r].resultDay /\ j.key = job[r].key
        /\ j.exit = job[r].exit /\ j.today = job[r].today /\ j.target = job[r].target
        /\ j.since = job[r].since /\ j.sent = sent /\ j.intent = job[r].intent
    BY <1>3 DEF Job
  <1> HIDE DEF j
  <1>7. mails' \subseteq mails \cup {Mail(r)} /\ mails \subseteq mails'
    BY <1>2
  <1>8. TypeOK'
    BY <1>1, <1>4, <1>5, <1>7, MailType DEF IInv, TypeOK
  <1>9. OneRunning' /\ IntentDated'
    BY <1>1 DEF IInv, OneRunning, Running, IntentDated
  <1>10. MarkerMeansAccepted'
    BY <1>1, <1>7 DEF IInv, MarkerMeansAccepted
  <1>11. IntentBeforeMail' /\ AtMostOneNormalMail'
    <2>1. \A m \in NormalMails' : m \in NormalMails \/ (m = Mail(r) /\ m.kind = "normal")
      BY <1>7 DEF NormalMails
    <2> QED
      BY <1>1, <2>1, MailIsNew DEF IInv, IntentBeforeMail, AtMostOneNormalMail
  <1>12. JobSafe(r, job[r])'
    <2>1. (sent = "ok" /\ job[r].exit = "zero") =>
            Mail(r) \in mails' /\ Mail(r).key = job[r].key /\ Mail(r).kind # "failure"
      BY <1>2, MailFacts
    <2> QED
      BY <1>1, <1>3, <1>5, <1>6, <2>1
      DEF JobSafe, Targeted, Automatic, Clock,
          BeforeSend, BeforeIntent, BeforeResultDay, BeforeSignal
  <1> QED
    BY <1>1, <1>8, <1>9, <1>10, <1>11, <1>12, OnlyRuns DEF IInv

\* A later step of a running job that changes neither clock, intents nor mails.
LEMMA LateStep ==
  ASSUME IInv, NEW r \in Runs, Running(r), UNCHANGED <<others, intents, mails>>,
         NEW j \in Job, SetJob(r, j), Kept(j, job[r]), j.step \in {"mark", "audit"},
         markers' \subseteq Artifact, MarkerMeansAccepted',
         ledgers' \in Seq([run : Runs, chain : SUBSET (Nat \X Runs)])
  PROVE  IInv'
  <1> USE DEF others
  <1>1. job[r] \in Job /\ JobSafe(r, job[r])
    BY RunningJob
  <1>2. job' = [job EXCEPT ![r] = j] /\ job'[r] = j
    BY DEF SetJob, IInv, TypeOK
  <1>3. /\ j.resultDay = job[r].resultDay /\ j.key = job[r].key
        /\ j.exit = job[r].exit /\ j.today = job[r].today /\ j.target = job[r].target
        /\ j.since = job[r].since /\ j.sent = job[r].sent /\ j.intent = job[r].intent
    BY DEF Kept
  <1>4. TypeOK'
    BY <1>2 DEF IInv, TypeOK
  <1>5. OneRunning' /\ IntentDated' /\ IntentBeforeMail' /\ AtMostOneNormalMail'
    BY DEF IInv, OneRunning, Running, IntentDated, IntentBeforeMail, NormalMails,
           AtMostOneNormalMail
  <1>6. JobSafe(r, job[r])'
    BY <1>1, <1>2, <1>3
    DEF JobSafe, Targeted, Automatic, Clock,
        BeforeSend, BeforeIntent, BeforeResultDay, BeforeSignal
  <1> QED
    BY <1>4, <1>5, <1>6, OnlyRuns DEF IInv

LEMMA UploadLedgerSafe ==
  ASSUME IInv, NEW r \in Runs, UploadLedger(r)
  PROVE  IInv'
  <1>1. /\ Running(r) /\ UNCHANGED <<others, intents, markers, mails>>
        /\ ledgers' = Append(ledgers, [run |-> r, chain |-> job[r].chain])
    BY DEF UploadLedger, Due, At
  <1>2. PICK ok \in BOOLEAN : SetJob(r, [job[r] EXCEPT !.step = "mark", !.healthy = ok])
    BY DEF UploadLedger
  <1> DEFINE j == [job[r] EXCEPT !.step = "mark", !.healthy = ok]
             Ledger == [run : Runs, chain : SUBSET (Nat \X Runs)]
  <1>3. job[r] \in Job
    BY <1>1, RunningJob
  <1>4. j \in Job /\ Kept(j, job[r]) /\ j.step = "mark"
    <2>1. j \in Job
      BY <1>3, FieldType, StepNames
    <2> QED
      BY <1>3, <2>1 DEF Job, Kept
  <1>5. ledgers' \in Seq(Ledger)
    <2>1. ledgers \in Seq(Ledger) /\ [run |-> r, chain |-> job[r].chain] \in Ledger
      BY <1>3 DEF IInv, TypeOK, Job
    <2> HIDE DEF Ledger
    <2> QED
      BY <1>1, <2>1
  <1>6. MarkerMeansAccepted' /\ markers' \subseteq Artifact
    BY <1>1 DEF IInv, TypeOK, MarkerMeansAccepted
  <1> HIDE DEF j
  <1> QED
    BY <1>1, <1>2, <1>4, <1>5, <1>6, LateStep DEF j

LEMMA MarkStepIf ==
  ASSUME NEW r \in Runs, job[r].step = "mark", StepIf(r)
  PROVE  job[r].sent = "ok" /\ job[r].exit = "zero"
  BY DEF StepIf, MarkIf

LEMMA MarkDeliveredSafe ==
  ASSUME IInv, NEW r \in Runs, MarkDelivered(r)
  PROVE  IInv'
  <1>1. /\ Running(r) /\ UNCHANGED <<others, intents, ledgers, mails>>
        /\ job[r].step = "mark" /\ StepIf(r)
        /\ markers' = markers \cup {Evidence(r)}
    BY DEF MarkDelivered, Due, At
  <1>2. PICK ok \in BOOLEAN : SetJob(r, [job[r] EXCEPT !.step = "audit", !.healthy = ok])
    BY DEF MarkDelivered
  <1> DEFINE j == [job[r] EXCEPT !.step = "audit", !.healthy = ok]
  <1>3. job[r] \in Job /\ JobSafe(r, job[r])
    BY <1>1, RunningJob
  <1>4. j \in Job /\ Kept(j, job[r]) /\ j.step = "audit"
    <2>1. j \in Job
      BY <1>3, FieldType, StepNames
    <2> QED
      BY <1>3, <2>1 DEF Job, Kept
  <1>5. markers' \subseteq Artifact
    BY <1>1, EvidenceType DEF IInv, TypeOK
  <1>6. \E m \in mails : m.key = Evidence(r).key /\ m.kind # "failure"
    BY <1>1, <1>3, MarkStepIf DEF JobSafe, Evidence
  <1>7. MarkerMeansAccepted'
    BY <1>1, <1>6 DEF IInv, MarkerMeansAccepted
  <1>8. ledgers' \in Seq([run : Runs, chain : SUBSET (Nat \X Runs)])
    BY <1>1 DEF IInv, TypeOK
  <1> HIDE DEF j
  <1> QED
    BY <1>1, <1>2, <1>4, <1>5, <1>7, <1>8, LateStep DEF j

-----------------------------------------------------------------------------
(* The theorems *)

LEMMA InitSafe == Init => IInv
  <1> SUFFICES ASSUME Init PROVE IInv
    OBVIOUS
  <1>1. FreshJob(0) \in Job
    BY FreshJobType
  <1> QED
    BY <1>1 DEF Init, IInv, TypeOK, OneRunning, Running, IntentBeforeMail, NormalMails,
                IntentDated, AtMostOneNormalMail, MarkerMeansAccepted

LEMMA NextSafe == IInv /\ [Next]_vars => IInv'
  <1> SUFFICES ASSUME IInv, [Next]_vars PROVE IInv'
    OBVIOUS
  <1>1. CASE Tick
    BY <1>1, TickSafe
  <1>2. ASSUME NEW r \in Runs, StartJob(r) PROVE IInv'
    BY <1>2, StartJobSafe
  <1>3. ASSUME NEW r \in Runs, JobStep(r) PROVE IInv'
    <2>1. CASE Classify(r) \/ RestoreLedger(r) \/ BuildDigest(r) \/ PrepareMarker(r)
               \/ VerifyRecovery(r)
      BY <2>1, ClassifySafe, RestoreLedgerSafe, BuildDigestSafe, PrepareMarkerSafe,
         VerifyRecoverySafe
    <2>2. CASE DeliveryGate(r) \/ Calendar(r) \/ RunSignal(r) \/ ResultDayGate(r)
      BY <2>2, DeliveryGateSafe, CalendarSafe, RunSignalSafe, ResultDayGateSafe
    <2>3. CASE PersistIntent(r) \/ SendGmail(r) \/ UploadLedger(r) \/ MarkDelivered(r)
      BY <2>3, PersistIntentSafe, SendGmailSafe, UploadLedgerSafe, MarkDeliveredSafe
    <2>4. CASE Raise(r) \/ Skip(r) \/ Finish(r)
      BY <2>4, BreakSafe, SkipSafe, FinishSafe DEF Raise
    <2> QED
      BY <1>3, <2>1, <2>2, <2>3, <2>4 DEF JobStep
  <1>4. ASSUME NEW r \in Runs, Environment(r) PROVE IInv'
    BY <1>4, DispatchSafe, RerunSafe, CrashSafe, CancelSafe, BreakSafe DEF Environment
  <1>5. CASE UNCHANGED vars
    <2>1. IInv /\ UNCHANGED vars
      BY <1>5
    <2> QED
      BY <2>1, NothingStarts DEF IInv, TypeOK, vars, artifacts, Running
  <1> QED
    BY <1>1, <1>2, <1>3, <1>4, <1>5 DEF Next

\* The inductive invariant holds in every reachable state.
THEOREM Invariance == Spec => []IInv
  BY InitSafe, NextSafe, PTL DEF Spec

\* The state stays within its types, in particular every run in the group has
\* one of the phases of a workflow run and every artifact a well-formed key.
THEOREM TypeCorrectness == Spec => []TypeOK
  <1>1. IInv => TypeOK
    BY DEF IInv
  <1> QED
    BY <1>1, Invariance, PTL

\* The two delivery gates, the intent and the concurrency group together never
\* let automation mail one signal day and mode twice.
THEOREM AtMostOnce == Spec => []AtMostOneNormalMail
  <1>1. IInv => AtMostOneNormalMail
    BY DEF IInv
  <1> QED
    BY <1>1, Invariance, PTL

\* A delivered marker is backed by a mail the SMTP server accepted.
THEOREM MarkerBacked == Spec => []MarkerMeansAccepted
  <1>1. IInv => MarkerMeansAccepted
    BY DEF IInv
  <1> QED
    BY <1>1, Invariance, PTL

\* Which actions add to the artifacts and mails, and what they add.
LEMMA WhoWrites ==
  ASSUME Next
  PROVE  \/ UNCHANGED <<intents, markers, mails>>
         \/ \E r \in Runs : /\ PersistIntent(r) \/ SendGmail(r) \/ MarkDelivered(r)
                            /\ Running(r) /\ StepIf(r) /\ UNCHANGED <<input, phase>>
  <1> USE DEF artifacts, others
  <1>1. CASE Tick
    BY <1>1 DEF Tick
  <1>2. ASSUME NEW r \in Runs, StartJob(r) \/ Environment(r)
        PROVE  UNCHANGED <<intents, markers, mails>>
    BY <1>2 DEF StartJob, Environment, Dispatch, Rerun, Crash, Cancel, Break
  <1>3. ASSUME NEW r \in Runs, JobStep(r)
        PROVE  \/ UNCHANGED <<intents, markers, mails>>
               \/ PersistIntent(r) \/ SendGmail(r) \/ MarkDelivered(r)
    <2>1. CASE Classify(r) \/ Raise(r) \/ DeliveryGate(r) \/ Calendar(r) \/ RestoreLedger(r)
      BY <2>1 DEF Classify, Raise, Break, DeliveryGate, Calendar, RestoreLedger
    <2>2. CASE RunSignal(r) \/ BuildDigest(r) \/ PrepareMarker(r) \/ ResultDayGate(r)
      BY <2>2 DEF RunSignal, BuildDigest, PrepareMarker, ResultDayGate
    <2>3. CASE VerifyRecovery(r) \/ UploadLedger(r) \/ Skip(r) \/ Finish(r)
      BY <2>3 DEF VerifyRecovery, UploadLedger, Skip, Finish
    <2> QED
      BY <1>3, <2>1, <2>2, <2>3 DEF JobStep
  <1>4. ASSUME NEW r \in Runs, PersistIntent(r) \/ SendGmail(r) \/ MarkDelivered(r)
        PROVE  Running(r) /\ StepIf(r) /\ UNCHANGED <<input, phase>>
    BY <1>4 DEF PersistIntent, SendGmail, MarkDelivered, Due, At
  <1> QED
    BY <1>1, <1>2, <1>3, <1>4 DEF Next

\* A dispatched run stays dispatched, with the inputs it was dispatched with.
LEMMA RunsStayDispatched ==
  ASSUME TypeOK, Next, NEW q \in Runs, phase[q] # "absent"
  PROVE  phase'[q] # "absent" /\ input'[q] = input[q]
  <1> USE DEF artifacts, others
  <1>1. CASE Tick
    BY <1>1 DEF Tick
  <1>2. ASSUME NEW r \in Runs, StartJob(r) \/ Environment(r)
        PROVE  phase'[q] # "absent" /\ input'[q] = input[q]
    BY <1>2 DEF TypeOK, StartJob, Environment, Dispatch, Rerun, Enqueue, Crash, Cancel, Break
  <1>3. ASSUME NEW r \in Runs, Finish(r)
        PROVE  phase'[q] # "absent" /\ input'[q] = input[q]
    BY <1>3 DEF TypeOK, Finish, Conclusion
  <1>4. ASSUME NEW r \in Runs, JobStep(r), ~Finish(r)
        PROVE  UNCHANGED <<phase, input>>
    BY <1>4 DEF JobStep, Classify, Raise, Break, DeliveryGate, Calendar, RestoreLedger,
                RunSignal, BuildDigest, PrepareMarker, ResultDayGate, PersistIntent,
                SendGmail, VerifyRecovery, UploadLedger, MarkDelivered, Skip
  <1> QED
    BY <1>1, <1>2, <1>3, <1>4 DEF Next

\* Once an intent exists, only the attempt that wrote it may still mail its key.
THEOREM UncertainStays == Spec => UncertainNeverRetried
  <1> DEFINE A == \A m \in mails' \ mails : m.kind = "normal" =>
                   \A i \in intents : i.key = m.key => i.run = m.run /\ i.attempt = m.attempt
  <1>1. ASSUME IInv, Next PROVE A
    <2>1. ASSUME NEW r \in Runs, SendGmail(r) PROVE A
      <3>1. /\ Running(r) /\ job[r].step = "send" /\ StepIf(r)
            /\ mails' \subseteq mails \cup {Mail(r)}
        BY <2>1 DEF SendGmail, Due, At
      <3> QED
        BY <1>1, <3>1, MailIsNew, MailFacts
    <2>2. ASSUME NEW r \in Runs, PersistIntent(r) \/ MarkDelivered(r) PROVE A
      BY <2>2 DEF PersistIntent, MarkDelivered
    <2> QED
      BY <1>1, <2>1, <2>2, WhoWrites
  <1>2. IInv /\ [Next]_vars => [A]_vars
    BY <1>1
  <1> QED
    BY <1>2, Invariance, PTL DEF Spec, UncertainNeverRetried

\* The evidence of a run is written after the run was dispatched, and its inputs
\* never change afterwards; a ledger-only run writes none.
Silent ==
  \A e \in intents \cup markers \cup mails :
    phase[e.run] # "absent" /\ ~input[e.run].ledger_only

\* A ledger-only repair leaves no intent, marker or mail.
THEOREM LedgerOnlySilence == Spec => []LedgerOnlyIsSilent
  <1>1. Init => Silent
    BY DEF Init, Silent
  <1>2. TypeOK /\ Silent /\ [Next]_vars => Silent'
    <2> SUFFICES ASSUME TypeOK, Silent, [Next]_vars PROVE Silent'
      OBVIOUS
    <2>1. ASSUME UNCHANGED <<intents, markers, mails>>,
                 \A q \in Runs : phase[q] # "absent" =>
                   phase'[q] # "absent" /\ input'[q] = input[q]
          PROVE  Silent'
      <3>1. \A e \in intents \cup markers \cup mails : e.run \in Runs
        BY DEF TypeOK, Artifact, Message
      <3> QED
        BY <2>1, <3>1 DEF Silent
    <2>2. ASSUME NEW r \in Runs, PersistIntent(r) \/ SendGmail(r) \/ MarkDelivered(r),
                 Running(r), StepIf(r), UNCHANGED <<input, phase>>
          PROVE  Silent'
      <3>1. ~input[r].ledger_only
        <4>1. CASE PersistIntent(r)
          BY <2>2, <4>1 DEF PersistIntent, Due, At, StepIf, IntentIf, SmtpAllowed
        <4>2. CASE SendGmail(r)
          BY <2>2, <4>2 DEF SendGmail, Due, At, StepIf, SendIf, SmtpAllowed
        <4>3. CASE MarkDelivered(r)
          BY <2>2, <4>3 DEF MarkDelivered, Due, At, StepIf, MarkIf, SmtpAllowed
        <4> QED
          BY <2>2, <4>1, <4>2, <4>3
      <3>2. (intents \cup markers \cup mails)' \subseteq
              intents \cup markers \cup mails \cup {Evidence(r), Mail(r)}
        BY <2>2 DEF PersistIntent, SendGmail, MarkDelivered
      <3>3. Evidence(r).run = r /\ Mail(r).run = r /\ phase[r] # "absent"
        BY <2>2 DEF Evidence, Mail, Running
      <3> QED
        BY <2>2, <3>1, <3>2, <3>3 DEF Silent
    <2>3. CASE UNCHANGED vars
      BY <2>1, <2>3 DEF vars
    <2>4. CASE Next /\ UNCHANGED <<intents, markers, mails>>
      <3>1. ASSUME NEW q \in Runs, phase[q] # "absent"
            PROVE  phase'[q] # "absent" /\ input'[q] = input[q]
        BY <2>4, <3>1, RunsStayDispatched
      <3> QED
        BY <2>1, <2>4, <3>1
    <2> QED
      BY <2>2, <2>3, <2>4, WhoWrites
  <1>3. Silent => LedgerOnlyIsSilent
    BY DEF Silent, LedgerOnlyIsSilent
  <1> QED
    BY <1>1, <1>2, <1>3, TypeCorrectness, PTL DEF Spec

-----------------------------------------------------------------------------
(* What the steps of the job leave behind *)

BeforeBuilt == BeforeSignal \cup {"build"}
BeforePrepared == BeforeBuilt \cup {"prepare"}
BeforeMark == BeforeSend \cup {"verify", "ledger", "mark"}

\* With the intents I: the report of the job is about a session, and an intent it was told of is its own.
Traced(r, j, I) ==
  /\ j.step \in BeforeBuilt => ~j.built
  /\ (j.built /\ j.exit = "zero") => j.key.day \in TradeDays
  /\ j.intent => \E i \in I : i.key = j.key /\ i.run = r

\* The ledger path of a healthy job that may mail: with the markers M, each step of it
\* has succeeded once it is passed.
OnPath(r, j) ==
  /\ j.healthy /\ SmtpAllowed(r) /\ j.shouldSend /\ (Manual(r) \/ j.tradeDay)
  /\ j.exit # "nonzero"
Reached(j, M) ==
  /\ j.step \notin BeforeSignal => j.exit = "zero" /\ j.ran = "success"
  /\ j.step \notin BeforeBuilt => j.built
  /\ j.step \notin BeforePrepared => j.prepared
  /\ j.step \notin BeforeResultDay =>
       j.resultDay = "send" \/ \E m \in M : m.key = j.key
  /\ (j.step \notin BeforeIntent /\ j.resultDay = "send") => j.intent
  /\ (j.step \notin BeforeSend /\ j.resultDay = "send") => j.sent = "ok"
  /\ (j.step \notin BeforeMark /\ j.resultDay = "send") => \E m \in M : m.key = j.key

\* Intents are of reports that may be promised, with the inputs of their run; a
\* correction is mailed after its intent.
IntentsNamed ==
  \A i \in intents : /\ i.key \in AbstractKeys /\ phase[i.run] # "absent"
                     /\ i.correction = input[i.run].correction
CorrectionsIntended ==
  \A m \in mails : m.kind = "correction" => \E i \in intents : i.key = m.key /\ i.correction

PathInv ==
  /\ IntentsNamed
  /\ CorrectionsIntended
  /\ \A r \in Runs : Running(r) => /\ Traced(r, job[r], intents)
                                   /\ OnPath(r, job[r]) => Reached(job[r], markers)
\* How a step of the running job, or its cancellation, changes the fields these
\* invariants read: each field is written by one step.
Moved(r, i, j) ==
  /\ j.step = After[i.step] \/ (j.step = i.step /\ ~j.healthy /\ j.built = i.built /\ j.ran = i.ran)
  /\ j.healthy => i.healthy
  /\ i.step # "gate" => j.shouldSend = i.shouldSend
  /\ i.step # "calendar" => j.tradeDay = i.tradeDay
  /\ i.step # "signal" => j.exit = i.exit /\ j.key = i.key /\ j.ran = i.ran
  /\ i.step # "build" => j.built = i.built
  /\ i.step # "prepare" => j.prepared = i.prepared
  /\ i.step # "resultgate" => j.resultDay = i.resultDay
  /\ i.step # "intent" => j.intent = i.intent
  /\ i.step \notin {"restore", "signal"} => j.chain = i.chain
  /\ i.step = "signal" => i.chain \subseteq j.chain
  /\ i.step # "send" => j.sent = i.sent
\* What a step has done if the job is healthy afterwards.
Achieved(r, i, j) ==
  (j.healthy /\ StepIf(r)) =>
    /\ i.step = "restore" => j.chain = LatestLedger
    /\ i.step = "signal" => j.ran = "success" /\ j.exit \in {"zero", "nonzero"}
    /\ i.step = "build" => j.built
    /\ i.step = "prepare" => j.prepared
    /\ i.step = "resultgate" =>
         j.resultDay = "send" \/ (SmtpAllowed(r) => \E m \in markers : m.key = j.key)
    /\ i.step = "intent" => j.intent
    /\ i.step = "send" => j.sent = "ok"
    /\ i.step = "ledger" => ledgers' = Append(ledgers, [run |-> r, chain |-> i.chain])
    /\ i.step = "mark" => \E m \in markers' : m.key = j.key
\* What it left as evidence, healthy or not.
Left(r, i, j) ==
  /\ (i.step = "signal" /\ j.ran = "success") => i.ran = "success" \/ (i.healthy /\ StepIf(r))
  /\ (i.step = "build" /\ j.built /\ j.exit = "zero") => i.built \/ j.key.day \in TradeDays
  /\ (i.step = "intent" /\ j.intent) =>
       i.intent \/ (i.resultDay = "send" /\ \E e \in intents' : e.key = j.key /\ e.run = r)

LEMMA Moves ==
  ASSUME IInv, NEW r \in Runs, Running(r),
         (JobStep(r) /\ ~Finish(r)) \/ Cancel(r) \/ Break(r)
  PROVE  Moved(r, job[r], job'[r]) /\ Achieved(r, job[r], job'[r]) /\ Left(r, job[r], job'[r])
  <1> DEFINE i == job[r]
             Goal(j) == Moved(r, i, j) /\ Achieved(r, i, j) /\ Left(r, i, j)
  <1>1. i \in Job /\ i.step \in StepName /\ job \in [Runs -> Job]
    BY RunningJob DEF IInv, TypeOK
  <1>2. \A j : SetJob(r, j) => job'[r] = j
    BY <1>1 DEF SetJob
  <1>3. CASE Classify(r)
    <2>1. i.step = "classify" /\ job'[r] = [i EXCEPT !.step = "gate"]
      BY <1>2, <1>3 DEF Classify, Due, At
    <2> QED
      BY <1>1, <2>1 DEF Job, Moved, Achieved, Left, After
  <1>4. CASE DeliveryGate(r)
    <2> DEFINE s == ~TooEarly(r) /\ GateSends(r, TodayKey(r))
    <2>1. i.step = "gate" /\ job'[r] = [i EXCEPT !.step = "calendar", !.shouldSend = s]
      BY <1>2, <1>4 DEF DeliveryGate, Due, At
    <2> HIDE DEF s
    <2> QED
      BY <1>1, <2>1 DEF Job, Moved, Achieved, Left, After
  <1>5. CASE Calendar(r)
    <2> DEFINE b == day \in TradeDays
               t == IF input[r].mode = "realtime" THEN day ELSE CompletedDay[day, hour]
    <2>1. i.step = "calendar" /\ job'[r] = [i EXCEPT !.step = "restore", !.today = day,
                                              !.tradeDay = b, !.target = t]
      BY <1>2, <1>5 DEF Calendar, Due, At
    <2> HIDE DEF b, t
    <2> QED
      BY <1>1, <2>1 DEF Job, Moved, Achieved, Left, After
  <1>6. CASE RestoreLedger(r)
    <2>1. i.step = "restore" /\ job'[r] = [i EXCEPT !.step = "signal", !.chain = LatestLedger]
      BY <1>2, <1>6 DEF RestoreLedger, Due, At
    <2> QED
      BY <1>1, <2>1 DEF Job, Moved, Achieved, Left, After
  <1>7. CASE RunSignal(r)
    <2> DEFINE k == [day |-> job[r].target, mode |-> input[r].mode]
               c == IF input[r].mode = "realtime" THEN job[r].chain
                    ELSE Extend(job[r].chain, job[r].target, r)
               a == [i EXCEPT !.step = "build", !.ran = "success", !.exit = "zero", !.key = k,
                              !.chain = c]
               b == [i EXCEPT !.step = "build", !.ran = "success", !.exit = "nonzero"]
    <2>1. i.step = "signal" /\ (job'[r] = a \/ job'[r] = b)
      BY <1>2, <1>7 DEF RunSignal, Due, At
    <2>2. i.chain \subseteq c /\ StepIf(r) /\ i.healthy
      BY <1>7, <2>1 DEF RunSignal, Due, StepIf, Extend
    <2> HIDE DEF k, c
    <2>3. ASSUME NEW j \in {a, b}
          PROVE  /\ j.step = "build" /\ j.ran = "success"
                 /\ j.exit \in {"zero", "nonzero"} /\ j.healthy = i.healthy
                 /\ j.shouldSend = i.shouldSend /\ j.tradeDay = i.tradeDay
                 /\ j.built = i.built /\ j.prepared = i.prepared
                 /\ j.resultDay = i.resultDay /\ j.intent = i.intent /\ j.sent = i.sent
                 /\ i.chain \subseteq j.chain
      <3>1. CASE j = a
        BY <1>1, <2>2, <3>1 DEF Job
      <3>2. CASE j = b
        BY <1>1, <3>2 DEF Job
      <3> QED
        BY <2>3, <3>1, <3>2
    <2> HIDE DEF a, b
    <2> QED
      BY <2>1, <2>2, <2>3 DEF Moved, Achieved, Left, After
  <1>8. CASE BuildDigest(r)
    <2>1. /\ i.step = "build" /\ job'[r] = [i EXCEPT !.step = "prepare", !.built = TRUE]
          /\ i.exit = "zero" => i.key.day \in TradeDays
      BY <1>2, <1>8 DEF BuildDigest, Due, At, SessionResult
    <2> QED
      BY <1>1, <2>1 DEF Job, Moved, Achieved, Left, After
  <1>9. CASE PrepareMarker(r)
    <2>1. i.step = "prepare" /\ job'[r] = [i EXCEPT !.step = "resultgate", !.prepared = TRUE]
      BY <1>2, <1>9 DEF PrepareMarker, Due, At
    <2> QED
      BY <1>1, <2>1 DEF Job, Moved, Achieved, Left, After
  <1>10. CASE ResultDayGate(r)
    <2> DEFINE d == IF GateSends(r, job[r].key) THEN "send" ELSE "skip"
    <2>1. i.step = "resultgate" /\ job'[r] = [i EXCEPT !.step = "intent", !.resultDay = d]
      BY <1>2, <1>10 DEF ResultDayGate, Due, At
    <2>2. d = "send" \/ \E m \in markers : m.key = i.key
      BY DEF GateSends, MarkerExists
    <2> HIDE DEF d
    <2> QED
      BY <1>1, <2>1, <2>2 DEF Job, Moved, Achieved, Left, After
  <1>11. CASE PersistIntent(r)
    <2>1. PICK ok \in BOOLEAN :
            /\ i.step = "intent" /\ intents' = intents \cup {Evidence(r)}
            /\ job'[r] = [i EXCEPT !.step = "send", !.intent = ok, !.healthy = ok]
      BY <1>2, <1>11 DEF PersistIntent, Due, At
    <2>2. Evidence(r) \in intents' /\ Evidence(r).key = i.key /\ Evidence(r).run = r
      BY <2>1 DEF Evidence
    <2>3. i.healthy /\ i.resultDay = "send"
      BY <1>11, <2>1 DEF PersistIntent, Due, StepIf, IntentIf
    <2> QED
      BY <1>1, <2>1, <2>2, <2>3 DEF Job, Moved, Achieved, Left, After
  <1>12. CASE SendGmail(r)
    <2>1. PICK h \in BOOLEAN, s \in {"ok", "failed"} :
            /\ i.step = "send" /\ job'[r] = [i EXCEPT !.step = "verify", !.healthy = h, !.sent = s]
            /\ h => i.healthy /\ s = "ok"
      <3>1. i.step = "send" /\ i.healthy \in BOOLEAN
        BY <1>1, <1>12 DEF SendGmail, Due, At, Job
      <3>2. CASE \E ok \in BOOLEAN :
                   SetJob(r, [job[r] EXCEPT !.step = "verify", !.healthy = @ /\ ok,
                                !.sent = IF ok THEN "ok" ELSE "failed"])
        <4>1. PICK ok \in BOOLEAN :
                job'[r] = [i EXCEPT !.step = "verify", !.healthy = i.healthy /\ ok,
                             !.sent = IF ok THEN "ok" ELSE "failed"]
          BY <1>2, <3>2
        <4>2. CASE ok
          <5>1. (i.healthy /\ ok) = i.healthy
            BY <3>1, <4>2
          <5> QED
            BY <3>1, <4>1, <4>2, <5>1
        <4>3. CASE ~ok
          <5>1. (i.healthy /\ ok) = FALSE
            BY <3>1, <4>3
          <5> QED
            BY <3>1, <4>1, <4>3, <5>1
        <4> QED
          BY <4>2, <4>3
      <3>3. CASE SetJob(r, [job[r] EXCEPT !.step = "verify", !.healthy = FALSE,
                              !.sent = "failed"])
        BY <1>2, <3>1, <3>3
      <3> QED
        BY <1>12, <3>2, <3>3 DEF SendGmail
    <2> QED
      BY <1>1, <2>1 DEF Job, Moved, Achieved, Left, After
  <1>13. CASE VerifyRecovery(r)
    <2>1. i.step = "verify" /\ job'[r] = [i EXCEPT !.step = "ledger", !.verified = TRUE]
      BY <1>2, <1>13 DEF VerifyRecovery, Due, At
    <2> QED
      BY <1>1, <2>1 DEF Job, Moved, Achieved, Left, After
  <1>14. CASE UploadLedger(r)
    <2>1. PICK ok \in BOOLEAN :
            /\ ledgers' = Append(ledgers, [run |-> r, chain |-> i.chain])
            /\ i.step = "ledger" /\ job'[r] = [i EXCEPT !.step = "mark", !.healthy = ok]
      BY <1>2, <1>14 DEF UploadLedger, Due, At
    <2>2. i.healthy
      BY <1>14, <2>1 DEF UploadLedger, Due, StepIf
    <2> QED
      BY <1>1, <2>1, <2>2 DEF Job, Moved, Achieved, Left, After
  <1>15. CASE MarkDelivered(r)
    <2>1. PICK ok \in BOOLEAN :
            /\ i.step = "mark" /\ markers' = markers \cup {Evidence(r)}
            /\ job'[r] = [i EXCEPT !.step = "audit", !.healthy = ok]
      BY <1>2, <1>15 DEF MarkDelivered, Due, At
    <2>2. Evidence(r) \in markers' /\ Evidence(r).key = i.key
      BY <2>1 DEF Evidence
    <2>3. i.healthy
      BY <1>15, <2>1 DEF MarkDelivered, Due, StepIf
    <2> QED
      BY <1>1, <2>1, <2>2, <2>3 DEF Job, Moved, Achieved, Left, After
  <1>16. CASE Skip(r)
    <2>1. ~StepIf(r) /\ job'[r] = [i EXCEPT !.step = After[i.step]]
      BY <1>2, <1>16 DEF Skip
    <2> QED
      BY <1>1, <2>1 DEF Job, Moved, Achieved, Left
  <1>17. CASE Break(r)
    <2> DEFINE x == IF job[r].step = "signal" THEN "failure" ELSE i.ran
    <2>1. job'[r] = [i EXCEPT !.healthy = FALSE, !.step = After[i.step], !.ran = x]
      BY <1>2, <1>17 DEF Break
    <2>2. x = IF i.step = "signal" THEN "failure" ELSE i.ran
      OBVIOUS
    <2> HIDE DEF x
    <2>3. ~job'[r].healthy /\ job'[r].ran = x
      BY <1>1, <2>1 DEF Job
    <2> QED
      BY <1>1, <2>1, <2>2, <2>3 DEF Job, Moved, Achieved, Left
  <1>18. CASE Cancel(r)
    <2>1. job'[r] = [i EXCEPT !.healthy = FALSE, !.cancelled = TRUE]
      BY <1>2, <1>18 DEF Cancel
    <2> QED
      BY <1>1, <2>1 DEF Job, Moved, Achieved, Left
  <1> QED
    BY <1>3, <1>4, <1>5, <1>6, <1>7, <1>8, <1>9, <1>10, <1>11, <1>12, <1>13, <1>14, <1>15,
       <1>16, <1>17, <1>18 DEF JobStep, Raise

\* Which steps have run, seen from the step the job has moved to.
LEMMA After_Before ==
  ASSUME NEW s \in StepName, NEW t, t = After[s]
  PROVE  /\ t \in BeforeBuilt => s \in BeforeBuilt /\ s # "build"
         /\ t \in BeforeBuilt <=> s \in BeforeSignal
         /\ t \notin BeforeSignal => s = "signal" \/ s \notin BeforeSignal
         /\ t \notin BeforeBuilt => s = "build" \/ s \notin BeforeBuilt
         /\ t \notin BeforePrepared => s = "prepare" \/ s \notin BeforePrepared
         /\ t \notin BeforeResultDay => s = "resultgate" \/ s \notin BeforeResultDay
         /\ t \notin BeforeIntent => s = "intent" \/ s \notin BeforeIntent
         /\ t \notin BeforeSend => s = "send" \/ s \notin BeforeSend
         /\ t \notin BeforeMark => s = "mark" \/ s \notin BeforeMark
  BY DEF After, StepName, BeforeSignal, BeforeBuilt, BeforePrepared, BeforeResultDay,
         BeforeIntent, BeforeSend, BeforeMark

\* On the ledger path no step is skipped.
LEMMA PathSteps ==
  ASSUME NEW r \in Runs, OnPath(r, job[r]), Reached(job[r], markers),
         job[r].step \in {"signal", "build", "prepare", "resultgate", "intent", "send", "mark"}
  PROVE  \/ StepIf(r)
         \/ job[r].step \in {"intent", "send", "mark"} /\ job[r].resultDay # "send"
  <1> USE DEF OnPath, Reached, LedgerPathIf, BeforeSignal, BeforeBuilt, BeforePrepared,
              BeforeResultDay, BeforeIntent, BeforeSend, BeforeMark
  <1>1. CASE job[r].step = "signal"
    BY <1>1 DEF StepIf
  <1>2. CASE job[r].step = "build"
    BY <1>2 DEF StepIf
  <1>3. CASE job[r].step = "prepare"
    BY <1>3 DEF StepIf, PrepareIf
  <1>4. CASE job[r].step = "resultgate"
    BY <1>4 DEF StepIf
  <1>5. CASE job[r].step = "intent"
    BY <1>5 DEF StepIf, IntentIf
  <1>6. CASE job[r].step = "send"
    BY <1>6 DEF StepIf, SendIf
  <1>7. CASE job[r].step = "mark"
    BY <1>7 DEF StepIf, MarkIf
  <1> QED
    BY <1>1, <1>2, <1>3, <1>4, <1>5, <1>6, <1>7

LEMMA MovedReached ==
  ASSUME IInv, NEW r \in Runs, Running(r), NEW j, OnPath(r, j),
         OnPath(r, job[r]) => Reached(job[r], markers),
         Moved(r, job[r], j), Achieved(r, job[r], j), markers \subseteq markers'
  PROVE  Reached(j, markers')
  <1> DEFINE i == job[r]
             s == job[r].step
  <1>1. i \in Job /\ JobSafe(r, i) /\ s \in StepName
    BY RunningJob
  <1>2. i.healthy /\ j.step = After[s]
    BY DEF Moved, OnPath
  <1>3. CASE s \in {"classify", "gate", "calendar", "restore"}
    <2>1. j.step \in BeforeSignal
      BY <1>2, <1>3 DEF After, BeforeSignal
    <2> QED
      BY <2>1 DEF Reached, BeforeSend, BeforeIntent, BeforeResultDay, BeforeBuilt,
                  BeforePrepared, BeforeMark
  <1>4. CASE s \notin {"classify", "gate", "calendar", "restore"}
    <2>1. OnPath(r, i)
      <3>1. j.shouldSend = i.shouldSend /\ j.tradeDay = i.tradeDay
        BY <1>4 DEF Moved
      <3>2. i.exit # "nonzero"
        <4>1. CASE s = "signal"
          BY <1>1, <4>1 DEF JobSafe, BeforeSignal
        <4>2. CASE s # "signal"
          BY <4>2 DEF Moved, OnPath
        <4> QED
          BY <4>1, <4>2
      <3> QED
        BY <1>2, <3>1, <3>2 DEF OnPath
    <2>2. Reached(i, markers)
      BY <2>1
    <2>3. SmtpAllowed(r) /\ j.exit # "nonzero" /\ j.healthy
      BY DEF OnPath
    <2>4. StepIf(r) \/ s \in {"verify", "ledger", "audit"}
            \/ (s \in {"intent", "send", "mark"} /\ i.resultDay # "send")
      BY <1>1, <1>4, <2>1, <2>2, PathSteps DEF StepName
    <2>5. CASE s = "signal"
      BY <1>2, <2>3, <2>4, <2>5
      DEF Moved, Achieved, Reached, After, BeforeSend, BeforeIntent, BeforeResultDay,
          BeforeBuilt, BeforePrepared, BeforeMark
    <2>6. CASE s # "signal"
      <3>1. j.exit = i.exit /\ j.key = i.key /\ j.ran = i.ran
        BY <2>6 DEF Moved
      <3>2. s \notin BeforeSignal
        BY <1>1, <1>4, <2>6 DEF StepName, BeforeSignal
      <3>3. j.exit = "zero" /\ j.ran = "success"
        BY <2>2, <3>1, <3>2 DEF Reached
      <3>4. j.step \notin BeforeBuilt => j.built
        BY <1>1, <1>2, <2>2, <2>3, <2>4, After_Before DEF Reached, Moved, Achieved
      <3>5. j.step \notin BeforePrepared => j.prepared
        BY <1>1, <1>2, <2>2, <2>3, <2>4, After_Before DEF Reached, Moved, Achieved
      <3>6. j.step \notin BeforeResultDay =>
              j.resultDay = "send" \/ \E m \in markers' : m.key = j.key
        BY <1>1, <1>2, <2>2, <2>3, <2>4, <3>1, After_Before DEF Reached, Moved, Achieved
      <3>7. s = "intent" \/ s \notin BeforeIntent => j.resultDay = i.resultDay
        BY DEF Moved, BeforeIntent, BeforeResultDay
      <3>8. s \notin BeforeSend => s \notin BeforeIntent
        BY DEF BeforeSend
      <3>9. s \notin BeforeMark => s \notin BeforeSend
        BY DEF BeforeMark
      <3>10. s \in {"send", "mark"} => s \notin BeforeIntent
        BY DEF BeforeIntent, BeforeResultDay, BeforeSignal
      <3>11. (j.step \notin BeforeIntent /\ j.resultDay = "send") => j.intent
        BY <1>1, <1>2, <2>2, <2>3, <2>4, <3>7, <3>8, <3>9, <3>10, After_Before DEF Reached, Moved, Achieved
      <3>12. (j.step \notin BeforeSend /\ j.resultDay = "send") => j.sent = "ok"
        BY <1>1, <1>2, <2>2, <2>3, <2>4, <3>7, <3>8, <3>9, <3>10, After_Before DEF Reached, Moved, Achieved
      <3>13. (j.step \notin BeforeMark /\ j.resultDay = "send") =>
              \E m \in markers' : m.key = j.key
        BY <1>1, <1>2, <2>2, <2>3, <2>4, <3>7, <3>8, <3>9, <3>10, <3>1, After_Before DEF Reached, Moved, Achieved
      <3> QED
        BY <3>3, <3>4, <3>5, <3>6, <3>11, <3>12, <3>13 DEF Reached
    <2> QED
      BY <2>5, <2>6
  <1> QED
    BY <1>3, <1>4

LEMMA MovedTraced ==
  ASSUME IInv, NEW r \in Runs, Running(r), NEW j, Traced(r, job[r], intents),
         Moved(r, job[r], j), Left(r, job[r], j), intents \subseteq intents'
  PROVE  Traced(r, j, intents')
  <1> DEFINE i == job[r]
             s == job[r].step
  <1>1. i \in Job /\ JobSafe(r, i) /\ s \in StepName
    BY RunningJob
  <1>2. j.step = s \/ j.step = After[s]
    BY DEF Moved
  <1>3. j.step \in BeforeBuilt => s \in BeforeBuilt /\ (j.step = s \/ s # "build")
    BY <1>1, <1>2, After_Before
  <1>4. j.step \in BeforeBuilt => ~j.built
    <2>1. s # "build" => j.built = i.built
      BY DEF Moved
    <2>2. (s = "build" /\ j.step = s) => j.built = i.built
      BY <1>1, <1>2 DEF Moved, After
    <2> QED
      BY <1>3, <2>1, <2>2 DEF Traced
  <1>5. ASSUME j.built, j.exit = "zero"
        PROVE  j.key.day \in TradeDays
    <2>1. CASE s \in {"signal", "build"}
      <3>1. ~i.built /\ (s = "signal" => j.built = i.built)
        BY <2>1 DEF Traced, Moved, BeforeBuilt, BeforeSignal
      <3> QED
        BY <1>5, <2>1, <3>1 DEF Left
    <2>2. CASE s \notin {"signal", "build"}
      BY <1>5, <2>2 DEF Traced, Moved
    <2> QED
      BY <2>1, <2>2
  <1>6. ASSUME j.intent
        PROVE  \E e \in intents' : e.key = j.key /\ e.run = r
    <2>1. CASE i.intent
      <3>1. s # "signal"
        BY <1>1, <2>1 DEF JobSafe, BeforeIntent, BeforeResultDay, BeforeSignal
      <3> QED
        BY <2>1, <3>1 DEF Traced, Moved
    <2>2. CASE ~i.intent
      BY <1>1, <1>6, <2>2 DEF Left, Moved, Job
    <2> QED
      BY <2>1, <2>2
  <1> QED
    BY <1>4, <1>5, <1>6 DEF Traced

LEMMA EvidenceGrows ==
  ASSUME Next
  PROVE  intents \subseteq intents' /\ markers \subseteq markers' /\ mails \subseteq mails'
  BY WhoWrites DEF PersistIntent, SendGmail, MarkDelivered

LEMMA JobStepRuns ==
  ASSUME NEW r \in Runs, JobStep(r)
  PROVE  Running(r)
  BY DEF JobStep, Classify, Raise, Break, DeliveryGate, Calendar, RestoreLedger, RunSignal,
         BuildDigest, PrepareMarker, ResultDayGate, PersistIntent, SendGmail, VerifyRecovery,
         UploadLedger, MarkDelivered, Skip, Finish, Due, At

\* What becomes of the job of a run that is running after a step.
LEMMA RunningAfter ==
  ASSUME IInv, Next, NEW q \in Runs, Running(q)'
  PROVE  \/ /\ Running(q) /\ job'[q] = job[q] /\ input'[q] = input[q]
            /\ UNCHANGED artifacts
         \/ /\ Running(q) /\ input'[q] = input[q]
            /\ (JobStep(q) /\ ~Finish(q)) \/ Cancel(q) \/ Break(q)
         \/ /\ phase[q] = "pending" /\ job'[q] = FreshJob(Clock(day, hour))
            /\ UNCHANGED artifacts
  <1> USE DEF others, artifacts
  <1>1. /\ phase \in [Runs -> {"absent", "pending", "running"} \cup Concluded]
        /\ job \in [Runs -> Job] /\ input \in [Runs -> Inputs \cup {NoInput}]
    BY DEF IInv, TypeOK
  <1>2. CASE Tick
    BY <1>2 DEF Tick, Running
  <1>3. ASSUME NEW r \in Runs, Finish(r) \/ Crash(r) 
        PROVE  Running(q) /\ job'[q] = job[q] /\ input'[q] = input[q] /\ UNCHANGED artifacts
    BY <1>1, <1>3 DEF Finish, Crash, Running, SetJob, Conclusion
  <1>4. ASSUME NEW r \in Runs, Dispatch(r) \/ Rerun(r) 
        PROVE  Running(q) /\ job'[q] = job[q] /\ input'[q] = input[q] /\ UNCHANGED artifacts
    BY <1>1, <1>4 DEF Dispatch, Rerun, Enqueue, Running
  <1>5. ASSUME NEW r \in Runs, StartJob(r)
        PROVE  /\ phase[q] = "pending" /\ job'[q] = FreshJob(Clock(day, hour))
               /\ UNCHANGED artifacts
    <2>1. q = r
      BY <1>1, <1>5 DEF StartJob, GroupFree, Running
    <2> QED
      BY <1>1, <2>1, <1>5 DEF StartJob, Running, SetJob
  <1>6. ASSUME NEW r \in Runs, (JobStep(r) /\ ~Finish(r)) \/ Cancel(r) \/ Break(r)
        PROVE  q = r /\ Running(q) /\ input'[q] = input[q]
    <2>1. UNCHANGED others
      <3>1. CASE Cancel(r) \/ Break(r)
        BY <1>1, <3>1 DEF Cancel, Break, SetJob
      <3>2. CASE JobStep(r) /\ ~Finish(r)
        <4>1. CASE Classify(r) \/ Raise(r) \/ DeliveryGate(r) \/ Calendar(r) \/ RestoreLedger(r)
          BY <1>1, <4>1 DEF Classify, Raise, Break, DeliveryGate, Calendar, RestoreLedger, SetJob
        <4>2. CASE RunSignal(r) \/ BuildDigest(r) \/ PrepareMarker(r) \/ ResultDayGate(r)
          BY <1>1, <4>2 DEF RunSignal, BuildDigest, PrepareMarker, ResultDayGate, SetJob
        <4>3. CASE VerifyRecovery(r) \/ UploadLedger(r) \/ Skip(r)
          BY <1>1, <4>3 DEF VerifyRecovery, UploadLedger, Skip, SetJob
        <4>4. CASE PersistIntent(r) \/ SendGmail(r) \/ MarkDelivered(r)
          BY <1>1, <4>4 DEF PersistIntent, SendGmail, MarkDelivered, SetJob
        <4> QED
          BY <3>2, <4>1, <4>2, <4>3, <4>4 DEF JobStep
      <3> QED
        BY <1>6, <3>1, <3>2
    <2>2. Running(r)
      BY <1>6, JobStepRuns DEF Cancel, Break
    <2> QED
      BY <2>1, <2>2 DEF Running, IInv, OneRunning
  <1> QED
    BY <1>2, <1>3, <1>4, <1>5, <1>6 DEF Next, JobStep, Environment

LEMMA PathJobs ==
  ASSUME IInv, PathInv, Next, NEW q \in Runs, Running(q)'
  PROVE  Traced(q, job[q], intents)' /\ (OnPath(q, job[q])' => Reached(job[q], markers)')
  <1>1. intents \subseteq intents' /\ markers \subseteq markers'
    BY EvidenceGrows
  <1>2. (OnPath(q, job[q])' /\ input'[q] = input[q]) => OnPath(q, job'[q])
    BY DEF OnPath, SmtpAllowed, Manual
  <1>3. CASE Running(q) /\ job'[q] = job[q] /\ input'[q] = input[q]
    BY <1>1, <1>2, <1>3 DEF PathInv, Traced, Reached
  <1>4. CASE /\ Running(q) /\ input'[q] = input[q]
             /\ (JobStep(q) /\ ~Finish(q)) \/ Cancel(q) \/ Break(q)
    <2>1. /\ Moved(q, job[q], job'[q]) /\ Achieved(q, job[q], job'[q])
          /\ Left(q, job[q], job'[q])
      BY <1>4, Moves
    <2>2. Traced(q, job'[q], intents')
      BY <1>1, <1>4, <2>1, MovedTraced DEF PathInv
    <2>3. OnPath(q, job'[q]) => Reached(job'[q], markers')
      BY <1>1, <1>4, <2>1, MovedReached DEF PathInv
    <2> QED
      BY <1>2, <1>4, <2>2, <2>3 DEF Traced, Reached
  <1>5. CASE job'[q] = FreshJob(Clock(day, hour))
    BY <1>5 DEF FreshJob, Traced, OnPath
  <1> QED
    BY <1>3, <1>4, <1>5, RunningAfter

\* What the job that stores an intent knows of its key.
LEMMA IntentFacts ==
  ASSUME IInv, PathInv, NEW r \in Runs, Running(r), job[r].step = "intent", StepIf(r)
  PROVE  /\ job[r].key \in AbstractKeys
         /\ ~input[r].correction => \A i \in intents : i.key # job[r].key
  <1> DEFINE j == job[r]
  <1>1. j \in Job /\ JobSafe(r, j) /\ Traced(r, j, intents)
    BY RunningJob DEF PathInv
  <1>2. j.exit = "zero" /\ j.built /\ j.resultDay = "send"
    BY DEF StepIf, IntentIf
  <1>3. input[r].mode \in Modes
    <2>1. input[r] \in Inputs \cup {NoInput}
      BY DEF IInv, TypeOK
    <2> QED
      BY <2>1, InputsAssumption DEF Input, NoInput, Modes
  <1>4. j.key = [day |-> j.target, mode |-> input[r].mode] /\ j.key.day \in TradeDays
    BY <1>1, <1>2 DEF JobSafe, Traced
  <1> QED
    BY <1>1, <1>2, <1>3, <1>4 DEF AbstractKeys, JobSafe, Automatic

\* What the job that mails a report or a correction knows of its intent.
LEMMA SentFacts ==
  ASSUME IInv, PathInv, NEW r \in Runs, Running(r), job[r].step = "send", StepIf(r),
         Mail(r).kind # "failure"
  PROVE  /\ Mail(r).key = job[r].key
         /\ \E i \in intents : i.key = job[r].key /\ i.correction = input[r].correction
         /\ Mail(r).kind = "correction" <=> input[r].correction
  <1>1. job[r].intent
    BY DEF Mail, Kind, StepIf, SendIf
  <1>2. Traced(r, job[r], intents)
    BY DEF PathInv
  <1>3. PICK i \in intents : i.key = job[r].key /\ i.run = r
    BY <1>1, <1>2 DEF Traced
  <1>4. i.correction = input[r].correction
    BY <1>3 DEF PathInv, IntentsNamed
  <1>5. input[r].correction \in BOOLEAN
    BY EvidenceType DEF IInv, Artifact, Evidence
  <1> QED
    BY <1>3, <1>4, <1>5 DEF Mail, Kind

LEMMA PathNext == IInv /\ PathInv /\ [Next]_vars => PathInv'
  <1> SUFFICES ASSUME IInv, PathInv, [Next]_vars PROVE PathInv'
    OBVIOUS
  <1>1. CASE UNCHANGED vars
    <2>1. IInv /\ PathInv /\ UNCHANGED vars
      BY <1>1
    <2> QED
      BY <2>1 DEF PathInv, IntentsNamed, CorrectionsIntended, Running, Traced, OnPath, Reached,
                  AbstractKeys, SmtpAllowed, Manual, vars
  <1>2. CASE Next
    <2>1. IntentsNamed'
      <3>1. ASSUME NEW i \in intents
            PROVE  phase'[i.run] # "absent" /\ input'[i.run] = input[i.run]
        <4>1. i.run \in Runs /\ phase[i.run] # "absent"
          BY DEF IInv, TypeOK, Artifact, PathInv, IntentsNamed
        <4> QED
          BY <1>2, <4>1, RunsStayDispatched DEF IInv
      <3>2. \A i \in intents : /\ i.key \in AbstractKeys' /\ phase'[i.run] # "absent"
                               /\ i.correction = input'[i.run].correction
        BY <3>1 DEF PathInv, IntentsNamed, AbstractKeys
      <3>3. ASSUME NEW r \in Runs, PersistIntent(r)
            PROVE  IntentsNamed'
        <4>1. /\ Running(r) /\ StepIf(r) /\ job[r].step = "intent"
              /\ intents' = intents \cup {Evidence(r)} /\ UNCHANGED <<phase, input>>
          BY <3>3 DEF PersistIntent, Due, At, others
        <4>2. job[r].key \in AbstractKeys
          BY <4>1, IntentFacts
        <4>3. /\ Evidence(r).key = job[r].key /\ Evidence(r).run = r
              /\ Evidence(r).correction = input[r].correction
          BY DEF Evidence
        <4> QED
          BY <3>2, <4>1, <4>2, <4>3 DEF IntentsNamed, AbstractKeys, Running
      <3>4. ASSUME intents' = intents PROVE IntentsNamed'
        BY <3>2, <3>4 DEF IntentsNamed
      <3> QED
        BY <1>2, <3>3, <3>4, WhoWrites DEF SendGmail, MarkDelivered
    <2>2. CorrectionsIntended'
      <3>1. intents \subseteq intents'
        BY <1>2, EvidenceGrows
      <3>2. ASSUME NEW r \in Runs, SendGmail(r)
            PROVE  CorrectionsIntended'
        <4>1. /\ Running(r) /\ StepIf(r) /\ job[r].step = "send"
              /\ mails' \subseteq mails \cup {Mail(r)}
          BY <3>2 DEF SendGmail, Due, At
        <4>2. Mail(r).kind = "correction" =>
                \E i \in intents : i.key = Mail(r).key /\ i.correction
          BY <4>1, SentFacts
        <4> QED
          BY <3>1, <4>1, <4>2 DEF PathInv, CorrectionsIntended
      <3>3. ASSUME mails' = mails PROVE CorrectionsIntended'
        BY <3>1, <3>3 DEF PathInv, CorrectionsIntended
      <3> QED
        BY <1>2, <3>2, <3>3, WhoWrites DEF PersistIntent, MarkDelivered
    <2> QED
      BY <1>2, <2>1, <2>2, PathJobs DEF PathInv
  <1> QED
    BY <1>1, <1>2

LEMMA PathInvariance == Spec => [](IInv /\ PathInv)
  <1>1. Init => PathInv
    BY DEF Init, PathInv, IntentsNamed, CorrectionsIntended, Running
  <1> QED
    BY <1>1, PathNext, Invariance, PTL DEF Spec

\* Only its own last step ends a run green.
LEMMA WhoSucceeds ==
  ASSUME IInv, Next, NEW r \in Runs, Running(r), phase'[r] = "success"
  PROVE  Finish(r)
  <1> USE DEF artifacts, others
  <1>1. phase \in [Runs -> {"absent", "pending", "running"} \cup Concluded] /\ phase[r] = "running"
    BY DEF IInv, TypeOK, Running
  <1>2. CASE Tick
    BY <1>1, <1>2 DEF Tick
  <1>3. ASSUME NEW q \in Runs, StartJob(q) \/ Environment(q)
        PROVE  FALSE
    <2>1. CASE StartJob(q)
      BY <1>1, <2>1 DEF StartJob
    <2>2. CASE Dispatch(q) \/ Rerun(q)
      BY <1>1, <2>2 DEF Dispatch, Rerun, Enqueue, Concluded
    <2>3. CASE Crash(q) \/ Cancel(q) \/ Break(q)
      BY <1>1, <2>3 DEF Crash, Cancel, Break
    <2> QED
      BY <1>3, <2>1, <2>2, <2>3 DEF Environment
  <1>4. ASSUME NEW q \in Runs, JobStep(q)
        PROVE  Finish(r)
    <2>1. CASE Finish(q)
      BY <1>1, <2>1 DEF Finish
    <2>2. CASE Classify(q) \/ Raise(q) \/ DeliveryGate(q) \/ Calendar(q) \/ RestoreLedger(q)
      BY <1>1, <2>2 DEF Classify, Raise, Break, DeliveryGate, Calendar, RestoreLedger
    <2>3. CASE RunSignal(q) \/ BuildDigest(q) \/ PrepareMarker(q) \/ ResultDayGate(q)
      BY <1>1, <2>3 DEF RunSignal, BuildDigest, PrepareMarker, ResultDayGate
    <2>4. CASE VerifyRecovery(q) \/ UploadLedger(q) \/ Skip(q)
      BY <1>1, <2>4 DEF VerifyRecovery, UploadLedger, Skip
    <2>5. CASE PersistIntent(q) \/ SendGmail(q) \/ MarkDelivered(q)
      BY <1>1, <2>5 DEF PersistIntent, SendGmail, MarkDelivered
    <2> QED
      BY <1>4, <2>1, <2>2, <2>3, <2>4, <2>5 DEF JobStep
  <1> QED
    BY <1>2, <1>3, <1>4 DEF Next

\* A run that saw a trading day and ends green leaves the marker of its signal day:
\* none of the conditions between the gate and "Mark digest delivered" lets a healthy
\* job pass a step of the ledger path without executing it.
THEOREM GreenIsDelivery == Spec => GreenMeansDelivered
  <1> DEFINE A == \A r \in Runs :
                    (/\ At(r, "audit") /\ phase'[r] = "success" /\ SmtpAllowed(r)
                     /\ LedgerPathIf(r)) => \E m \in markers : m.key = job[r].key
  <1>1. ASSUME IInv, PathInv, Next PROVE A
    <2> SUFFICES ASSUME NEW r \in Runs, Running(r), job[r].step = "audit",
                        phase'[r] = "success", SmtpAllowed(r), LedgerPathIf(r)
                 PROVE  \E m \in markers : m.key = job[r].key
      BY DEF At
    <2>1. Conclusion(r) = "success"
      <3>1. Finish(r)
        BY <1>1, WhoSucceeds
      <3> QED
        BY <1>1, <3>1 DEF Finish, IInv, TypeOK
    <2>2. OnPath(r, job[r])
      BY <2>1 DEF Conclusion, OnPath, LedgerPathIf
    <2>3. Reached(job[r], markers)
      BY <1>1, <2>2 DEF PathInv
    <2>4. "audit" \notin BeforeMark /\ "audit" \notin BeforeResultDay
      BY DEF BeforeMark, BeforeSend, BeforeIntent, BeforeResultDay, BeforeSignal
    <2> QED
      BY <2>3, <2>4 DEF Reached
  <1>2. IInv /\ PathInv /\ [Next]_vars => [A]_vars
    BY <1>1
  <1> QED
    BY <1>2, PathInvariance, PTL DEF Spec, GreenMeansDelivered

-----------------------------------------------------------------------------
(* The abstract promise *)

\* What the refinement mapping shows of the state.
IntendedKeys == {i.key : i \in {x \in intents : ~x.correction}}
SendsOf(k) == Cardinality({m \in NormalMails : m.key = k})
BarredKeys == {i.key : i \in {x \in intents : x.correction}}
ConfirmedKeys == {m.key : m \in markers}

LEMMA SendCount ==
  ASSUME IInv, NEW k
  PROVE  /\ (\A m \in NormalMails : m.key # k) => SendsOf(k) = 0
         /\ (\E m \in NormalMails : m.key = k) => SendsOf(k) = 1
  <1>1. ASSUME \A m \in NormalMails : m.key # k
        PROVE  SendsOf(k) = 0
    <2>1. {m \in NormalMails : m.key = k} = {}
      BY <1>1
    <2> QED
      BY <2>1, FS_EmptySet DEF SendsOf
  <1>2. ASSUME NEW n \in NormalMails, n.key = k
        PROVE  SendsOf(k) = 1
    <2>1. {m \in NormalMails : m.key = k} = {n}
      BY <1>2 DEF IInv, AtMostOneNormalMail
    <2> QED
      BY <2>1, FS_Singleton DEF SendsOf
  <1> QED
    BY <1>1, <1>2

\* The mapped state changes with the records only.
LEMMA MappedState ==
  /\ UNCHANGED intents => IntendedKeys' = IntendedKeys /\ BarredKeys' = BarredKeys
  /\ UNCHANGED mails => [k \in AbstractKeys |-> SendsOf(k)]' = [k \in AbstractKeys |-> SendsOf(k)]
  /\ UNCHANGED markers => ConfirmedKeys' = ConfirmedKeys
  BY DEF IntendedKeys, BarredKeys, ConfirmedKeys, SendsOf, NormalMails, AbstractKeys

LEMMA PromiseInit == Init => Promise!Init
  <1> SUFFICES ASSUME Init PROVE Promise!Init
    OBVIOUS
  <1>1. IInv
    BY InitSafe
  <1>2. \A k : SendsOf(k) = 0
    BY <1>1, SendCount DEF Init, NormalMails
  <1> QED
    BY <1>2 DEF Init, Promise!Init, SendsOf

\* An automatic intent commits to its key, a correction's bars it.
LEMMA IntentPromised ==
  ASSUME IInv, PathInv, NEW r \in Runs, PersistIntent(r)
  PROVE  Promise!Next
  <1> DEFINE e == Evidence(r)
  <1>1. PICK k : k = job[r].key
    OBVIOUS
  <1>2. /\ intents' = intents \cup {e} /\ UNCHANGED <<mails, markers>>
        /\ job[r].step = "intent" /\ Running(r) /\ StepIf(r)
    BY DEF PersistIntent, Due, At
  <1>3. e.key = k /\ e.correction = input[r].correction /\ input[r].correction \in BOOLEAN
    BY <1>1, EvidenceType DEF IInv, Evidence, Artifact
  <1>4. k \in AbstractKeys /\ (~input[r].correction => \A i \in intents : i.key # k)
    BY <1>1, <1>2, IntentFacts
  <1> HIDE DEF e
  <1>5. CASE ~input[r].correction
    <2>1. k \notin IntendedKeys \cup BarredKeys
      BY <1>4, <1>5 DEF IntendedKeys, BarredKeys
    <2>2. IntendedKeys' = IntendedKeys \cup {k} /\ BarredKeys' = BarredKeys
      BY <1>2, <1>3, <1>5 DEF IntendedKeys, BarredKeys
    <2>3. Promise!Intend(k)
      BY <1>2, <2>1, <2>2, MappedState
      DEF Promise!Intend, IntendedKeys, BarredKeys, ConfirmedKeys, SendsOf
    <2> QED
      BY <1>4, <2>3 DEF Promise!Next
  <1>6. CASE input[r].correction
    <2>1. IntendedKeys' = IntendedKeys /\ BarredKeys' = BarredKeys \cup {k}
      BY <1>2, <1>3, <1>6 DEF IntendedKeys, BarredKeys
    <2>2. Promise!Correct(k)
      BY <1>2, <2>1, MappedState
      DEF Promise!Correct, IntendedKeys, BarredKeys, ConfirmedKeys, SendsOf
    <2> QED
      BY <1>4, <2>2 DEF Promise!Next
  <1> QED
    BY <1>5, <1>6

\* The accepted automatic mail is the first of its key; a correction and a failure
\* mail leave the promise alone.
LEMMA MailPromised ==
  ASSUME IInv, PathInv, NEW r \in Runs, SendGmail(r)
  PROVE  [Promise!Next]_(Promise!vars)
  <1> DEFINE m == Mail(r)
  <1>1. /\ mails' = mails \/ mails' = mails \cup {m}
        /\ UNCHANGED <<intents, markers>> /\ job[r].step = "send" /\ Running(r) /\ StepIf(r)
    BY DEF SendGmail, Due, At
  <1>2. PICK k : k = m.key
    OBVIOUS
  <1>3. m.kind = "normal" =>
          /\ \E i \in intents : i.key = k /\ ~i.correction
          /\ \A n \in NormalMails : n.key # k
    BY <1>1, <1>2, SentFacts, MailIsNew
  <1>4. NormalMails' = NormalMails \/ (m.kind = "normal" /\ NormalMails' = NormalMails \cup {m})
    BY <1>1 DEF NormalMails
  <1> HIDE DEF m
  <1>5. CASE NormalMails' = NormalMails
    <2>1. [x \in AbstractKeys |-> SendsOf(x)]' = [x \in AbstractKeys |-> SendsOf(x)]
      BY <1>5 DEF SendsOf, AbstractKeys
    <2> QED
      BY <1>1, <2>1, MappedState
      DEF Promise!vars, SendsOf, IntendedKeys, BarredKeys, ConfirmedKeys
  <1>6. CASE m.kind = "normal" /\ NormalMails' = NormalMails \cup {m}
    <2>1. k \in AbstractKeys /\ k \in IntendedKeys
      BY <1>3, <1>6 DEF PathInv, IntentsNamed, IntendedKeys
    <2>2. SendsOf(k) = 0
      BY <1>3, <1>6, SendCount
    <2>3. SendsOf(k)' = 1
      <3>1. {n \in NormalMails' : n.key = k} = {m}
        BY <1>2, <1>3, <1>6
      <3> QED
        BY <3>1, FS_Singleton DEF SendsOf
    <2>4. ASSUME NEW x \in AbstractKeys, x # k
          PROVE  SendsOf(x)' = SendsOf(x)
      <3>1. {n \in NormalMails' : n.key = x} = {n \in NormalMails : n.key = x}
        BY <1>2, <1>6, <2>4
      <3> QED
        BY <3>1 DEF SendsOf
    <2>5. AbstractKeys' = AbstractKeys
      BY DEF AbstractKeys
    <2>6. [x \in AbstractKeys |-> SendsOf(x)]' =
            [[x \in AbstractKeys |-> SendsOf(x)] EXCEPT ![k] = 1]
      BY <2>1, <2>3, <2>4, <2>5
    <2>7. Promise!Accept(k)
      BY <1>1, <2>1, <2>2, <2>6, MappedState
      DEF Promise!Accept, IntendedKeys, BarredKeys, ConfirmedKeys, SendsOf
    <2> QED
      BY <2>1, <2>7 DEF Promise!Next
  <1> QED
    BY <1>4, <1>5, <1>6

\* A marker confirms a key that has been mailed.
LEMMA MarkerPromised ==
  ASSUME IInv, PathInv, NEW r \in Runs, MarkDelivered(r)
  PROVE  Promise!Next
  <1> DEFINE e == Evidence(r)
  <1>1. /\ markers' = markers \cup {e} /\ UNCHANGED <<mails, intents>>
        /\ job[r].step = "mark" /\ Running(r) /\ StepIf(r)
    BY DEF MarkDelivered, Due, At
  <1>2. PICK k : k = job[r].key
    OBVIOUS
  <1>3. e.key = k
    BY <1>2 DEF Evidence
  <1> HIDE DEF e
  <1>4. PICK m \in mails : m.key = k /\ m.kind # "failure"
    BY <1>1, <1>2, RunningJob, MarkStepIf DEF JobSafe
  <1>5. PICK i \in intents : i.key = k /\ (m.kind = "correction" => i.correction)
    <2>1. m.kind \in {"normal", "correction"}
      BY <1>4 DEF IInv, TypeOK, Message
    <2> QED
      BY <1>4, <2>1 DEF PathInv, CorrectionsIntended, IInv, IntentBeforeMail, NormalMails
  <1>6. k \in AbstractKeys
    BY <1>5 DEF PathInv, IntentsNamed
  <1>7. SendsOf(k) > 0 \/ k \in BarredKeys
    <2>1. CASE m.kind = "correction"
      BY <1>5, <2>1 DEF BarredKeys
    <2>2. CASE m.kind # "correction"
      <3>1. m \in NormalMails
        BY <1>4, <2>2 DEF IInv, TypeOK, Message, NormalMails
      <3>2. SendsOf(k) = 1
        BY <1>4, <3>1, SendCount
      <3> QED
        BY <3>2
    <2> QED
      BY <2>1, <2>2
  <1>8. ConfirmedKeys' = ConfirmedKeys \cup {k}
    BY <1>1, <1>3 DEF ConfirmedKeys
  <1>9. Promise!Confirm(k)
    BY <1>1, <1>6, <1>7, <1>8, MappedState
    DEF Promise!Confirm, IntendedKeys, BarredKeys, ConfirmedKeys, SendsOf
  <1> QED
    BY <1>6, <1>9 DEF Promise!Next

\* The job implements the promise of AtMostOnceSend: automation commits once to a
\* signal day and mode, mails it at most once, never after a correction of it, and
\* marks only what was mailed.
THEOREM PromiseKept == Spec => KeepsPromise
  <1>1. IInv /\ PathInv /\ [Next]_vars => [Promise!Next]_(Promise!vars)
    <2> SUFFICES ASSUME IInv, PathInv, [Next]_vars PROVE [Promise!Next]_(Promise!vars)
      OBVIOUS
    <2>1. CASE UNCHANGED <<intents, markers, mails>>
      BY <2>1, MappedState
      DEF Promise!vars, SendsOf, IntendedKeys, BarredKeys, ConfirmedKeys
    <2>2. CASE UNCHANGED vars
      BY <2>1, <2>2 DEF vars
    <2>3. ASSUME NEW r \in Runs, PersistIntent(r) \/ SendGmail(r) \/ MarkDelivered(r)
          PROVE  [Promise!Next]_(Promise!vars)
      BY <2>3, IntentPromised, MailPromised, MarkerPromised
    <2> QED
      BY <2>1, <2>2, <2>3, WhoWrites
  <1> QED
    BY <1>1, PromiseInit, PathInvariance, PTL DEF Spec, KeepsPromise, Promise!Spec

-----------------------------------------------------------------------------
(* The ledger *)

HasLedger(r) == \E n \in DOMAIN ledgers : ledgers[n].run = r
HasMail(r) == \E m \in mails : m.run = r

HasPath(r, j) == j.shouldSend /\ (Manual(r) \/ j.tradeDay)

\* What holds of the state j of the running job of r in its only attempt.
Charged(r, j) ==
  /\ j.step \in BeforeSignal => j.ran = "skipped"
  /\ (j.step = "signal" /\ j.healthy /\ HasPath(r, j)) => LatestLedger \subseteq j.chain
  /\ j.ran = "success" => LatestLedger \subseteq j.chain
  /\ j.intent => j.resultDay = "send"
  /\ \A n \in DOMAIN ledgers : ledgers[n].run = r =>
       /\ j.step \in {"mark", "audit"} /\ j.ran = "success"
       /\ n = Len(ledgers) /\ ledgers[n].chain = j.chain
  /\ \A m \in mails : m.run = r => j.step \notin BeforeSend /\ m.src \subseteq j.chain
  /\ HasMail(r) => SmtpAllowed(r) /\ HasPath(r, j) /\ (j.intent \/ j.exit = "nonzero")
  /\ (HasMail(r) /\ j.healthy /\ j.step \in {"mark", "audit"} /\ j.exit # "nonzero") =>
       HasLedger(r)

LedgerInv ==
  /\ \A r \in Runs : phase[r] # "absent" => attempt[r] >= 1
  /\ \A r \in Runs : phase[r] \in {"absent", "pending"} => ~HasLedger(r) /\ ~HasMail(r)
  /\ \A m \in mails : RecordSurvives(m)
  /\ \A r \in Runs : Running(r) => Charged(r, job[r])

\* Runs nobody re-runs: the hypothesis of this section.  A re-run takes back the green
\* conclusion of its run, and with it the ledger later runs restore.
NoReruns == MaxAttempts <= 1

\* The newest ledger of a green run holds the chain later runs restore.
LEMMA NewestLedger ==
  ASSUME NEW n \in DOMAIN ledgers, Restorable(n), \A l \in DOMAIN ledgers : l <= n
  PROVE  ledgers[n].chain \subseteq LatestLedger
  BY DEF LatestLedger

LEMMA LedgerShape ==
  ASSUME TypeOK
  PROVE  /\ DOMAIN ledgers = 1 .. Len(ledgers) /\ Len(ledgers) \in Nat
         /\ \A n \in DOMAIN ledgers : ledgers[n].run \in Runs
  <1> DEFINE Ledger == [run : Runs, chain : SUBSET (Nat \X Runs)]
  <1>1. ledgers \in Seq(Ledger)
    BY DEF TypeOK
  <1> HIDE DEF Ledger
  <1>2. DOMAIN ledgers = 1 .. Len(ledgers) /\ Len(ledgers) \in Nat
        /\ \A n \in DOMAIN ledgers : ledgers[n] \in Ledger
    BY <1>1
  <1> QED
    BY <1>2 DEF Ledger

\* The chain to restore stays the same while the same ledgers are restorable.
LEMMA SameLedger ==
  ASSUME TypeOK, DOMAIN ledgers \subseteq DOMAIN ledgers',
         \A n \in DOMAIN ledgers : ledgers'[n] = ledgers[n] /\ (Restorable(n)' <=> Restorable(n)),
         \A n \in DOMAIN ledgers' : n \in DOMAIN ledgers \/ ~Restorable(n)'
  PROVE  LatestLedger' = LatestLedger
  <1> DEFINE S == {m \in DOMAIN ledgers : Restorable(m) /\ \A l \in DOMAIN ledgers : Restorable(l) => l <= m}
  <1>1. S' = S
    OBVIOUS
  <1>2. \A n \in S : ledgers'[n].chain = ledgers[n].chain
    OBVIOUS
  <1> QED
    BY <1>1, <1>2 DEF LatestLedger

\* What the ledgers, conclusions and attempts do in a step.
SameGreen ==
  UNCHANGED ledgers /\ \A q \in Runs : phase'[q] = "success" <=> phase[q] = "success"
Uploads(r) ==
  /\ Running(r) /\ job[r].step = "ledger" /\ StepIf(r) /\ UNCHANGED <<phase, mails>>
  /\ ledgers' = Append(ledgers, [run |-> r, chain |-> job[r].chain]) /\ job'[r].step = "mark"
TurnsGreen(r) ==
  /\ Finish(r) /\ Conclusion(r) = "success" /\ UNCHANGED <<ledgers, mails>>
  /\ phase' = [phase EXCEPT ![r] = "success"]
RunsKept ==
  \A q \in Runs : /\ phase'[q] # "absent" => attempt'[q] >= 1
                  /\ phase'[q] \in {"absent", "pending"} => phase[q] \in {"absent", "pending"}

LEMMA LedgerStep ==
  ASSUME IInv, LedgerInv, NoReruns, Next
  PROVE  RunsKept /\ (SameGreen \/ \E r \in Runs : Uploads(r) \/ TurnsGreen(r))
  <1> USE DEF others, artifacts
  <1>1. /\ phase \in [Runs -> {"absent", "pending", "running"} \cup Concluded]
        /\ attempt \in [Runs -> Nat]
        /\ \A q \in Runs : phase[q] # "absent" => attempt[q] >= 1
    BY DEF IInv, TypeOK, LedgerInv
  <1>2. ASSUME Tick PROVE SameGreen /\ RunsKept
    BY <1>1, <1>2 DEF Tick, SameGreen, RunsKept
  <1>3. ASSUME NEW r \in Runs, Rerun(r) PROVE FALSE
    BY <1>1, <1>3, RetentionAssumption DEF Rerun, NoReruns, Concluded
  <1>4. ASSUME NEW r \in Runs, Dispatch(r) PROVE SameGreen /\ RunsKept
    BY <1>1, <1>4 DEF Dispatch, Enqueue, SameGreen, RunsKept
  <1>5. ASSUME NEW r \in Runs, StartJob(r) \/ Crash(r) PROVE SameGreen /\ RunsKept
    BY <1>1, <1>5 DEF StartJob, Crash, Running, SameGreen, RunsKept
  <1>6. ASSUME NEW r \in Runs, Cancel(r) \/ Break(r) PROVE SameGreen /\ RunsKept
    BY <1>1, <1>6 DEF Cancel, Break, SameGreen, RunsKept
  <1>7. ASSUME NEW r \in Runs, Finish(r)
        PROVE  RunsKept /\ (SameGreen \/ TurnsGreen(r))
    <2>1. /\ phase' = [phase EXCEPT ![r] = Conclusion(r)] /\ UNCHANGED <<attempt, ledgers, mails>>
          /\ phase[r] = "running" /\ Conclusion(r) \in Concluded
      BY <1>7 DEF Finish, At, Running, Conclusion, Concluded
    <2>2. RunsKept
      BY <1>1, <2>1 DEF Concluded, RunsKept
    <2>3. CASE Conclusion(r) = "success"
      BY <1>7, <2>1, <2>2, <2>3 DEF TurnsGreen
    <2>4. CASE Conclusion(r) # "success"
      BY <1>1, <2>1, <2>2, <2>4 DEF SameGreen
    <2> QED
      BY <2>3, <2>4
  <1>8. ASSUME NEW r \in Runs, UploadLedger(r)
        PROVE  RunsKept /\ Uploads(r)
    <2>1. job'[r].step = "mark"
      BY <1>8 DEF UploadLedger, SetJob, IInv, TypeOK, Job
    <2> QED
      BY <1>1, <1>8, <2>1 DEF UploadLedger, Due, At, RunsKept, Uploads
  <1>9. ASSUME NEW r \in Runs, JobStep(r), ~Finish(r), ~UploadLedger(r)
        PROVE  SameGreen /\ RunsKept
    <2>1. CASE Classify(r) \/ Raise(r) \/ DeliveryGate(r) \/ Calendar(r) \/ RestoreLedger(r)
      BY <1>1, <2>1 DEF Classify, Raise, Break, DeliveryGate, Calendar, RestoreLedger, SameGreen,
                       RunsKept
    <2>2. CASE RunSignal(r) \/ BuildDigest(r) \/ PrepareMarker(r) \/ ResultDayGate(r)
      BY <1>1, <2>2 DEF RunSignal, BuildDigest, PrepareMarker, ResultDayGate, SameGreen,
                       RunsKept
    <2>3. CASE VerifyRecovery(r) \/ Skip(r) \/ PersistIntent(r) \/ SendGmail(r) \/ MarkDelivered(r)
      BY <1>1, <2>3 DEF VerifyRecovery, Skip, PersistIntent, SendGmail, MarkDelivered, SameGreen,
                       RunsKept
    <2> QED
      BY <1>9, <2>1, <2>2, <2>3 DEF JobStep
  <1> QED
    BY <1>2, <1>3, <1>4, <1>5, <1>6, <1>7, <1>8, <1>9 DEF Next, Environment

\* A run that turns green makes the chain of its own ledger the one to restore.
LEMMA GreenLedger ==
  ASSUME IInv, LedgerInv, NEW r \in Runs, TurnsGreen(r), NEW n \in DOMAIN ledgers,
         ledgers[n].run = r
  PROVE  LatestLedger \subseteq job[r].chain /\ job[r].chain \subseteq LatestLedger'
  <1>1. Running(r)
    BY DEF TurnsGreen, Finish, At
  <1>2. /\ job[r].ran = "success" /\ n = Len(ledgers) /\ ledgers[n].chain = job[r].chain
        /\ LatestLedger \subseteq job[r].chain
    BY <1>1 DEF LedgerInv, Charged
  <1>3. UNCHANGED ledgers /\ phase'[r] = "success"
    BY DEF TurnsGreen, IInv, TypeOK
  <1>4. Restorable(n)'
    BY <1>3 DEF Restorable
  <1>5. \A l \in DOMAIN ledgers : l <= n
    BY <1>2, LedgerShape DEF IInv
  <1>6. ledgers[n].chain \subseteq LatestLedger'
    BY <1>3, <1>4, <1>5 DEF LatestLedger
  <1> QED
    BY <1>2, <1>6

\* Only a run that leaves its ledger and turns green changes the chain to restore.
LEMMA ChainSame ==
  ASSUME IInv, LedgerInv,
         SameGreen \/ \E r \in Runs : Uploads(r) \/ (TurnsGreen(r) /\ ~HasLedger(r))
  PROVE  LatestLedger' = LatestLedger
  <1>1. \A n \in DOMAIN ledgers : ledgers[n].run \in Runs
    BY LedgerShape DEF IInv
  <1>2. CASE SameGreen
    BY <1>1, <1>2, SameLedger DEF SameGreen, Restorable, IInv
  <1>3. ASSUME NEW r \in Runs, Uploads(r) PROVE LatestLedger' = LatestLedger
    <2> DEFINE Ledger == [run : Runs, chain : SUBSET (Nat \X Runs)]
               e == [run |-> r, chain |-> job[r].chain]
    <2>1. ledgers \in Seq(Ledger) /\ e \in Ledger
      BY <1>3, RunningJob DEF Uploads, IInv, TypeOK, Job
    <2>2. ledgers' = Append(ledgers, e) /\ UNCHANGED phase /\ phase[r] = "running" /\ e.run = r
      BY <1>3 DEF Uploads, Running
    <2> HIDE DEF Ledger, e
    <2>3. /\ DOMAIN ledgers' = DOMAIN ledgers \cup {Len(ledgers) + 1}
          /\ \A n \in DOMAIN ledgers : ledgers'[n] = ledgers[n]
          /\ ledgers'[Len(ledgers) + 1] = e
      BY <2>1, <2>2
    <2> QED
      BY <2>2, <2>3, SameLedger DEF Restorable, IInv
  <1>4. ASSUME NEW r \in Runs, TurnsGreen(r), ~HasLedger(r) PROVE LatestLedger' = LatestLedger
    <2>1. UNCHANGED ledgers /\ phase' = [phase EXCEPT ![r] = "success"]
      BY <1>4 DEF TurnsGreen
    <2>2. \A n \in DOMAIN ledgers : ledgers[n].run # r
      BY <1>4 DEF HasLedger
    <2> QED
      BY <1>1, <2>1, <2>2, SameLedger DEF Restorable, IInv, TypeOK
  <1> QED
    BY <1>2, <1>3, <1>4

LEMMA ChainGrows ==
  ASSUME IInv, LedgerInv, NoReruns, Next
  PROVE  LatestLedger \subseteq LatestLedger'
  <1>1. ASSUME NEW r \in Runs, TurnsGreen(r), HasLedger(r)
        PROVE  LatestLedger \subseteq LatestLedger'
    BY <1>1, GreenLedger DEF HasLedger
  <1> QED
    BY <1>1, LedgerStep, ChainSame

\* What SMTP accepts in a step.
LEMMA MailStep ==
  ASSUME IInv, Next
  PROVE  \/ UNCHANGED mails
         \/ \E r \in Runs : /\ Running(r) /\ job[r].step = "send" /\ StepIf(r)
                            /\ mails' \subseteq mails \cup {Mail(r)}
                            /\ job'[r].step = "verify" /\ UNCHANGED <<phase, ledgers>>
  <1>1. ASSUME NEW r \in Runs, SendGmail(r)
        PROVE  /\ Running(r) /\ job[r].step = "send" /\ StepIf(r)
               /\ mails' \subseteq mails \cup {Mail(r)}
               /\ job'[r].step = "verify" /\ UNCHANGED <<phase, ledgers>>
    <2>1. job[r] \in Job /\ job \in [Runs -> Job]
      BY DEF IInv, TypeOK
    <2>2. job'[r].step = "verify"
      BY <1>1, <2>1 DEF SendGmail, SetJob, Job
    <2> QED
      BY <1>1, <2>2 DEF SendGmail, Due, At, others
  <1>2. ASSUME NEW r \in Runs, PersistIntent(r) \/ MarkDelivered(r) PROVE UNCHANGED mails
    BY <1>2 DEF PersistIntent, MarkDelivered
  <1> QED
    BY <1>1, <1>2, WhoWrites

\* Every mailed record of a green run is in the chain to restore.
LEMMA RecordsKept ==
  ASSUME IInv, LedgerInv, NoReruns, Next
  PROVE  \A m \in mails' : RecordSurvives(m)'
  <1>1. LatestLedger \subseteq LatestLedger'
    BY ChainGrows
  <1> SUFFICES ASSUME NEW m \in mails', phase'[m.run] = "success", m.key.mode = "close_confirmed"
               PROVE  m.src \subseteq LatestLedger'
    BY DEF RecordSurvives
  <1>2. ASSUME NEW r \in Runs, Running(r), m = Mail(r), UNCHANGED phase
        PROVE  FALSE
    BY <1>2 DEF Mail, Running
  <1>3. m \in mails
    BY <1>2, MailStep
  <1>4. m.run \in Runs
    BY <1>3 DEF IInv, TypeOK, Message
  <1>5. CASE phase[m.run] = "success"
    BY <1>1, <1>3, <1>5 DEF LedgerInv, RecordSurvives
  <1>6. CASE phase[m.run] # "success"
    <2> DEFINE r == m.run
    <2>1. TurnsGreen(r)
      BY <1>4, <1>6, LedgerStep DEF SameGreen, Uploads, TurnsGreen, IInv, TypeOK
    <2>2. Running(r) /\ job[r].step = "audit" /\ job[r].healthy /\ job[r].exit # "nonzero"
      BY <2>1 DEF TurnsGreen, Finish, At, Conclusion
    <2>3. HasMail(r) /\ m.src \subseteq job[r].chain /\ HasLedger(r)
      BY <1>3, <1>4, <2>2 DEF LedgerInv, Charged, HasMail
    <2>4. job[r].chain \subseteq LatestLedger'
      BY <1>4, <2>1, <2>3, GreenLedger DEF HasLedger
    <2> QED
      BY <2>3, <2>4
  <1> QED
    BY <1>5, <1>6

\* The step of the running job itself.
LEMMA ChargedMoves ==
  ASSUME IInv, PathInv, LedgerInv, NoReruns, Next, NEW r \in Runs, Running(r), Running(r)',
         input'[r] = input[r],
         Moved(r, job[r], job'[r]), Achieved(r, job[r], job'[r]), Left(r, job[r], job'[r])
  PROVE  Charged(r, job[r])'
  <1> DEFINE i == job[r]
             s == job[r].step
  <1>0. PICK j : j = job'[r]
    OBVIOUS
  <1>1. /\ i \in Job /\ JobSafe(r, i) /\ s \in StepName /\ Charged(r, i)
        /\ Moved(r, i, j) /\ Achieved(r, i, j) /\ Left(r, i, j)
    BY <1>0, RunningJob DEF LedgerInv
  <1>2. /\ j.step = After[s] \/ (j.step = s /\ ~j.healthy /\ j.ran = i.ran)
        /\ j.healthy => i.healthy /\ j.step = After[s]
    BY <1>1 DEF Moved
  <1>3. OneRunning /\ phase'[r] = "running"
    BY DEF IInv, Running
  <1>4. LatestLedger' = LatestLedger
    <2>1. ~TurnsGreen(r)
      BY <1>3 DEF TurnsGreen, IInv, TypeOK
    <2>2. \A q \in Runs : TurnsGreen(q) => q = r
      BY <1>3 DEF TurnsGreen, Finish, At, OneRunning
    <2> QED
      BY <2>1, <2>2, LedgerStep, ChainSame
  <1>5. UNCHANGED ledgers \/ (Uploads(r) /\ s = "ledger" /\ StepIf(r))
    BY <1>3, LedgerStep DEF SameGreen, Uploads, TurnsGreen, OneRunning
  <1>6. UNCHANGED mails \/ (/\ s = "send" /\ StepIf(r) /\ mails' \subseteq mails \cup {Mail(r)}
                            /\ j.step = "verify" /\ UNCHANGED ledgers)
    BY <1>0, <1>3, MailStep DEF OneRunning
  <1>7. s \notin BeforeSend =>
          /\ j.chain = i.chain /\ j.intent = i.intent /\ j.exit = i.exit /\ j.ran = i.ran
          /\ j.shouldSend = i.shouldSend /\ j.tradeDay = i.tradeDay
          /\ j.resultDay = i.resultDay
          /\ j.step \notin BeforeSend
    <2>1. s \notin BeforeSend => s \notin {"gate", "calendar", "restore", "signal", "resultgate", "intent"}
      BY DEF BeforeSend, BeforeIntent, BeforeResultDay, BeforeSignal
    <2>2. s \notin BeforeSend => j.step \notin BeforeSend
      BY <1>1, <1>2 DEF After, StepName, BeforeSend, BeforeIntent, BeforeResultDay, BeforeSignal
    <2> QED
      BY <1>1, <2>1, <2>2 DEF Moved
  <1>8. j.step \in BeforeSignal => j.ran = "skipped"
    <2>1. j.step \in BeforeSignal => s \in BeforeSignal /\ (j.step = s \/ s # "signal")
      BY <1>1, <1>2 DEF After, StepName, BeforeSignal
    <2>2. s # "signal" => j.ran = i.ran
      BY <1>1 DEF Moved
    <2> QED
      BY <1>1, <1>2, <2>1, <2>2 DEF Charged, After
  <1>9. (j.step = "signal" /\ j.healthy /\ HasPath(r, j)) => LatestLedger \subseteq j.chain
    <2> SUFFICES ASSUME j.step = "signal", j.healthy, HasPath(r, j)
                 PROVE  LatestLedger \subseteq j.chain
      OBVIOUS
    <2>1. s = "restore"
      BY <1>1, <1>2 DEF After, StepName
    <2>2. LedgerPathIf(r) /\ i.healthy
      BY <1>1, <1>2, <2>1 DEF Moved, HasPath, LedgerPathIf
    <2>3. StepIf(r)
      BY <2>1, <2>2 DEF StepIf
    <2> QED
      BY <1>1, <2>1, <2>3 DEF Achieved
  <1>10. j.ran = "success" => LatestLedger \subseteq j.chain
    <2>1. CASE s = "signal"
      <3>1. i.ran # "success"
        BY <1>1, <2>1 DEF Charged, BeforeSignal
      <3>2. j.ran = "success" => i.healthy /\ HasPath(r, i)
        BY <1>1, <2>1, <3>1 DEF Left, StepIf, LedgerPathIf, HasPath
      <3> QED
        BY <1>1, <2>1, <3>2 DEF Charged, Moved
    <2>2. CASE s = "restore"
      BY <1>1, <2>2 DEF Charged, BeforeSignal, Moved
    <2>3. CASE s \notin {"restore", "signal"}
      BY <1>1, <2>3 DEF Charged, Moved
    <2> QED
      BY <2>1, <2>2, <2>3
  <1>11. j.intent => j.resultDay = "send"
    <2>1. CASE s = "resultgate"
      BY <1>1, <2>1 DEF JobSafe, BeforeIntent, BeforeResultDay, Moved
    <2>2. CASE s = "intent"
      BY <1>1, <2>2 DEF Charged, Left, Moved
    <2>3. CASE s \notin {"resultgate", "intent"}
      BY <1>1, <2>3 DEF Charged, Moved
    <2> QED
      BY <2>1, <2>2, <2>3
  <1>12. \A n \in DOMAIN ledgers' : ledgers'[n].run = r =>
           /\ j.step \in {"mark", "audit"} /\ j.ran = "success"
           /\ n = Len(ledgers') /\ ledgers'[n].chain = j.chain
    <2>1. CASE UNCHANGED ledgers
      <3>1. \A n \in DOMAIN ledgers : ledgers[n].run = r =>
              /\ s \in {"mark", "audit"} /\ i.ran = "success"
              /\ n = Len(ledgers) /\ ledgers[n].chain = i.chain
        BY <1>1 DEF Charged
      <3>2. s \in {"mark", "audit"} =>
              j.step \in {"mark", "audit"} /\ j.ran = i.ran /\ j.chain = i.chain
        BY <1>1, <1>2 DEF Moved, After
      <3> QED
        BY <2>1, <3>1, <3>2
    <2>2. CASE Uploads(r) /\ s = "ledger" /\ StepIf(r)
      <3> DEFINE Ledger == [run : Runs, chain : SUBSET (Nat \X Runs)]
                 e == [run |-> r, chain |-> i.chain]
      <3>1. ledgers \in Seq(Ledger) /\ e \in Ledger
        BY <1>1 DEF IInv, TypeOK, Job
      <3>2. ledgers' = Append(ledgers, e) /\ e.chain = i.chain /\ j.step = "mark"
        BY <1>0, <2>2 DEF Uploads
      <3> HIDE DEF Ledger, e
      <3>3. /\ Len(ledgers') = Len(ledgers) + 1
            /\ DOMAIN ledgers' = DOMAIN ledgers \cup {Len(ledgers')}
            /\ \A n \in DOMAIN ledgers : ledgers'[n] = ledgers[n]
            /\ ledgers'[Len(ledgers')] = e
        BY <3>1, <3>2
      <3>4. \A n \in DOMAIN ledgers : ledgers[n].run # r
        BY <1>1, <2>2 DEF Charged
      <3>5. j.ran = "success" /\ j.chain = i.chain
        BY <1>1, <2>2 DEF StepIf, LedgerIf, Moved
      <3> QED
        BY <3>2, <3>3, <3>4, <3>5
    <2> QED
      BY <1>5, <2>1, <2>2
  <1>13. \A m \in mails : m.run = r =>
           s \notin BeforeSend /\ m.src \subseteq i.chain
    BY <1>1 DEF Charged
  <1>14. s = "send" /\ StepIf(r) =>
           /\ SmtpAllowed(r) /\ HasPath(r, j) /\ (j.intent \/ j.exit = "nonzero")
           /\ j.chain = i.chain
    BY <1>1 DEF StepIf, SendIf, LedgerPathIf, HasPath, Moved
  <1>15. Mail(r).src \subseteq i.chain
    BY DEF Mail
  <1>16. "verify" \notin BeforeSend
    BY DEF BeforeSend, BeforeIntent, BeforeResultDay, BeforeSignal
  <1>17. \A m \in mails' : m.run = r => j.step \notin BeforeSend /\ m.src \subseteq j.chain
    BY <1>6, <1>7, <1>13, <1>14, <1>15, <1>16
  <1>18. HasMail(r)' => SmtpAllowed(r) /\ HasPath(r, j) /\ (j.intent \/ j.exit = "nonzero")
    <2>1. CASE HasMail(r)
      <3>1. s \notin BeforeSend
        BY <1>13, <2>1 DEF HasMail
      <3>2. SmtpAllowed(r) /\ HasPath(r, i) /\ (i.intent \/ i.exit = "nonzero")
        BY <1>1, <2>1 DEF Charged
      <3> QED
        BY <1>7, <3>1, <3>2 DEF HasPath
    <2>2. CASE ~HasMail(r) /\ HasMail(r)'
      BY <1>6, <1>14, <2>2 DEF HasMail
    <2> QED
      BY <2>1, <2>2
  <1>19. (HasMail(r)' /\ j.healthy /\ j.step \in {"mark", "audit"} /\ j.exit # "nonzero") =>
           HasLedger(r)'
    <2> SUFFICES ASSUME HasMail(r)', j.healthy, j.step \in {"mark", "audit"},
                        j.exit # "nonzero"
                 PROVE  HasLedger(r)'
      OBVIOUS
    <2>1. HasMail(r)
      BY <1>6 DEF HasMail
    <2>2. s \notin BeforeSend /\ s \in {"ledger", "mark", "audit"} /\ i.healthy
      BY <1>1, <1>2, <1>13, <2>1 DEF HasMail, After, StepName
    <2>3. SmtpAllowed(r) /\ HasPath(r, i) /\ i.intent /\ i.exit # "nonzero"
      BY <1>1, <1>7, <2>1, <2>2 DEF Charged
    <2>4. CASE s \in {"mark", "audit"}
      <3>1. HasLedger(r)
        BY <1>1, <2>1, <2>2, <2>3, <2>4 DEF Charged
      <3>2. UNCHANGED ledgers
        BY <1>5, <2>4
      <3> QED
        BY <3>1, <3>2 DEF HasLedger
    <2>5. CASE s = "ledger"
      <3>1. Reached(i, markers)
        BY <2>2, <2>3 DEF PathInv, OnPath, HasPath
      <3>2. /\ i.ran = "success" /\ i.exit = "zero" /\ i.built /\ i.prepared
            /\ i.resultDay = "send"
        BY <1>1, <2>3, <2>5, <3>1
        DEF Charged, Reached, BeforePrepared, BeforeBuilt, BeforeSignal
      <3>3. StepIf(r)
        BY <2>2, <2>3, <2>5, <3>2 DEF StepIf, LedgerIf
      <3> DEFINE Ledger == [run : Runs, chain : SUBSET (Nat \X Runs)]
                 e == [run |-> r, chain |-> i.chain]
      <3>4. ledgers \in Seq(Ledger) /\ e \in Ledger
        BY <1>1 DEF IInv, TypeOK, Job
      <3>5. ledgers' = Append(ledgers, e) /\ e.run = r
        BY <1>1, <2>5, <3>3 DEF Achieved
      <3> HIDE DEF Ledger, e
      <3>6. /\ Len(ledgers) + 1 \in DOMAIN ledgers'
            /\ ledgers'[Len(ledgers) + 1] = e
        BY <3>4, <3>5
      <3> QED
        BY <3>5, <3>6 DEF HasLedger
    <2> QED
      BY <2>2, <2>4, <2>5
  <1>20. SmtpAllowed(r)' = SmtpAllowed(r) /\ (HasPath(r, job[r])' <=> HasPath(r, j))
    BY <1>0 DEF SmtpAllowed, HasPath, Manual
  <1> QED
    BY <1>0, <1>4, <1>8, <1>9, <1>10, <1>11, <1>12, <1>17, <1>18, <1>19, <1>20 DEF Charged

LEMMA ChargedKept ==
  ASSUME IInv, PathInv, LedgerInv, NoReruns, Next, NEW q \in Runs, Running(q)'
  PROVE  Charged(q, job[q])'
  <1>1. CASE Running(q) /\ job'[q] = job[q] /\ input'[q] = input[q] /\ UNCHANGED artifacts
    <2>1. OneRunning /\ Charged(q, job[q]) /\ phase'[q] = "running"
      BY <1>1 DEF IInv, LedgerInv, Running
    <2>2. \A r \in Runs : TurnsGreen(r) => FALSE
      BY <1>1, <2>1 DEF TurnsGreen, Finish, At, OneRunning, IInv, TypeOK
    <2>3. LatestLedger' = LatestLedger
      BY <2>2, LedgerStep, ChainSame
    <2> QED
      BY <1>1, <2>1, <2>3
      DEF Charged, HasPath, HasMail, HasLedger, SmtpAllowed, Manual, artifacts
  <1>2. CASE /\ Running(q) /\ input'[q] = input[q]
             /\ (JobStep(q) /\ ~Finish(q)) \/ Cancel(q) \/ Break(q)
    <2>1. /\ Moved(q, job[q], job'[q]) /\ Achieved(q, job[q], job'[q])
          /\ Left(q, job[q], job'[q])
      BY <1>2, Moves
    <2> QED
      BY <1>2, <2>1, ChargedMoves
  <1>3. CASE /\ phase[q] = "pending" /\ job'[q] = FreshJob(Clock(day, hour))
             /\ UNCHANGED artifacts
    <2>1. ~HasLedger(q)' /\ ~HasMail(q)'
      BY <1>3 DEF LedgerInv, HasLedger, HasMail, artifacts
    <2> QED
      BY <1>3, <2>1 DEF FreshJob, Charged, HasLedger, HasMail
  <1> QED
    BY <1>1, <1>2, <1>3, RunningAfter

LEMMA LedgerNext == NoReruns /\ IInv /\ PathInv /\ LedgerInv /\ [Next]_vars => LedgerInv'
  <1> SUFFICES ASSUME NoReruns, IInv, PathInv, LedgerInv, [Next]_vars PROVE LedgerInv'
    OBVIOUS
  <1>1. CASE UNCHANGED vars
    <2>1. LedgerInv /\ UNCHANGED vars /\ LatestLedger' = LatestLedger
      BY <1>1 DEF LatestLedger, Restorable, vars
    <2> QED
      BY <2>1 DEF LedgerInv, Charged, HasPath, HasMail, HasLedger, RecordSurvives, Running,
                  SmtpAllowed, Manual, vars
  <1>2. CASE Next
    <2>1. RunsKept
      BY <1>2, LedgerStep
    <2>2. ASSUME NEW q \in Runs, phase'[q] \in {"absent", "pending"}
          PROVE  ~HasLedger(q)' /\ ~HasMail(q)'
      <3>1. phase[q] \in {"absent", "pending"} /\ ~HasLedger(q) /\ ~HasMail(q)
        BY <2>1, <2>2 DEF RunsKept, LedgerInv
      <3>2. ~HasMail(q)'
        BY <1>2, <3>1, MailStep DEF HasMail, Mail, Running
      <3>3. ~HasLedger(q)'
        <4>1. CASE UNCHANGED ledgers
          BY <3>1, <4>1 DEF HasLedger
        <4>2. ASSUME NEW r \in Runs, Uploads(r)
              PROVE  ~HasLedger(q)'
          <5> DEFINE Ledger == [run : Runs, chain : SUBSET (Nat \X Runs)]
                     e == [run |-> r, chain |-> job[r].chain]
          <5>1. ledgers \in Seq(Ledger) /\ e \in Ledger
            BY <4>2, RunningJob DEF Uploads, IInv, TypeOK, Job
          <5>2. ledgers' = Append(ledgers, e) /\ e.run # q
            BY <3>1, <4>2 DEF Uploads, Running
          <5> HIDE DEF Ledger, e
          <5> QED
            BY <3>1, <5>1, <5>2 DEF HasLedger
        <4> QED
          BY <1>2, <4>1, <4>2, LedgerStep DEF SameGreen, TurnsGreen
      <3> QED
        BY <3>2, <3>3
    <2> QED
      BY <1>2, <2>1, <2>2, ChargedKept, RecordsKept DEF LedgerInv, RunsKept
  <1> QED
    BY <1>1, <1>2

\* When no run is re-run, every record that a green run mailed stays in the chain later
\* runs restore, and that chain only grows.
THEOREM LedgerKept == NoReruns => (Spec => LedgerIsKept)
  <1> SUFFICES ASSUME NoReruns PROVE Spec => LedgerIsKept
    OBVIOUS
  <1>1. Init => LedgerInv
    BY DEF Init, LedgerInv, HasLedger, HasMail, Running
  <1>2. IInv /\ PathInv /\ LedgerInv /\ [Next]_vars => LedgerInv'
    BY LedgerNext
  <1>3. IInv /\ LedgerInv /\ [Next]_vars => [LatestLedger \subseteq LatestLedger']_vars
    BY ChainGrows
  <1>4. LedgerInv => \A m \in mails : RecordSurvives(m)
    BY DEF LedgerInv
  <1> QED
    BY <1>1, <1>2, <1>3, <1>4, PathInvariance, PTL DEF Spec, LedgerIsKept

=================================================================================
