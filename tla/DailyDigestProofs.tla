--------------------------- MODULE DailyDigestProofs ---------------------------
(***************************************************************************)
(* Proofs about the daily digest job, for every set of runs, input set,    *)
(* horizon and number of re-runs.  The at-most-once theorem needs that an  *)
(* attempt ends within two slots of the creation of its run: the listing   *)
(* of earlier runs starts one UTC day before the report day.               *)
(***************************************************************************)
EXTENDS DailyDigest, FiniteSetTheorems, TLAPS

-----------------------------------------------------------------------------
(* The inductive invariant *)

\* What an attempt of a run leaves behind.
Traces == tries \cup intents \cup reports

\* What holds of the state j of the running job of r.
JobSafe(r, j) ==
  /\ j.day <= UTCDay(created[r]) + 1
  /\ j.step \in {"build", "gate"} => ~j.should_send
  /\ (j.step \in {"intent", "send"} /\ j.should_send) => \A s \in tries : s.day # j.day

OneRunning == \A q, r \in Runs : Running(q) /\ Running(r) => q = r

\* An active attempt ends within the lag, counted from a moment of its horizon.
Clocked ==
  \A r \in Runs : Active(r) => /\ now <= queued[r] + MaxLag
                               /\ queued[r] <= created[r] + RerunHorizon

Counted == \A r \in Runs : IF phase[r] = "absent" THEN attempt[r] = 0 ELSE attempt[r] >= 1

\* Every trace of a run is of an attempt it has had, all traces of one attempt
\* are about one day, and a running attempt leaves them once its report is built.
Bound ==
  /\ \A a \in Traces : 1 <= a.attempt /\ a.attempt <= attempt[a.run]
  /\ \A a, b \in Traces : a.run = b.run /\ a.attempt = b.attempt => a.day = b.day
  /\ \A a \in Traces : (Active(a.run) /\ a.attempt = attempt[a.run]) =>
       Running(a.run) /\ job[a.run].step # "build" /\ job[a.run].day = a.day

\* A mailed day is at most one day after the creation of the run, in UTC.
Listed == \A s \in tries : s.day <= UTCDay(created[s.run]) + 1

IInv ==
  /\ TypeOK
  /\ OneRunning
  /\ Clocked
  /\ Counted
  /\ Bound
  /\ Listed
  /\ OneSmtpContactPerDay
  /\ \A r \in Runs : Running(r) => JobSafe(r, job[r])

-----------------------------------------------------------------------------
(* Types *)

LEMMA FreshJobType == FreshJob \in Job /\ FreshJob.day = 0 /\ ~FreshJob.should_send
                      /\ FreshJob.step = "build"
  BY DEF FreshJob, Job, StepName, ReportDay

LEMMA FieldType ==
  ASSUME NEW j \in Job
  PROVE  /\ \A v \in StepName : [j EXCEPT !.step = v] \in Job
         /\ \A v \in BOOLEAN : [j EXCEPT !.healthy = v] \in Job
         /\ \A v \in BOOLEAN : [j EXCEPT !.cancelled = v] \in Job
         /\ \A v \in BOOLEAN : [j EXCEPT !.built = v] \in Job
         /\ \A v \in ReportDay : [j EXCEPT !.day = v] \in Job
         /\ \A v \in BOOLEAN : [j EXCEPT !.should_send = v] \in Job
         /\ \A v \in BOOLEAN : [j EXCEPT !.receipt = v] \in Job
  <1>1. \A v \in StepName : [j EXCEPT !.step = v] \in Job
    BY DEF Job
  <1>2. \A v \in BOOLEAN : [j EXCEPT !.healthy = v] \in Job
    BY DEF Job
  <1>3. \A v \in BOOLEAN : [j EXCEPT !.cancelled = v] \in Job
    BY DEF Job
  <1>4. \A v \in BOOLEAN : [j EXCEPT !.built = v] \in Job
    BY DEF Job
  <1>5. \A v \in ReportDay : [j EXCEPT !.day = v] \in Job
    BY DEF Job
  <1>6. \A v \in BOOLEAN : [j EXCEPT !.should_send = v] \in Job
    BY DEF Job
  <1>7. \A v \in BOOLEAN : [j EXCEPT !.receipt = v] \in Job
    BY DEF Job
  <1>8. QED BY <1>1, <1>2, <1>3, <1>4, <1>5, <1>6, <1>7

LEMMA StepNames ==
  /\ \A s \in StepName : After[s] \in StepName
  /\ After["build"] = "gate" /\ After["gate"] = "intent"
  /\ \A s \in StepName \ {"build", "gate", "intent"} : After[s] \in {"history", "upload"}
                                                      \/ After[s] = "send"
  /\ \A s \in StepName : After[s] \in {"intent", "send"} => s \in {"gate", "intent"}
  /\ \A s \in StepName : After[s] # "build"
  BY DEF StepName, After

LEMMA Days ==
  ASSUME NEW c \in Nat, NEW t \in Nat, t <= c + 2
  PROVE  /\ BeijingDay(t) \in Nat /\ UTCDay(c) \in Nat
         /\ BeijingDay(t) <= UTCDay(c) + 1
  BY DEF BeijingDay, UTCDay

-----------------------------------------------------------------------------
(* Steps that only move the running job *)

\* A step that changes nothing but the state of a running job preserves the
\* invariant when the new state is safe and keeps the day of a built report.
LEMMA QuietStep ==
  ASSUME IInv, NEW r \in Runs, Running(r), NEW j \in Job, SetJob(r, j),
         UNCHANGED <<others, evidence>>, JobSafe(r, j),
         job[r].step # "build" => j.step # "build" /\ j.day = job[r].day
  PROVE  IInv'
  <1> USE DEF IInv, SetJob, others, identity, evidence
  <1>1. TypeOK'
    BY DEF TypeOK
  <1>2. job'[r] = j /\ \A q \in Runs \ {r} : job'[q] = job[q]
    BY DEF TypeOK
  <1>3. OneRunning' /\ Clocked' /\ Counted' /\ Listed' /\ OneSmtpContactPerDay'
    BY DEF OneRunning, Clocked, Counted, Listed, OneSmtpContactPerDay, Running, Active
  <1>4. Bound'
    BY <1>2 DEF Bound, Traces, Running, Active, TypeOK, Try, Intent, Report
  <1>5. ASSUME NEW q \in Runs, Running(q)'
        PROVE  JobSafe(q, job[q])'
    <2>1. Running(q)
      BY <1>5 DEF Running
    <2>2. q = r
      BY <2>1 DEF OneRunning
    <2>3. QED BY <1>2, <2>2 DEF JobSafe
  <1>6. QED BY <1>1, <1>3, <1>4, <1>5

\* What the gate's answer means: if it lets a day be sent, SMTP has not been
\* contacted for the day.  The run of an earlier contact would be listed; with one
\* attempt all its live evidence is about its day, so it confirms or is uncertain.
LEMMA SendableMeansUntried ==
  ASSUME IInv, NEW d \in ReportDay, Sendable(d)
  PROVE  \A s \in tries : s.day # d
  <1> SUFFICES ASSUME NEW s \in tries, s.day = d
               PROVE  FALSE
    OBVIOUS
  <1> DEFINE q == s.run
  <1>1. /\ q \in Runs /\ s.attempt \in Nat /\ s \in Sends(q) /\ s \in Traces
        /\ tries \subseteq Try /\ intents \subseteq Intent /\ reports \subseteq Report
        /\ created[q] \in Nat /\ attempt[q] \in Nat
    BY DEF IInv, TypeOK, Try, Sends, Traces
  <1>2. 1 <= s.attempt /\ s.attempt <= attempt[q] /\ d <= UTCDay(created[q]) + 1
    BY <1>1 DEF IInv, Bound, Listed
  <1>3. phase[q] # "absent"
    BY <1>1, <1>2 DEF IInv, Counted
  <1>4. q \in Senders(d)
    BY <1>1, <1>2, <1>3 DEF Senders, Window, UTCDay, ReportDay
  <1>5. attempt[q] = 1 /\ ~Confirmed(q, d) /\ ~Uncertain(q, d)
    BY <1>4 DEF Sendable, Mixed
  <1>6. EvidenceDays(q) # {} /\ d \notin EvidenceDays(q)
    BY <1>5 DEF Uncertain
  <1>7. PICK a \in ReportsOf(q) \cup IntentsOf(q) : TRUE
    BY <1>6 DEF EvidenceDays
  <1>8. a \in Traces /\ a.run = q /\ a.attempt \in Nat
    BY <1>1, <1>7 DEF ReportsOf, IntentsOf, Traces, Report, Intent
  <1>9. a.attempt = 1 /\ s.attempt = 1
    BY <1>1, <1>2, <1>5, <1>8 DEF IInv, Bound
  <1>10. a.day = d
    BY <1>1, <1>8, <1>9 DEF IInv, Bound
  <1>11. QED BY <1>6, <1>7, <1>10 DEF EvidenceDays

-----------------------------------------------------------------------------
(* The steps of the job *)

LEMMA SkipStep ==
  ASSUME IInv, NEW r \in Runs, Skip(r)
  PROVE  IInv'
  <1> DEFINE j == [job[r] EXCEPT !.step = After[@]]
  <1>1. job[r] \in Job /\ job[r].step \in StepName /\ Running(r) /\ JobSafe(r, job[r])
    BY DEF Skip, IInv, TypeOK, Job
  <1>2. j \in Job /\ j.step = After[job[r].step] /\ j.day = job[r].day
        /\ j.should_send = job[r].should_send
    BY <1>1, FieldType, StepNames DEF Job
  <1>3. JobSafe(r, j)
    <2>1. CASE job[r].step \in {"build", "gate"}
      BY <2>1, <1>1, <1>2, StepNames DEF JobSafe
    <2>2. CASE job[r].step \notin {"build", "gate"}
      BY <2>2, <1>1, <1>2, StepNames DEF JobSafe, StepName, After
    <2>3. QED BY <2>1, <2>2
  <1>4. QED BY <1>1, <1>2, <1>3, StepNames, QuietStep DEF Skip

LEMMA BreakStep ==
  ASSUME IInv, NEW r \in Runs, Break(r)
  PROVE  IInv'
  <1> DEFINE h == [job[r] EXCEPT !.healthy = FALSE]
             j == [h EXCEPT !.step = After[@]]
  <1>1. job[r] \in Job /\ job[r].step \in StepName /\ Running(r) /\ JobSafe(r, job[r])
    BY DEF Break, IInv, TypeOK, Job
  <1>2. h \in Job /\ j \in Job
    <2>1. h \in Job
      BY <1>1, FieldType
    <2>2. h.step \in StepName
      BY <2>1 DEF Job
    <2>3. QED BY <2>1, <2>2, FieldType, StepNames
  <1>3. j.step = After[job[r].step] /\ j.day = job[r].day
        /\ j.should_send = job[r].should_send
    BY <1>1 DEF Job
  <1>4. JobSafe(r, j)
    <2>1. CASE job[r].step \in {"build", "gate"}
      BY <2>1, <1>1, <1>3, StepNames DEF JobSafe
    <2>2. CASE job[r].step \notin {"build", "gate"}
      BY <2>2, <1>1, <1>3, StepNames DEF JobSafe, StepName, After
    <2>3. QED BY <2>1, <2>2
  <1>5. SetJob(r, j) /\ UNCHANGED <<others, evidence>>
    BY <1>1 DEF Break, Job
  <1>6. QED BY <1>1, <1>2, <1>3, <1>4, <1>5, StepNames, QuietStep

LEMMA CancelStep ==
  ASSUME IInv, NEW r \in Runs, Cancel(r)
  PROVE  IInv'
  <1> DEFINE h == [job[r] EXCEPT !.healthy = FALSE]
             j == [h EXCEPT !.cancelled = TRUE]
  <1>1. job[r] \in Job /\ Running(r) /\ JobSafe(r, job[r])
    BY DEF Cancel, IInv, TypeOK, Job
  <1>2. /\ j \in Job
        /\ j.step = job[r].step /\ j.day = job[r].day /\ j.should_send = job[r].should_send
    <2>1. h \in Job
      BY <1>1, FieldType
    <2>2. j \in Job
      BY <2>1, FieldType
    <2>3. j.step = job[r].step /\ j.day = job[r].day /\ j.should_send = job[r].should_send
      BY <1>1 DEF Job
    <2>4. QED BY <2>2, <2>3
  <1>3. JobSafe(r, j)
    BY <1>1, <1>2 DEF JobSafe
  <1>4. SetJob(r, j) /\ UNCHANGED <<others, evidence>>
    BY <1>1 DEF Cancel, Job, others
  <1>5. QED BY <1>1, <1>2, <1>3, <1>4, QuietStep

LEMMA BuildStep ==
  ASSUME IInv, RerunHorizon + MaxLag <= 2, NEW r \in Runs, Build(r)
  PROVE  IInv'
  <1> DEFINE d == BuiltDay(r)
             h == [job[r] EXCEPT !.step = "gate"]
             i == [h EXCEPT !.built = TRUE]
             j == [i EXCEPT !.day = d]
  <1>1. job[r] \in Job /\ Running(r) /\ JobSafe(r, job[r]) /\ job[r].step = "build"
    BY DEF Build, Due, At, IInv, TypeOK
  <1>2. now \in Nat /\ created[r] \in Nat /\ now <= created[r] + 2
    <2>1. now \in Nat /\ created[r] \in Nat /\ queued[r] \in Nat
      BY BoundsAssumption DEF IInv, TypeOK
    <2>2. now <= queued[r] + MaxLag /\ queued[r] <= created[r] + RerunHorizon
      BY <1>1 DEF IInv, Clocked, Active, Running
    <2>3. QED BY <2>1, <2>2, BoundsAssumption
  <1>3. input[r].report_date \in ReportDay
    BY InputsAssumption DEF IInv, TypeOK, Input, NoInput, Latest, ReportDay
  <1>4. d \in ReportDay /\ d <= BeijingDay(now)
    BY <1>2, <1>3, Days DEF Build, BuiltDay, ReportDay
  <1>5. d <= UTCDay(created[r]) + 1
    BY <1>2, <1>4, Days DEF ReportDay
  <1>6. h \in Job /\ i \in Job
    BY <1>1, FieldType DEF StepName
  <1>7. j \in Job /\ j.step = "gate" /\ j.day = d /\ j.should_send = job[r].should_send
    <2>1. j \in Job
      BY <1>4, <1>6, FieldType
    <2>2. j.step = "gate" /\ j.day = d /\ j.should_send = job[r].should_send
      BY <1>1 DEF Job
    <2>3. QED BY <2>1, <2>2
  <1>8. JobSafe(r, j)
    BY <1>1, <1>5, <1>7 DEF JobSafe
  <1>9. SetJob(r, j) /\ UNCHANGED <<others, evidence>>
    BY <1>1 DEF Build, Job
  <1>10. QED BY <1>1, <1>7, <1>8, <1>9, QuietStep

LEMMA GateStep ==
  ASSUME IInv, NEW r \in Runs, Gate(r)
  PROVE  IInv'
  <1> DEFINE b == ~ValidationOnly(r) /\ Sendable(job[r].day)
             h == [job[r] EXCEPT !.step = "intent"]
             j == [h EXCEPT !.should_send = b]
  <1>1. job[r] \in Job /\ Running(r) /\ JobSafe(r, job[r]) /\ job[r].step = "gate"
    BY DEF Gate, Due, At, IInv, TypeOK
  <1>2. b \in BOOLEAN
    OBVIOUS
  <1>3. SetJob(r, j) /\ UNCHANGED <<others, evidence>>
    BY <1>1 DEF Gate, Job
  <1>4. job[r].day \in ReportDay
    BY <1>1 DEF Job
  <1>5. b => \A s \in tries : s.day # job[r].day
    BY <1>4, SendableMeansUntried
  <1> HIDE DEF b
  <1>6. h \in Job /\ h.day = job[r].day
    BY <1>1, FieldType DEF StepName, Job
  <1>7. j \in Job
    BY <1>2, <1>6, FieldType
  <1>8. j.step = "intent" /\ j.day = job[r].day /\ j.should_send = b
    BY <1>1 DEF Job
  <1>9. JobSafe(r, j)
    BY <1>1, <1>5, <1>8 DEF JobSafe
  <1>10. QED BY <1>1, <1>3, <1>7, <1>8, <1>9, QuietStep

\* The intent is a trace of the running attempt, about the day of its report.
LEMMA IntentStep ==
  ASSUME IInv, NEW r \in Runs, PersistIntent(r)
  PROVE  IInv'
  <1> DEFINE e == [run |-> r, attempt |-> attempt[r], day |-> job[r].day, at |-> now]
  <1> USE DEF IInv
  <1>1. PICK ok \in BOOLEAN : SetJob(r, [job[r] EXCEPT !.step = "send", !.healthy = ok])
    BY DEF PersistIntent
  <1> DEFINE j == [job[r] EXCEPT !.step = "send", !.healthy = ok]
  <1>2. job[r] \in Job /\ Running(r) /\ JobSafe(r, job[r]) /\ job[r].step = "intent"
        /\ intents' = intents \cup {e} /\ attempt[r] \in Nat /\ attempt[r] >= 1 /\ now \in Nat
        /\ UNCHANGED <<others, tries, reports, history>>
    BY DEF PersistIntent, Due, At, TypeOK, Counted, Running
  <1>3. /\ j \in Job /\ j.step = "send" /\ j.day = job[r].day
        /\ j.should_send = job[r].should_send
    BY <1>2 DEF Job, StepName
  <1>4. job' = [job EXCEPT ![r] = j] /\ job'[r] = j /\ \A q \in Runs \ {r} : job'[q] = job[q]
    BY <1>1 DEF SetJob, TypeOK
  <1>5. e \in Intent
    BY <1>2 DEF Intent, Job
  <1>6. TypeOK'
    BY <1>2, <1>3, <1>4, <1>5 DEF TypeOK, others, identity
  <1>7. OneRunning' /\ Clocked' /\ Counted' /\ Listed' /\ OneSmtpContactPerDay'
    BY <1>2 DEF OneRunning, Clocked, Counted, Listed, OneSmtpContactPerDay, Running, Active,
                others, identity
  <1>8. Bound'
    <2>1. Traces' = Traces \cup {e}
      BY <1>2 DEF Traces
    <2>2. \A a \in Traces : a.run \in Runs
      BY DEF Traces, TypeOK, Try, Intent, Report
    <2>3. \A a \in Traces : a.run = r /\ a.attempt = e.attempt => a.day = e.day
      BY <1>2 DEF Bound, Running, Active
    <2>4. attempt' = attempt /\ phase' = phase
      BY <1>2 DEF others
    <2>5. \A a \in Traces' : 1 <= a.attempt /\ a.attempt <= attempt'[a.run]
      BY <1>2, <2>1, <2>4 DEF Bound
    <2>6. \A a, b \in Traces' : a.run = b.run /\ a.attempt = b.attempt => a.day = b.day
      BY <2>1, <2>3 DEF Bound
    <2>7. \A a \in Traces' : (Active(a.run)' /\ a.attempt = attempt'[a.run]) =>
             Running(a.run)' /\ job'[a.run].step # "build" /\ job'[a.run].day = a.day
      BY <1>2, <1>3, <1>4, <2>1, <2>2, <2>4 DEF Bound, Running, Active
    <2>8. QED BY <2>5, <2>6, <2>7 DEF Bound
  <1>9. ASSUME NEW q \in Runs, Running(q)'
        PROVE  JobSafe(q, job[q])'
    <2>1. q = r
      BY <1>2, <1>9 DEF OneRunning, Running, others
    <2>2. QED BY <1>2, <1>3, <1>4, <2>1 DEF JobSafe, others, identity
  <1>10. QED BY <1>6, <1>7, <1>8, <1>9

\* The only step that contacts SMTP; the gate's answer still holds, because no
\* other job is running.
LEMMA SendStepSafe ==
  ASSUME IInv, NEW r \in Runs, SendGmail(r)
  PROVE  IInv'
  <1> USE DEF IInv
  <1>1. PICK accepted \in BOOLEAN, receipt \in BOOLEAN, ok \in BOOLEAN :
          /\ tries' = tries \cup {SendStep(r, accepted, IF ok THEN "success" ELSE "failure")}
          /\ SetJob(r, [job[r] EXCEPT !.step = "history", !.healthy = ok, !.receipt = receipt])
    BY DEF SendGmail
  <1> DEFINE e == SendStep(r, accepted, IF ok THEN "success" ELSE "failure")
             j == [job[r] EXCEPT !.step = "history", !.healthy = ok, !.receipt = receipt]
  <1>2. job[r] \in Job /\ Running(r) /\ JobSafe(r, job[r]) /\ job[r].step = "send"
        /\ attempt[r] \in Nat /\ attempt[r] >= 1
        /\ UNCHANGED <<others, intents, reports, history>>
    BY DEF SendGmail, Due, At, TypeOK, Counted, Running
  <1>3. job[r].should_send
    BY <1>2 DEF SendGmail, Due, StepIf
  <1>4. j \in Job /\ j.step = "history" /\ j.day = job[r].day
    BY <1>2 DEF Job, StepName
  <1>5. job' = [job EXCEPT ![r] = j] /\ job'[r] = j /\ \A q \in Runs \ {r} : job'[q] = job[q]
    BY <1>1 DEF SetJob, TypeOK
  <1>6. e \in Try /\ e.run = r /\ e.attempt = attempt[r] /\ e.day = job[r].day
    BY <1>2 DEF Try, SendStep, Job, TypeOK
  <1>7. tries' = tries \cup {e}
    BY <1>1
  <1> HIDE DEF e, j
  <1>8. TypeOK'
    BY <1>2, <1>4, <1>5, <1>6, <1>7 DEF TypeOK, others, identity
  <1>9. OneRunning' /\ Clocked' /\ Counted'
    BY <1>2 DEF OneRunning, Clocked, Counted, Running, Active, others, identity
  <1>10. Listed'
    BY <1>2, <1>6, <1>7 DEF Listed, JobSafe, others, identity
  <1>11. \A s \in tries : s.day # job[r].day
    BY <1>2, <1>3 DEF JobSafe
  <1>12. OneSmtpContactPerDay'
    BY <1>6, <1>7, <1>11 DEF OneSmtpContactPerDay
  <1>13. Bound'
    <2>1. Traces' = Traces \cup {e}
      BY <1>2, <1>7 DEF Traces
    <2>2. \A a \in Traces : a.run \in Runs
      BY DEF Traces, TypeOK, Try, Intent, Report
    <2>3. \A a \in Traces : a.run = r /\ a.attempt = e.attempt => a.day = e.day
      BY <1>2, <1>6 DEF Bound, Running, Active
    <2>4. attempt' = attempt /\ phase' = phase
      BY <1>2 DEF others
    <2>5. \A a \in Traces' : 1 <= a.attempt /\ a.attempt <= attempt'[a.run]
      BY <1>2, <1>6, <2>1, <2>4 DEF Bound
    <2>6. \A a, b \in Traces' : a.run = b.run /\ a.attempt = b.attempt => a.day = b.day
      BY <1>6, <2>1, <2>3 DEF Bound
    <2>7. \A a \in Traces' : (Active(a.run)' /\ a.attempt = attempt'[a.run]) =>
             Running(a.run)' /\ job'[a.run].step # "build" /\ job'[a.run].day = a.day
      BY <1>2, <1>4, <1>5, <1>6, <2>1, <2>2, <2>4 DEF Bound, Running, Active
    <2>8. QED BY <2>5, <2>6, <2>7 DEF Bound
  <1>14. ASSUME NEW q \in Runs, Running(q)'
         PROVE  JobSafe(q, job[q])'
    <2>1. q = r
      BY <1>2, <1>14 DEF OneRunning, Running, others
    <2>2. QED BY <1>2, <1>4, <1>5, <2>1 DEF JobSafe, others, identity
  <1>15. QED BY <1>8, <1>9, <1>10, <1>12, <1>13, <1>14

LEMMA HistoryStep ==
  ASSUME IInv, NEW r \in Runs, PersistHistory(r)
  PROVE  IInv'
  <1> USE DEF IInv
  <1> DEFINE j == [job[r] EXCEPT !.step = "upload"]
  <1>1. job[r] \in Job /\ Running(r) /\ JobSafe(r, job[r]) /\ job[r].step = "history"
        /\ history' = history \cup {job[r].day}
        /\ UNCHANGED <<others, tries, intents, reports>>
    BY DEF PersistHistory, Due, At, TypeOK
  <1>2. j \in Job /\ j.step = "upload" /\ j.day = job[r].day
    BY <1>1 DEF Job, StepName
  <1>3. job' = [job EXCEPT ![r] = j] /\ job'[r] = j /\ \A q \in Runs \ {r} : job'[q] = job[q]
    BY DEF PersistHistory, SetJob, TypeOK
  <1>4. TypeOK'
    BY <1>1, <1>2, <1>3 DEF TypeOK, others, identity, Job
  <1>5. OneRunning' /\ Clocked' /\ Counted' /\ Listed' /\ OneSmtpContactPerDay'
    BY <1>1 DEF OneRunning, Clocked, Counted, Listed, OneSmtpContactPerDay, Running, Active,
                others, identity
  <1>6. Bound'
    BY <1>1, <1>2, <1>3 DEF Bound, Traces, Running, Active, TypeOK, Try, Intent, Report, others
  <1>7. ASSUME NEW q \in Runs, Running(q)'
        PROVE  JobSafe(q, job[q])'
    <2>1. q = r
      BY <1>1, <1>7 DEF OneRunning, Running, others
    <2>2. QED BY <1>1, <1>2, <1>3, <2>1 DEF JobSafe, others, identity
  <1>8. QED BY <1>4, <1>5, <1>6, <1>7

-----------------------------------------------------------------------------
(* Joining and leaving the concurrency group, and the clock *)

\* A new attempt has no traces yet: those of the run are of earlier attempts.
LEMMA EnqueueStep ==
  ASSUME IInv, NEW r \in Runs, Dispatch(r) \/ Rerun(r)
  PROVE  IInv'
  <1> USE DEF IInv
  <1>1. /\ phase[r] \notin {"pending", "running"}
        /\ attempt' = [attempt EXCEPT ![r] = attempt[r] + 1]
        /\ Enqueue(r)
        /\ UNCHANGED <<now, job, evidence>>
    BY DEF Dispatch, Rerun, Concluded, Counted, TypeOK
  <1>2. /\ phase'[r] = "pending" /\ attempt'[r] = attempt[r] + 1
        /\ \A q \in Runs \ {r} : /\ attempt'[q] = attempt[q] /\ created'[q] = created[q]
                                 /\ phase'[q] = phase[q] \/ phase'[q] = "cancelled"
                                 /\ phase'[q] = "absent" <=> phase[q] = "absent"
                                 /\ Running(q)' => queued'[q] = queued[q]
                                 /\ ~(phase'[q] = "pending")
        /\ queued'[r] = now
    BY <1>1 DEF Dispatch, Rerun, Enqueue, TypeOK, Running, identity
  <1>3. now \in Nat /\ (Rerun(r) => created'[r] = created[r]) /\ (Dispatch(r) => created'[r] = now)
    BY DEF Dispatch, Rerun, TypeOK, identity
  <1>4. TypeOK'
    <2>1. phase' \in [Runs -> {"absent", "pending", "running"} \cup Concluded]
          /\ queued' \in [Runs -> Nat]
      BY <1>1, <1>3 DEF Enqueue, TypeOK, Concluded
    <2>2. attempt' \in [Runs -> Nat]
      BY <1>1 DEF TypeOK
    <2>3. input' \in [Runs -> Inputs \cup {NoInput}]
      BY DEF Dispatch, Rerun, TypeOK, identity
    <2>4. created' \in [Runs -> Nat] /\ base' \in [Runs -> SUBSET ReportDay]
      BY <1>3 DEF Dispatch, Rerun, TypeOK, identity
    <2>5. QED BY <1>1, <2>1, <2>2, <2>3, <2>4 DEF TypeOK, evidence
  <1>5. OneRunning'
    BY <1>1, <1>2 DEF OneRunning, Running
  <1>6. Clocked'
    <2>1. now <= queued'[r] + MaxLag /\ queued'[r] <= created'[r] + RerunHorizon
      <3>1. CASE Dispatch(r)
        BY <3>1, <1>2, <1>3, BoundsAssumption
      <3>2. CASE Rerun(r)
        BY <3>2, <1>2, <1>3, BoundsAssumption DEF Rerun
      <3>3. QED BY <3>1, <3>2
    <2>2. ASSUME NEW q \in Runs \ {r}, Active(q)'
          PROVE  now <= queued'[q] + MaxLag /\ queued'[q] <= created'[q] + RerunHorizon
      BY <1>2, <2>2 DEF Clocked, Active, Running
    <2>3. QED BY <1>1, <2>1, <2>2 DEF Clocked
  <1>7. Counted'
    BY <1>2, BoundsAssumption DEF Counted, TypeOK
  <1>8. Traces' = Traces /\ \A a \in Traces : a.run \in Runs /\ a.attempt \in Nat
    BY <1>1 DEF Traces, TypeOK, Try, Intent, Report, evidence
  <1>9. Bound'
    <2>1. \A a \in Traces : 1 <= a.attempt /\ a.attempt <= attempt'[a.run]
      BY <1>2, <1>8 DEF Bound, TypeOK
    <2>2. \A a \in Traces : a.run = r => a.attempt # attempt'[r]
      BY <1>2, <1>8 DEF Bound, TypeOK
    <2>3. \A a \in Traces : (Active(a.run)' /\ a.attempt = attempt'[a.run]) =>
             Running(a.run)' /\ job'[a.run].step # "build" /\ job'[a.run].day = a.day
      BY <1>1, <1>2, <1>8, <2>2 DEF Bound, Running, Active
    <2>4. QED BY <1>8, <2>1, <2>3 DEF Bound
  <1>10. Listed'
    <2>1. ASSUME NEW s \in tries
          PROVE  created'[s.run] = created[s.run]
      <3>1. s.run \in Runs /\ s \in Traces /\ s.attempt \in Nat
        BY <1>8 DEF Traces
      <3>2. attempt[s.run] # 0
        BY <3>1 DEF Bound, TypeOK
      <3>3. phase[s.run] # "absent"
        BY <3>1, <3>2 DEF Counted
      <3>4. QED BY <3>1, <3>3, <1>2, <1>3 DEF Dispatch
    <2>2. QED BY <1>1, <2>1 DEF Listed, evidence
  <1>11. OneSmtpContactPerDay'
    BY <1>1 DEF OneSmtpContactPerDay, evidence
  <1>12. ASSUME NEW q \in Runs, Running(q)'
         PROVE  JobSafe(q, job[q])'
    <2>1. q # r /\ Running(q) /\ created'[q] = created[q]
      BY <1>2, <1>12 DEF Running
    <2>2. QED BY <1>1, <2>1 DEF JobSafe, evidence
  <1>13. QED BY <1>4, <1>5, <1>6, <1>7, <1>9, <1>10, <1>11, <1>12

LEMMA StartStep ==
  ASSUME IInv, NEW r \in Runs, StartJob(r)
  PROVE  IInv'
  <1> USE DEF IInv
  <1>1. phase[r] = "pending" /\ GroupFree /\ phase' = [phase EXCEPT ![r] = "running"]
        /\ job' = [job EXCEPT ![r] = FreshJob]
        /\ UNCHANGED <<now, attempt, queued, identity, evidence>>
    BY DEF StartJob, SetJob
  <1>2. /\ job'[r] = FreshJob /\ phase'[r] = "running"
        /\ \A q \in Runs \ {r} : job'[q] = job[q] /\ phase'[q] = phase[q] /\ ~Running(q)
    BY <1>1 DEF TypeOK, GroupFree
  <1>3. TypeOK'
    BY <1>1, FreshJobType DEF TypeOK, identity, evidence
  <1>4. OneRunning' /\ Clocked' /\ Counted' /\ Listed' /\ OneSmtpContactPerDay'
    BY <1>1, <1>2 DEF OneRunning, Clocked, Counted, Listed, OneSmtpContactPerDay, Running,
                      Active, identity, evidence
  <1>5. Traces' = Traces /\ \A a \in Traces : a.run \in Runs
    BY <1>1 DEF Traces, TypeOK, Try, Intent, Report, evidence
  <1>6. \A a \in Traces : ~(Active(a.run)' /\ a.attempt = attempt'[a.run])
    BY <1>1, <1>2, <1>5 DEF Bound, Active, Running
  <1>7. Bound'
    BY <1>1, <1>5, <1>6 DEF Bound
  <1>8. ASSUME NEW q \in Runs, Running(q)'
        PROVE  JobSafe(q, job[q])'
    <2>1. q = r
      BY <1>2, <1>8 DEF Running
    <2>2. created'[r] \in Nat /\ 0 <= UTCDay(created'[r]) + 1
      BY <1>3 DEF TypeOK, UTCDay
    <2>3. QED BY <1>2, <2>1, <2>2, FreshJobType DEF JobSafe
  <1>9. QED BY <1>3, <1>4, <1>7, <1>8

LEMMA TickStep ==
  ASSUME IInv, Tick
  PROVE  IInv'
  <1> USE DEF IInv
  <1>1. now \in Nat /\ now < MaxTime /\ now' = now + 1 /\ now' \in 3 .. MaxTime + 5
        /\ UNCHANGED <<phase, attempt, queued, job, identity, evidence>>
        /\ \A r \in Runs : Active(r) => now < queued[r] + MaxLag
    BY BoundsAssumption DEF Tick, TypeOK
  <1>2. TypeOK'
    BY <1>1 DEF TypeOK, identity, evidence
  <1>3. Clocked'
    BY <1>1, BoundsAssumption DEF Clocked, Active, TypeOK, identity
  <1>4. OneRunning' /\ Counted' /\ Listed' /\ OneSmtpContactPerDay' /\ Bound'
    BY <1>1 DEF OneRunning, Counted, Listed, OneSmtpContactPerDay, Bound, Traces, Running,
                Active, identity, evidence
  <1>5. \A r \in Runs : Running(r)' => JobSafe(r, job[r])'
    BY <1>1 DEF Running, JobSafe, identity, evidence
  <1>6. QED BY <1>2, <1>3, <1>4, <1>5

\* A run that is over leaves the group with at most the report of its attempt.
LEMMA LeaveStep ==
  ASSUME IInv, NEW r \in Runs, Crash(r) \/ Finish(r)
  PROVE  IInv'
  <1> USE DEF IInv
  <1> DEFINE e == [run |-> r, attempt |-> attempt[r], day |-> job[r].day, at |-> now,
                   receipt |-> job[r].receipt]
  <1>1. /\ Running(r) /\ job[r] \in Job /\ attempt[r] \in Nat /\ attempt[r] >= 1 /\ now \in Nat
        /\ job' = [job EXCEPT ![r] = FreshJob]
        /\ queued' = [queued EXCEPT ![r] = 0]
        /\ UNCHANGED <<now, attempt, identity, tries, intents, history>>
    BY DEF Crash, Finish, At, Leave, SetJob, TypeOK, Counted, Running, evidence
  <1>2. PICK c \in Concluded : phase' = [phase EXCEPT ![r] = c]
    BY DEF Crash, Finish, Conclusion, Concluded
  <1>3. reports' = reports \/ (reports' = reports \cup {e} /\ job[r].step = "upload")
    BY DEF Crash, Finish, At, evidence
  <1>4. /\ phase'[r] = c /\ c \notin {"absent", "pending", "running"}
        /\ \A q \in Runs \ {r} : /\ phase'[q] = phase[q] /\ job'[q] = job[q]
                                 /\ queued'[q] = queued[q] /\ ~Running(q)
    BY <1>1, <1>2 DEF TypeOK, Concluded, OneRunning
  <1>5. e \in Report
    BY <1>1 DEF Report, Job
  <1>6. TypeOK'
    <2>1. reports' \subseteq Report
      BY <1>3, <1>5 DEF TypeOK
    <2>2. phase' \in [Runs -> {"absent", "pending", "running"} \cup Concluded]
      BY <1>2 DEF TypeOK
    <2>3. job' \in [Runs -> Job] /\ queued' \in [Runs -> Nat]
      BY <1>1, FreshJobType DEF TypeOK
    <2>4. QED BY <1>1, <2>1, <2>2, <2>3 DEF TypeOK, identity
  <1>7. OneRunning' /\ Clocked' /\ Counted' /\ Listed' /\ OneSmtpContactPerDay'
    <2>1. OneRunning' /\ Clocked'
      BY <1>1, <1>4 DEF OneRunning, Clocked, Running, Active, identity
    <2>2. Counted'
      BY <1>1, <1>4 DEF Counted, Running
    <2>3. QED BY <1>1, <2>1, <2>2 DEF Listed, OneSmtpContactPerDay, identity
  <1>8. Bound'
    <2>1. Traces' \subseteq Traces \cup {e} /\ \A a \in Traces' : a.run \in Runs
      BY <1>1, <1>3, <1>6 DEF Traces, TypeOK, Try, Intent, Report
    <2>2. \A a \in Traces : a.run = r /\ a.attempt = e.attempt => a.day = e.day
      BY <1>1 DEF Bound, Running, Active
    <2>3. \A a \in Traces' : 1 <= a.attempt /\ a.attempt <= attempt'[a.run]
      BY <1>1, <2>1 DEF Bound
    <2>4. \A a, b \in Traces' : a.run = b.run /\ a.attempt = b.attempt => a.day = b.day
      BY <2>1, <2>2 DEF Bound
    <2>5. \A a \in Traces' : (Active(a.run)' /\ a.attempt = attempt'[a.run]) =>
             Running(a.run)' /\ job'[a.run].step # "build" /\ job'[a.run].day = a.day
      BY <1>1, <1>4, <2>1 DEF Bound, Running, Active
    <2>6. QED BY <2>3, <2>4, <2>5 DEF Bound
  <1>9. ASSUME NEW q \in Runs
        PROVE  ~Running(q)'
    BY <1>4 DEF Running
  <1>10. QED BY <1>6, <1>7, <1>8, <1>9

-----------------------------------------------------------------------------
(* The theorems *)

LEMMA Initially == Init => IInv
  <1> SUFFICES ASSUME Init
               PROVE  IInv
    OBVIOUS
  <1>1. TypeOK
    BY FreshJobType, BoundsAssumption DEF Init, TypeOK
  <1>2. OneRunning /\ Clocked /\ Counted /\ Bound /\ Listed /\ OneSmtpContactPerDay
    BY DEF Init, OneRunning, Clocked, Counted, Bound, Traces, Listed, OneSmtpContactPerDay,
           Running, Active
  <1>3. \A r \in Runs : ~Running(r)
    BY DEF Init, Running
  <1>4. QED BY <1>1, <1>2, <1>3 DEF IInv

LEMMA Inductive ==
  ASSUME RerunHorizon + MaxLag <= 2, IInv, [Next]_vars
  PROVE  IInv'
  <1>1. CASE UNCHANGED vars
    <2>1. TypeOK' /\ OneRunning' /\ Clocked' /\ Counted' /\ Listed' /\ OneSmtpContactPerDay'
      BY <1>1 DEF IInv, vars, TypeOK, OneRunning, Clocked, Counted, Listed,
                  OneSmtpContactPerDay, Running, Active
    <2>2. Bound' /\ \A r \in Runs : Running(r)' => JobSafe(r, job[r])'
      BY <1>1 DEF IInv, vars, Bound, Traces, Running, Active, JobSafe
    <2>3. QED BY <2>1, <2>2 DEF IInv
  <1>2. CASE Tick
    BY <1>2, TickStep
  <1>3. ASSUME NEW r \in Runs, StartJob(r) \/ JobStep(r) \/ Environment(r)
        PROVE  IInv'
    <2>1. CASE StartJob(r)
      BY <2>1, StartStep
    <2>2. CASE Build(r)
      BY <2>2, BuildStep
    <2>3. CASE Gate(r)
      BY <2>3, GateStep
    <2>4. CASE Refuse(r) \/ Break(r)
      BY <2>4, BreakStep DEF Refuse
    <2>5. CASE PersistIntent(r)
      BY <2>5, IntentStep
    <2>6. CASE SendGmail(r)
      BY <2>6, SendStepSafe
    <2>7. CASE PersistHistory(r)
      BY <2>7, HistoryStep
    <2>8. CASE Skip(r)
      BY <2>8, SkipStep
    <2>9. CASE Crash(r) \/ Finish(r)
      BY <2>9, LeaveStep
    <2>10. CASE Dispatch(r) \/ Rerun(r)
      BY <2>10, EnqueueStep
    <2>11. CASE Cancel(r)
      BY <2>11, CancelStep
    <2>12. QED BY <1>3, <2>1, <2>2, <2>3, <2>4, <2>5, <2>6, <2>7, <2>8, <2>9, <2>10, <2>11
               DEF JobStep, Environment
  <1>4. QED BY <1>1, <1>2, <1>3 DEF Next

\* The reconciliation and the identity of every trace are sound in every
\* reachable state, when attempts end close enough to their run's creation.
THEOREM Invariance ==
  ASSUME RerunHorizon + MaxLag <= 2
  PROVE  Spec => []IInv
  <1>1. Init => IInv
    BY Initially
  <1>2. IInv /\ [Next]_vars => IInv'
    BY Inductive
  <1>3. QED BY <1>1, <1>2, PTL DEF Spec

\* SMTP is contacted at most once for the report of one day: the gate reconciles
\* the earlier contact whatever crashed, was cancelled, was refused or got lost.
THEOREM AtMostOneContact ==
  ASSUME RerunHorizon + MaxLag <= 2
  PROVE  Spec => []OneSmtpContactPerDay
  <1>1. IInv => OneSmtpContactPerDay
    BY DEF IInv
  <1>2. QED BY <1>1, Invariance, PTL

\* Type correctness of the daily digest job.
THEOREM DigestTypes ==
  ASSUME RerunHorizon + MaxLag <= 2
  PROVE  Spec => []TypeOK
  <1>1. IInv => TypeOK
    BY DEF IInv
  <1>2. QED BY <1>1, Invariance, PTL

-----------------------------------------------------------------------------
(* What a run keeps: the invariant behind green runs and refusals.  It rests   *)
(* on IInv, which gives every trace its attempt and its day.                   *)

\* SMTP accepted the report of day d, as the steps T say.
AcceptedIn(d, T) == \E s \in T : s.day = d /\ s.accepted
\* The traces of the running attempt of r.
OfAttempt(r, a) == a.run = r /\ a.attempt = attempt[r]

\* What holds of the state j of the running job of r over the sends T, the intents I
\* and the history H: how long ago its report was built, that its receipt is backed,
\* that its send has an intent, and what being healthy so far stands for.
JobKept(r, j, T, I, H) ==
  /\ (Family = "etf" /\ j.healthy /\ j.step # "build") => queued[r] <= 3 * j.day + 1
  /\ j.receipt => j.step \in {"history", "upload"} /\ AcceptedIn(j.day, T)
  /\ (j.step = "send" /\ j.healthy /\ j.should_send) =>
       \E i \in I : OfAttempt(r, i) /\ i.day = j.day
  /\ (/\ j.healthy /\ ~ValidationOnly(r) /\ j.step \notin {"build", "gate"}
      /\ j.should_send => j.step \in {"history", "upload"}) => AcceptedIn(j.day, T)
  /\ \A s \in T : OfAttempt(r, s) =>
       /\ j.should_send /\ j.step \in {"history", "upload"}
       /\ (Family = "etf" /\ j.healthy /\ j.step = "upload") => s.day \in H

\* A step that reports success was accepted, and so was a report with a receipt.
ReceiptsBacked ==
  /\ \A s \in tries : s.conclusion = "success" => s.accepted
  /\ \A a \in reports : a.receipt => AcceptedIn(a.day, tries)

\* Every started send has the intent of its attempt, not older than its run.
SendsIntended ==
  /\ \A s \in tries : \E i \in intents : i.run = s.run /\ i.attempt = s.attempt /\ i.day = s.day
  /\ \A i \in intents : created[i.run] <= i.at

\* No run and no place in the queue is from the future.
Past == \A r \in Runs : created[r] <= now /\ (Active(r) => queued[r] <= now)

\* The articles of a green attempt that sent are in the history.
GreenRecorded ==
  \A s \in tries : (Family = "etf" /\ phase[s.run] = "success" /\ attempt[s.run] = s.attempt)
                     => s.day \in history

KeptInv ==
  /\ ReceiptsBacked
  /\ SendsIntended
  /\ Past
  /\ GreenRecorded
  /\ \A r \in Runs : Running(r) => JobKept(r, job[r], tries, intents, history)

\* What holds of a job stays true while more steps, intents and history appear,
\* provided its own attempt gets no further send.
LEMMA KeptGrows ==
  ASSUME NEW r \in Runs, NEW j, NEW T, NEW I, NEW H, NEW T2, NEW I2, NEW H2,
         JobKept(r, j, T, I, H), T \subseteq T2, I \subseteq I2, H \subseteq H2,
         \A s \in T2 \ T : ~OfAttempt(r, s)
  PROVE  JobKept(r, j, T2, I2, H2)
  BY DEF JobKept, AcceptedIn, OfAttempt

\* A step of a running job that leaves its report for later: what it adds is of its
\* own attempt, and its new state j keeps its word.
LEMMA KeptStep ==
  ASSUME IInv, KeptInv, NEW r \in Runs, Running(r), NEW j \in Job, SetJob(r, j),
         UNCHANGED others, reports' = reports,
         tries \subseteq tries', intents \subseteq intents', history \subseteq history',
         \A s \in tries' \ tries :
           /\ OfAttempt(r, s) /\ (s.conclusion = "success" => s.accepted)
           /\ \E i \in intents : OfAttempt(r, i) /\ i.day = s.day,
         \A i \in intents' \ intents : OfAttempt(r, i) /\ i.at = now,
         JobKept(r, j, tries', intents', history')
  PROVE  KeptInv'
  <1> USE DEF KeptInv
  <1>1. /\ UNCHANGED <<now, phase, attempt, queued, input, created, base>>
        /\ job'[r] = j /\ \A q \in Runs \ {r} : job'[q] = job[q]
    BY DEF others, identity, SetJob, IInv, TypeOK
  <1>2. ReceiptsBacked'
    BY DEF ReceiptsBacked, AcceptedIn
  <1>3. SendsIntended'
    BY <1>1 DEF SendsIntended, OfAttempt, Past, IInv, TypeOK, Intent
  <1>4. Past'
    BY <1>1 DEF Past, Active
  <1>5. GreenRecorded'
    BY <1>1 DEF GreenRecorded, OfAttempt, Running
  <1>6. ASSUME NEW q \in Runs, Running(q)'
        PROVE  JobKept(q, job[q], tries, intents, history)'
    <2>1. q = r
      BY <1>1, <1>6 DEF IInv, OneRunning, Running
    <2>2. QED BY <1>1, <2>1 DEF JobKept, OfAttempt, ValidationOnly
  <1>7. QED BY <1>2, <1>3, <1>4, <1>5, <1>6

\* The invariant says of a running job what the next step starts from.
LEMMA KeptNow ==
  ASSUME IInv, KeptInv, NEW r \in Runs, Running(r)
  PROVE  /\ job[r] \in Job /\ job[r].step \in StepName /\ job[r].day \in ReportDay
         /\ JobKept(r, job[r], tries, intents, history)
         /\ now \in Nat /\ attempt[r] \in Nat
  BY DEF IInv, KeptInv, TypeOK, Job

\* A step that only moves the job on, the way Skip, Break and Cancel do, keeps the
\* day, and what the healthy job stands for when it is healthy before and after.
LEMMA KeptQuiet ==
  ASSUME IInv, KeptInv, NEW r \in Runs, Running(r), NEW j \in Job, SetJob(r, j),
         UNCHANGED <<others, evidence>>, JobKept(r, j, tries, intents, history)
  PROVE  KeptInv'
  BY KeptStep DEF evidence

LEMMA KeptSkip ==
  ASSUME IInv, KeptInv, NEW r \in Runs, Skip(r)
  PROVE  KeptInv'
  <1> DEFINE j == [job[r] EXCEPT !.step = After[@]]
  <1>1. Running(r) /\ ~StepIf(r) /\ UNCHANGED <<others, evidence>>
    BY DEF Skip
  <1>2. j \in Job /\ j.step = After[job[r].step] /\ j.day = job[r].day /\ SetJob(r, j)
        /\ j.should_send = job[r].should_send /\ j.healthy = job[r].healthy
        /\ j.receipt = job[r].receipt
    BY <1>1, KeptNow, FieldType, StepNames DEF Skip, Job
  <1> HIDE DEF j
  <1>3. JobKept(r, job[r], tries, intents, history) /\ job[r].step \in StepName
    BY <1>1, KeptNow
  <1>4. JobKept(r, j, tries, intents, history)
    <2>1. CASE job[r].step \in {"build", "gate"}
      BY <2>1, <1>1, <1>2, <1>3 DEF JobKept, StepIf, After
    <2>2. CASE job[r].step \in {"intent", "send"}
      BY <2>2, <1>1, <1>2, <1>3 DEF JobKept, StepIf, After
    <2>3. CASE job[r].step = "history"
      BY <2>3, <1>1, <1>2, <1>3 DEF JobKept, StepIf, After
    <2>4. CASE job[r].step = "upload"
      BY <2>4, <1>1, <1>2, <1>3 DEF JobKept, StepIf, After
    <2>5. QED BY <1>3, <2>1, <2>2, <2>3, <2>4 DEF StepName
  <1>5. QED BY <1>1, <1>2, <1>4, KeptQuiet

\* A job that is no longer healthy stands for nothing but its receipt and its sends.
LEMMA KeptUnwell ==
  ASSUME IInv, KeptInv, NEW r \in Runs, Running(r), NEW j \in Job, ~j.healthy,
         j.day = job[r].day, j.receipt = job[r].receipt, j.should_send = job[r].should_send,
         j.step = job[r].step \/ j.step = After[job[r].step],
         SetJob(r, j), UNCHANGED <<others, evidence>>
  PROVE  KeptInv'
  <1>1. JobKept(r, j, tries, intents, history)
    BY KeptNow DEF JobKept, After, StepName
  <1>2. QED BY <1>1, KeptQuiet

LEMMA KeptBreak ==
  ASSUME IInv, KeptInv, NEW r \in Runs, Break(r)
  PROVE  KeptInv'
  <1> DEFINE h == [job[r] EXCEPT !.healthy = FALSE]
             j == [h EXCEPT !.step = After[@]]
  <1>1. Running(r) /\ job[r] \in Job /\ job[r].step \in StepName
    BY KeptNow DEF Break
  <1>2. h \in Job
    BY <1>1, FieldType
  <1>3. j \in Job
    <2>1. h.step \in StepName
      BY <1>2 DEF Job
    <2>2. QED BY <1>2, <2>1, FieldType, StepNames
  <1>4. /\ ~j.healthy /\ j.step = After[job[r].step] /\ j.day = job[r].day
        /\ j.receipt = job[r].receipt /\ j.should_send = job[r].should_send
    BY <1>1 DEF Job
  <1>5. SetJob(r, j) /\ UNCHANGED <<others, evidence>>
    BY <1>1 DEF Break, Job
  <1> HIDE DEF j, h
  <1>6. QED BY <1>1, <1>3, <1>4, <1>5, KeptUnwell

LEMMA KeptCancel ==
  ASSUME IInv, KeptInv, NEW r \in Runs, Cancel(r)
  PROVE  KeptInv'
  <1> DEFINE h == [job[r] EXCEPT !.healthy = FALSE]
             j == [h EXCEPT !.cancelled = TRUE]
  <1>1. Running(r) /\ job[r] \in Job
    BY KeptNow DEF Cancel
  <1>2. h \in Job
    BY <1>1, FieldType
  <1>3. j \in Job
    BY <1>2, FieldType
  <1>4. /\ ~j.healthy /\ j.step = job[r].step /\ j.day = job[r].day
        /\ j.receipt = job[r].receipt /\ j.should_send = job[r].should_send
    BY <1>1 DEF Job
  <1>5. SetJob(r, j) /\ UNCHANGED <<others, evidence>>
    BY <1>1 DEF Cancel, Job, others
  <1> HIDE DEF j, h
  <1>6. QED BY <1>1, <1>3, <1>4, <1>5, KeptUnwell

LEMMA KeptBuild ==
  ASSUME IInv, KeptInv, NEW r \in Runs, Build(r)
  PROVE  KeptInv'
  <1> DEFINE d == BuiltDay(r)
             h == [job[r] EXCEPT !.step = "gate"]
             i == [h EXCEPT !.built = TRUE]
             j == [i EXCEPT !.day = d]
  <1>1. job[r] \in Job /\ Running(r) /\ job[r].step = "build" /\ now \in Nat
        /\ JobKept(r, job[r], tries, intents, history) /\ queued[r] \in Nat
    BY KeptNow DEF Build, Due, At, IInv, TypeOK
  <1>2. input[r].report_date \in ReportDay
    BY InputsAssumption DEF IInv, TypeOK, Input, NoInput, Latest, ReportDay
  <1>3. d \in ReportDay
    BY <1>1, <1>2 DEF BuiltDay, BeijingDay, ReportDay
  <1>4. Family = "etf" => queued[r] <= 3 * d + 1
    <2>1. SUFFICES ASSUME Family = "etf"
                   PROVE  queued[r] <= 3 * d + 1
      OBVIOUS
    <2>2. input[r].report_date = Latest
      BY <2>1, InputsAssumption DEF IInv, TypeOK, NoInput
    <2>3. d = (now + 1) \div 3
      BY <2>2 DEF BuiltDay, BeijingDay
    <2>4. queued[r] <= now
      BY <1>1 DEF KeptInv, Past, Active, Running
    <2> HIDE DEF d
    <2>5. QED BY <1>1, <1>3, <2>3, <2>4 DEF ReportDay
  <1>5. j \in Job
    <2>1. h \in Job
      BY <1>1, FieldType DEF StepName
    <2>2. i \in Job
      BY <2>1, FieldType
    <2>3. QED BY <1>3, <2>2, FieldType
  <1>6. /\ j.step = "gate" /\ j.day = d /\ j.receipt = job[r].receipt
        /\ SetJob(r, j) /\ UNCHANGED <<others, evidence>>
    BY <1>1 DEF Build, Job
  <1> HIDE DEF j
  <1>7. JobKept(r, j, tries, intents, history)
    BY <1>1, <1>4, <1>6 DEF JobKept
  <1>8. QED BY <1>1, <1>5, <1>6, <1>7, KeptQuiet

\* What the gate's other answer means: a delivery it takes as confirmed was accepted.
LEMMA ConfirmedMeansAccepted ==
  ASSUME IInv, KeptInv, NEW d \in ReportDay, SentConfirmed(d)
  PROVE  AcceptedIn(d, tries)
  <1>1. PICK q \in Senders(d) : Confirmed(q, d) /\ ~Mixed(q)
    BY DEF SentConfirmed
  <1>2. PICK a \in ReportsOf(q) : a.day = d
    BY <1>1 DEF Confirmed, Matches
  <1>3. CASE \E b \in ReportsOf(q) : b.day = d /\ b.receipt
    BY <1>3 DEF ReportsOf, KeptInv, ReceiptsBacked
  <1>4. CASE \E s \in Sends(q) : s.conclusion = "success"
    <2>1. PICK s \in Sends(q) : s.conclusion = "success"
      BY <1>4
    <2>2. s \in tries /\ s.run = q /\ s.accepted
      BY <2>1 DEF Sends, KeptInv, ReceiptsBacked
    <2>3. s \in Traces /\ a \in Traces /\ a.run = q /\ s.run = q
      BY <1>2, <2>2 DEF Traces, ReportsOf
    <2>4. s.attempt = 1 /\ a.attempt = 1
      BY <1>1, <2>3 DEF Mixed, IInv, Bound, TypeOK, Traces, Try, Intent, Report
    <2>5. s.day = d
      BY <1>2, <2>3, <2>4 DEF IInv, Bound
    <2>6. QED BY <2>2, <2>5 DEF AcceptedIn
  <1>5. QED BY <1>1, <1>3, <1>4 DEF Confirmed

LEMMA KeptGate ==
  ASSUME IInv, KeptInv, NEW r \in Runs, Gate(r)
  PROVE  KeptInv'
  <1> DEFINE b == ~ValidationOnly(r) /\ Sendable(job[r].day)
             h == [job[r] EXCEPT !.step = "intent"]
             j == [h EXCEPT !.should_send = b]
  <1>1. /\ job[r] \in Job /\ Running(r) /\ job[r].step = "gate" /\ job[r].day \in ReportDay
        /\ JobKept(r, job[r], tries, intents, history) /\ job[r].healthy
    BY KeptNow DEF Gate, Due, At, StepIf
  <1>2. b \in BOOLEAN
    OBVIOUS
  <1>3. SetJob(r, j) /\ UNCHANGED <<others, evidence>>
    BY <1>1 DEF Gate, Job
  <1>4. ~ValidationOnly(r) /\ ~b => AcceptedIn(job[r].day, tries)
    BY <1>1, ConfirmedMeansAccepted DEF Gate, DeliveryUnknown
  <1> HIDE DEF b
  <1>5. h \in Job
    BY <1>1, FieldType DEF StepName
  <1>6. j \in Job
    BY <1>2, <1>5, FieldType
  <1>7. /\ j.step = "intent" /\ j.day = job[r].day /\ j.should_send = b
        /\ j.healthy = job[r].healthy /\ j.receipt = job[r].receipt
    BY <1>1 DEF Job
  <1> HIDE DEF j, h
  <1>8. JobKept(r, j, tries, intents, history)
    BY <1>1, <1>4, <1>7 DEF JobKept
  <1>9. QED BY <1>1, <1>3, <1>6, <1>8, KeptQuiet

LEMMA KeptIntent ==
  ASSUME IInv, KeptInv, NEW r \in Runs, PersistIntent(r)
  PROVE  KeptInv'
  <1> DEFINE e == [run |-> r, attempt |-> attempt[r], day |-> job[r].day, at |-> now]
  <1>1. PICK ok \in BOOLEAN : SetJob(r, [job[r] EXCEPT !.step = "send", !.healthy = ok])
    BY DEF PersistIntent
  <1> DEFINE j == [job[r] EXCEPT !.step = "send", !.healthy = ok]
  <1>2. /\ job[r] \in Job /\ Running(r) /\ job[r].step = "intent" /\ job[r].healthy
        /\ job[r].should_send /\ JobKept(r, job[r], tries, intents, history)
        /\ intents' = intents \cup {e} /\ UNCHANGED <<others, tries, reports, history>>
    BY KeptNow DEF PersistIntent, Due, At, StepIf
  <1>3. /\ j \in Job /\ j.step = "send" /\ j.day = job[r].day
        /\ j.should_send = job[r].should_send /\ j.receipt = job[r].receipt
    BY <1>2 DEF Job, StepName
  <1>4. e \in intents' /\ OfAttempt(r, e) /\ e.day = job[r].day /\ e.at = now
    BY <1>2 DEF OfAttempt
  <1>5. SetJob(r, j)
    BY <1>1
  <1>6. intents \subseteq intents' /\ \A i \in intents' \ intents : i = e
    BY <1>2
  <1> HIDE DEF e, j
  <1>7. JobKept(r, j, tries, intents', history)
    BY <1>2, <1>3, <1>4 DEF JobKept
  <1>8. QED BY <1>2, <1>3, <1>4, <1>5, <1>6, <1>7, KeptStep

LEMMA KeptSend ==
  ASSUME IInv, KeptInv, NEW r \in Runs, SendGmail(r)
  PROVE  KeptInv'
  <1>1. PICK accepted \in BOOLEAN, receipt \in BOOLEAN, ok \in BOOLEAN :
          /\ receipt => accepted
          /\ ok => receipt
          /\ tries' = tries \cup {SendStep(r, accepted, IF ok THEN "success" ELSE "failure")}
          /\ SetJob(r, [job[r] EXCEPT !.step = "history", !.healthy = ok, !.receipt = receipt])
    BY DEF SendGmail
  <1> DEFINE e == SendStep(r, accepted, IF ok THEN "success" ELSE "failure")
             j == [job[r] EXCEPT !.step = "history", !.healthy = ok, !.receipt = receipt]
  <1>2. /\ job[r] \in Job /\ Running(r) /\ job[r].step = "send" /\ job[r].healthy
        /\ job[r].should_send /\ JobKept(r, job[r], tries, intents, history)
        /\ UNCHANGED <<others, intents, reports, history>>
    BY KeptNow DEF SendGmail, Due, At, StepIf
  <1>3. /\ j \in Job /\ j.step = "history" /\ j.day = job[r].day
        /\ j.should_send = job[r].should_send /\ j.receipt = receipt /\ j.healthy = ok
    BY <1>2 DEF Job, StepName
  <1>4. /\ OfAttempt(r, e) /\ e.day = job[r].day /\ e.accepted = accepted
        /\ (e.conclusion = "success" => e.accepted)
    BY <1>1 DEF OfAttempt, SendStep
  <1>5. tries' = tries \cup {e} /\ SetJob(r, j)
    BY <1>1
  <1>6. PICK i \in intents : OfAttempt(r, i) /\ i.day = job[r].day
    BY <1>2 DEF JobKept
  <1> HIDE DEF e, j
  <1>7. accepted => AcceptedIn(job[r].day, tries')
    BY <1>4, <1>5 DEF AcceptedIn
  <1>8. \A s \in tries' \ tries : s = e
    BY <1>5
  <1>9. JobKept(r, j, tries', intents, history)
    BY <1>1, <1>2, <1>3, <1>7 DEF JobKept
  <1>10. QED BY <1>2, <1>3, <1>4, <1>5, <1>6, <1>8, <1>9, KeptStep

LEMMA KeptHistory ==
  ASSUME IInv, KeptInv, NEW r \in Runs, PersistHistory(r)
  PROVE  KeptInv'
  <1> DEFINE j == [job[r] EXCEPT !.step = "upload"]
  <1>1. /\ job[r] \in Job /\ Running(r) /\ job[r].step = "history"
        /\ JobKept(r, job[r], tries, intents, history)
        /\ history' = history \cup {job[r].day} /\ SetJob(r, j)
        /\ UNCHANGED <<others, tries, intents, reports>>
    BY KeptNow DEF PersistHistory, Due, At
  <1>2. /\ j \in Job /\ j.step = "upload" /\ j.day = job[r].day
        /\ j.should_send = job[r].should_send /\ j.receipt = job[r].receipt
        /\ j.healthy = job[r].healthy
    BY <1>1 DEF Job, StepName
  <1> HIDE DEF j
  <1>3. \A s \in tries : OfAttempt(r, s) => s.day = job[r].day
    BY <1>1 DEF IInv, Bound, Traces, OfAttempt, Active, Running
  <1>4. JobKept(r, j, tries, intents, history')
    BY <1>1, <1>2, <1>3 DEF JobKept
  <1>5. QED BY <1>1, <1>2, <1>4, KeptStep

\* The runs that have left traces are not new ones.
LEMMA TracedRuns ==
  ASSUME IInv, NEW a \in Traces
  PROVE  /\ a.run \in Runs /\ phase[a.run] # "absent"
         /\ a.attempt \in Nat /\ 1 <= a.attempt /\ a.attempt <= attempt[a.run]
  <1>1. a.run \in Runs /\ a.attempt \in Nat
    BY DEF IInv, TypeOK, Traces, Try, Intent, Report
  <1>2. 1 <= a.attempt /\ a.attempt <= attempt[a.run]
    BY DEF IInv, Bound
  <1>3. QED BY <1>1, <1>2 DEF IInv, Counted

LEMMA KeptEnqueue ==
  ASSUME IInv, KeptInv, NEW r \in Runs, Dispatch(r) \/ Rerun(r)
  PROVE  KeptInv'
  <1> USE DEF KeptInv
  <1>1. /\ phase[r] \notin {"pending", "running"} /\ now \in Nat
        /\ UNCHANGED <<now, job, tries, intents, reports, history>>
        /\ phase'[r] = "pending" /\ queued'[r] = now /\ attempt'[r] = attempt[r] + 1
    BY DEF Dispatch, Rerun, Enqueue, Concluded, evidence, IInv, TypeOK, Counted
  <1>2. \A q \in Runs \ {r} :
          /\ attempt'[q] = attempt[q] /\ created'[q] = created[q] /\ input'[q] = input[q]
          /\ phase'[q] = phase[q] \/ phase'[q] = "cancelled"
          /\ Running(q)' => queued'[q] = queued[q] /\ Running(q)
          /\ phase'[q] # "pending"
    BY DEF Dispatch, Rerun, Enqueue, identity, IInv, TypeOK, Running
  <1>3. created'[r] = created[r] \/ (phase[r] = "absent" /\ created'[r] = now)
    BY DEF Dispatch, Rerun, identity, IInv, TypeOK
  <1>4. ReceiptsBacked'
    BY <1>1 DEF ReceiptsBacked, AcceptedIn
  <1>5. \A i \in intents : created'[i.run] = created[i.run]
    BY <1>2, <1>3, TracedRuns DEF Traces
  <1>6. SendsIntended'
    BY <1>1, <1>5 DEF SendsIntended
  <1>7. Past'
    BY <1>1, <1>2, <1>3 DEF Past, Active, Running, IInv, TypeOK
  <1>8. GreenRecorded'
    <2>1. ASSUME NEW s \in tries, Family = "etf", phase'[s.run] = "success",
                 attempt'[s.run] = s.attempt
          PROVE  s.day \in history
      <3>1. s.run \in Runs \ {r}
        BY <1>1, <2>1, TracedRuns DEF Traces
      <3>2. QED BY <1>2, <2>1, <3>1 DEF GreenRecorded
    <2>2. QED BY <1>1, <2>1 DEF GreenRecorded
  <1>9. ASSUME NEW q \in Runs, Running(q)'
        PROVE  JobKept(q, job[q], tries, intents, history)'
    <2>1. q # r /\ Running(q) /\ queued'[q] = queued[q] /\ attempt'[q] = attempt[q]
          /\ input'[q] = input[q]
      BY <1>1, <1>2, <1>9 DEF Running
    <2>2. QED BY <1>1, <2>1 DEF JobKept, OfAttempt, ValidationOnly
  <1>10. QED BY <1>4, <1>6, <1>7, <1>8, <1>9

LEMMA KeptStart ==
  ASSUME IInv, KeptInv, NEW r \in Runs, StartJob(r)
  PROVE  KeptInv'
  <1> USE DEF KeptInv
  <1>1. /\ phase[r] = "pending" /\ job'[r] = FreshJob /\ phase'[r] = "running"
        /\ \A q \in Runs \ {r} : job'[q] = job[q] /\ phase'[q] = phase[q] /\ ~Running(q)
        /\ UNCHANGED <<now, attempt, queued, input, created, base>>
        /\ UNCHANGED <<tries, intents, reports, history>>
    BY DEF StartJob, GroupFree, SetJob, identity, evidence, IInv, TypeOK
  <1>2. ReceiptsBacked' /\ SendsIntended'
    BY <1>1 DEF ReceiptsBacked, AcceptedIn, SendsIntended
  <1>3. Past'
    BY <1>1 DEF Past, Active
  <1>4. GreenRecorded'
    BY <1>1, TracedRuns DEF GreenRecorded, Traces
  <1>5. \A s \in tries : ~OfAttempt(r, s)
    BY <1>1 DEF OfAttempt, IInv, Bound, Traces, Active, Running
  <1>6. ASSUME NEW q \in Runs, Running(q)'
        PROVE  JobKept(q, job[q], tries, intents, history)'
    <2>1. q = r
      BY <1>1, <1>6 DEF Running
    <2>2. FreshJob.step = "build" /\ ~FreshJob.receipt
      BY DEF FreshJob
    <2>3. QED BY <1>1, <1>5, <2>1, <2>2 DEF JobKept, OfAttempt
  <1>7. QED BY <1>2, <1>3, <1>4, <1>6

LEMMA KeptTick ==
  ASSUME IInv, KeptInv, Tick
  PROVE  KeptInv'
  <1> USE DEF KeptInv
  <1>1. /\ now \in Nat /\ now' = now + 1
        /\ UNCHANGED <<phase, attempt, queued, job, input, created, base>>
        /\ UNCHANGED <<tries, intents, reports, history>>
    BY DEF Tick, identity, evidence, IInv, TypeOK
  <1>2. ReceiptsBacked' /\ SendsIntended' /\ GreenRecorded'
    BY <1>1 DEF ReceiptsBacked, AcceptedIn, SendsIntended, GreenRecorded
  <1>3. Past'
    BY <1>1 DEF Past, Active, IInv, TypeOK
  <1>4. \A r \in Runs : Running(r)' => JobKept(r, job[r], tries, intents, history)'
    BY <1>1 DEF Running, JobKept, OfAttempt, ValidationOnly
  <1>5. QED BY <1>2, <1>3, <1>4

\* The report of a finished job has a receipt only if the job has; a job ends green
\* only if it was healthy at its last step, and then its articles are recorded.
LEMMA KeptLeave ==
  ASSUME IInv, KeptInv, NEW r \in Runs, Crash(r) \/ Finish(r)
  PROVE  KeptInv'
  <1> USE DEF KeptInv
  <1> DEFINE e == [run |-> r, attempt |-> attempt[r], day |-> job[r].day, at |-> now,
                   receipt |-> job[r].receipt]
  <1>1. /\ Running(r) /\ job[r] \in Job /\ JobKept(r, job[r], tries, intents, history)
        /\ \A q \in Runs : q # r => ~Running(q)
    BY KeptNow DEF Crash, Finish, At, IInv, OneRunning
  <1>2. /\ UNCHANGED <<now, attempt, input, created, base, tries, intents, history>>
        /\ \A q \in Runs \ {r} : phase'[q] = phase[q] /\ queued'[q] = queued[q]
        /\ phase'[r] \in Concluded
    BY DEF Crash, Finish, Conclusion, Leave, Concluded, identity, evidence, IInv, TypeOK
  <1>3. phase'[r] = "success" => job[r].healthy /\ job[r].step = "upload"
    BY DEF Crash, Finish, Conclusion, At, IInv, TypeOK
  <1>4. reports' = reports \/ reports' = reports \cup {e}
    BY DEF Crash, Finish, evidence
  <1>5. e.receipt => AcceptedIn(e.day, tries)
    BY <1>1 DEF JobKept
  <1> HIDE DEF e
  <1>6. ReceiptsBacked'
    BY <1>2, <1>4, <1>5 DEF ReceiptsBacked, AcceptedIn
  <1>7. SendsIntended'
    BY <1>2 DEF SendsIntended
  <1>8. Past'
    BY <1>2 DEF Past, Active, Concluded
  <1>9. GreenRecorded'
    <2>1. ASSUME NEW s \in tries, Family = "etf", phase'[s.run] = "success",
                 attempt[s.run] = s.attempt
          PROVE  s.day \in history
      <3>1. CASE s.run = r
        BY <1>1, <1>3, <2>1, <3>1 DEF JobKept, OfAttempt
      <3>2. CASE s.run # r
        BY <1>2, <2>1, <3>2, TracedRuns DEF GreenRecorded, Traces
      <3>3. QED BY <3>1, <3>2
    <2>2. QED BY <1>2, <2>1 DEF GreenRecorded
  <1>10. \A q \in Runs : ~Running(q)'
    BY <1>1, <1>2 DEF Running, Concluded
  <1>11. QED BY <1>6, <1>7, <1>8, <1>9, <1>10

LEMMA KeptNext ==
  ASSUME IInv, KeptInv, [Next]_vars
  PROVE  KeptInv'
  <1>1. CASE UNCHANGED vars
    <2>1. ReceiptsBacked' /\ SendsIntended' /\ Past' /\ GreenRecorded'
      BY <1>1 DEF KeptInv, vars, ReceiptsBacked, AcceptedIn, SendsIntended, Past, Active,
                  GreenRecorded
    <2>2. \A r \in Runs : Running(r)' => JobKept(r, job[r], tries, intents, history)'
      BY <1>1 DEF KeptInv, vars, Running, JobKept, OfAttempt, ValidationOnly
    <2>3. QED BY <2>1, <2>2 DEF KeptInv
  <1>2. CASE Tick
    BY <1>2, KeptTick
  <1>3. ASSUME NEW r \in Runs, StartJob(r) \/ JobStep(r) \/ Environment(r)
        PROVE  KeptInv'
    <2>1. CASE StartJob(r)
      BY <2>1, KeptStart
    <2>2. CASE Build(r)
      BY <2>2, KeptBuild
    <2>3. CASE Gate(r)
      BY <2>3, KeptGate
    <2>4. CASE Refuse(r) \/ Break(r)
      BY <2>4, KeptBreak DEF Refuse
    <2>5. CASE PersistIntent(r)
      BY <2>5, KeptIntent
    <2>6. CASE SendGmail(r)
      BY <2>6, KeptSend
    <2>7. CASE PersistHistory(r)
      BY <2>7, KeptHistory
    <2>8. CASE Skip(r)
      BY <2>8, KeptSkip
    <2>9. CASE Crash(r) \/ Finish(r)
      BY <2>9, KeptLeave
    <2>10. CASE Dispatch(r) \/ Rerun(r)
      BY <2>10, KeptEnqueue
    <2>11. CASE Cancel(r)
      BY <2>11, KeptCancel
    <2>12. QED BY <1>3, <2>1, <2>2, <2>3, <2>4, <2>5, <2>6, <2>7, <2>8, <2>9, <2>10, <2>11
               DEF JobStep, Environment
  <1>4. QED BY <1>1, <1>2, <1>3 DEF Next

LEMMA KeptInit == Init => KeptInv
  <1> SUFFICES ASSUME Init
               PROVE  KeptInv
    OBVIOUS
  <1>1. ReceiptsBacked /\ SendsIntended /\ GreenRecorded
    BY DEF Init, ReceiptsBacked, SendsIntended, GreenRecorded
  <1>2. Past
    BY DEF Init, Past, Active
  <1>3. QED BY <1>1, <1>2 DEF Init, KeptInv, Running

LEMMA KeptInvariance ==
  ASSUME RerunHorizon + MaxLag <= 2
  PROVE  Spec => [](IInv /\ KeptInv)
  <1>1. Init => IInv /\ KeptInv
    BY Initially, KeptInit
  <1>2. IInv /\ KeptInv /\ [Next]_vars => (IInv /\ KeptInv)'
    BY Inductive, KeptNext
  <1>3. QED BY <1>1, <1>2, PTL DEF Spec

\* A run that ends green was healthy when it came to its last step.
LEMMA WhoSucceeds ==
  ASSUME IInv, [Next]_vars, NEW r \in Runs, Running(r), phase'[r] = "success"
  PROVE  Finish(r) /\ job[r].healthy /\ job[r].step = "upload"
  <1>1. phase[r] = "running" /\ phase' # phase
    BY DEF Running
  <1>2. PICK q \in Runs : StartJob(q) \/ JobStep(q) \/ Environment(q)
    BY <1>1 DEF Next, vars, Tick
  <1>3. StartJob(q) \/ Finish(q) \/ Crash(q) \/ Dispatch(q) \/ Rerun(q)
    BY <1>1, <1>2 DEF JobStep, Environment, Build, Gate, Refuse, Break, PersistIntent, SendGmail,
                      PersistHistory, Skip, Cancel, others
  <1>4. Finish(r)
    BY <1>1, <1>3 DEF StartJob, Finish, Crash, Dispatch, Rerun, Enqueue, Running, IInv, TypeOK
  <1>5. QED BY <1>4 DEF Finish, Conclusion, At, IInv, TypeOK

\* A green production run stands for an accepted report of its day, its own or the one
\* its gate confirmed from the traces of an earlier run.
LEMMA GreenAccepted ==
  ASSUME RerunHorizon + MaxLag <= 2
  PROVE  Spec => GreenMeansAccepted
  <1>1. ASSUME IInv, KeptInv, [Next]_vars, NEW r \in Runs,
               At(r, "upload"), phase'[r] = "success", ~ValidationOnly(r)
        PROVE  \E s \in tries : s.day = job[r].day /\ s.accepted
    <2>1. Running(r) /\ job[r].step = "upload" /\ job[r].healthy
      BY <1>1, WhoSucceeds DEF At
    <2>2. JobKept(r, job[r], tries, intents, history)
      BY <1>1, <2>1, KeptNow
    <2>3. QED BY <1>1, <2>1, <2>2 DEF JobKept, AcceptedIn
  <1>2. IInv /\ KeptInv /\ [Next]_vars =>
          [\A r \in Runs :
             (At(r, "upload") /\ phase'[r] = "success" /\ ~ValidationOnly(r))
               => \E s \in tries : s.day = job[r].day /\ s.accepted]_vars
    BY <1>1
  <1>3. QED BY <1>2, KeptInvariance, PTL DEF Spec, GreenMeansAccepted

LEMMA GreenKnown ==
  ASSUME RerunHorizon + MaxLag <= 2
  PROVE  Spec => GreenHistoryIsKnown
  <1>1. ASSUME IInv, KeptInv, NEW r \in Runs, NEW s \in tries, Dispatch(r),
               phase[s.run] = "success", attempt[s.run] = s.attempt, Family = "etf"
        PROVE  s.day \in base'[r]
    <2>1. base'[r] = history
      BY <1>1 DEF Dispatch, IInv, TypeOK
    <2>2. QED BY <1>1, <2>1 DEF KeptInv, GreenRecorded
  <1>2. IInv /\ KeptInv /\ [Next]_vars =>
          [\A r \in Runs, s \in tries :
             (Dispatch(r) /\ phase[s.run] = "success" /\ attempt[s.run] = s.attempt
                /\ Family = "etf") => s.day \in base'[r]]_vars
    BY <1>1
  <1>3. QED BY <1>2, KeptInvariance, PTL DEF Spec, GreenHistoryIsKnown

\* Green is never silent non-delivery, and the articles of a green run are in the
\* history of every run dispatched afterwards.
THEOREM GreenKept ==
  ASSUME RerunHorizon + MaxLag <= 2
  PROVE  Spec => GreenIsKept
  BY GreenAccepted, GreenKnown, PTL DEF GreenIsKept

-----------------------------------------------------------------------------
(* Refusals *)

\* Evidence outlives the question: an ETF report is about the day of its build, so its
\* gate looks back at most a day, the lag and the slot of the listing; a report about
\* an older day may look back over the whole horizon.
EvidenceLasts ==
  \/ Family = "etf" /\ Retention > MaxLag + 4
  \/ Retention > MaxTime + 5

\* The intents of the runs a gate lists have not expired.
LEMMA IntentsLast ==
  ASSUME IInv, KeptInv, EvidenceLasts, NEW r \in Runs, Due(r, "gate"),
         NEW q \in Window(job[r].day), NEW i \in intents, i.run = q
  PROVE  Live(i)
  <1>1. /\ now \in Nat /\ now <= MaxTime + 5 /\ job[r].day \in Nat /\ Running(r)
        /\ job[r].healthy /\ job[r].step = "gate" /\ i.at \in Nat
        /\ q \in Runs /\ created[q] \in Nat /\ queued[r] \in Nat
    BY KeptNow, BoundsAssumption DEF Due, At, StepIf, Window, IInv, TypeOK, Intent, ReportDay
  <1>2. created[q] <= i.at /\ UTCDay(created[q]) >= job[r].day - 1
    BY DEF KeptInv, SendsIntended, Window
  <1>3. CASE Retention > MaxTime + 5
    BY <1>1, <1>3, BoundsAssumption DEF Live
  <1>4. CASE Family = "etf" /\ Retention > MaxLag + 4
    <2>1. queued[r] <= 3 * job[r].day + 1
      BY <1>1, <1>4, KeptNow DEF JobKept
    <2>2. now <= queued[r] + MaxLag
      BY <1>1 DEF IInv, Clocked, Active, Running
    <2>3. 3 * job[r].day - 3 <= created[q]
      BY <1>1, <1>2 DEF UTCDay
    <2>4. now - i.at <= MaxLag + 4
      BY <1>1, <1>2, <2>1, <2>2, <2>3, BoundsAssumption
    <2>5. QED BY <1>1, <1>4, <2>4, BoundsAssumption DEF Live
  <1>5. QED BY <1>3, <1>4 DEF EvidenceLasts

\* A refusal has a cause: an attempt that contacted SMTP for this very day, or a run
\* of which attempts are mixed.  A send of another day leaves evidence that says so.
LEMMA RefusalExplained ==
  ASSUME IInv, KeptInv, EvidenceLasts, NEW r \in Runs, Refuse(r)
  PROVE  \E s \in tries : s.day = job[r].day \/ attempt[s.run] > 1
  <1> SUFFICES ASSUME \A s \in tries : s.day # job[r].day /\ ~(attempt[s.run] > 1)
               PROVE  FALSE
    OBVIOUS
  <1> DEFINE d == job[r].day
  <1>1. Due(r, "gate") /\ ~Sendable(d) /\ ~SentConfirmed(d)
    BY DEF Refuse, DeliveryUnknown
  <1>2. PICK q \in Senders(d) : Mixed(q) \/ Conflicting(q) \/ Confirmed(q, d) \/ Uncertain(q, d)
    BY <1>1 DEF Sendable
  <1>3. PICK s \in tries : s.run = q
    BY <1>2 DEF Senders, Sends
  <1>4. q \in Window(d) /\ s \in Traces /\ attempt[q] \in Nat /\ attempt[q] = 1 /\ s.attempt = 1
    BY <1>2, <1>3, TracedRuns DEF Senders, Traces, IInv, TypeOK
  <1>5. \A a \in Traces : a.run = q => a.day = s.day
    <2>1. ASSUME NEW a \in Traces, a.run = q
          PROVE  a.day = s.day
      <3>1. a.attempt = 1
        BY <1>4, <2>1, TracedRuns
      <3>2. QED BY <1>3, <1>4, <2>1, <3>1 DEF IInv, Bound
    <2>2. QED BY <2>1
  <1>6. \A a \in ReportsOf(q) \cup IntentsOf(q) : a.day = s.day
    BY <1>5 DEF ReportsOf, IntentsOf, Traces
  <1>7. ~Mixed(q) /\ ~Conflicting(q) /\ ~Matches(q, d) /\ d \notin EvidenceDays(q)
    BY <1>3, <1>4, <1>6 DEF Mixed, Conflicting, Matches, EvidenceDays
  <1>8. EvidenceDays(q) = {}
    BY <1>2, <1>7 DEF Confirmed, Uncertain
  <1>9. PICK i \in intents : i.run = q /\ i.attempt = 1
    BY <1>3, <1>4 DEF KeptInv, SendsIntended
  <1>10. i \in IntentsOf(q)
    BY <1>1, <1>4, <1>9, IntentsLast DEF IntentsOf
  <1>11. QED BY <1>8, <1>10 DEF EvidenceDays

\* A day is refused only for its own sake or because attempts of one run are mixed.
THEOREM RefusalHasItsDay ==
  ASSUME RerunHorizon + MaxLag <= 2, EvidenceLasts
  PROVE  Spec => RefusalIsAboutThisDay
  <1>1. IInv /\ KeptInv =>
          [\A r \in Runs : Refuse(r) =>
             \E s \in tries : s.day = job[r].day \/ attempt[s.run] > 1]_vars
    BY RefusalExplained
  <1>2. QED BY <1>1, KeptInvariance, PTL DEF Spec, RefusalIsAboutThisDay

-----------------------------------------------------------------------------
(* The refinement *)

\* No report is about a day that has not begun.
Begun ==
  /\ \A a \in Traces : a.day <= BeijingDay(now)
  /\ \A r \in Runs : Running(r) => job[r].day <= BeijingDay(now)

\* The day of a job is the day of its report, its build, or none yet.
LEMMA JobDays ==
  ASSUME IInv, Begun, [Next]_vars, NEW r \in Runs, Running(r)'
  PROVE  job'[r].day <= BeijingDay(now)
  <1>1. now \in Nat /\ BeijingDay(now) \in Nat
    BY BoundsAssumption DEF IInv, TypeOK, BeijingDay
  <1>2. CASE job'[r] = job[r] /\ Running(r)
    BY <1>2 DEF Begun
  <1>3. CASE \E q \in Runs : StartJob(q) \/ JobStep(q) \/ Environment(q)
    <2>1. PICK q \in Runs : StartJob(q) \/ JobStep(q) \/ Environment(q)
      BY <1>3
    <2>2. CASE StartJob(q)
      BY <1>1, <1>2, <2>2, FreshJobType DEF StartJob, SetJob, Running, IInv, TypeOK
    <2>3. CASE Dispatch(q) \/ Rerun(q)
      BY <1>2, <2>3 DEF Dispatch, Rerun, Enqueue, Running, IInv, TypeOK
    <2>4. CASE Crash(q) \/ Finish(q)
      BY <1>2, <2>4 DEF Crash, Finish, Conclusion, Leave, SetJob, Running, Concluded, IInv, TypeOK
    <2>5. CASE Build(q)
      BY <1>1, <1>2, <2>5 DEF Build, SetJob, Running, others, IInv, TypeOK, Job
    <2>6. CASE Gate(q) \/ Refuse(q) \/ Break(q) \/ PersistIntent(q) \/ SendGmail(q)
               \/ PersistHistory(q) \/ Skip(q) \/ Cancel(q)
      <3>1. Running(r) /\ (q # r => job'[r] = job[r]) /\ job[r] \in Job /\ Running(q)
        BY <2>6 DEF Gate, Refuse, Break, PersistIntent, SendGmail, PersistHistory, Skip, Cancel,
                    Due, At, SetJob, Running, others, IInv, TypeOK
      <3>2. ASSUME q = r
            PROVE  job'[r].day = job[r].day
        <4>1. job \in [Runs -> Job] /\ job[r] \in Job
          BY <3>1 DEF IInv, TypeOK
        <4>2. CASE Gate(r)
          BY <4>1, <4>2 DEF Gate, SetJob, Job
        <4>3. CASE Refuse(r) \/ Break(r)
          BY <4>1, <4>3 DEF Refuse, Break, SetJob, Job
        <4>4. CASE PersistIntent(r)
          BY <4>1, <4>4 DEF PersistIntent, SetJob, Job
        <4>5. CASE SendGmail(r)
          BY <4>1, <4>5 DEF SendGmail, SetJob, Job
        <4>6. CASE PersistHistory(r)
          BY <4>1, <4>6 DEF PersistHistory, SetJob, Job
        <4>7. CASE Skip(r)
          BY <4>1, <4>7 DEF Skip, SetJob, Job
        <4>8. CASE Cancel(r)
          BY <4>1, <4>8 DEF Cancel, SetJob, Job
        <4>9. QED BY <2>6, <3>2, <4>2, <4>3, <4>4, <4>5, <4>6, <4>7, <4>8
      <3>3. QED BY <3>1, <3>2 DEF Begun
    <2>7. QED BY <2>1, <2>2, <2>3, <2>4, <2>5, <2>6 DEF JobStep, Environment
  <1>4. CASE Tick \/ UNCHANGED vars
    BY <1>2, <1>4 DEF Tick, vars, Running
  <1>5. QED BY <1>3, <1>4 DEF Next

\* A new trace is about the day of the job that leaves it.
LEMMA TraceDays ==
  ASSUME IInv, Begun, [Next]_vars, NEW a \in Traces'
  PROVE  a.day <= BeijingDay(now)
  <1>1. CASE a \in Traces
    BY <1>1 DEF Begun
  <1>2. CASE a \notin Traces
    <2>1. PICK r \in Runs : PersistIntent(r) \/ SendGmail(r) \/ Finish(r)
      BY <1>2 DEF Next, vars, Traces, Tick, StartJob, JobStep, Environment, Build, Gate, Refuse,
                  Break, PersistHistory, Skip, Dispatch, Rerun, Crash, Cancel, evidence
    <2>2. Running(r)
      BY <2>1 DEF PersistIntent, SendGmail, Finish, Due, At
    <2>3. CASE PersistIntent(r)
      BY <1>2, <2>2, <2>3 DEF Begun, Traces, PersistIntent
    <2>4. CASE SendGmail(r)
      <3>1. a.day = job[r].day
        BY <1>2, <2>4 DEF Traces, SendGmail, SendStep
      <3>2. QED BY <2>2, <3>1 DEF Begun
    <2>5. CASE Finish(r)
      BY <1>2, <2>2, <2>5 DEF Begun, Traces, Finish
    <2>6. QED BY <2>1, <2>3, <2>4, <2>5
  <1>3. QED BY <1>1, <1>2

LEMMA BeijingGrows ==
  ASSUME NEW s \in Nat, NEW t \in Nat, s <= t
  PROVE  BeijingDay(s) <= BeijingDay(t) /\ BeijingDay(s) \in Nat /\ BeijingDay(t) \in Nat
  BY DEF BeijingDay

LEMMA BegunNext ==
  ASSUME IInv, IInv', Begun, [Next]_vars
  PROVE  Begun'
  <1>1. PICK s, t \in Nat : s = now /\ t = now'
    BY BoundsAssumption DEF IInv, TypeOK
  <1>2. t = s \/ t = s + 1
    BY <1>1 DEF Next, vars, Tick, StartJob, JobStep, Environment, Build, Gate, Refuse,
       Break, PersistIntent, SendGmail, PersistHistory, Skip, Finish, Dispatch, Rerun, Crash,
       Cancel, others
  <1>3. BeijingDay(s) <= BeijingDay(t) /\ BeijingDay(s) \in Nat /\ BeijingDay(t) \in Nat
    BY <1>2, BeijingGrows
  <1>4. ASSUME NEW a \in Traces'
        PROVE  a.day <= BeijingDay(t)
    <2>1. a.day \in Nat
      BY DEF IInv, TypeOK, Traces, Try, Intent, Report, ReportDay
    <2>2. QED BY <1>1, <1>3, <2>1, TraceDays
  <1>5. ASSUME NEW r \in Runs, Running(r)'
        PROVE  job'[r].day <= BeijingDay(t)
    <2>1. job'[r].day \in Nat
      BY DEF IInv, TypeOK, Job, ReportDay
    <2>2. QED BY <1>1, <1>3, <1>5, <2>1, JobDays
  <1>6. QED BY <1>1, <1>4, <1>5 DEF Begun, BeijingDay

\* The accepted sends of a day are none or one.
LEMMA AcceptedCount ==
  ASSUME OneSmtpContactPerDay, NEW d
  PROVE  /\ ~AcceptedIn(d, tries) => Cardinality(Accepted(d)) = 0
         /\ AcceptedIn(d, tries) => Cardinality(Accepted(d)) = 1
  <1>1. ASSUME ~AcceptedIn(d, tries)
        PROVE  Cardinality(Accepted(d)) = 0
    <2>1. Accepted(d) = {}
      BY <1>1 DEF Accepted, AcceptedIn
    <2>2. QED BY <2>1, FS_EmptySet
  <1>2. ASSUME AcceptedIn(d, tries)
        PROVE  Cardinality(Accepted(d)) = 1
    <2>1. PICK s \in tries : s.day = d /\ s.accepted
      BY <1>2 DEF AcceptedIn
    <2>2. Accepted(d) = {s}
      BY <2>1 DEF Accepted, OneSmtpContactPerDay
    <2>3. QED BY <2>2, FS_Singleton
  <1>3. QED BY <1>1, <1>2

\* The mapped state changes with the traces only.
LEMMA MappedState ==
  /\ UNCHANGED intents => IntendedDays' = IntendedDays
  /\ UNCHANGED reports => ConfirmedDays' = ConfirmedDays
  /\ UNCHANGED tries => [d \in ReportDays |-> Cardinality(Accepted(d))]' =
                        [d \in ReportDays |-> Cardinality(Accepted(d))]
  BY DEF IntendedDays, ConfirmedDays, Accepted, ReportDays, BeijingDay

LEMMA TracedDays ==
  ASSUME IInv, Begun, NEW d \in Nat, d <= BeijingDay(now)
  PROVE  d \in ReportDays
  <1>1. PICK s, t \in Nat : s = now /\ t = MaxTime + 5 /\ s <= t
    BY BoundsAssumption DEF IInv, TypeOK
  <1>2. BeijingDay(s) <= BeijingDay(t) /\ BeijingDay(s) \in Nat /\ BeijingDay(t) \in Nat
    BY <1>1, BeijingGrows
  <1>3. QED BY <1>1, <1>2 DEF ReportDays

LEMMA PromiseInit == Init => Promise!Init
  <1> SUFFICES ASSUME Init
               PROVE  Promise!Init
    OBVIOUS
  <1>1. \A d : Cardinality(Accepted(d)) = 0
    <2>1. \A d : ~AcceptedIn(d, tries)
      BY DEF Init, AcceptedIn
    <2>2. OneSmtpContactPerDay
      BY DEF Init, OneSmtpContactPerDay
    <2>3. QED BY <2>1, <2>2, AcceptedCount
  <1>2. IntendedDays = {} /\ ConfirmedDays = {}
    BY DEF Init, IntendedDays, ConfirmedDays
  <1>3. QED BY <1>1, <1>2 DEF Promise!Init

\* The first intent about a day commits to it; one that follows an attempt that never
\* came to its send changes nothing.
LEMMA IntentPromised ==
  ASSUME IInv, KeptInv, Begun, NEW r \in Runs, PersistIntent(r)
  PROVE  [Promise!Next]_(Promise!vars)
  <1> DEFINE e == [run |-> r, attempt |-> attempt[r], day |-> job[r].day, at |-> now]
  <1>1. /\ Running(r) /\ UNCHANGED <<tries, reports>> /\ intents' = intents \cup {e}
    BY DEF PersistIntent, Due, At
  <1>2. PICK d \in Nat : d = job[r].day
    BY <1>1, KeptNow DEF ReportDay
  <1>3. d \in ReportDays
    BY <1>1, <1>2, TracedDays DEF Begun
  <1>4. IntendedDays' = IntendedDays \cup {d}
    <2>1. e.day = d
      BY <1>2
    <2> HIDE DEF e
    <2>2. QED BY <1>1, <2>1 DEF IntendedDays
  <1>5. CASE d \in IntendedDays
    <2>1. IntendedDays' = IntendedDays
      BY <1>4, <1>5
    <2>2. QED BY <1>1, <2>1, MappedState DEF Promise!vars
  <1>6. CASE d \notin IntendedDays
    <2>1. Promise!Intend(d)
      BY <1>1, <1>4, <1>6, MappedState DEF Promise!Intend
    <2>2. QED BY <1>3, <2>1 DEF Promise!Next
  <1>7. QED BY <1>5, <1>6

\* An accepted send is the first about its day, and its intent was left before.
LEMMA SendPromised ==
  ASSUME IInv, KeptInv, Begun, NEW r \in Runs, SendGmail(r)
  PROVE  [Promise!Next]_(Promise!vars)
  <1>1. PICK accepted \in BOOLEAN, ok \in BOOLEAN :
          tries' = tries \cup {SendStep(r, accepted, IF ok THEN "success" ELSE "failure")}
    BY DEF SendGmail
  <1> DEFINE e == SendStep(r, accepted, IF ok THEN "success" ELSE "failure")
  <1>2. /\ Running(r) /\ UNCHANGED <<intents, reports>> /\ job[r].step = "send"
        /\ job[r].healthy /\ job[r].should_send
    BY DEF SendGmail, Due, At, StepIf
  <1>3. PICK d \in Nat : d = job[r].day
    BY <1>2, KeptNow DEF ReportDay
  <1>4. d \in ReportDays
    BY <1>2, <1>3, TracedDays DEF Begun
  <1>5. e.day = d /\ e.accepted = accepted
    BY <1>3 DEF SendStep
  <1>6. \A s \in tries : s.day # d
    BY <1>2, <1>3 DEF IInv, JobSafe
  <1>7. tries' = tries \cup {e}
    BY <1>1
  <1> HIDE DEF e
  <1>8. d \in IntendedDays
    BY <1>2, <1>3, KeptNow DEF JobKept, IntendedDays
  <1>9. ~AcceptedIn(d, tries) /\ OneSmtpContactPerDay
    BY <1>6 DEF AcceptedIn, IInv
  <1>10. \A x \in ReportDays : x # d \/ ~accepted => Accepted(x)' = Accepted(x)
    BY <1>5, <1>7 DEF Accepted
  <1>11. CASE ~accepted
    <2>1. [x \in ReportDays |-> Cardinality(Accepted(x))]' =
            [x \in ReportDays |-> Cardinality(Accepted(x))]
      BY <1>10, <1>11 DEF ReportDays, BeijingDay
    <2>2. QED BY <1>2, <2>1, MappedState DEF Promise!vars
  <1>12. CASE accepted
    <2>1. Accepted(d)' = {e}
      BY <1>5, <1>6, <1>7, <1>12 DEF Accepted
    <2>2. Cardinality(Accepted(d)') = 1
      BY <2>1, FS_Singleton
    <2>3. Cardinality(Accepted(d)) = 0
      BY <1>9, AcceptedCount
    <2>4. [x \in ReportDays |-> Cardinality(Accepted(x))]' =
            [[x \in ReportDays |-> Cardinality(Accepted(x))] EXCEPT ![d] = 1]
      BY <1>4, <1>10, <2>2 DEF ReportDays, BeijingDay
    <2>5. Promise!Accept(d)
      BY <1>2, <1>4, <1>8, <2>3, <2>4, MappedState DEF Promise!Accept
    <2>6. QED BY <1>4, <2>5 DEF Promise!Next
  <1>13. QED BY <1>11, <1>12

\* A report with a receipt confirms a day whose mail was accepted.
LEMMA ReportPromised ==
  ASSUME IInv, KeptInv, Begun, NEW r \in Runs, Finish(r)
  PROVE  [Promise!Next]_(Promise!vars)
  <1> DEFINE e == [run |-> r, attempt |-> attempt[r], day |-> job[r].day, at |-> now,
                   receipt |-> job[r].receipt]
  <1>1. /\ Running(r) /\ UNCHANGED <<tries, intents>>
        /\ reports' = reports \/ reports' = reports \cup {e}
    BY DEF Finish, At
  <1>2. PICK d \in Nat : d = job[r].day
    BY <1>1, KeptNow DEF ReportDay
  <1>3. d \in ReportDays
    BY <1>1, <1>2, TracedDays DEF Begun
  <1>4. e.day = d /\ (e.receipt => AcceptedIn(d, tries)) /\ e.receipt \in BOOLEAN
    BY <1>1, <1>2, KeptNow DEF JobKept, Job
  <1> HIDE DEF e
  <1>5. CASE ConfirmedDays' = ConfirmedDays
    BY <1>1, <1>5, MappedState DEF Promise!vars
  <1>6. CASE reports' = reports \cup {e} /\ e.receipt
    <2>1. Cardinality(Accepted(d)) = 1
      BY <1>4, <1>6, AcceptedCount DEF IInv
    <2>2. ConfirmedDays' = ConfirmedDays \cup {d}
      BY <1>4, <1>6 DEF ConfirmedDays
    <2>3. Promise!Confirm(d)
      BY <1>1, <1>3, <2>1, <2>2, MappedState DEF Promise!Confirm
    <2>4. QED BY <1>3, <2>3 DEF Promise!Next
  <1>7. CASE reports' = reports \/ ~e.receipt
    <2>1. ConfirmedDays' = ConfirmedDays
      BY <1>1, <1>7 DEF ConfirmedDays
    <2>2. QED BY <1>5, <2>1
  <1>8. QED BY <1>1, <1>6, <1>7

\* The mails of a family follow AtMostOnceSend: a day is intended before SMTP is
\* contacted, accepted at most once, and confirmed only after that.
THEOREM PromiseKept ==
  ASSUME RerunHorizon + MaxLag <= 2
  PROVE  Spec => KeepsPromise
  <1>1. IInv /\ KeptInv /\ Begun /\ [Next]_vars => [Promise!Next]_(Promise!vars)
    <2> SUFFICES ASSUME IInv, KeptInv, Begun, [Next]_vars
                 PROVE  [Promise!Next]_(Promise!vars)
      OBVIOUS
    <2>1. CASE UNCHANGED <<tries, intents, reports>>
      BY <2>1, MappedState DEF Promise!vars
    <2>2. CASE ~UNCHANGED <<tries, intents, reports>>
      <3>1. PICK r \in Runs : PersistIntent(r) \/ SendGmail(r) \/ Finish(r)
        BY <2>2 DEF Next, vars, Tick, StartJob, JobStep, Environment, Build, Gate, Refuse,
                    Break, PersistHistory, Skip, Dispatch, Rerun, Crash, Cancel, evidence
      <3>2. QED BY <3>1, IntentPromised, SendPromised, ReportPromised
    <2>3. QED BY <2>1, <2>2
  <1>2. Init => Begun
    BY DEF Init, Begun, Traces, Running
  <1>3. Spec => []Begun
    <2>1. IInv /\ IInv' /\ Begun /\ [Next]_vars => Begun'
      BY BegunNext
    <2>2. QED BY <1>2, <2>1, Invariance, PTL DEF Spec
  <1>4. QED BY <1>1, <1>3, PromiseInit, KeptInvariance, PTL DEF Spec, KeepsPromise, Promise!Spec

=================================================================================
