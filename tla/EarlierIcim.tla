------------------------------- MODULE EarlierIcim -------------------------------
(* The IC/IM generations before v1.4.  v1.2 still mails its intraday digest: three  *)
(* schedules a day, one run at a time, a marker left after the mail, a failure told  *)
(* only by the final attempt.  v1.3 lives on as the seed the first v1.4 ledger is    *)
(* migrated from.                                                                    *)
(*   .github/workflows/ic-im-v1-2-daily-digest.yml, check_ic_im_delivery.py,          *)
(*   restore_ic_im_ledger.py, build_ic_im_digest.py; restore_ic_im_v1_3_ledger.py    *)
EXTENDS Naturals, Sequences, FiniteSets

CONSTANTS
  EDays,      \* bound: days are 1 .. EDays
  ETrading,   \* the trading days
  MaxManual   \* bound: manual dispatches

ASSUME EarlierAssumption == EDays \in Nat \ {0} /\ ETrading \subseteq 1 .. EDays /\ MaxManual \in Nat

VARIABLES
  eday,      \* the Beijing date
  epending,  \* what waits in the concurrency group: at most one
  erun,      \* the run that holds it
  emarkers,  \* days with a delivery marker
  emails,    \* the mails in order: [day, kind, ok]
  ecause,    \* days on which a mail went out and no marker could be left
  ehistory   \* [fired, manual, spoke, mute]: what the schedules did, and days that ended mute

earlierVars == <<eday, epending, erun, emarkers, emails, ecause, ehistory>>

Crons == 1 .. 3                   \* 3, 18 and 33 5 * * *
Manual == 4
Correction == 5
Kinds12 == Crons \cup {Manual, Correction}
NoRun == [pc |-> "idle"]

EarlierInit ==
  /\ eday = 1 /\ epending = {} /\ erun = NoRun
  /\ emarkers = {} /\ emails = << >> /\ ecause = {}
  /\ ehistory = [fired |-> {}, manual |-> 0, spoke |-> {}, mute |-> {}]

Move(pc, more) == erun' = [more EXCEPT !.pc = pc]

Midnight ==
  /\ eday < EDays /\ eday' = eday + 1
  /\ UNCHANGED <<epending, erun, emarkers, emails, ecause, ehistory>>

\* GitHub fires a schedule late or never, in order; a waiting run gives way to a newer one.
Arrive(k) ==
  /\ k \in Crons => <<eday, k>> \notin ehistory.fired /\ \A j \in Crons : <<eday, j>> \in ehistory.fired => j < k
  /\ k \notin Crons => ehistory.manual < MaxManual
  /\ epending' = {k}
  /\ ehistory' = [ehistory EXCEPT !.fired = IF k \in Crons THEN @ \cup {<<eday, k>>} ELSE @,
                                  !.manual = IF k \in Crons THEN @ ELSE @ + 1]
  /\ UNCHANGED <<eday, erun, emarkers, emails, ecause>>

\* Classify attempt: anything but a schedule, and the last schedule.
FinalScheduled(k) == k = 3   \* mutant: a manual run is not final
FinalAttempt(k) == k \notin {1, 2}

Begin ==
  /\ erun = NoRun /\ epending # {}
  /\ \E k \in epending : erun' = [pc |-> "gate", kind |-> k, final |-> FinalAttempt(k), day |-> eday,
                                 result |-> "none", mailed |-> FALSE]
  /\ epending' = {} /\ UNCHANGED <<eday, emarkers, emails, ecause, ehistory>>

\* check_ic_im_delivery.py: the day is that of the gate; one marker for both modes.
ShouldSend(k, day) == k = Correction \/ day \notin emarkers
Gate ==
  /\ erun.pc = "gate"
  /\ IF ShouldSend(erun.kind, eday) THEN Move("calendar", [erun EXCEPT !.day = eday])
                                          ELSE erun' = NoRun
  /\ UNCHANGED <<eday, epending, emarkers, emails, ecause, ehistory>>
\* Check A-share trading day, by the clock again; a manual run goes on.
Calendar12 ==
  /\ erun.pc = "calendar"
  /\ IF erun.kind \notin Crons \/ eday \in ETrading THEN Move("restore", erun) ELSE erun' = NoRun
  /\ UNCHANGED <<eday, epending, emarkers, emails, ecause, ehistory>>

\* What ends a run without a mail although a final attempt should speak.
Mute == ehistory' = [ehistory EXCEPT !.mute = @ \cup {erun.day}]
\* restore_ic_im_ledger.py: the newest artifact, whatever became of its run; a download or
\* an archive that fails ends the run before there is anything to mail.
Restore12 ==
  /\ erun.pc = "restore"
  /\ \/ Move("signal", erun) /\ UNCHANGED ehistory
     \/ erun' = NoRun /\ Mute
  /\ UNCHANGED <<eday, epending, emarkers, emails, ecause>>

\* The strategy, at most 65 minutes: ok, a failure it reports, killed before it wrote a
\* result, or killed after it wrote an ok one.
Results == {"ok", "failed", "nothing", "killed"}
Signal == \E r \in Results :
  /\ erun.pc = "signal" /\ Move("build", [erun EXCEPT !.result = r])
  /\ UNCHANGED <<eday, epending, emarkers, emails, ecause, ehistory>>

\* build_ic_im_digest.py main: by the status of the result, whatever the exit code.
SaysOk(r) == r \in {"ok", "killed"}
\* Build digest, then Send Gmail: exit code 0 or the final attempt, and there must be a mail to send.
Sends(run) == run.result = "ok" \/ run.final
SendDigest ==
  /\ erun.pc = "build" /\ Sends(erun) /\ erun.result # "nothing"
  /\ emails' = Append(emails, [day |-> erun.day, kind |-> erun.kind, ok |-> SaysOk(erun.result)])
  /\ ehistory' = [ehistory EXCEPT !.spoke = @ \cup {erun.day}]
  /\ IF erun.result = "ok" THEN Move("keep", [erun EXCEPT !.mailed = TRUE]) ELSE erun' = NoRun
  /\ ecause' = IF erun.result = "killed" THEN ecause \cup {erun.day} ELSE ecause
  /\ UNCHANGED <<eday, epending, emarkers>>
\* No result to build from, or the mail is refused.
SendFails ==
  /\ erun.pc = "build" /\ Sends(erun) /\ erun' = NoRun /\ Mute
  /\ UNCHANGED <<eday, epending, emarkers, emails, ecause>>
Silent ==
  /\ erun.pc = "build" /\ ~Sends(erun) /\ erun' = NoRun
  /\ UNCHANGED <<eday, epending, emarkers, emails, ecause, ehistory>>

\* Upload the ledger, then the marker of the gate's day; when the first fails the second is
\* skipped, and the runner may be lost before either.
Leaves(run) == {run.day}
KeepAndMark ==
  /\ erun.pc = "keep"
  /\ \/ emarkers' = emarkers \cup Leaves(erun) /\ UNCHANGED ecause
     \/ emarkers' = emarkers /\ ecause' = ecause \cup {erun.day}
  /\ erun' = NoRun /\ UNCHANGED <<eday, epending, emails, ehistory>>
\* The runner is lost.
Lost ==
  /\ erun # NoRun /\ erun' = NoRun /\ Mute
  /\ ecause' = IF erun.mailed THEN ecause \cup {erun.day} ELSE ecause
  /\ UNCHANGED <<eday, epending, emarkers, emails>>

EarlierNext ==
  \/ Midnight \/ (\E k \in Kinds12 : Arrive(k)) \/ Begin \/ Gate \/ Calendar12 \/ Restore12 \/ Signal
  \/ SendDigest \/ SendFails \/ Silent \/ KeepAndMark \/ Lost

-------------------------------------------------------------------------------
(* restore_ic_im_v1_3_ledger.py and the migration steps of the v1.4 workflow       *)

\* An artifact of v1.3: [name, created, run, whole]; name "monthly" (put-monthly-fix1) or "r7".
Cutoff == 2          \* --before-created-at, exclusive
Candidates(arts, name, before) == {a \in arts : a.name = name /\ (before => a.created < Cutoff)}
\* fetch_latest: the newest whose run completed with success on main.
Newest13(arts, name, before) ==
  LET fit == {a \in Candidates(arts, name, before) : a.run = "success"}
  IN {a \in fit : \A b \in fit : b.created <= a.created}
\* extract: every member is read before the first is written; nothing is written otherwise.
Extracted(a) == IF a.whole THEN {a} ELSE {}
\* The three steps: the v1.4 ledger, else the current seed, else the last one before the fix;
\* an archive that cannot be read ends the run instead.
Seed13(own, arts) ==
  LET current == Newest13(arts, "monthly", FALSE)
      older == Newest13(arts, "r7", TRUE)
  IN CASE own -> [source |-> "own", from |-> {}]
       [] ~own /\ current # {} -> [source |-> IF \A a \in current : a.whole THEN "migrated" ELSE "failed",
                                   from |-> UNION {Extracted(a) : a \in current}]
       [] ~own /\ current = {} /\ older # {} -> [source |-> IF \A a \in older : a.whole THEN "migrated" ELSE "failed",
                                   from |-> UNION {Extracted(a) : a \in older}]
       [] OTHER -> [source |-> "failed", from |-> {}]

-------------------------------------------------------------------------------
(* Properties                                                                     *)

\* A schedule mails a day's digest again only when the mail before it could not leave its
\* marker: the ledger upload or the marker upload failed, the runner was lost in between, or
\* the strategy was killed after it wrote its result.
RepeatedDigestHasACause ==
  \A i, j \in DOMAIN emails :
    (i < j /\ emails[i].ok /\ emails[j].ok /\ emails[i].day = emails[j].day /\ emails[j].kind \in Crons)
      => emails[j].day \in ecause

\* A final attempt that passed the gate and the calendar of a day either speaks or was
\* silenced by a damaged ledger archive, a refused mail, a lost runner, or a strategy killed
\* before its result: no other branch of the workflow swallows a failure.
FinalAttemptSpeaks ==
  [][(erun # NoRun /\ erun.pc \notin {"gate", "calendar"} /\ erun.kind \notin {1, 2} /\ erun' = NoRun)
       => erun.day \in ehistory'.spoke \cup ehistory'.mute]_earlierVars

\* Whatever artifacts exist, a migration starts from a whole archive a successful run
\* published, never from the pre-fix line while there is a current one.
SeedStandsOnASuccess(arts, own) ==
  LET s == Seed13(own, arts) IN
  /\ s.source = "migrated" <=> s.from # {}
  /\ \A a \in s.from : a.whole /\ a.run = "success"
  /\ (\E a \in s.from : a.name = "r7") => ~\E a \in arts : a.name = "monthly" /\ a.run = "success"
  /\ \A a \in s.from : a.name = "r7" => a.created < Cutoff
===============================================================================
