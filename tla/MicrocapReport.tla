------------------------------- MODULE MicrocapReport -------------------------------
(* What the microcap mails may say: which versions of the strategy are trusted,    *)
(* what the subject promises, the mail of the split member job and the local       *)
(* 14:15 report.                                                                    *)
(*   scripts/build_microcap_realtime_digest.py, build_microcap_member_digest.py,   *)
(*   build_local_intraday_report.py                                                *)
EXTENDS Integers, FiniteSets, FiniteSetsExt

-------------------------------------------------------------------------------
(* The publication clock. A clock is [day, t], t in minutes. Days are numbered;    *)
(* 0 stands for a missing date.                                                     *)

Cutoff == 900
Earlier(a, b) == a.day < b.day \/ (a.day = b.day /\ a.t <= b.t)

-------------------------------------------------------------------------------
(* The row of a version: what its final CSV declares.                              *)

Versions == {"v2.0", "v2.3", "v2.5"}
Active(v) == IF v = "v2.5" THEN "long" ELSE "hedged"

\* A row: [revision, required, actionable, official, signal, execution, date, quote, anchor,
\* expected, snapshot, confirmed, timing, cur, next, curScale, nextScale].
\* revision stands for the texts, switches and numbers that identify the frozen strategy.
IdentityAccepted(v, c) == c.revision = v

\* validate_member_action_contract
MemberAccepted(c) ==
  /\ {c.required, c.actionable, c.official} \subseteq {"yes", "no"}
  /\ c.actionable = "yes" =>
       /\ c.required = "yes" /\ c.official = "yes"
       /\ c.signal # 0 /\ c.execution > c.signal

\* validate_publication_contract
OfThisSession(mode, c) ==
  c.actionable = "yes" =>
    IF mode = "close" THEN c.date # 0 /\ c.signal = c.date ELSE c.quote # 0 /\ c.execution = c.quote
RealtimeAccepted(c, now) ==
  /\ c.quote = now.day /\ c.date = c.quote
  /\ c.anchor # 0 /\ c.anchor = c.expected /\ c.anchor < c.quote
  /\ c.snapshot.day = c.quote /\ c.snapshot.t < Cutoff /\ now.t < Cutoff
  /\ c.confirmed = "no" /\ c.timing = "intraday"
CloseAccepted(c) == c.confirmed = "yes" /\ c.timing = "close" /\ c.date # 0
PublicationAccepted(mode, c, now) ==
  /\ OfThisSession(mode, c)
  /\ IF mode = "realtime" THEN RealtimeAccepted(c, now) ELSE CloseAccepted(c)

\* validate_execution_contract: the scale is fixed by the holding.
HoldingAccepted(v, holding, scale) ==
  holding \in {"cash", Active(v)} /\ scale = IF holding = "cash" THEN 0 ELSE 1
ExecutionAccepted(v, c) ==
  HoldingAccepted(v, c.cur, c.curScale) /\ HoldingAccepted(v, c.next, c.nextScale)

-------------------------------------------------------------------------------
(* One mail for all versions. A result: [v, exit, preflight, marker, rows, csv].   *)

\* classify_signal_output
SignalRan(mode, r) == r.exit \in {"0", ""} /\ ~r.preflight /\ r.marker = mode
\* read_last_csv_row: a file of exactly one row.
ReadsRow(r) == r.rows = 1
RowTrusted(mode, r, now) ==
  /\ SignalRan(mode, r) /\ ReadsRow(r)
  /\ IdentityAccepted(r.v, r.csv) /\ MemberAccepted(r.csv)
  /\ PublicationAccepted(mode, r.csv, now) /\ ExecutionAccepted(r.v, r.csv)

\* main: a close mail bears the one date its rows declare, the rows of a failed run included.
CloseDates(results) == {r.csv.date : r \in {s \in results : ReadsRow(s)}} \ {0}
DatesMatch(m) ==
  m.mode = "close" =>
    /\ Cardinality(CloseDates(m.results)) = 1
    /\ m.expected # 0 => CloseDates(m.results) = {m.expected}
MailDate(m) ==
  CASE m.mode = "realtime" -> m.now.day
    [] m.mode = "close" /\ m.expected # 0 -> m.expected
    [] m.mode = "close" /\ m.expected = 0 /\ Cardinality(CloseDates(m.results)) = 1 ->
         CHOOSE d \in CloseDates(m.results) : TRUE
    [] OTHER -> m.now.day
TrustedAlone(m, r) == RowTrusted(m.mode, r, m.now)   \* mutant: rows of two days share a mail
Trusted(m, r) == RowTrusted(m.mode, r, m.now) /\ DatesMatch(m)

\* member_rebalance_action and action_label
MembersDue(c) == c.actionable = "yes" /\ c.official = "yes" /\ c.signal # 0 /\ c.execution # 0
Action(m, r) ==
  CASE ~Trusted(m, r) -> "failed"
    [] Trusted(m, r) /\ r.csv.cur = r.csv.next /\ r.csv.cur = "cash" -> "none"
    [] Trusted(m, r) /\ r.csv.cur # r.csv.next -> "trade"
    [] Trusted(m, r) /\ r.csv.cur = r.csv.next /\ r.csv.cur # "cash" /\ MembersDue(r.csv) -> "members"
    [] OTHER -> "none"
\* subject_tag, and conclusion_text which says the same of all versions
Tag(m) ==
  CASE \E r \in m.results : ~Trusted(m, r) -> "failed"
    [] \A r \in m.results : Trusted(m, r) /\ Action(m, r) = "none" -> "quiet"
    [] OTHER -> "act"

\* main: the demands on a catch-up and on a delivery test.
TestAccepted(m) ==
  m.test => m.mode = "close" /\ {r.v : r \in m.results} = Versions
CatchUpAccepted(m) ==
  m.catchup # 0 =>
    /\ m.mode = "close" /\ ~m.test
    /\ m.catchup = m.expected /\ m.catchup = MailDate(m) /\ m.catchup < m.now.day
Built(m) == m.results # {} /\ TestAccepted(m) /\ CatchUpAccepted(m)

-------------------------------------------------------------------------------
(* The mail of the split member job: build_microcap_member_digest.py               *)

\* A saved result: [day, mode, rows]; a row: [v, revision, status, cur, next, scale, target,
\* day, whole, reason]; scale and target: a number, -1 for a missing or conflicting field.
RowAccepted(x, day) ==
  /\ x.revision = x.v /\ x.status \in {"verified", "partial", "reference"}
  /\ x.status = "verified" => x.cur # "" /\ x.next # "" /\ x.day = day /\ x.whole
  /\ x.status = "partial" => x.reason
MemberRendered(s, day) ==
  /\ s.day = day /\ s.mode \in {"intraday", "close"}
  /\ Cardinality(s.rows) = 3 /\ {x.v : x \in s.rows} = Versions
  /\ \A x \in s.rows : RowAccepted(x, day)
MemberStatus(s) == IF \A x \in s.rows : x.status = "verified" THEN "OK" ELSE "PARTIAL"

\* details: the action of a row, unconfirmed when a scale is missing or contradicts the holding.
ScalesSound(x) ==
  /\ x.scale >= 0 /\ x.target >= 0
  /\ x.cur = "cash" => x.scale = 0
  /\ x.next = "cash" => x.target = 0
MemberAction(x) ==
  CASE x.status # "verified" \/ ~ScalesSound(x) -> "unconfirmed"
    [] x.status = "verified" /\ ScalesSound(x) /\ x.cur = x.next -> "hold"
    [] OTHER -> "trade"

\* saved_context and details: the next session comes from the checkpoint beside the result.
\* A checkpoint: [asof, sound, next]; sound: its files are inside its directory and hash right.
ContextKept(cp, day) == cp.asof <= day /\ cp.sound
NextShown(cp, s) == IF ContextKept(cp, s.day) /\ cp.asof = s.day THEN cp.next ELSE 0

-------------------------------------------------------------------------------
(* The local 14:15 report: build_local_intraday_report.py                          *)

\* A receipt of readiness: [pass, expected, start, end, stages, members, quoteDay, notice];
\* notice: [id, day, previous, symbols, until]. A report: [mode, day, anchor, next, ready,
\* rows, begin, end]; its rows are results with csv.members, csv.notice and csv.covered.
Stages == <<"preflight", "validate", "whole_check">>
NoticeAccepted(y, day, anchor) ==
  y.notice.day = day /\ y.notice.previous = anchor /\ y.members \subseteq y.notice.symbols
\* _check_readiness
ReadinessAccepted(y, day, anchor) ==
  /\ y.pass /\ y.expected = anchor
  /\ Earlier(y.start, y.end) /\ y.start.day = day /\ y.end.day = day /\ y.end.t < Cutoff
  /\ y.stages = Stages /\ y.quoteDay = day
  /\ NoticeAccepted(y, day, anchor)
\* _micro_rows: a replay is judged at the clock of its own snapshot.
RowClock(x, r) == IF x.mode = "replay" THEN r.csv.snapshot ELSE x.begin
LocalRow(x, r) ==
  /\ r.rows = 1 /\ IdentityAccepted(r.v, r.csv) /\ MemberAccepted(r.csv) /\ ExecutionAccepted(r.v, r.csv)
  /\ Earlier(r.csv.snapshot, x.begin)
  /\ PublicationAccepted("realtime", r.csv, RowClock(x, r))
  /\ r.csv.date = x.day /\ r.csv.anchor = x.anchor /\ r.csv.covered
  /\ r.csv.notice = x.ready.notice.id
  /\ Earlier(x.ready.notice.until, r.csv.snapshot) /\ Earlier(x.ready.end, r.csv.snapshot)
\* render: the inputs are hashed again and the clock is read again at the end.
LocalRendered(x) ==
  /\ x.anchor < x.day /\ x.day < x.next
  /\ x.mode = "intraday" => x.begin.day = x.day /\ x.end.t < Cutoff
  /\ {r.v : r \in x.rows} = Versions
  /\ ReadinessAccepted(x.ready, x.day, x.anchor)
  /\ \A r \in x.rows : LocalRow(x, r)

-------------------------------------------------------------------------------
(* Properties                                                                      *)

\* A subject that asks for nothing was earned by every version: each ran, each declares the
\* day of the mail, holds what it will hold, and no held list of members changes in the
\* session the mail is about (subject_tag over validate_* and the dates of main).
QuietMeansNothingDue(m) ==
  Built(m) /\ Tag(m) = "quiet" =>
    \A r \in m.results :
      /\ r.exit \in {"0", ""} /\ r.csv.revision = r.v /\ r.csv.date = MailDate(m)
      /\ r.csv.cur = r.csv.next
      /\ r.csv.cur = "cash" \/ r.csv.actionable = "no"
      /\ m.mode = "realtime" => r.csv.snapshot.day = m.now.day /\ m.now.t < Cutoff

\* An order to change members belongs to the session the mail is about: decided at its close
\* and executed later, or decided before and executed on it; no mail repeats an old one.
ActionIsOfTheSession(m) ==
  \A r \in m.results :
    Built(m) /\ Action(m, r) = "members" =>
      /\ r.csv.signal < r.csv.execution
      /\ m.mode = "close" => r.csv.signal = MailDate(m)
      /\ m.mode = "realtime" => r.csv.execution = MailDate(m)

\* A catch-up mail is about a finished day and says so: an earlier one than today, and every
\* version it trusts closed on that day (main's catch-up demands).
CatchUpIsPast(m) ==
  Built(m) /\ m.catchup # 0 =>
    /\ m.catchup < m.now.day
    /\ \A r \in m.results : Trusted(m, r) => r.csv.date = m.catchup /\ r.csv.confirmed = "yes"

\* The member mail does not hide a gap: without its mark of partial information all three
\* versions were verified on that day with all members, a trade is only named when both
\* scales fit the holdings, and the next session shown is that of a checkpoint of the day.
MemberMailIsPlain(s, cp, day) ==
  MemberRendered(s, day) =>
    /\ MemberStatus(s) = "OK" => \A x \in s.rows : x.day = day /\ x.whole /\ x.revision = x.v
    /\ \A x \in s.rows : MemberAction(x) = "trade" =>
         x.cur # x.next /\ (x.cur = "cash" => x.scale = 0) /\ (x.next = "cash" => x.target = 0)
    /\ NextShown(cp, s) # 0 => cp.asof = day /\ cp.sound

\* The three rows of a local report rest on one audit of the members' notices that ended
\* before any of their snapshots, all on the day of the report; a live one was begun after
\* all of them and finished before 15:00.
LocalReportIsOneEvidence(x) ==
  LocalRendered(x) =>
    /\ \A r \in x.rows :
         /\ r.csv.notice = x.ready.notice.id /\ r.csv.snapshot.day = x.day
         /\ Earlier(x.ready.notice.until, r.csv.snapshot) /\ Earlier(r.csv.snapshot, x.begin)
         /\ r.csv.snapshot.t < Cutoff
    /\ x.mode = "intraday" => x.begin.day = x.day /\ x.begin.t < Cutoff /\ x.end.t < Cutoff
================================================================================
