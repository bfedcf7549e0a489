------------------------------- MODULE IcimHandoff -------------------------------
(* The research handoff of IC/IM: a restored production ledger and the report that *)
(* was derived from it leave the runner together, or not at all.                   *)
(*   scripts/ic_im_readiness_handoff.py                                            *)
EXTENDS Integers, FiniteSets

\* A journal record: [seq, day, digest, prev].  A ledger directory: [journal, latest, migrated],
\* migrated the digest the migration record names for record 0.
\* A report: [status, declared, valid, digest, seq, day, market, mode, file]; declared: it names the
\* components it lacks, valid: the digest builder accepts its payload.
\* A preflight: [restored, completed, market, mode].

\* External: the exchange calendar of the strategy; days 3 and 4 are a weekend.
Trading == {1, 2, 5, 6}
RollForward(d) == CHOOSE e \in Trading : e >= d /\ \A f \in Trading : f >= d => e <= f

\* External: StateStore.load_sequence finds the one record of a number, or raises.
Loads(ledger, n) == Cardinality({r \in ledger.journal : r.seq = n}) = 1
Record(ledger, n) == CHOOSE r \in ledger.journal : r.seq = n

Follows(r, s) == s.prev = r.digest /\ s.day = RollForward(r.day + 1)

\* The journal is one chain from record 0 to the newest, with no file beside it.
OneChain(ledger) ==
  LET newest == ledger.latest.seq IN
  /\ \A n \in 0 .. newest : Loads(ledger, n)
  /\ \A n \in 1 .. newest : Follows(Record(ledger, n - 1), Record(ledger, n))
  /\ Record(ledger, newest).digest = ledger.latest.digest
  /\ ledger.journal = {Record(ledger, n) : n \in 0 .. newest}
  /\ ledger.migrated = Record(ledger, 0).digest

ReportName(mode) == IF mode = "realtime" THEN "realtime_signal" ELSE "close_signal"
ReportAccepted(report, preflight, latest) ==
  /\ report.status \in {"ok", "partial"}
  /\ report.status = "partial" => report.declared /\ report.valid
  /\ <<report.digest, report.seq, report.day>> = <<latest.digest, latest.seq, latest.day>>
  /\ report.market = preflight.market
  /\ report.mode = (IF preflight.mode = "realtime" THEN "realtime" ELSE "close_confirmed")
  /\ report.file = ReportName(report.mode)

\* main, up to the first byte that is printed.
Exports(ledger, report, preflight) ==
  /\ ReportAccepted(report, preflight, ledger.latest)
  /\ ledger.latest.digest = preflight.restored
  /\ ledger.latest.day = preflight.completed
  /\ OneChain(ledger)

\* What leaves the runner.
Bundle(ledger, report) == [journal |-> ledger.journal, status |-> report.status]

-------------------------------------------------------------------------------
\* A handoff holds every session from the migrated record to the session that was completed
\* when it was checked, each once and in one chain, and ends with the record production had
\* left: nothing the report run itself appended, dropped or forked is in it.
HandoffIsOneHistory(ledger, report, preflight) ==
  Exports(ledger, report, preflight) =>
    LET out == Bundle(ledger, report).journal
        first == CHOOSE r \in out : r.digest = ledger.migrated
        last == CHOOSE r \in out : r.digest = preflight.restored
    IN /\ {r.day : r \in out} = {d \in Trading : first.day <= d /\ d <= preflight.completed}
       /\ Cardinality(out) = Cardinality({r.day : r \in out})
       /\ \A r \in out : r = first \/ \E q \in out : q.digest = r.prev /\ q.day < r.day
       /\ last.day = report.day /\ report.seq = Cardinality(out) - 1
=================================================================================
