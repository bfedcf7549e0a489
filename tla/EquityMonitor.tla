------------------------------ MODULE EquityMonitor ------------------------------
(* The weekly monitor of momentum boundaries: which months count, what conclusion *)
(* the evidence supports, and the chain of mailed reports each report is compared *)
(* with, kept in a cache that is written after the mail.                          *)
(*   monitoring/equity_momentum_boundary/*.py,                                    *)
(*   .github/workflows/equity-momentum-boundary-weekly.yml                        *)
EXTENDS Integers, FiniteSets, Sequences, SequencesExt, FiniteSetsExt

-------------------------------------------------------------------------------
(* Months.                                                                       *)

\* The sheet prints YYYY.MM as a number, so October loses its zero.
Printed(m) == CASE m = 10 -> <<1>> [] m < 10 -> <<0, m>> [] OTHER -> <<1, m - 10>>
Parsed(m) == LET p == Printed(m) IN IF Len(p) = 1 THEN 10 * p[1] ELSE 10 * p[1] + p[2]

\* boundary_component: the row numbers of a rolling window are months only on a whole
\* calendar; a month of `rows` that is not in `present` has no value.
Calendar(rows) == Min(rows) .. Max(rows)

\* The rows of a frame sorted by month.
SortedRows(S) == [k \in 1 .. Cardinality(S) |-> CHOOSE m \in S : Cardinality({x \in S : x <= m}) = k]

\* The months with a 12-month mean and a full window of means.
Scored(rows, present, ma, window) ==
  LET months == SortedRows(Calendar(rows))
      mean == {k \in DOMAIN months : k >= ma /\ \A j \in k - ma + 1 .. k : months[j] \in present}
  IN {months[k] : k \in {i \in DOMAIN months : i - window + 1 .. i \subseteq mean}}

\* build_boundary_variant: joined by month, the newest month scored in both, 0 for none.
\* The sheet has rows without a value, a term spread without a value has no row.
VariantMonth(valuation, term, ma, window) ==
  LET joined == valuation.rows \cap term
      both == Scored(joined, valuation.present, ma, window) \cap Scored(joined, term, ma, window)
  IN IF joined = {} \/ both = {} THEN 0 ELSE Max(both)

-------------------------------------------------------------------------------
(* The conclusion.                                                               *)

Variants == {"cape10", "cape20", "div10", "div20"}
Capes == {"cape10", "cape20"}
Sources == {"shiller", "fred", "h15", "yahooSp", "yahooVix"}

\* What the world would show if every source answered:
\*   core: for each of the two term spreads, [Variants -> [month, extremes, tail]],
\*   m1, m3, m12: signs of momentum, vix: "calm" | "high" | "rising", gen: this month.
NoVariant == [month |-> 0, extremes |-> 0, tail |-> "mid"]

\* build_report, build_term_spread_proxy, build_supplemental_context: what a report
\* holds when the sources `up` answer.
Evidence(world, up) ==
  LET term == IF "fred" \in up THEN "fred" ELSE IF "h15" \in up THEN "h15" ELSE "none"
      core == "shiller" \in up /\ term # "none"
  IN [gen |-> world.gen, term |-> term,
      v |-> [k \in Variants |-> IF core THEN world.core[term][k] ELSE NoVariant],
      market |-> up \cap {"fred", "yahooSp"} # {},
      vix |-> IF up \cap {"fred", "yahooVix"} # {} THEN world.vix ELSE "missing",
      m1 |-> world.m1, m3 |-> world.m3, m12 |-> world.m12]

MaxMonths == 3
Current(e) ==
  {k \in Variants : /\ e.v[k].month > 0 /\ e.v[k].month = e.v["cape10"].month
                    /\ e.gen - e.v[k].month \in 0 .. MaxMonths}

CoreState(e) ==
  LET counts == {e.v[k].extremes : k \in Current(e)}
  IN IF ~(Capes \subseteq Current(e)) THEN "incomplete"
     ELSE IF 2 \in counts THEN "boundary" ELSE IF 1 \in counts THEN "elevated" ELSE "neutral"

Usable(e) == CoreState(e) # "incomplete" /\ e.market

Conflict(e) ==   \* a high price in one measure, a low one in the other
  \E p \in {<<"cape10", "div10">>, <<"cape20", "div20">>} :
    /\ {p[1], p[2]} \subseteq Current(e)
    /\ e.v[p[1]].tail = e.v[p[2]].tail /\ e.v[p[1]].tail # "mid"

Stance(e) ==
  CASE ~Usable(e) -> "insufficient"
    [] Usable(e) /\ e.m12 <= 0 -> "defensive"
    [] Usable(e) /\ e.m12 > 0 /\ (e.m1 < 0 \/ e.m3 < 0) -> "disturbed"
    [] OTHER -> IF e.vix = "rising" THEN "alert"
                ELSE IF CoreState(e) \in {"elevated", "boundary"} THEN "extreme" ELSE "track"

\* The advice about new money, from the freest to the most careful.
SuggestionVixBlind(e) ==   \* mutant: missing volatility is calm
  IF ~Usable(e) THEN 3 ELSE IF e.m12 <= 0 THEN 2
  ELSE IF \/ e.m1 < 0 \/ e.m3 < 0 \/ e.vix \in {"high", "rising"}
          \/ CoreState(e) = "boundary" \/ Conflict(e) THEN 1 ELSE 0
Suggestion(e) ==
  IF ~Usable(e) THEN 3 ELSE IF e.m12 <= 0 THEN 2
  ELSE IF \/ e.m1 < 0 \/ e.m3 < 0 \/ e.vix # "calm"
          \/ CoreState(e) = "boundary" \/ Conflict(e) THEN 1 ELSE 0

-------------------------------------------------------------------------------
(* The weekly runs.                                                              *)

CONSTANTS
  MaxAge,                             \* 14 days, in moments
  LastMoment, MaxEquityRuns, MaxAttempts, Methods   \* bounds

VARIABLES
  moment,    \* grows; every report has its own
  method,    \* METHOD_VERSION of the checked-out code
  cache,     \* snapshots, oldest first: [key, report]
  jobs,      \* running jobs: [phase, id, attempt, send, base, report]
  pending,   \* the one waiting job of the concurrency group, or Idle
  ended,     \* runs that may be re-run: [id, attempt, send]
  letters,   \* accepted mails: [report, base]
  lost       \* reports whose snapshot was not saved or was evicted

equity == <<moment, method, cache, jobs, pending, ended, letters, lost>>

NoReport == [at |-> 0, method |-> 0]
Idle == [phase |-> "idle", id |-> 0, attempt |-> 0, send |-> FALSE, base |-> NoReport, report |-> NoReport]

EquityInit ==
  /\ moment = 1 /\ method = 1
  /\ cache = <<>> /\ jobs = {} /\ pending = Idle
  /\ ended = {} /\ letters = {} /\ lost = {}

\* Time passes between runs; somebody changes METHOD_VERSION.
Later == moment < LastMoment /\ moment' = moment + 1
         /\ UNCHANGED <<method, cache, jobs, pending, ended, letters, lost>>
NewMethod == method < Methods /\ method' = method + 1
             /\ UNCHANGED <<moment, cache, jobs, pending, ended, letters, lost>>

\* A new attempt waits; the one that waited is cancelled and may be re-run.
Past(j) == [id |-> j.id, attempt |-> j.attempt, send |-> j.send]
Enqueue(r) ==
  /\ pending' = [Idle EXCEPT !.phase = "restore", !.id = r.id, !.attempt = r.attempt, !.send = r.send]
  /\ ended' = {p \in ended : p.id # r.id} \cup (IF pending = Idle THEN {} ELSE {Past(pending)})
  /\ UNCHANGED <<moment, method, cache, jobs, letters, lost>>

\* A schedule or a push of replay_request.json mails, a dispatch may validate only.
RunIds == {r.id : r \in ended \cup jobs \cup {pending}} \ {0}
Arrive == \E send \in BOOLEAN :
  /\ Cardinality(RunIds) < MaxEquityRuns
  /\ Enqueue([id |-> Cardinality(RunIds) + 1, attempt |-> 1, send |-> send])
RerunJob == \E r \in ended :
  /\ r.attempt < MaxAttempts
  /\ Enqueue([r EXCEPT !.attempt = r.attempt + 1])

\* The group runs one job at a time.
GroupIdle == jobs = {}
BeginJob ==
  /\ GroupIdle /\ pending # Idle
  /\ jobs' = jobs \cup {pending} /\ pending' = Idle
  /\ UNCHANGED <<moment, method, cache, ended, letters, lost>>

Becomes(j, k) == jobs' = (jobs \ {j}) \cup {k}

\* Restore previous delivered report: the exact key does not exist yet, so the newest
\* snapshot of the branch, or a miss. An unreadable file counts as a miss.
Restore == \E j \in jobs :
  /\ j.phase = "restore"
  /\ \E found \in {NoReport} \cup (IF cache = <<>> THEN {} ELSE {Last(cache).report}) :
       Becomes(j, [j EXCEPT !.phase = "build", !.base = found])
  /\ UNCHANGED <<moment, method, cache, pending, ended, letters, lost>>

\* main: the snapshot must be of this method and at most 14 days old.
Comparable(base) == base.method = method /\ moment - base.at \in 1 .. MaxAge
BuildReport == \E j \in jobs :
  /\ j.phase = "build" /\ moment < LastMoment
  /\ moment' = moment + 1
  /\ Becomes(j, [j EXCEPT !.phase = IF j.send THEN "send" ELSE "conclude",
                          !.report = [at |-> moment, method |-> method],
                          !.base = IF Comparable(j.base) THEN j.base ELSE NoReport])
  /\ UNCHANGED <<method, cache, pending, ended, letters, lost>>

\* The mail step: accepted, accepted with an error after it, or refused.
SendLetter == \E j \in jobs :
  /\ j.phase = "send"
  /\ \/ /\ letters' = letters \cup {[report |-> j.report, base |-> j.base]}
        /\ \E ok \in BOOLEAN :
             /\ lost' = IF ok THEN lost ELSE lost \cup {j.report}
             /\ Becomes(j, [j EXCEPT !.phase = IF ok THEN "save" ELSE "conclude"])
     \/ Becomes(j, [j EXCEPT !.phase = "conclude"]) /\ UNCHANGED <<letters, lost>>
  /\ UNCHANGED <<moment, method, cache, pending, ended>>

\* Prepare and save: a key is written once; a save that fails is a warning.
SaveKey(j) == <<j.id, j.attempt>>
SaveSnapshot == \E j \in jobs :
  /\ j.phase = "save"
  /\ \/ /\ cache' = IF \E i \in DOMAIN cache : cache[i].key = SaveKey(j) THEN cache
                    ELSE Append(cache, [key |-> SaveKey(j), report |-> j.report])
        /\ lost' = lost
     \/ /\ cache' = cache
        /\ lost' = lost \cup {j.report}
  /\ Becomes(j, [j EXCEPT !.phase = "conclude"])
  /\ UNCHANGED <<moment, method, pending, ended, letters>>

\* The end of a job, or the end of its runner at any step.
EndJob == \E j \in jobs :
  /\ jobs' = jobs \ {j}
  /\ ended' = ended \cup {Past(j)}
  /\ lost' = IF j.phase = "save" THEN lost \cup {j.report} ELSE lost
  /\ UNCHANGED <<moment, method, cache, pending, letters>>

\* The cache service drops a snapshot.
Evict == \E i \in DOMAIN cache :
  /\ cache' = RemoveAt(cache, i)
  /\ lost' = lost \cup {cache[i].report}
  /\ UNCHANGED <<moment, method, jobs, pending, ended, letters>>

EquityNext ==
  \/ Later \/ NewMethod \/ Arrive \/ RerunJob \/ BeginJob \/ Restore
  \/ BuildReport \/ SendLetter \/ SaveSnapshot \/ EndJob \/ Evict

-------------------------------------------------------------------------------
(* Properties.                                                                   *)

\* A mail compares its readings with a report that was itself mailed, by the same
\* method, within 14 days, and with none older than the newest such report whose
\* snapshot was saved and is still there: neither a re-run nor a second run that
\* overlaps brings an older report back (the concurrency group and the keys of
\* equity-momentum-boundary-weekly.yml, main).
ComparedWithTheLastMail ==
  \A m \in letters : m.base # NoReport =>
    /\ m.base \in {n.report : n \in letters}
    /\ m.base.method = m.report.method /\ m.report.at - m.base.at \in 1 .. MaxAge
    /\ \A n \in letters :
         (m.base.at < n.report.at /\ n.report.at < m.report.at) => n.report \in lost

\* A scored month has all its months: no gap in the sheet or in the yields is bridged by
\* counting rows, and every month of the sheet is read as itself (boundary_component,
\* _parse_shiller_periods).
WindowsAreWhole(valuation, term, ma, window) ==
  LET m == VariantMonth(valuation, term, ma, window)
  IN /\ m # 0 => m - ma - window + 2 .. m \subseteq valuation.present \cap term
     /\ \A k \in 1 .. 12 : Parsed(k) = k

\* Sources that fail never free new money: with the same term spread, the advice of a
\* degraded report is at least as careful as the advice of a complete one
\* (build_report, build_advisory).
OutageNeverRelaxes(world, up) ==
  LET e == Evidence(world, up)
      whole == Evidence(world, IF e.term = "h15" THEN Sources \ {"fred"} ELSE Sources)
  IN Suggestion(e) >= Suggestion(whole)

\* Windows of another month than the current core change neither its state, nor the
\* stance, nor the advice, and the stance never contradicts the advice
\* (build_advisory).
StaleEvidenceIsInert(e) ==
  LET stale == {k \in Variants : e.v[k].month # e.v["cape10"].month}
      clean == [e EXCEPT !.v = [k \in Variants |-> IF k \in stale THEN NoVariant ELSE e.v[k]]]
  IN /\ CoreState(e) = CoreState(clean) /\ Stance(e) = Stance(clean)
     /\ Suggestion(e) = Suggestion(clean)
     /\ Suggestion(e) = 0 => Stance(e) \in {"track", "extreme"}
     /\ Stance(e) \in {"insufficient", "defensive"} => Suggestion(e) >= 2
=================================================================================
