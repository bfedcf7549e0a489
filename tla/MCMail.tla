--------------------------------- MODULE MCMail ---------------------------------
(* Cases of the strategy mails for TLC: evidence of the fear index, IC/IM         *)
(* payloads and handoffs, microcap reports, near the ones the builders accept.    *)
EXTENDS FearEvidence, IcimReport, IcimHandoff, MicrocapReport, TLC

-------------------------------------------------------------------------------
(* The fear index: signal day 2, the day before is 1; a reading is a number.     *)
PageReads == {<<0, 0, 0>>, <<1, 6, 11>>, <<1, 6, 12>>, <<2, 8, 21>>, <<2, 9, 21>>, <<2, 10, 21>>,
              <<2, 10, 20>>, <<2, 12, 20>>}
Csvs == {[d \in 1 .. n |-> IF d = 1 THEN 11 ELSE 20] : n \in 0 .. 2}
FearRun(close, retrieved, checked, csv, p) ==
  [day |-> 2, close |-> close, started |-> 8, retrieved |-> retrieved, checked |-> checked,
   csv |-> csv, csvDay |-> Max({0} \cup DOMAIN csv), page |-> (p[1] :> p[3]), pageDay |-> p[1], pageAt |-> p[2]]
Qualities == {"matched", "mismatch", "single_source", "unavailable"}
Claims ==
  [value : {0, 11, 12, 20, 21}, data : 0 .. 2, selected : {"csv", "page"}, replay : BOOLEAN,
   generated : {0, 11, 13}, quality : Qualities, warned : {TRUE},
   status : {"unavailable"} \cup ProofOfDay, reason : {"none"}, timing : {"none"}]
  \cup [value : {11, 12}, data : {1, 2}, selected : {"csv", "page"}, replay : BOOLEAN,
        generated : {0, 13}, quality : Qualities, warned : {TRUE}, status : CarryTerms,
        reason : {"not_published", "not_confirmed"}, timing : {"intraday", "post_close", "replay"}]
FearSignals == [fear : {0, 1}, action : {"HOLD", "UNCONFIRMED"}, hidden : BOOLEAN,
                complete : BOOLEAN, kept : {TRUE}, flexible : BOOLEAN]
FearCases(kind, c) ==
  \/ kind = "fear" /\ \E close \in BOOLEAN, retrieved \in {8, 9, 11, 12}, csv \in Csvs, p \in PageReads, checked \in {10, 14} :
       c = <<"fear", FearRun(close, retrieved, checked, csv, p)>>
  \/ kind = "partial" /\ \E a, b \in FearSignals, status \in {"ok", "partial"}, whole \in BOOLEAN, m \in SUBSET Products :
       /\ a.flexible = b.flexible
       /\ c = <<"partial", [status |-> status, complete |-> whole, missing |-> m,
                            signals |-> [x \in Products |-> IF x = "IC" THEN a ELSE b]]>>

-------------------------------------------------------------------------------
(* IC/IM payloads around the rule change of September 29.                        *)
PutLegs == [old : {Flat, "a1", "b1"}, new : {Flat, "a1", "b1"}, changed : BOOLEAN]
Books == [core : {Flat, "a1", "b1"}, mom : {Flat, "m1"}]
MomLegs == {Leg(a, b) : a, b \in {Flat, "m1"}} \cup {[old |-> Flat, new |-> "m1", changed |-> FALSE]}
Payload(route, profit, action, monthly, cur, tgt, old3, core, mom) ==
  [day |-> Sep29, product |-> "IC", route |-> route, profit |-> profit, action |-> action,
   monthly |-> monthly, close |-> TRUE, priced |-> monthly, cur |-> cur, tgt |-> tgt, old3 |-> old3,
   new3 |-> "b1", trigger |-> Sep29, exec3 |-> IF profit THEN Sep29 + 1 ELSE 0,
   plan |-> [signal |-> Sep29, exec |-> Sep29 + 1, core |-> core, mom |-> mom]]
Quantities == [cur : 0 .. 1, tgt : 0 .. 1]
Prices(legs, opens) == SUBSET [leg : legs, day : {5}, open : opens]
PutEvents ==
  [kind : {"short_put"}, exec : 4 .. 6, legs : {{"n", "f"}}, new : {"n"},
   status : {"confirmed", "awaiting", "no_price", "missed"}, prices : Prices({"n", "f"}, {3, 4})]
  \cup [kind : {"profit3x"}, exec : {5}, legs : {{"o", "c"}}, new : {"c"},
        status : {"confirmed", "no_price"}, prices : Prices({"o", "c"}, {3})]
SubjectFlags == [hold : BOOLEAN, plan : BOOLEAN, notices : BOOLEAN, attention : BOOLEAN,
                 partial : BOOLEAN, replay : BOOLEAN]
IcimCases(kind, c) ==
  \/ kind = "identity" /\ \E d, e \in 1 .. 60 : c = <<"identity", d, e>>
  \/ kind = "signal" /\ \E route \in {"future", "short_put"}, profit, monthly \in BOOLEAN, action \in {"none", "reenter", "execute"},
        cur, tgt \in Books, old3 \in {Flat, "a1"}, core \in PutLegs, mom \in MomLegs :
       c = <<"signal", Payload(route, profit, action, monthly, cur, tgt, old3, core, mom)>>
  \/ kind = "sums" /\ \E core, mom, grid \in Quantities, x, y \in 0 .. 3, change \in -1 .. 3 :
       c = <<"sums", [core |-> core, mom |-> mom, weight |-> mom, grid |-> grid,
                      total |-> [cur |-> x, tgt |-> y], change |-> change]>>
  \/ kind = "cost" /\ \E events \in {{}} \cup {{e} : e \in PutEvents}, route \in {"future", "short_put"}, held \in {Flat, "n"},
        basis \in {"none", "pending", "confirmed"}, premium \in {0, 3}, priceDay \in {0, 4, 5},
        pending \in {NoPlan, [exec |-> 6, new |-> "n"]} :
       c = <<"cost", [day |-> 5, route |-> route, held |-> held, basis |-> basis, premium |-> premium,
                      priceDay |-> priceDay, pending |-> pending, events |-> events]>>
  \/ kind = "subject" /\ \E f \in SubjectFlags : c = <<"subject", f>>
  \/ kind = "month" /\ \E first \in 0 .. 6, a \in 1 .. 28, n \in 0 .. 8, close \in BOOLEAN :
       c = <<"month", [first |-> first, closed |-> a .. a + n - 1], close>>

-------------------------------------------------------------------------------
(* Microcap reports of day 5; the session before is 4, clocks are minutes.       *)
CloseRow(v) ==
  [revision |-> v, required |-> "no", actionable |-> "no", official |-> "no", signal |-> 0, execution |-> 0,
   date |-> 5, quote |-> 5, anchor |-> 4, expected |-> 4, snapshot |-> [day |-> 5, t |-> 860],
   confirmed |-> "yes", timing |-> "close", cur |-> Active(v), next |-> Active(v), curScale |-> 1, nextScale |-> 1]
RowOf(mode, v) == IF mode = "close" THEN CloseRow(v)
                  ELSE [CloseRow(v) EXCEPT !.confirmed = "no", !.timing = "intraday"]
WithMembers(row, x) ==
  [row EXCEPT !.required = x.required, !.actionable = x.actionable, !.official = x.official,
              !.signal = x.signal, !.execution = x.execution]
OtherMembers(row) ==
  {WithMembers(row, x) : x \in [required : {"yes", "no"}, actionable : {"yes", "no", ""}, official : {"yes", "no"},
                                signal : {0, 4, 5}, execution : {4, 5, 6}]}
WithDates(row, x) == [row EXCEPT !.date = x.date, !.quote = x.quote, !.anchor = x.anchor]
OtherDates(row) == {WithDates(row, x) : x \in [date : {0, 4, 5}, quote : {0, 4, 5}, anchor : {4, 5}]}
WithBooks(row, x) ==
  [row EXCEPT !.cur = x.cur, !.next = x.next, !.curScale = x.curScale, !.nextScale = x.nextScale]
OtherBooks(row) ==
  {WithBooks(row, x) : x \in [cur : {"cash", "long", "hedged"}, next : {"cash", "long", "hedged"},
                              curScale : {0, 1}, nextScale : {0, 1}]}
WithForm(row, x) == [row EXCEPT !.confirmed = x.confirmed, !.timing = x.timing, !.revision = x.revision]
OtherForms(row) ==
  {WithForm(row, x) : x \in [confirmed : {"yes", "no", ""}, timing : {"close", "intraday"},
                             revision : {row.revision, "old"}]}
InCash(row) == [row EXCEPT !.cur = "cash", !.next = "cash", !.curScale = 0, !.nextScale = 0]
Outcome(mode, v, row) ==
  [v |-> v, exit |-> "0", preflight |-> FALSE, marker |-> mode, rows |-> 1, csv |-> row]
WithRun(r, x) ==
  [r EXCEPT !.exit = x.exit, !.preflight = x.preflight, !.marker = x.marker, !.rows = x.rows]
OtherRuns(r) ==
  {WithRun(r, x) : x \in [exit : {"0", "", "1"}, preflight : BOOLEAN, marker : {"close", "realtime", ""}, rows : 0 .. 2]}
Mail(mode, results, t, expected, catchup) ==
  [mode |-> mode, results |-> results, now |-> t, expected |-> expected, catchup |-> catchup, test |-> FALSE]
Regular(mode, vs) == {Outcome(mode, v, RowOf(mode, v)) : v \in vs}
Deviant(mode, v) ==
  LET row == RowOf(mode, v) IN
  {Outcome(mode, v, x) : x \in OtherMembers(row) \cup OtherMembers(InCash(row)) \cup OtherDates(row)
                               \cup OtherBooks(row) \cup OtherForms(row)}
  \cup OtherRuns(Outcome(mode, v, row))

MemberRow(v) == [v |-> v, revision |-> v, status |-> "verified", cur |-> "cash", next |-> "cash",
                 scale |-> 0, target |-> 0, day |-> 5, whole |-> TRUE, reason |-> FALSE]
MemberRows == [v : {"v2.3"}, revision : {"v2.3", "old"}, status : {"verified", "partial", "reference"},
               cur : {"", "cash", "hedged"}, next : {"cash", "hedged"}, scale : -1 .. 1, target : -1 .. 1,
               day : {4, 5}, whole : BOOLEAN, reason : BOOLEAN]
Readiness == [pass : BOOLEAN, expected : {4}, start : [day : {5}, t : {840}],
              end : [day : {5}, t : {850, 870, 905}], stages : {Stages, <<"preflight">>},
              members : {{"a", "b"}}, quoteDay : {4, 5},
              notice : [id : {"n1", "n2"}, day : {5}, previous : {4}, symbols : {{"a", "b"}, {"a"}},
                        until : [day : {5}, t : {845, 865}]]]
LocalOutcome(v, notice, snapshot) ==
  Outcome("realtime", v, [RowOf("realtime", v) EXCEPT !.snapshot = snapshot] @@ [notice |-> notice, covered |-> TRUE])

-------------------------------------------------------------------------------
(* Ledgers of three sessions, with a gap, a fork or a torn chain, and reports near them.  *)
Journaled(seq, day, digest, prev) == [seq |-> seq, day |-> day, digest |-> digest, prev |-> prev]
Journals == SUBSET {Journaled(0, 1, 10, 0), Journaled(0, 2, 11, 0), Journaled(1, 2, 20, 10),
                    Journaled(1, 5, 21, 10), Journaled(1, 2, 22, 11), Journaled(2, 5, 30, 20),
                    Journaled(2, 6, 31, 20), Journaled(2, 6, 32, 21)}
Ledgers == UNION {[journal : {j}, latest : j, migrated : {10, 11}] : j \in Journals}
Reports(r, mode) ==
  [status : {"ok", "partial"}, declared : {TRUE}, valid : BOOLEAN, digest : {r.digest, 20}, seq : {r.seq},
   day : {r.day}, market : {r.day, 6}, mode : {mode}, file : {ReportName(mode)}]
HandoffCases(kind, c) ==
  /\ kind = "handoff"
  /\ \E ledger \in Ledgers, mode \in {"realtime", "close_confirmed"} :
     \E report \in Reports(ledger.latest, mode), restored \in {20, ledger.latest.digest}, completed \in {5, ledger.latest.day} :
       c = <<"handoff", ledger, report, [restored |-> restored, completed |-> completed,
               market |-> IF mode = "realtime" THEN 6 ELSE completed, mode |-> mode]>>

MicrocapCases(kind, c) ==
  \/ kind = "digest" /\ \E mode \in {"close", "realtime"}, v \in Versions : \E r \in Deviant(mode, v) :
     \E t \in [day : {5, 6}, t : {860, 1230}], expected \in {0, 4, 5}, catchup \in {0, 4, 5} :
       c = <<"digest", Mail(mode, Regular(mode, Versions \ {v}) \cup {r}, t, expected, catchup)>>
  \/ kind = "digest" /\ \E v \in {"v2.0", "v2.5"} : \E a \in OtherMembers(CloseRow(v)), b \in OtherDates(CloseRow("v2.3")), e \in {0, 5} :
       c = <<"digest", Mail("close", {Outcome("close", v, a), Outcome("close", "v2.3", b)},
                            [day |-> 5, t |-> 1230], e, 0)>>
  \/ kind = "members" /\ \E row \in MemberRows, asof \in 4 .. 6, sound \in BOOLEAN :
       c = <<"members", [day |-> 5, mode |-> "close", rows |-> {MemberRow("v2.0"), MemberRow("v2.5"), row}],
             [asof |-> asof, sound |-> sound, next |-> 6], 5>>
  \/ kind = "local" /\ \E ready \in Readiness, n \in {"n1", "n2"}, s \in [day : {5}, t : {855, 880, 901}],
        b \in [day : {5, 6}, t : {890, 905}], e \in [day : {5}, t : {895, 902}], mode \in {"intraday", "replay"} :
       c = <<"local", [mode |-> mode, day |-> 5, anchor |-> 4, next |-> 6, ready |-> ready, begin |-> b, end |-> e,
                       rows |-> {LocalOutcome("v2.0", "n1", [day |-> 5, t |-> 880]),
                                 LocalOutcome("v2.3", "n1", [day |-> 5, t |-> 880]), LocalOutcome("v2.5", n, s)}]>>
=================================================================================
