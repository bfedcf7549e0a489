-------------------------------- MODULE EtfMarket --------------------------------
(* The market tables of the ETF digest: what is fetched, which quotes belong to   *)
(* the completed session, how a table is ranked, and when the build refuses.      *)
(*   scripts/etf_movers.py, scripts/daily_reports.py                              *)
EXTENDS UsMarket, Sequences, SequencesExt

-------------------------------------------------------------------------------
(* The universe of listed ETFs, read page by page.                               *)

\* One page. An attempt ends "ok", "busy" (transport, 408, 429, 5xx: tried again,
\* three times in all), "denied" (another 4xx) or "malformed".
Attempts == 3
PageRead(tries) ==   \* tries: what each attempt would meet
  LET decisive == SelectInSeq(tries, LAMBDA o : o # "busy")
  IN IF decisive = 0 \/ decisive > Attempts THEN "unavailable" ELSE tries[decisive]

\* fetch_universe of a market with the listed ETFs 0 .. n - 1. Pages are numbered from 0; the
\* first one read that is not "ok" ends the build, an empty page ends the list, and a last
\* page that came whole says that the list may go on.
PagesAsked(scan, size) == (scan + size - 1) \div size
PageRows(scan, size, p) == {i \in p * size .. (p + 1) * size - 1 : i < scan}
NoUniverse == {-1}
Universe(n, scan, size, reads) ==
  LET last  == PagesAsked(scan, size) - 1
      Rows(p) == PageRows(scan, size, p) \cap (0 .. n - 1)
      stops == {p \in 0 .. last : reads[p + 1] # "ok" \/ Rows(p) = {}}
      read  == IF stops = {} THEN 0 .. last ELSE 0 .. Min(stops) - 1
      full  == PageRows(scan, size, last) \subseteq 0 .. n - 1
  IN IF \/ stops # {} /\ reads[Min(stops) + 1] # "ok"
        \/ stops = {} /\ full
     THEN NoUniverse ELSE UNION {Rows(p) : p \in read}

-------------------------------------------------------------------------------
(* Ranking.                                                                      *)

Spy == 0   \* symbols are numbers in alphabetical order
\* An ETF: [sym, family, traded, assets, change, quote, liquid, plain].
Eligible(U) == {e \in U : e.plain /\ e.liquid}

Bigger(e, f) ==
  \/ e.traded > f.traded
  \/ e.traded = f.traded /\ e.assets > f.assets
  \/ e.traded = f.traded /\ e.assets = f.assets /\ e.sym > f.sym
Up == 1
Down == -1
Moves(S, sign) == {e \in S : e.change * sign > 0}

\* _rank: the direction first, then one ETF of each family, then the best by change.
Representatives(S) == {e \in S : ~\E f \in S : f.family = e.family /\ Bigger(f, e)}
Rank(S, sign, limit) ==
  LET r == Representatives(Moves(S, sign))
  IN {e \in r : Cardinality({f \in r : f.change * f.change > e.change * e.change}) < limit}

-------------------------------------------------------------------------------
(* The daily table and the strategy rows.                                        *)

DailyUnreferenced(U, session, asOf, spy) ==   \* mutant: any quote of the day
  {e \in Eligible(U) : e.quote # 0 /\ DayOf(e.quote) = session}
\* daily_rankings: quotes of the expected session, near its close and near SPY.
DailyAligned(U, session, asOf, spy) ==
  LET today == DayOf(asOf)
      done  == Weekday(today) >= 5 \/ asOf >= Closed(today) + CloseBuffer
      dated == {e \in Eligible(U) : /\ e.quote # 0
                                    /\ DayOf(e.quote) < today \/ (DayOf(e.quote) = today /\ done)}
      valid == /\ DayOf(spy) = session /\ spy <= asOf
               /\ spy >= Closed(session) - QuoteWindow /\ spy <= Closed(session) + QuoteWindow
  IN {e \in dated : /\ DayOf(e.quote) = session /\ valid
                    /\ e.quote >= spy - QuoteWindow /\ e.quote >= Closed(session) - QuoteWindow
                    /\ e.quote <= Closed(session) + QuoteWindow}

\* yahoo_quote_asset_changes: the close before must be known, a published close of the
\* session must agree with the quote.
StrategyRow(e, session, asOf, spy, closes) ==
  /\ Aligned(e.quote, session, asOf, spy)
  /\ PreviousSession(session) \in DOMAIN closes
  /\ session \in DOMAIN closes => closes[session] = "agrees"

\* The market part of _build_etf: skipped on Beijing Sundays and Mondays, refused when
\* something is missing, "rows" otherwise. SPY is the symbol Spy.
MarketPart(U, asOf, beijingDay, strategy, closes) ==
  LET session == LatestCompletedSession(asOf)
      spy == {e \in U : e.sym = Spy}
      ref == (CHOOSE e \in spy : TRUE).quote
  IN IF Weekday(beijingDay) \in {0, 6} THEN "skipped"
     ELSE IF spy = {} THEN "refused"
     ELSE IF ~Aligned(ref, session, asOf, 0) THEN "refused"
     ELSE IF \E s \in strategy : ~\E e \in U : /\ e.sym = s
                                               /\ StrategyRow(e, session, asOf, ref, closes[s])
     THEN "refused"
     ELSE IF Rank(DailyAligned(U, session, asOf, ref), Up, 10) = {} /\
             Rank(DailyAligned(U, session, asOf, ref), Down, 10) = {} THEN "refused"
     ELSE "rows"

-------------------------------------------------------------------------------
(* Changes of an index between two sessions, and the weekly and monthly tables.   *)

\* change_from_rows: rows are dates with a close; between the expected date and the
\* expected one before it, or nothing.
NewestTwo(dates) == {d \in dates : Cardinality({e \in dates : e > d}) < 2}
Change(dates, expected, previous) ==
  LET known == {d \in dates : d <= expected}
  IN IF NewestTwo(known) = {expected, previous} /\ previous # expected THEN NewestTwo(known) ELSE {}

\* Asia/Shanghai: the last two dates of the reference index that are complete.
ChinaClose == 15 * 60
ChinaBuffer == 15
ChinaExpected(reference, asOf) == NewestTwo(CompleteDates(reference, asOf, ChinaClose, ChinaBuffer))

\* period_rankings: the window ends at the newest completed session; a chart that
\* lacks its last bar is completed by an aligned quote, one that lacks another is out.
PeriodCharts(charts, expected, aligned, session) ==
  [s \in DOMAIN charts |->
     LET c == {d \in charts[s] : d <= session} IN
     IF c # {} /\ session \notin c /\ s \in aligned THEN c \cup {session} ELSE c]
Period(charts, expected, aligned, session, bars) ==   \* the symbols of the table
  LET full == PeriodCharts(charts, expected, aligned, session)
      required == {d \in expected : Cardinality({e \in expected : e > d}) <= bars}
      complete == {s \in DOMAIN full : session \in full[s] /\ required \subseteq full[s]}
  IN IF Cardinality(required) < bars + 1 THEN {}
     ELSE IF Cardinality(complete) * 100 >= Cardinality(DOMAIN charts) * 99 THEN complete ELSE {}
-------------------------------------------------------------------------------
(* Properties.                                                                   *)

\* A universe is every listed ETF or nothing: failed, malformed and last full pages
\* never pass for the end of the list, and an exhausted list below the limit is
\* accepted (_fetch_page, fetch_universe).
UniverseIsWhole(n, scan, size, tries) ==
  LET reads == [p \in DOMAIN tries |-> PageRead(tries[p])] IN
  /\ Universe(n, scan, size, reads) \in {NoUniverse, 0 .. n - 1}
  /\ n < scan /\ (\A p \in 1 .. PagesAsked(scan, size) : reads[p] = "ok")
       => Universe(n, scan, size, reads) = 0 .. n - 1

\* No table of one direction shows a family twice or an ETF that moved the other way,
\* an ETF stands for its family only if no larger one of that direction exists, and
\* whatever the limit leaves out moved no more than what it shows (_rank).
RankingIsFair(U, limit) ==
  \A sign \in {Up, Down} :
    LET S == Moves(U, sign)
        T == Rank(U, sign, limit)
        Left == {e \in S : \A f \in T : f.family # e.family}
    IN /\ T \subseteq S
       /\ \A e, f \in T : e.family = f.family => e = f
       /\ \A e \in T, f \in S : f.family = e.family => f.traded <= e.traded
       /\ \A e \in T, f \in Representatives(Left) : f.change * f.change <= e.change * e.change
       /\ Left # {} => Cardinality(T) >= limit

\* Tables that are shown are about one close: the session is over for half an hour, and
\* every row's quote was taken around that close, never earlier in the day, never at
\* the close of another day, also on early closes and across holidays.
TableIsOfOneClose(U, asOf, beijingDay, strategy, closes) ==
  MarketPart(U, asOf, beijingDay, strategy, closes) = "rows" =>
    LET session == LatestCompletedSession(asOf)
        rows == DailyAligned(U, session, asOf, (CHOOSE e \in U : e.sym = Spy).quote)
    IN /\ asOf >= Closed(session) + CloseBuffer /\ IsSession(session)
       /\ rows # {}
       /\ \A e \in rows : e.quote - Closed(session) \in -QuoteWindow .. QuoteWindow
       /\ \A s \in strategy : PreviousSession(session) \in DOMAIN closes[s]

\* The change shown for an index is the one between the two newest complete sessions of
\* its market, or none is shown (change_from_rows, latest_complete_market_sessions).
ChangeIsOfOneSession(dates, reference, asOf) ==
  LET e == ChinaExpected(reference, asOf) IN
  Cardinality(e) = 2 =>
    /\ Change(dates, Max(e), Min(e)) \in {{}, e}
    /\ (dates \cap (Min(e) .. Max(e)) = e) => Change(dates, Max(e), Min(e)) = e
    /\ DayOf(asOf) \in e => \/ Weekday(DayOf(asOf)) >= 5
                            \/ asOf >= DayOf(asOf) * 1440 + ChinaClose + ChinaBuffer

\* A weekly or monthly table compares all its ETFs over the same sessions, and is empty
\* rather than about a part of the market (period_rankings).
PeriodIsUniform(charts, expected, aligned, session, bars) ==
  LET t == Period(charts, expected, aligned, session, bars)
      required == {d \in expected : Cardinality({e \in expected : e > d}) <= bars}
  IN t # {} =>
       /\ Cardinality(required) = bars + 1
       /\ \A s \in t, d \in required : d \in charts[s] \/ (d = session /\ s \in aligned)
       /\ Cardinality(DOMAIN charts \ t) * 100 <= Cardinality(DOMAIN charts)
=================================================================================
