---------------------------------- MODULE MCEtf ----------------------------------
(* Cases of the ETF digest for TLC: what the feeds list, ETF quotes and charts.   *)
EXTENDS EtfMarket, EtfDigest, TLC

Article(n, u, t, kind, source, pub, listed) ==
  [url |-> u, title |-> t, kind |-> kind, source |-> source, pub |-> pub, listed |-> listed,
   topic |-> TRUE, proof |-> TRUE, clear |-> TRUE, hot |-> n]
Plain(n, kind, source, pub, listed) == Article(n, n, n, kind, source, pub, listed)

Research1 == Plain(1, "research", "s1", 1, 1)
Ahead2    == Article(2, 2, 1, "research", "s2", 3, 2)   \* title of 1, dated ahead
Research3 == Plain(3, "research", "s1", 1, 2)
Research4 == Plain(4, "research", "s1", 2, 2)
Unproved5 == [Plain(5, "research", "s1", 2, 2) EXCEPT !.proof = FALSE]
Feed3     == Article(6, 3, 3, "feed", "s1", 1, 2)       \* another capture of 3
Feed7     == Plain(7, "feed", "f1", 2, 2)
Page7     == Article(8, 8, 7, "page", "p1", 2, 2)       \* title of 7, own link
Page9     == Plain(9, "page", "p1", 1, 1)
Undated11 == Plain(11, "forum", "b", 0, 1)
Thread7   == Article(12, 7, 7, "forum", "b", 2, 2)      \* links to 7
Reddit13  == Plain(13, "reddit", "r", 1, 1)
Reddit14  == Plain(14, "reddit", "r", 2, 2)
Unread15  == [Plain(10, "forum", "b", 2, 2) EXCEPT !.proof = FALSE]
Missed1   == Article(15, 1, 1, "missed", "q", 1, 2)

EtfWorlds ==
  {{Research1, Ahead2, Research3, Unproved5}, {Research3, Research4, Feed3, Page9},
   {Research1, Missed1, Ahead2, Research4}, {Feed7, Page7, Page9, Reddit13},
   {Feed7, Thread7, Reddit13, Reddit14, Undated11}, {Undated11, Reddit13, Reddit14, Unread15, Research1},
   {Feed7, Page9, Research3, Feed3, Undated11}, {Research1, Research3, Research4, Page9}}
ThreadWorlds == {{Undated11, Reddit13, Research1}}

-------------------------------------------------------------------------------
(* The week of Thanksgiving 2026; the Friday closes early.                       *)
Mon == Day(2026, 11, 23)
Wed == Day(2026, 11, 25)
Fri == Day(2026, 11, 27)
At(day, minute) == day * 1440 + minute
Moments == {At(Fri, m) : m \in {600, 780, 809, 810, 990, 1200}}
           \cup {At(Fri + 1, 60), At(Wed, 989), At(Wed, 990), At(Wed + 1, 1000)}
Quotes == {0} \cup {At(Wed, m) : m \in {954, 960}} \cup {At(Fri, m) : m \in {774, 775, 780, 785, 960}}
Etf(sym, family, traded, change, quote) ==
  [sym |-> sym, family |-> family, traded |-> traded, assets |-> 1, change |-> change,
   quote |-> quote, liquid |-> TRUE, plain |-> TRUE]
Charts == {(Wed :> "agrees" @@ Mon + 1 :> "agrees"),
           (Wed :> "agrees" @@ Fri :> "differs" @@ Mon + 1 :> "agrees"), (Mon :> "agrees")}
Answers == {<<"ok">>, <<"busy", "ok">>, <<"busy", "busy", "busy", "ok">>, <<"denied", "ok">>, <<"malformed">>}
Traded == (1 .. 2) \X (-2 .. 2)

\* Days whose calendar the last day of the year, a weekend holiday or leap years move.
CalendarDays == (Day(2021, 12, 20) .. Day(2022, 1, 10)) \cup (Day(2026, 1, 1) .. Day(2027, 1, 4))

MarketCases(kind, c) ==
  \/ kind = "year" /\ \E y \in 2000 .. 2099 : c = <<"year", y>>
  \/ kind = "moment" /\ \E n \in CalendarDays, m \in {0, 780, 810, 811, 960, 989, 990} : c = <<"moment", At(n, m)>>
  \/ kind = "pages" /\ \E n \in 0 .. 7, told \in 4 .. 6, size \in {2, 3}, a \in [1 .. 3 -> Answers] :
       c = <<"pages", n, told, size, a>>
  \/ kind = "ranking" /\ \E x, y, z \in Traded, limit \in 1 .. 2 :
       c = <<"ranking", {Etf(1, "x", x[1], x[2], 0), Etf(2, "x", y[1], y[2], 0),
                         Etf(3, "y", z[1], z[2], 0)}, limit>>
  \/ kind = "table" /\ \E q1, q2 \in Quotes, q3 \in {0, At(Fri, 780), At(Wed, 960)}, t \in Moments,
        d \in {Fri, Fri + 2}, chart \in Charts :
       c = <<"table", {Etf(0, "x", 1, 1, q1), Etf(1, "z", 2, 0, q3), Etf(2, "x", 2, -1, q2)},
             t, d, {1}, [s \in {1} |-> chart]>>
  \/ kind = "change" /\ \E a \in SUBSET (Wed .. Fri + 1), b \in SUBSET (Wed .. Fri),
        t \in {At(Fri, 600), At(Fri, 914), At(Fri, 915), At(Fri + 1, 0)} : c = <<"change", a, b, t>>
  \/ kind = "period" /\ \E a, b \in SUBSET (1 .. 4), e \in {1 .. 4, {2, 4}, {1, 3, 4}}, ok \in SUBSET {"A", "B"}, k \in 1 .. 2 :
       c = <<"period", [s \in {"A", "B"} |-> IF s = "A" THEN a ELSE b], e, ok, 4, k>>
=================================================================================
