-------------------------------- MODULE UsMarket --------------------------------
(* The calendar of the US exchanges as the ETF report computes it, and the        *)
(* question which session has its closing prices at a moment.                     *)
(*   scripts/etf_movers.py, scripts/daily_reports.py                              *)
EXTENDS Integers, FiniteSets, FiniteSetsExt

-------------------------------------------------------------------------------
(* Dates are day numbers, 2000-01-01 is day 0 (datetime.date, external).         *)

Leap(y) == (y % 4 = 0 /\ y % 100 # 0) \/ y % 400 = 0
DaysBefore(y, m) ==   \* days of year y before month m
  <<0, 31, 59, 90, 120, 151, 181, 212, 243, 273, 304, 334>>[m] + (IF m > 2 /\ Leap(y) THEN 1 ELSE 0)
Day(y, m, d) ==
  (y - 2000) * 365 + ((y - 1997) \div 4) - ((y - 1901) \div 100) + ((y - 1601) \div 400)
    + DaysBefore(y, m) + d - 1
YearOf(n) == CHOOSE y \in (2000 + n \div 366) .. (2000 + n \div 365) :
                Day(y, 1, 1) <= n /\ n < Day(y + 1, 1, 1)
Weekday(n) == (n + 5) % 7   \* Monday is 0

-------------------------------------------------------------------------------
(* Holidays and early closes.                                                    *)

Observed(n) == CASE Weekday(n) = 5 -> n - 1 [] Weekday(n) = 6 -> n + 1 [] OTHER -> n

NthWeekday(y, m, weekday, occurrence) ==
  LET first == Day(y, m, 1) IN first + ((weekday - Weekday(first)) % 7) + 7 * (occurrence - 1)

LastWeekday(y, m, weekday) ==
  LET last == (IF m = 12 THEN Day(y + 1, 1, 1) ELSE Day(y, m + 1, 1)) - 1
  IN last - ((Weekday(last) - weekday) % 7)

EasterSunday(y) ==
  LET a == y % 19
      b == y \div 100
      c == y % 100
      d == b \div 4
      e == b % 4
      g == (b - (b + 8) \div 25 + 1) \div 3
      h == (19 * a + b - d - g + 15) % 30
      l == (32 + 2 * e + 2 * (c \div 4) - h - (c % 4)) % 7
      m == (a + 11 * h + 22 * l) \div 451
      s == h + l - 7 * m + 114
  IN Day(y, s \div 31, (s % 31) + 1)

Holidays(y) ==
  {h \in {Observed(Day(y, 1, 1)), NthWeekday(y, 1, 0, 3), NthWeekday(y, 2, 0, 3),
          EasterSunday(y) - 2, LastWeekday(y, 5, 0), Observed(Day(y, 6, 19)),
          Observed(Day(y, 7, 4)), NthWeekday(y, 9, 0, 1), NthWeekday(y, 11, 3, 4),
          Observed(Day(y, 12, 25)), Observed(Day(y + 1, 1, 1))} : YearOf(h) = y}

IsSession(n) == Weekday(n) < 5 /\ n \notin Holidays(YearOf(n))

SessionAtOrBefore[n \in Int] == IF IsSession(n) THEN n ELSE SessionAtOrBefore[n - 1]
PreviousSession(n) == SessionAtOrBefore[n - 1]

Thanksgiving(y) == NthWeekday(y, 11, 3, 4)
RegularClose == 16 * 60
EarlyClose == 13 * 60
CloseMinute(n) ==
  LET y == YearOf(n) IN
  IF \/ n = Thanksgiving(y) + 1
     \/ n = Day(y, 12, 24) /\ Weekday(n) < 5
     \/ n = Day(y, 7, 3) /\ Weekday(n) < 5 /\ Weekday(Day(y, 7, 4)) # 5
  THEN EarlyClose ELSE RegularClose

CloseBuffer == 30
QuoteWindow == 5

\* Moments are minutes of New York time since day 0.
DayOf(t) == t \div 1440
Closed(n) == n * 1440 + CloseMinute(n)

-------------------------------------------------------------------------------
(* Which session is complete.                                                    *)

LatestCompletedSession(asOf) ==
  LET today == DayOf(asOf) IN
  SessionAtOrBefore[IF IsSession(today) /\ asOf >= Closed(today) + CloseBuffer
                    THEN today ELSE today - 1]

\* latest_complete_market_sessions: the last dates a reference series shows, today
\* only after the close, on a weekend always.
CompleteDates(dates, asOf, closeMinute, buffer) ==
  LET today == DayOf(asOf)
      done == Weekday(today) >= 5 \/ asOf >= today * 1440 + closeMinute + buffer
  IN {d \in dates : d < today \/ (d = today /\ done)}

\* close_aligned_quote_change: the quote is of the session, was taken within five
\* minutes of its close, not long before the reference quote and not in the future.
Aligned(quote, session, asOf, reference) ==
  /\ quote # 0 /\ DayOf(quote) = session /\ quote <= asOf
  /\ quote >= Closed(session) - QuoteWindow
  /\ reference # 0 => quote >= reference - QuoteWindow
  /\ quote <= Closed(session) + QuoteWindow

-------------------------------------------------------------------------------
(* What the calendar promises.                                                   *)

\* Easter by the tables of Gauss, an independent computation.
GaussEaster(y) ==
  LET k == y \div 100
      m == (15 - (13 + 8 * k) \div 25 + k - k \div 4) % 30
      n == (4 + k - k \div 4) % 7
      d == (19 * (y % 19) + m) % 30
      e == (2 * (y % 4) + 4 * (y % 7) + 6 * d + n) % 7
  IN Day(y, 3, 22) + (IF d + e = 35 \/ (d = 28 /\ e = 6 /\ y % 19 > 10) THEN d + e - 7
                      ELSE d + e)

\* Good Friday hangs on the right Easter, holidays never fall on a weekend, and no
\* two of them come so close that a session is more than five days after the last.
CalendarSane(y) ==
  /\ EasterSunday(y) = GaussEaster(y)
  /\ \A h \in Holidays(y) : Weekday(h) < 5
  /\ Cardinality(Holidays(y)) \in 9 .. 11
  /\ \A n \in Day(y, 1, 1) .. Day(y, 12, 31) : n - PreviousSession(n) <= 5

\* The session named complete is the newest one whose closing prices exist.
LatestSessionIsTheNewestClosed(asOf) ==
  LET s == LatestCompletedSession(asOf) IN
  /\ IsSession(s) /\ asOf >= Closed(s) + CloseBuffer
  /\ \A n \in s + 1 .. DayOf(asOf) : ~(IsSession(n) /\ asOf >= Closed(n) + CloseBuffer)
=================================================================================
