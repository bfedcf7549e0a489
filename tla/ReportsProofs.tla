------------------------------ MODULE ReportsProofs ------------------------------
(* Proofs of what the reports promise: repetitions in the ETF digest, recovery of *)
(* the market state, the weekly monitor of momentum boundaries, AI HOT and MNT.   *)
(* Each part has its invariant; the composition of MCReports has them all.        *)
EXTENDS MCReports, TLAPS, SequenceTheorems, FiniteSetTheorems, WellFoundedInduction

-------------------------------------------------------------------------------
(* Numbers.                                                                      *)

\* A non-empty set of numbers has a least element.
LEMMA LeastOf ==
  ASSUME NEW T \in SUBSET Nat, T # {}
  PROVE  \E m \in T : \A k \in T : m <= k
<1>1. PICK m \in T : \A k \in T : ~(<<k, m>> \in OpToRel(<, Nat))
  BY NatLessThanWellFounded, WFMin
<1>2. ASSUME NEW k \in T PROVE m <= k
  <2>1. k \in Nat /\ m \in Nat
    OBVIOUS
  <2>2. ~(k < m)
    <3>1. <<k, m>> \in OpToRel(<, Nat) <=> k < m
      BY <2>1 DEF OpToRel
    <3>2. QED BY <1>1, <3>1
  <2>3. QED BY <2>1, <2>2
<1>3. QED BY <1>2

\* A non-empty set of integers up to n has a largest element, and Max is it.
LEMMA MaxIs ==
  ASSUME NEW S \in SUBSET Int, S # {}, NEW n \in Int, \A x \in S : x <= n
  PROVE  Max(S) \in S /\ \A x \in S : x <= Max(S)
<1> DEFINE T == {n - x : x \in S}
<1>1. T \in SUBSET Nat /\ T # {}
  OBVIOUS
<1> HIDE DEF T
<1>2. PICK m \in T : \A k \in T : m <= k
  BY <1>1, LeastOf
<1>3. PICK x \in S : m = n - x
  BY DEF T
<1>4. \A y \in S : x >= y
  <2> TAKE y \in S
  <2>1. n - y \in T
    BY DEF T
  <2>2. n - x <= n - y
    BY <1>2, <1>3, <2>1
  <2>3. QED BY <2>2
<1>5. Max(S) \in S /\ \A y \in S : Max(S) >= y
  BY <1>3, <1>4, Zenon DEF Max
<1>6. \A y \in S : y <= Max(S)
  BY <1>5
<1>7. QED BY <1>5, <1>6

-------------------------------------------------------------------------------
(* Repetitions in the ETF digest.                                                *)

\* Nothing in the history says that x was mailed within the dedupe window.
Fresh(x, sent) == \A h \in sent : h.day >= today - Dedupe => h.url # x.url /\ h.title # x.title

\* Whatever part of a digest an article stands in, it went through the history.
LEMMA ChosenAreFresh ==
  ASSUME NEW taken, NEW sent, NEW x \in Rendered(taken, sent)
  PROVE  Fresh(x, sent)
<1>1. ASSUME NEW S, NEW y \in Unsent(S, sent) PROVE Fresh(y, sent)
  BY <1>1 DEF Unsent, Fresh
<1>2. ASSUME NEW y \in Missed(taken, sent) PROVE Fresh(y, sent)
  BY <1>1, <1>2, Zenon DEF Missed, OnePerUrl
<1>3. ASSUME NEW y \in Research(taken, sent) PROVE Fresh(y, sent)
  BY <1>1, <1>3, Zenon DEF Research
<1>4. ASSUME NEW kind, NEW y \in FixedOf(kind, taken, sent) PROVE Fresh(y, sent)
  BY <1>1, <1>4, Zenon DEF FixedOf, OnePerTitle
<1>5. ASSUME NEW y \in Updates(taken, sent) PROVE Fresh(y, sent)
  BY <1>4, <1>5, Zenon DEF Updates, OnePerUrl
<1>6. ASSUME NEW y \in ForumMix(taken, sent) PROVE Fresh(y, sent)
  <2> DEFINE fresh == Unsent({z \in OfKind(taken, Forum) : z.pub <= today}, sent)
  <2>1. ForumPicked(fresh) \subseteq fresh
    BY Zenon DEF ForumPicked, Hottest, OnePerTitle
  <2>2. \A S, k : Hottest(S, k) \subseteq S
    BY DEF Hottest
  <2>3. y \in fresh
    BY <1>6, <2>1, <2>2, Zenon DEF ForumMix
  <2>4. QED BY <1>1, <2>3
<1>7. x \in Chosen(taken, sent)
  BY Zenon DEF Rendered
<1>8. QED BY <1>2, <1>3, <1>5, <1>6, <1>7 DEF Chosen

\* A mail repeats one from before its window.
HasCause(m) == \E k \in mails : k.at < m.at /\ Common(k, m) /\ m.day - k.day > Dedupe
\* As long as the history reaches back to a pushed mail, it knows the articles of the mail
\* by its day, or by an older one it already had.
Remembered(m) ==
  \A x \in m.items :
    \/ HasCause(m) \/ today - m.day > History
    \/ \E h \in history : h.day = m.day /\ h.url = x.url /\ h.title = x.title

RepeatsInv ==
  /\ today \in Nat /\ last.at \in Nat
  /\ \A m \in mails : m.day \in 0 .. today /\ m.at \in 0 .. last.at
  /\ HistoryWasMailed
  /\ RepeatsHaveACause
  /\ \A m \in mails : m.pushed => Remembered(m)

LEMMA RepeatsStart == EtfInit => RepeatsInv
BY DEF EtfInit, RepeatsInv, NoBuild, HistoryWasMailed, RepeatsHaveACause

LEMMA DayKeeps == RepeatsInv /\ NextDay => RepeatsInv'
<1> SUFFICES ASSUME RepeatsInv, NextDay PROVE RepeatsInv'
  OBVIOUS
<1>1. /\ today' = today + 1 /\ last'.at = last.at /\ UNCHANGED <<world, history, mails>>
      /\ today \in Nat
  BY DEF NextDay, RepeatsInv, NoBuild
<1>2. HistoryWasMailed' /\ RepeatsHaveACause'
  BY <1>1 DEF RepeatsInv, HistoryWasMailed, RepeatsHaveACause, Repeats, Common
<1>3. ASSUME NEW m \in mails, m.pushed PROVE Remembered(m)'
  <2>1. Remembered(m) /\ m.day \in Nat
    BY <1>3 DEF RepeatsInv
  <2>2. today - m.day > History => today' - m.day > History
    BY <1>1, <2>1, EtfWindows
  <2>3. HasCause(m) => HasCause(m)'
    BY <1>1 DEF HasCause, Common
  <2>4. QED BY <1>1, <2>1, <2>2, <2>3 DEF Remembered
<1>4. QED BY <1>1, <1>2, <1>3 DEF RepeatsInv

\* A build that mails: n is the mail.
LEMMA MailKeeps ==
  ASSUME RepeatsInv, NEW n, n.day = today, n.at = last.at + 1, last'.at = last.at + 1,
         mails' = mails \cup {n}, today' = today,
         \A x \in n.items : Fresh(x, history),
         history' = IF n.pushed THEN HistoryWith(n.items) ELSE history
  PROVE  RepeatsInv'
<1>1. today \in Nat /\ last.at \in Nat /\ n.at \in Nat
  BY DEF RepeatsInv
<1>2. ASSUME NEW m \in mails PROVE m.day \in Nat /\ m.at \in Nat /\ m.day <= today /\ m.at < n.at
  BY <1>1 DEF RepeatsInv
<1>3. \A m : HasCause(m) => HasCause(m)'
  BY DEF HasCause, Common
<1>4. \A h \in history' :
        \/ h \in history
        \/ h.day = today /\ \E x \in n.items : h.url = x.url /\ h.title = x.title
  BY DEF HistoryWith
<1>5. \A h \in history : h.day >= today - History => h \in history'
  BY DEF HistoryWith
<1>6. HistoryWasMailed'
  <2>1. \A h \in history : \E m \in mails' : m.day = h.day /\ \E x \in m.items : x.url = h.url /\ x.title = h.title
    BY DEF RepeatsInv, HistoryWasMailed
  <2>2. \A h : h.day = today /\ (\E x \in n.items : h.url = x.url /\ h.title = x.title) =>
           \E m \in mails' : m.day = h.day /\ \E x \in m.items : x.url = h.url /\ x.title = h.title
    OBVIOUS
  <2>3. QED BY <1>4, <2>1, <2>2 DEF HistoryWasMailed
\* An article of the new mail that an old entry of the history has by the same title and link.
<1>7. ASSUME NEW x \in n.items, NEW h \in history, h.url = x.url, h.title = x.title
      PROVE  HasCause(n)'
  <2>1. PICK k \in mails : k.day = h.day /\ \E y \in k.items : y.url = h.url /\ y.title = h.title
    BY DEF RepeatsInv, HistoryWasMailed
  <2>2. ~(h.day >= today - Dedupe)
    BY <1>7 DEF Fresh
  <2>3. n.day - k.day > Dedupe /\ k.at < n.at
    BY <1>1, <1>2, <2>1, <2>2, EtfWindows
  <2>4. Common(k, n)
    BY <1>7, <2>1 DEF Common
  <2>5. k \in mails'
    BY <2>1
  <2>6. QED BY <2>3, <2>4, <2>5 DEF HasCause, Common
<1>8. n.pushed => Remembered(n)'
  <2> SUFFICES ASSUME n.pushed, NEW x \in n.items
               PROVE  HasCause(n)' \/ \E h \in history' : h.day = n.day /\ h.url = x.url /\ h.title = x.title
    BY DEF Remembered
  <2> DEFINE kept == {h \in history : h.day >= today - History}
  <2>1. CASE \E h \in kept : h.url = x.url /\ h.title = x.title
    BY <1>7, <2>1
  <2>2. CASE ~\E h \in kept : h.url = x.url /\ h.title = x.title
    <3>1. [day |-> today, url |-> x.url, title |-> x.title] \in history'
      BY <2>2 DEF HistoryWith
    <3>2. QED BY <3>1
  <2>3. QED BY <2>1, <2>2
<1>9. ASSUME NEW m \in mails, m.pushed PROVE Remembered(m)'
  <2>1. Remembered(m)
    BY <1>9 DEF RepeatsInv
  <2>2. ASSUME NEW x \in m.items
        PROVE  \/ HasCause(m)' \/ today' - m.day > History
               \/ \E h \in history' : h.day = m.day /\ h.url = x.url /\ h.title = x.title
    <3>1. CASE HasCause(m) \/ today - m.day > History
      BY <1>3, <3>1
    <3>2. CASE ~(today - m.day > History) /\ \E h \in history : h.day = m.day /\ h.url = x.url /\ h.title = x.title
      <4>1. PICK h \in history : h.day = m.day /\ h.url = x.url /\ h.title = x.title
        BY <3>2
      <4>2. h.day >= today - History
        BY <1>1, <1>2, <3>2, <4>1, EtfWindows
      <4>3. QED BY <1>5, <4>1, <4>2
    <3>3. QED BY <2>1, <3>1, <3>2 DEF Remembered
  <2>3. QED BY <2>2 DEF Remembered
<1>10. RepeatsHaveACause'
  <2>1. ASSUME NEW m \in mails', NEW o \in mails', Repeats(m, o) PROVE HasCause(m)'
    <3>1. m \in mails
      <4>1. ~(n.at < n.at) /\ \A k \in mails : ~(n.at < k.at)
        BY <1>1, <1>2
      <4>2. QED BY <2>1, <4>1 DEF Repeats
    <3>2. CASE o \in mails
      BY <1>3, <2>1, <3>1, <3>2 DEF RepeatsInv, RepeatsHaveACause, HasCause
    <3>3. CASE o = n
      <4>1. PICK x \in m.items, y \in n.items : x.url = y.url \/ x.title = y.title
        BY <2>1, <3>3 DEF Repeats, Common
      <4>2. m.pushed /\ n.day - m.day <= Dedupe
        BY <2>1, <3>3 DEF Repeats
      <4>3. Remembered(m)
        BY <3>1, <4>2 DEF RepeatsInv
      <4>4. ~(today - m.day > History) /\ m.day >= today - Dedupe
        BY <1>1, <1>2, <3>1, <4>2, EtfWindows
      <4>5. ASSUME NEW h \in history, h.day = m.day, h.url = x.url, h.title = x.title PROVE FALSE
        <5>1. Fresh(y, history)
          OBVIOUS
        <5>2. QED BY <4>1, <4>4, <4>5, <5>1 DEF Fresh
      <4>6. HasCause(m)
        BY <4>3, <4>4, <4>5 DEF Remembered
      <4>7. QED BY <1>3, <4>6
    <3>4. QED BY <3>2, <3>3
  <2>2. QED BY <2>1 DEF RepeatsHaveACause, Repeats, Common, HasCause
<1>11. \A m \in mails' : m.day \in 0 .. today' /\ m.at \in 0 .. last'.at
  BY <1>1, <1>2
<1>12. QED BY <1>1, <1>6, <1>8, <1>9, <1>10, <1>11 DEF RepeatsInv

LEMMA BuildKeeps == RepeatsInv /\ Build => RepeatsInv'
<1> SUFFICES ASSUME RepeatsInv, Build PROVE RepeatsInv'
  OBVIOUS
<1>1. PICK push \in BOOLEAN : \E taken, result, items :
        /\ items = Rendered(taken, history)
        /\ last' = [result |-> result, taken |-> taken, sent |-> history, items |-> items, at |-> last.at + 1]
        /\ mails' = IF result = "sent"
                    THEN mails \cup {[day |-> today, at |-> last.at + 1, pushed |-> push, items |-> items]}
                    ELSE mails
        /\ history' = IF push THEN Kept(result, items) ELSE history
        /\ today' = today
  <2>1. PICK down \in Outages, push \in BOOLEAN :
          LET taken == Listing(down) IN
          /\ \E result \in {Result(taken, history)} \cup Refusals, items \in {Rendered(taken, history)} :
             /\ last' = [result |-> result, taken |-> taken, sent |-> history, items |-> items, at |-> last.at + 1]
             /\ mails' = IF result = "sent"
                         THEN mails \cup {[day |-> today, at |-> last.at + 1, pushed |-> push, items |-> items]}
                         ELSE mails
             /\ history' = IF push THEN Kept(result, items) ELSE history
          /\ UNCHANGED <<today, world>>
    BY Zenon DEF Build
  <2>2. QED BY <2>1
<1>0. PICK taken, result, items :
        /\ items = Rendered(taken, history)
        /\ last' = [result |-> result, taken |-> taken, sent |-> history, items |-> items, at |-> last.at + 1]
        /\ mails' = IF result = "sent"
                    THEN mails \cup {[day |-> today, at |-> last.at + 1, pushed |-> push, items |-> items]}
                    ELSE mails
        /\ history' = IF push THEN Kept(result, items) ELSE history
        /\ today' = today
  BY <1>1
<1>2. last'.at = last.at + 1 /\ today \in Nat /\ last.at \in Nat
  BY <1>0 DEF RepeatsInv
<1>3. CASE result = "sent"
  <2>1. PICK n : n = [day |-> today, at |-> last.at + 1, pushed |-> push, items |-> items]
    OBVIOUS
  <2>2. n.day = today /\ n.at = last.at + 1 /\ n.pushed = push /\ n.items = items
    BY <2>1
  <2>3. \A x \in n.items : Fresh(x, history)
    BY <1>0, <2>2, ChosenAreFresh
  <2>4. mails' = mails \cup {n} /\ history' = IF n.pushed THEN HistoryWith(n.items) ELSE history
    BY <1>0, <1>3, <2>1, <2>2 DEF Kept
  <2>5. QED BY <1>0, <1>2, <2>2, <2>3, <2>4, MailKeeps
<1>4. CASE result # "sent"
  <2>1. UNCHANGED <<mails, history, today>>
    BY <1>0, <1>4 DEF Kept
  <2>2. HistoryWasMailed' /\ RepeatsHaveACause' /\ \A m \in mails' : m.pushed => Remembered(m)'
    BY <2>1 DEF RepeatsInv, HistoryWasMailed, RepeatsHaveACause, Repeats, Common, Remembered, HasCause
  <2>3. \A m \in mails' : m.day \in 0 .. today' /\ m.at \in 0 .. last'.at
    BY <1>2, <2>1 DEF RepeatsInv
  <2>4. QED BY <1>2, <2>1, <2>2, <2>3 DEF RepeatsInv
<1>5. QED BY <1>3, <1>4

LEMMA EtfMoves == RepeatsInv /\ [EtfNext]_vars => RepeatsInv'
<1>1. RepeatsInv /\ UNCHANGED vars => RepeatsInv'
  BY DEF vars, RepeatsInv, HistoryWasMailed, RepeatsHaveACause, Repeats, Common, Remembered, HasCause
<1>2. QED BY <1>1, DayKeeps, BuildKeeps DEF EtfNext

-------------------------------------------------------------------------------
(* What a digest leaves out, and what the later audit says of it.                *)

\* What the feeds list is finite, of known kinds, and dated or not.
Listed(taken) ==
  /\ IsFiniteSet(taken)
  /\ \A x \in taken : x.kind \in SourceKinds /\ x.pub \in Nat /\ x.hot \in Nat

\* The parts of a digest, with the window each article was taken for.
LEMMA PartsOfADigest ==
  ASSUME NEW taken, NEW sent, Listed(taken), today \in Nat
  PROVE  /\ \A x \in Research(taken, sent) :
              /\ x \in taken /\ x.kind = "research" /\ x.pub # 0
              /\ today - Backfill <= x.pub /\ x.pub <= today
         /\ \A x \in Updates(taken, sent) :
              /\ x \in taken /\ x.kind \in Fixed /\ x.pub # 0
              /\ today - Window <= x.pub /\ x.pub <= today
         /\ \A x \in ForumMix(taken, sent) : x \in taken /\ x.kind \in Forum /\ x.pub <= today
         /\ \A x \in Missed(taken, sent) : x \in taken /\ x.kind = "missed" /\ x.pub # 0 /\ x.pub <= today
<1>1. ASSUME NEW x \in Research(taken, sent)
      PROVE  x \in taken /\ x.kind = "research" /\ x.pub # 0
             /\ today - Backfill <= x.pub /\ x.pub <= today
  <2>1. \E S : \E age \in {Window, Backfill} : x \in Unsent(Recent(OnePerTitle(S), age), sent) /\ S \subseteq OfKind(taken, {"research"})
    <3> DEFINE S == {z \in {y \in OfKind(taken, {"research"}) : y.url \notin Urls(Missed(taken, sent))} : z.topic}
    <3>1. \E age \in {Window, Backfill} : x \in Unsent(Recent(OnePerTitle(S), age), sent)
      BY <1>1, Zenon DEF Research
    <3>2. S \subseteq OfKind(taken, {"research"})
      OBVIOUS
    <3> HIDE DEF S
    <3>3. PICK age \in {Window, Backfill} : x \in Unsent(Recent(OnePerTitle(S), age), sent)
      BY <3>1
    <3>4. QED BY <3>3, <3>2
  <2>2. PICK age \in {Window, Backfill} : x.pub # 0 /\ today - age <= x.pub /\ x.pub <= today /\ x \in OfKind(taken, {"research"})
    BY <2>1 DEF Unsent, Recent, OnePerTitle
  <2>3. x \in taken /\ x.kind = "research"
    BY <2>2 DEF OfKind
  <2>4. x.pub \in Nat
    BY <2>3 DEF Listed
  <2>5. QED BY <2>2, <2>3, <2>4, EtfWindows
<1>2. ASSUME NEW kind, NEW x \in FixedOf(kind, taken, sent)
      PROVE  x \in taken /\ x.kind = kind /\ x.pub # 0 /\ today - Window <= x.pub /\ x.pub <= today
  <2>1. x \in Recent(UNION {OnePerTitle({z \in OfKind(taken, {kind}) : z.source = y.source}) : y \in OfKind(taken, {kind})}, Window)
    BY <1>2, Zenon DEF FixedOf, Unsent, OnePerTitle
  <2>2. /\ x.pub # 0 /\ today - Window <= x.pub /\ x.pub <= today
        /\ x \in UNION {OnePerTitle({z \in OfKind(taken, {kind}) : z.source = y.source}) : y \in OfKind(taken, {kind})}
    BY <2>1, Zenon DEF Recent
  <2>3. x \in OfKind(taken, {kind})
    BY <2>2 DEF OnePerTitle
  <2>4. QED BY <2>2, <2>3 DEF OfKind
<1>3. ASSUME NEW x \in Updates(taken, sent)
      PROVE  x \in taken /\ x.kind \in Fixed /\ x.pub # 0 /\ today - Window <= x.pub /\ x.pub <= today
  <2>1. x \in FixedOf("feed", taken, sent) \/ x \in FixedOf("page", taken, sent)
    BY <1>3, Zenon DEF Updates, OnePerUrl
  <2>2. QED BY <1>2, <2>1 DEF Fixed
<1>4. ASSUME NEW x \in ForumMix(taken, sent) PROVE x \in taken /\ x.kind \in Forum /\ x.pub <= today
  <2> DEFINE fresh == Unsent({z \in OfKind(taken, Forum) : z.pub <= today}, sent)
  <2>1. ForumPicked(fresh) \subseteq fresh
    BY Zenon DEF ForumPicked, Hottest, OnePerTitle
  <2>2. \A S, k : Hottest(S, k) \subseteq S
    BY DEF Hottest
  <2>3. x \in fresh
    BY <1>4, <2>1, <2>2, Zenon DEF ForumMix
  <2>4. QED BY <2>3 DEF Unsent, OfKind
<1>5. ASSUME NEW x \in Missed(taken, sent) PROVE x \in taken /\ x.kind = "missed" /\ x.pub # 0 /\ x.pub <= today
  BY <1>5 DEF Missed, OnePerUrl, Unsent, OfKind
<1>6. QED BY <1>1, <1>3, <1>4, <1>5

LEMMA ChosenFacts ==
  ASSUME NEW taken, NEW sent, Listed(taken), today \in Nat
  PROVE  /\ \A x \in Chosen(taken, sent) :
              /\ x \in taken /\ x.kind \in SourceKinds /\ x.pub \in Nat /\ x.hot \in Nat /\ x.pub <= today
              /\ x.kind \notin Forum => x.pub # 0
              /\ x.kind \in Fixed => x \in Updates(taken, sent) /\ today - Window <= x.pub
              /\ x.kind = "research" => today - Backfill <= x.pub
         /\ Displayed(taken, sent) \subseteq Chosen(taken, sent)
         /\ Rendered(taken, sent) \subseteq Chosen(taken, sent)
         /\ Urls(Rendered(taken, sent)) \subseteq Urls(Displayed(taken, sent))
<1>1. ASSUME NEW x \in Chosen(taken, sent)
      PROVE  /\ x \in taken /\ x.kind \in SourceKinds /\ x.pub \in Nat /\ x.hot \in Nat /\ x.pub <= today
             /\ x.kind \notin Forum => x.pub # 0
             /\ x.kind \in Fixed => x \in Updates(taken, sent) /\ today - Window <= x.pub
             /\ x.kind = "research" => today - Backfill <= x.pub
  <2>1. \/ x \in Research(taken, sent) \/ x \in Updates(taken, sent)
        \/ x \in ForumMix(taken, sent) \/ x \in Missed(taken, sent)
    BY <1>1 DEF Chosen
  <2>2. x \in taken => x.kind \in SourceKinds /\ x.pub \in Nat /\ x.hot \in Nat
    BY DEF Listed
  <2>3. QED BY <2>1, <2>2, PartsOfADigest DEF Fixed, Forum
<1>2. Displayed(taken, sent) \subseteq Chosen(taken, sent)
  BY Zenon DEF Displayed, ShownUpdates, Chosen
<1>3. \A x \in Rendered(taken, sent) : x \in Chosen(taken, sent) /\ x.url \in Urls(Displayed(taken, sent))
  BY Zenon DEF Rendered
<1>4. QED BY <1>1, <1>2, <1>3 DEF Urls

\* The parts of a digest depend on the day and on nothing else that changes.
LEMMA PartsOfTheDay ==
  ASSUME NEW taken, NEW sent, today' = today
  PROVE  /\ Displayed(taken, sent)' = Displayed(taken, sent)
         /\ Rendered(taken, sent)' = Rendered(taken, sent)
         /\ RenderComplete(taken, sent)' = RenderComplete(taken, sent)
         /\ Validates(taken, sent)' = Validates(taken, sent)
<1>1. Missed(taken, sent)' = Missed(taken, sent)
  BY DEF Missed, Unsent
<1>2. Research(taken, sent)' = Research(taken, sent)
  BY <1>1 DEF Research, Unsent, Recent
<1>3. \A kind : FixedOf(kind, taken, sent)' = FixedOf(kind, taken, sent)
  BY DEF FixedOf, Unsent, Recent
<1>4. Updates(taken, sent)' = Updates(taken, sent)
  BY <1>1, <1>2, <1>3 DEF Updates
<1>5. ForumMix(taken, sent)' = ForumMix(taken, sent)
  BY DEF ForumMix, Unsent
<1>6. Chosen(taken, sent)' = Chosen(taken, sent)
  BY <1>1, <1>2, <1>4, <1>5 DEF Chosen
<1>7. Displayed(taken, sent)' = Displayed(taken, sent)
  BY <1>4, <1>6 DEF Displayed
<1>8. Rendered(taken, sent)' = Rendered(taken, sent)
  BY <1>6, <1>7 DEF Rendered
<1>9. QED BY <1>6, <1>7, <1>8 DEF RenderComplete, Validates

\* What the last build left: a digest that went out passed its render check and validation.
LastBuild ==
  /\ world \in Worlds /\ last.taken \subseteq world
  /\ last.result = "sent" => /\ last.items = Rendered(last.taken, last.sent)
                             /\ RenderComplete(last.taken, last.sent) /\ Validates(last.taken, last.sent)
  /\ last.result \in {"incomplete", "invalid"} =>
       ~(RenderComplete(last.taken, last.sent) /\ Validates(last.taken, last.sent))

LEMMA WorldIsListed ==
  ASSUME world \in Worlds, NEW S, S \subseteq world
  PROVE  Listed(S)
BY ArticlesOfKinds, FS_Subset DEF Listed, SourceKinds

LEMMA LastStarts == EtfInit => LastBuild
BY DEF EtfInit, LastBuild, NoBuild

LEMMA LastMoves == LastBuild /\ [EtfNext]_vars => LastBuild'
<1> SUFFICES ASSUME LastBuild, [EtfNext]_vars PROVE LastBuild'
  OBVIOUS
<1>1. CASE NextDay
  BY <1>1 DEF NextDay, LastBuild, NoBuild
<1>2. CASE UNCHANGED vars
  <2>1. UNCHANGED <<today, world, last>>
    BY <1>2 DEF vars
  <2>2. PICK taken, sent : taken = last.taken /\ sent = last.sent
    OBVIOUS
  <2>3. /\ Rendered(taken, sent)' = Rendered(taken, sent)
        /\ RenderComplete(taken, sent)' = RenderComplete(taken, sent)
        /\ Validates(taken, sent)' = Validates(taken, sent)
    BY <2>1, PartsOfTheDay
  <2>4. QED BY <2>1, <2>2, <2>3 DEF LastBuild
<1>3. CASE Build
  <2>1. PICK down \in Outages, push \in BOOLEAN :
          LET taken == Listing(down) IN
          /\ \E result \in {Result(taken, history)} \cup Refusals, items \in {Rendered(taken, history)} :
             last' = [result |-> result, taken |-> taken, sent |-> history, items |-> items, at |-> last.at + 1]
          /\ UNCHANGED <<today, world>>
    BY <1>3, Zenon DEF Build
  <2>2. PICK taken, sent : taken = Listing(down) /\ sent = history
    OBVIOUS
  <2>3. PICK result \in {Result(taken, sent)} \cup Refusals, items \in {Rendered(taken, sent)} :
          last' = [result |-> result, taken |-> taken, sent |-> sent, items |-> items, at |-> last.at + 1]
    BY <2>1, <2>2
  <2>4. UNCHANGED <<today, world>>
    BY <2>1
  <2>5. taken \subseteq world
    BY <2>2 DEF Listing
  <2>6. /\ Rendered(taken, sent)' = Rendered(taken, sent)
        /\ RenderComplete(taken, sent)' = RenderComplete(taken, sent)
        /\ Validates(taken, sent)' = Validates(taken, sent)
    BY <2>4, PartsOfTheDay
  <2>7. /\ result = "sent" => RenderComplete(taken, sent) /\ Validates(taken, sent)
        /\ result \in {"incomplete", "invalid"} => ~(RenderComplete(taken, sent) /\ Validates(taken, sent))
    BY <2>3 DEF Result, Refusals
  <2>8. QED BY <2>3, <2>4, <2>5, <2>6, <2>7 DEF LastBuild
<1>4. QED BY <1>1, <1>2, <1>3 DEF EtfNext

-------------------------------------------------------------------------------
(* Counting and choosing among articles.                                         *)

\* Of finitely many articles one is not older than any other.
LEMMA NewestExists ==
  ASSUME NEW S, Listed(S), NEW x \in S
  PROVE  \E y \in S : \A z \in S : ~Newer(z, y)
<1> DEFINE Above(y) == {z \in S : Newer(z, y)}
           Counts == {Cardinality(Above(y)) : y \in S}
<1>1. ASSUME NEW y \in S PROVE IsFiniteSet(Above(y)) /\ Cardinality(Above(y)) \in Nat
  BY FS_Subset, FS_CardinalityType DEF Listed
<1>2. Counts \in SUBSET Nat /\ Counts # {}
  BY <1>1
<1>3. PICK n \in Counts : \A k \in Counts : n <= k
  <2> HIDE DEF Counts
  <2>1. QED BY <1>2, LeastOf
<1>4. PICK y \in S : n = Cardinality(Above(y))
  BY <1>3
<1>5. ASSUME NEW z \in S, Newer(z, y) PROVE FALSE
  <2>1. Above(z) \subseteq Above(y) /\ z \in Above(y) /\ z \notin Above(z)
    BY <1>5 DEF Listed, Newer
  <2>2. Cardinality(Above(z)) <= Cardinality(Above(y)) /\ Cardinality(Above(y)) # Cardinality(Above(z))
    <3> HIDE DEF Above
    <3>1. QED BY <2>1, <1>1, FS_Subset
  <2>3. Cardinality(Above(y)) <= Cardinality(Above(z))
    BY <1>3, <1>4
  <2> HIDE DEF Above
  <2>4. QED BY <2>2, <2>3, <1>1, <1>5
<1>6. QED BY <1>5

\* Fewer links than articles: two articles share one.
LEMMA SharedLink ==
  ASSUME NEW S, IsFiniteSet(S), Cardinality(Urls(S)) # Cardinality(S)
  PROVE  \E x, y \in S : x # y /\ x.url = y.url
<1> SUFFICES ASSUME \A x, y \in S : x.url = y.url => x = y PROVE FALSE
  OBVIOUS
<1> DEFINE f == [x \in S |-> x.url]
<1>1. f \in Bijection(S, Urls(S))
  BY DEF Bijection, Injection, IsInjective, Surjection, Urls
<1>2. QED BY <1>1, FS_Bijection DEF ExistsBijection

\* The audit names a clear article of the window that is in no mail.
LEMMA OmissionFound ==
  ASSUME NEW taken, NEW sent, NEW r, NEW x \in taken, today \in Nat, x.pub \in Nat, x.pub # 0,
         today - Window <= x.pub, x.pub <= today, ~Seen(x, sent),
         x.kind \notin Forum, x.clear, x.url \notin Urls(r), x.title \notin Titles(r)
  PROVE  \E f \in Findings(taken, sent, r) : f.item = x /\ f.reason = "omission"
<1>1. [reason |-> "omission", item |-> x] \in Findings(taken, sent, r)
  BY EtfWindows DEF Findings, Seen
<1>2. QED BY <1>1

-------------------------------------------------------------------------------
(* What is told.                                                                 *)

\* A digest that went out: every article block has an item with its link.
LEMMA SentDigest ==
  ASSUME LastBuild, last.result = "sent"
  PROVE  /\ Listed(last.taken)
         /\ last.items = Rendered(last.taken, last.sent)
         /\ Urls(last.items) = Urls(Displayed(last.taken, last.sent))
BY WorldIsListed, Zenon DEF LastBuild, Validates

\* An article whose link a confirmed omission bears is displayed with it.
LEMMA MissedAreDisplayed ==
  ASSUME NEW taken, NEW sent, Listed(taken), today \in Nat
  PROVE  Missed(taken, sent) \subseteq Displayed(taken, sent)
BY PartsOfADigest DEF Displayed, Chosen, Fixed

LEMMA NothingOmittedSilently ==
  ASSUME LastBuild, today \in Nat
  PROVE  NoSilentOmission
<1> SUFFICES ASSUME last.result = "sent" PROVE NoSilentOmission
  BY DEF NoSilentOmission
<1> DEFINE taken == last.taken
           sent == last.sent
<1>1. Listed(taken) /\ last.items = Rendered(taken, sent) /\ Urls(last.items) = Urls(Displayed(taken, sent))
  BY SentDigest
<1> SUFFICES ASSUME NEW x \in Unsent(Recent(OfKind(taken, {"research"}), Window), sent),
                    x.topic, x.proof, x.url \notin Urls(last.items)
             PROVE  /\ \E y \in taken : y.title = x.title /\ Newer(y, x)
                    /\ x.clear /\ x.title \notin Titles(last.items) =>
                         \E f \in Findings(taken, sent, last.items) : f.item = x /\ f.reason = "omission"
  BY Zenon DEF NoSilentOmission
<1>2. /\ x \in taken /\ x.kind = "research" /\ x.pub \in Nat /\ x.pub # 0
      /\ today - Window <= x.pub /\ x.pub <= today
      /\ ~Seen(x, sent)
  BY <1>1 DEF Unsent, Recent, OfKind, Listed, Seen
<1>3. \E y \in taken : y.title = x.title /\ Newer(y, x)
  <2> SUFFICES ASSUME ~\E y \in taken : y.title = x.title /\ Newer(y, x) PROVE FALSE
    OBVIOUS
  <2>1. x.url \notin Urls(Missed(taken, sent))
    BY <1>1, MissedAreDisplayed DEF Urls
  <2> DEFINE regular == {z \in OfKind(taken, {"research"}) : z.url \notin Urls(Missed(taken, sent))}
             relevant == OnePerTitle({z \in regular : z.topic})
             Ranked(age) == {z \in Unsent(Recent(relevant, age), sent) : z.proof}
  <2>2. x \in relevant
    BY <1>2, <2>1 DEF OnePerTitle, OfKind
  <2>3. \A age \in {Window, Backfill} : x \in Ranked(age)
    <3> HIDE DEF relevant
    <3> TAKE age \in {Window, Backfill}
    <3>1. today - age <= x.pub
      BY <1>2, EtfWindows
    <3>2. QED BY <1>2, <2>2, <3>1 DEF Unsent, Recent, Seen
  <2>4. x \in Research(taken, sent)
    <3>1. Research(taken, sent) = IF Cardinality(Ranked(Window)) >= MinResearch THEN Ranked(Window) ELSE Ranked(Backfill)
      BY Zenon DEF Research
    <3> HIDE DEF Ranked
    <3>2. QED BY <2>3, <3>1
  <2>5. x \in Displayed(taken, sent)
    BY <1>2, <2>4 DEF Displayed, Chosen, Fixed
  <2>6. QED BY <1>1, <2>5 DEF Urls
<1>4. x.kind \notin Forum
  BY <1>2 DEF Forum
<1>5. ASSUME x.clear, x.title \notin Titles(last.items)
      PROVE  \E f \in Findings(taken, sent, last.items) : f.item = x /\ f.reason = "omission"
  BY <1>2, <1>4, <1>5, OmissionFound
<1>6. QED BY <1>3, <1>5

LEMMA WindowsAgree ==
  ASSUME LastBuild, today \in Nat
  PROVE  AuditAgreesWithTheWindows
<1> SUFFICES ASSUME last.result = "sent" PROVE AuditAgreesWithTheWindows
  BY DEF AuditAgreesWithTheWindows
<1> DEFINE taken == last.taken
           sent == last.sent
           items == last.items
<1>1. Listed(taken) /\ items = Rendered(taken, sent)
  BY SentDigest
<1> SUFFICES ASSUME NEW f \in Findings(taken, sent, items), f.item \in items
             PROVE  \/ f.reason \in {"evidence", "omission"}
                    \/ f.reason \in {"stale", "undated"} /\ f.item.kind \in Forum
  BY Zenon DEF AuditAgreesWithTheWindows
<1>2. PICK x : x = f.item
  OBVIOUS
<1>3. /\ x.kind \in SourceKinds /\ x.pub \in Nat /\ x.pub <= today
      /\ x.kind \notin Forum => x.pub # 0
      /\ x.kind \in Fixed => today - Window <= x.pub
      /\ x.kind = "research" => today - Backfill <= x.pub
  BY <1>1, <1>2, ChosenFacts
<1>4. x.url \in Urls(items) /\ ~Seen(x, sent)
  BY <1>1, <1>2, ChosenAreFresh DEF Urls, Fresh, Seen
<1>5. /\ x.pub = 0 => f.reason = "undated"
      /\ x.pub # 0 => \/ f.reason = "evidence"
                      \/ /\ f.reason = "stale" /\ ~(x.pub >= today - Window) /\ x.kind # "missed"
                         /\ ~(x.kind \in Forum \cup {"research"} /\ x.pub >= today - Backfill)
  <2>1. f.reason # "none"
    BY DEF Findings
  <2>2. QED BY <1>2, <1>3, <1>4, <2>1 DEF Findings, Seen
<1>6. x.kind \in Forum \/ x.kind \in Fixed \/ x.kind \in {"research", "missed"}
  BY <1>3 DEF SourceKinds, Forum, Fixed
<1>7. QED BY <1>2, <1>3, <1>5, <1>6, EtfWindows

LEMMA RefusalsExplained ==
  ASSUME LastBuild, today \in Nat
  PROVE  RefusalHasACause
<1> SUFFICES ASSUME last.result \in {"incomplete", "invalid"} PROVE RefusalHasACause
  BY DEF RefusalHasACause
<1> DEFINE taken == last.taken
           sent == last.sent
           c == Chosen(taken, sent)
           d == Displayed(taken, sent)
           r == Rendered(taken, sent)
           U == Updates(taken, sent)
<1>1. Listed(taken) /\ ~(RenderComplete(taken, sent) /\ Validates(taken, sent))
  BY WorldIsListed, Zenon DEF LastBuild
<1>2. /\ c \subseteq taken /\ d \subseteq c /\ r \subseteq c
      /\ Urls(r) \subseteq Urls(d)
      /\ \A x \in c : x.kind \in SourceKinds /\ x.pub \in Nat /\ x.hot \in Nat
      /\ \A x \in c : x.kind \in Fixed => x \in U
  BY <1>1, ChosenFacts
<1>3. IsFiniteSet(c) /\ IsFiniteSet(d) /\ IsFiniteSet(r)
  BY <1>1, <1>2, FS_Subset DEF Listed
<1>4. U \subseteq c
  BY DEF Chosen
<1>5. CASE ~RenderComplete(taken, sent)
  <2>1. PICK x \in c : x.url \notin Urls(d)
    BY <1>5, Zenon DEF RenderComplete
  <2>2. x \notin d
    BY <2>1 DEF Urls
  <2>3. x.kind \in Fixed /\ x \notin ShownUpdates(U)
    BY <2>1, <2>2, Zenon DEF Displayed
  <2>4. x \in U
    BY <1>2, <2>1, <2>3
  <2> DEFINE above == {y \in U : \/ y.kind = "feed" /\ x.kind = "page"
                                 \/ y.kind = x.kind /\ Newer(y, x)}
  <2>5. ~(Cardinality(above) < FixedLimit)
    BY <2>3, <2>4 DEF ShownUpdates
  <2>6. x \notin above /\ above \subseteq U
    BY <1>2, <1>4, <2>4 DEF Newer
  <2>7. IsFiniteSet(U) /\ Cardinality(U) \in Nat
    BY <1>3, <1>4, FS_Subset, FS_CardinalityType
  <2>8. Cardinality(above) \in Nat /\ Cardinality(above) <= Cardinality(U) /\ Cardinality(above) # Cardinality(U)
    <3> HIDE DEF above
    <3>1. QED BY <2>4, <2>6, <2>7, FS_Subset, FS_CardinalityType
  <2>9. Cardinality(U) > FixedLimit
    <3> HIDE DEF above, U
    <3>1. FixedLimit \in Nat
      BY EtfWindows
    <3>2. QED BY <2>5, <2>7, <2>8, <3>1
  <2>10. QED BY <2>9 DEF RefusalHasACause
<1>6. CASE ~Validates(taken, sent)
  <2>1. \E x, y \in c : x # y /\ (x.url = y.url \/ x.title = y.title)
    <3>1. CASE Cardinality(Urls(d)) # Cardinality(d)
      BY <1>2, <1>3, <3>1, SharedLink
    <3>2. CASE Cardinality(Urls(r)) # Cardinality(r)
      BY <1>2, <1>3, <3>2, SharedLink
    <3>3. CASE Urls(r) # Urls(d)
      <4>1. PICK x \in d : x.url \notin Urls(r)
        BY <1>2, <3>3 DEF Urls
      <4>2. x \in c /\ x.url \in Urls(d) /\ x \notin r
        BY <1>2, <4>1 DEF Urls
      <4>3. PICK y \in c : /\ y.title = x.title
                           /\ Part(y) < Part(x) \/ (Part(y) = Part(x) /\ Newer(y, x))
        BY <4>2, Zenon DEF Rendered
      <4>4. y # x
        BY <1>2, <4>3 DEF Part, Newer
      <4>5. QED BY <4>2, <4>3, <4>4
    <3>4. QED BY <1>6, <3>1, <3>2, <3>3, Zenon DEF Validates
  <2>2. QED BY <2>1, Zenon DEF RefusalHasACause
<1>7. QED BY <1>1, <1>5, <1>6

\* Of what a build leaves and of what a reviewer made of it: the body is the digest's.
LEMMA DoubtedProofs ==
  ASSUME NEW p0, NEW b, NEW complete,
         p0 = Written(b) \/ p0 = Reviewed(b, complete), NEW p \in Doubted(p0)
  PROVE  p.body = BodyLinks(b) /\ p.covered = p0.covered /\ p.eligible = p0.eligible
<1>1. \E cov, el, un : p0 = [manifest |-> TRUE, clock |-> "inside", doubts |-> {}, covered |-> cov,
                             eligible |-> el, unfit |-> un, body |-> BodyLinks(b)]
  BY DEF Written, Reviewed
<1>2. PICK cov, el, un : p0 = [manifest |-> TRUE, clock |-> "inside", doubts |-> {}, covered |-> cov,
                               eligible |-> el, unfit |-> un, body |-> BodyLinks(b)]
  BY <1>1
<1>3. \/ p = p0 \/ p = [p0 EXCEPT !.manifest = FALSE] \/ p = [p0 EXCEPT !.clock = "naive"]
      \/ p = [p0 EXCEPT !.clock = "outside"] \/ \E d \in Promises : p = [p0 EXCEPT !.doubts = {d}]
  BY Zenon DEF Doubted
<1>4. QED BY <1>2, <1>3

LEMMA ProofsAreFair ==
  ASSUME LastBuild, today \in Nat
  PROVE  ProofsDoNotAccuse
<1> SUFFICES ASSUME last.result = "sent", NEW p \in Doubted(Written(last)), NEW f \in Failures(p, last)
             PROVE  /\ f.item \notin last.items
                    /\ p.clock = "inside" \/ f.reason = "unrendered"
  BY Zenon DEF ProofsDoNotAccuse
<1>1. /\ Listed(last.taken) /\ last.items = Rendered(last.taken, last.sent)
      /\ p.body = Urls(last.items)
  BY SentDigest, DoubtedProofs DEF BodyLinks
<1>2. \A x \in last.items : x.url \in p.body /\ ~(x.pub > today) /\ ~Seen(x, last.sent)
  <2> TAKE x \in last.items
  <2>1. x.url \in p.body
    BY <1>1 DEF Urls
  <2>2. x.pub \in Nat /\ x.pub <= today
    BY <1>1, ChosenFacts
  <2>3. ~Seen(x, last.sent)
    BY <1>1, ChosenAreFresh DEF Fresh, Seen
  <2>4. QED BY <2>1, <2>2, <2>3
<1>3. \/ f.reason = "unrendered" /\ f.item \in {y \in last.items : y.url \notin p.body}
      \/ f.item \in InTime(p, last) /\ f.item.pub > today
      \/ f.item \in InTime(p, last) /\ Seen(f.item, last.sent)
      \/ f.item \in InTime(p, last) /\ f.item.url \notin p.body
  BY DEF Failures, InWindow, Before
<1>4. f.item \in InTime(p, last) => p.clock = "inside"
  BY DEF InTime
<1>5. QED BY <1>2, <1>3, <1>4

LEMMA PassesAreWhole ==
  ASSUME LastBuild, today \in Nat
  PROVE  PassMeansNothingIsMissing
<1> SUFFICES ASSUME last.result = "sent" PROVE PassMeansNothingIsMissing
  BY DEF PassMeansNothingIsMissing
<1> DEFINE taken == last.taken
           sent == last.sent
           items == last.items
           reached == {k \in SourceKinds : OfKind(Listing({}), {k}) = OfKind(taken, {k})}
<1>1. Listed(taken) /\ items = Rendered(taken, sent) /\ Urls(items) = Urls(Displayed(taken, sent))
  BY SentDigest
<1>2. ASSUME NEW p, Status(p, last) = "PASS"
      PROVE  /\ Failures(p, last) = {} /\ p.doubts = {} /\ p.clock = "inside"
             /\ SourceKinds \subseteq p.covered
             /\ OpenCandidates(last) = {}
  <2>1. Failures(p, last) = {} /\ ~Gaps(p, last)
    BY <1>2, Zenon DEF Status
  <2>2. p.doubts = {} /\ p.clock = "inside" /\ Uncovered(p) = {} /\ ~(SecondOpinion(p) /\ OpenCandidates(last) # {})
    BY <2>1, Zenon DEF Gaps
  <2>3. QED BY <2>1, <2>2 DEF Uncovered, SecondOpinion
<1>3. ASSUME NEW p \in Doubted(Written(last)) PROVE Status(p, last) # "PASS"
  <2>1. p.covered = {"missed"}
    BY DoubtedProofs DEF Written
  <2>2. QED BY <1>2, <2>1 DEF SourceKinds
<1>4. ASSUME NEW p \in Doubted(Reviewed(last, reached)), Status(p, last) = "PASS", NEW x \in Listing({}),
             ~(x.pub = 0 \/ x.pub > today \/ x.pub < today - Window),
             x.url \notin Urls(items), x.title \notin Titles(items), ~Seen(x, sent)
      PROVE  FALSE
  <2> DEFINE whole == {y \in Captured(last) : y.clear}
  <2>1. p.body = Urls(items) /\ p.covered = reached /\ p.eligible = whole
    <3>1. Reviewed(last, reached).covered = reached /\ Reviewed(last, reached).eligible = whole
      BY DEF Reviewed, Written
    <3> HIDE DEF whole, reached
    <3>2. QED BY <1>1, <3>1, DoubtedProofs DEF BodyLinks
  <2>2. x \in taken
    <3>1. Listing({}) \subseteq world
      BY DEF Listing
    <3>2. x.kind \in SourceKinds
      BY <3>1, WorldIsListed DEF Listed, LastBuild
    <3>3. OfKind(Listing({}), {x.kind}) = OfKind(taken, {x.kind})
      BY <1>2, <1>4, <2>1, <3>2
    <3>4. QED BY <3>3 DEF OfKind
  <2>3. x.pub \in Nat /\ x.pub # 0 /\ x.pub <= today /\ today - Window <= x.pub
    BY <1>1, <1>4, <2>2, EtfWindows DEF Listed
  <2>4. CASE x.kind = "missed"
    <3> DEFINE due == {y \in Unsent(OfKind(taken, {"missed"}), sent) : y.pub # 0 /\ y.pub <= today}
               same == {y \in due : y.url = x.url}
    <3>1. x \in same
      BY <1>4, <2>2, <2>3, <2>4 DEF Unsent, OfKind, Seen
    <3>2. same \subseteq taken
      BY DEF Unsent, OfKind
    <3>3. Listed(same)
      <4> HIDE DEF same
      <4>1. QED BY <1>1, <3>2, FS_Subset DEF Listed
    <3>4. PICK y \in same : \A z \in same : ~Newer(z, y)
      <4> HIDE DEF same
      <4>1. QED BY <3>1, <3>3, NewestExists
    <3>5. y \in Missed(taken, sent)
      BY <3>4 DEF Missed, OnePerUrl
    <3>6. y \in Displayed(taken, sent) /\ y.url = x.url
      BY <1>1, <3>5, MissedAreDisplayed
    <3>7. QED BY <1>1, <1>4, <3>6 DEF Urls
  <2>5. CASE x.kind # "missed"
    <3>1. x \in Captured(last)
      BY <2>2, <2>5 DEF Captured
    <3>2. CASE x.clear
      <4>1. x \in InWindow(p, last)
        BY <1>2, <1>4, <2>3, <3>1 DEF InWindow, InTime
      <4>2. [reason |-> "omission", item |-> x] \in Failures(p, last)
        BY <1>4, <2>1, <3>1, <3>2, <4>1 DEF Failures, Before
      <4>3. QED BY <1>2, <1>4, <4>2
    <3>3. CASE ~x.clear
      <4>1. x \in OpenCandidates(last)
        BY <1>4, <2>3, <3>1, <3>3 DEF OpenCandidates
      <4>2. QED BY <1>2, <1>4, <4>1
    <3>4. QED BY <3>2, <3>3
  <2>6. QED BY <2>4, <2>5
<1> HIDE DEF reached
<1>5. QED BY <1>3, <1>4, Zenon DEF PassMeansNothingIsMissing, reached

LEMMA ReasonsAgree ==
  ASSUME LastBuild, today \in Nat
  PROVE  ExplanationsAgree
<1> SUFFICES ASSUME last.result = "sent", NEW x \in Captured(last), Decision(x, last) = "qualified",
                    x.title \notin Titles(last.items), x \notin OpenCandidates(last)
             PROVE  \E f \in Findings(last.taken, last.sent, last.items) : f.item = x /\ f.reason = "omission"
  BY Zenon DEF ExplanationsAgree
<1>1. x \in last.taken
  BY DEF Captured, Missed, OnePerUrl, Unsent, OfKind
<1>2. x.pub \in Nat
  BY <1>1, SentDigest DEF Listed
<1>3. /\ x.url \notin Urls(last.items) /\ ~Seen(x, last.sent) /\ x.pub # 0
      /\ ~(x.pub > today) /\ ~(x.pub < today - Window) /\ x.kind \notin Forum
  BY DEF Decision, Filtered
<1>4. x.clear
  BY <1>2, <1>3, EtfWindows DEF OpenCandidates
<1>5. QED BY <1>1, <1>2, <1>3, <1>4, EtfWindows, OmissionFound

LEMMA OmissionsSound ==
  ASSUME LastBuild, today \in Nat
  PROVE  /\ NoSilentOmission /\ AuditAgreesWithTheWindows /\ RefusalHasACause
         /\ ProofsDoNotAccuse /\ PassMeansNothingIsMissing /\ ExplanationsAgree
BY NothingOmittedSilently, WindowsAgree, RefusalsExplained, ProofsAreFair, PassesAreWhole, ReasonsAgree

-------------------------------------------------------------------------------
(* Recovery of the market state.                                                  *)

Checks == {"bootstrap", "require_hit"}
Bundles == [sha : Shas, seed : Nat, pack : Nat]
Proofs == [sha : Shas, body : Bundles]
Pins == [sha : Shas, from : Shas \cup {0}, body : Bundles, receipt : Proofs]
Uploads == [sha : Shas, run : Nat, body : Bundles, at : Nat, live : BOOLEAN]
TaskStates == [kind : Checks \cup {"close"}, sha : Shas, release : Pins,
               result : {"running", "success", "failure"}, attempt : 1 .. 2, hit : Nat,
               fallback : BOOLEAN, repack : BOOLEAN]

RecoveryTypes ==
  /\ close \in Nat
  /\ archive \in Seq(Uploads) /\ tasks \in Seq(TaskStates)
  /\ config \in Pins
  /\ receipts \in SUBSET Proofs /\ proved \in SUBSET Proofs

\* What a run stands on: a release that names a receipt; a delivery from the approved
\* state, a proof; a green recovery that restored another run's upload has proved it.
Stands(t) ==
  \E p \in proved : /\ p.body = t.release.body /\ p.body.sha = p.sha
                    /\ p.sha = t.sha \/ <<p.sha, t.sha>> \in Successors
Green(t) == t.result = "success" /\ t.kind \in Checks
TaskSound(t, i) ==
  /\ t.release.receipt \in receipts
  /\ t.kind = "close" => t.sha = t.release.sha
  /\ t.result = "running" => ~t.fallback /\ t.hit = 0
  /\ t.kind = "close" /\ t.fallback => Stands(t)
  /\ Green(t) /\ t.hit # 0 =>
       /\ t.hit \in DOMAIN archive
       /\ archive[t.hit].run # i => [sha |-> t.sha, body |-> archive[t.hit].body] \in proved
UploadSound(u) ==
  /\ u.run \in DOMAIN tasks
  /\ u.body.sha = u.sha /\ u.body.seed <= u.at /\ u.at <= close
\* What the verifier holds is of two green recovery runs and one upload of each.
CollectedSound ==
  collected # Nothing =>
    /\ collected.producer \in DOMAIN tasks /\ collected.consumer \in DOMAIN tasks
    /\ Green(collected.p) /\ Green(collected.c)
    /\ collected.pu \in DOMAIN archive /\ archive[collected.pu].run = collected.producer
    /\ collected.cu \in DOMAIN archive /\ archive[collected.cu].run = collected.consumer
ProofsSound == receipts \subseteq proved /\ \A p \in proved : p.body.sha = p.sha

RecoveryInv ==
  /\ RecoveryTypes
  /\ config.receipt \in receipts
  /\ ProofsSound
  /\ \A i \in DOMAIN tasks : TaskSound(tasks[i], i)
  /\ \A k \in DOMAIN archive : UploadSound(archive[k])
  /\ CollectedSound

\* A task and a pin, by their fields.
LEMMA TaskFields ==
  ASSUME NEW t \in TaskStates
  PROVE  /\ t.kind \in Checks \cup {"close"} /\ t.sha \in Shas /\ t.release \in Pins
         /\ t.result \in {"running", "success", "failure"} /\ t.attempt \in 1 .. 2 /\ t.hit \in Nat
         /\ t.fallback \in BOOLEAN /\ t.repack \in BOOLEAN
BY DEF TaskStates

LEMMA PinFields ==
  ASSUME NEW c \in Pins
  PROVE  c.sha \in Shas /\ c.from \in Shas \cup {0} /\ c.body \in Bundles /\ c.receipt \in Proofs
BY DEF Pins

LEMMA BodyType ==
  ASSUME NEW sha \in Shas, NEW seed \in Nat, NEW pack \in Nat
  PROVE  /\ Body(sha, seed, pack) \in Bundles
         /\ Body(sha, seed, pack).sha = sha /\ Body(sha, seed, pack).seed = seed
BY DEF Body, Bundles

\* A sequence that grows.
LEMMA Appended ==
  ASSUME NEW S, NEW s \in Seq(S), NEW e \in S
  PROVE  /\ Append(s, e) \in Seq(S)
         /\ DOMAIN Append(s, e) = DOMAIN s \cup {Len(s) + 1}
         /\ Len(s) + 1 \notin DOMAIN s
         /\ \A k \in DOMAIN s : Append(s, e)[k] = s[k]
         /\ Append(s, e)[Len(s) + 1] = e
OBVIOUS

LEMMA Elements ==
  ASSUME NEW S, NEW s \in Seq(S), NEW k \in DOMAIN s
  PROVE  s[k] \in S /\ k \in Nat /\ k # 0 /\ k <= Len(s)
OBVIOUS

LEMMA Replaced ==
  ASSUME NEW S, NEW s \in Seq(S), NEW k \in DOMAIN s, NEW e \in S
  PROVE  LET t == [s EXCEPT ![k] = e]
         IN /\ t \in Seq(S) /\ DOMAIN t = DOMAIN s
            /\ \A j \in DOMAIN s : t[j] = IF j = k THEN e ELSE s[j]
OBVIOUS

\* Nothing that was uploaded, proved or issued goes away.
Grows ==
  /\ DOMAIN tasks \subseteq DOMAIN tasks'
  /\ \A k \in DOMAIN archive :
       /\ k \in DOMAIN archive'
       /\ archive'[k].run = archive[k].run /\ archive'[k].body = archive[k].body
  /\ receipts \subseteq receipts' /\ proved \subseteq proved'

LEMMA TaskStays ==
  ASSUME Grows, NEW t, NEW i, TaskSound(t, i)
  PROVE  /\ t.release.receipt \in receipts'
         /\ t.kind = "close" => t.sha = t.release.sha
         /\ t.result = "running" => ~t.fallback /\ t.hit = 0
         /\ t.kind = "close" /\ t.fallback =>
              \E p \in proved' : /\ p.body = t.release.body /\ p.body.sha = p.sha
                                 /\ p.sha = t.sha \/ <<p.sha, t.sha>> \in Successors
         /\ Green(t) /\ t.hit # 0 =>
              /\ t.hit \in DOMAIN archive'
              /\ archive'[t.hit].run # i => [sha |-> t.sha, body |-> archive'[t.hit].body] \in proved'
BY DEF Grows, TaskSound, Stands

LEMMA TasksStay ==
  ASSUME Grows, NEW i \in DOMAIN tasks, TaskSound(tasks[i], i), tasks'[i] = tasks[i]
  PROVE  TaskSound(tasks[i], i)'
<1>1. PICK t : t = tasks[i]
  OBVIOUS
<1>2. TaskSound(t, i)
  BY <1>1
<1>3. tasks'[i] = t
  BY <1>1
<1>4. TaskSound(t, i)'
  BY <1>2, TaskStays DEF TaskSound, Stands, Green
<1>5. QED BY <1>3, <1>4 DEF TaskSound, Stands, Green

LEMMA CollectedStays ==
  ASSUME Grows, CollectedSound, collected' = collected \/ collected' = Nothing
  PROVE  CollectedSound'
BY DEF Grows, CollectedSound, Green
LEMMA RecoveryStarts == RecoveryInit => RecoveryInv
<1> SUFFICES ASSUME RecoveryInit PROVE RecoveryInv
  OBVIOUS
<1>1. Min(Shas) \in Shas
  <2>1. PICK m \in Shas : \A k \in Shas : m <= k
    BY RuntimesAreNumbered, LeastOf
  <2>2. QED BY <2>1, Zenon DEF Min
<1>2. Original \in Bundles /\ Original.sha = Min(Shas)
  BY <1>1, BodyType DEF Original
<1>3. FirstReceipt \in Proofs /\ FirstReceipt.body = Original /\ FirstReceipt.sha = Original.sha
  BY <1>1, <1>2 DEF FirstReceipt, Proofs
<1>4. config \in Pins /\ config.receipt = FirstReceipt
  BY <1>1, <1>2, <1>3 DEF RecoveryInit, Pins
<1>5. archive \in Seq(Uploads) /\ tasks \in Seq(TaskStates) /\ DOMAIN archive = {} /\ DOMAIN tasks = {}
  BY DEF RecoveryInit
<1>6. RecoveryTypes /\ ProofsSound /\ CollectedSound
  BY <1>2, <1>3, <1>4, <1>5 DEF RecoveryInit, RecoveryTypes, ProofsSound, CollectedSound
<1>7. QED BY <1>3, <1>4, <1>5, <1>6 DEF RecoveryInit, RecoveryInv

\* The steps that leave the archive alone and change at most one task.
LEMMA UploadsStay ==
  ASSUME RecoveryInv, Grows, DOMAIN archive' = DOMAIN archive, close' \in Nat, close <= close',
         \A k \in DOMAIN archive :
           archive'[k].sha = archive[k].sha /\ archive'[k].at = archive[k].at
  PROVE  \A k \in DOMAIN archive' : UploadSound(archive[k])'
<1> SUFFICES ASSUME NEW k \in DOMAIN archive PROVE UploadSound(archive[k])'
  OBVIOUS
<1>1. PICK u, v : u = archive[k] /\ v = archive'[k]
  OBVIOUS
<1>2. u \in Uploads /\ UploadSound(u)
  BY <1>1, Elements DEF RecoveryInv, RecoveryTypes
<1>3. v.run = u.run /\ v.body = u.body /\ v.sha = u.sha /\ v.at = u.at
  BY <1>1 DEF Grows
<1>4. u.at \in Nat /\ close \in Nat
  BY <1>2 DEF Uploads, RecoveryInv, RecoveryTypes
<1>5. /\ v.run \in DOMAIN tasks'
      /\ v.body.sha = v.sha /\ v.body.seed <= v.at /\ v.at <= close'
  BY <1>2, <1>3, <1>4 DEF UploadSound, Grows
<1>6. QED BY <1>1, <1>5 DEF UploadSound

\* A step that changes task j only, to n, and keeps the rest sound.
LEMMA OneTask ==
  ASSUME RecoveryInv, Grows, NEW j \in DOMAIN tasks, NEW n \in TaskStates,
         tasks' = [tasks EXCEPT ![j] = n], TaskSound(n, j)'
  PROVE  /\ tasks' \in Seq(TaskStates) /\ DOMAIN tasks' = DOMAIN tasks
         /\ \A i \in DOMAIN tasks' : TaskSound(tasks[i], i)'
<1>1. /\ tasks' \in Seq(TaskStates) /\ DOMAIN tasks' = DOMAIN tasks
      /\ \A i \in DOMAIN tasks : tasks'[i] = IF i = j THEN n ELSE tasks[i]
  BY Replaced DEF RecoveryInv, RecoveryTypes
<1>2. ASSUME NEW i \in DOMAIN tasks, i # j PROVE TaskSound(tasks[i], i)'
  BY <1>1, <1>2, TasksStay DEF RecoveryInv
<1>3. TaskSound(tasks[j], j)'
  BY <1>1 DEF TaskSound, Stands, Green
<1>4. QED BY <1>1, <1>2, <1>3

LEMMA CloseKeeps == RecoveryInv /\ NextClose => RecoveryInv'
<1> SUFFICES ASSUME RecoveryInv, NextClose PROVE RecoveryInv'
  OBVIOUS
<1>1. close' = close + 1 /\ close \in Nat
  BY DEF NextClose, RecoveryInv, RecoveryTypes
<1>2. Grows
  BY DEF NextClose, Grows
<1>3. \A k \in DOMAIN archive' : UploadSound(archive[k])'
  BY <1>1, <1>2, UploadsStay DEF NextClose
<1>4. \A i \in DOMAIN tasks' : TaskSound(tasks[i], i)'
  BY <1>2, TasksStay DEF NextClose, RecoveryInv
<1>5. RecoveryTypes' /\ ProofsSound' /\ (config.receipt \in receipts)'
  BY <1>1 DEF RecoveryInv, RecoveryTypes, ProofsSound, NextClose
<1>6. CollectedSound'
  BY <1>2, CollectedStays DEF NextClose, RecoveryInv
<1>7. QED BY <1>3, <1>4, <1>5, <1>6 DEF RecoveryInv

LEMMA TaskStarts ==
  ASSUME NEW kind \in Checks \cup {"close"}, NEW sha \in Shas, NEW release \in Pins, NEW n \in 1 .. 2
  PROVE  LET t == Task(kind, sha, release, n)
         IN /\ t \in TaskStates /\ t.result = "running" /\ ~t.fallback /\ t.hit = 0
            /\ t.kind = kind /\ t.sha = sha /\ t.release = release
BY DEF Task, TaskStates

LEMMA FreshSound ==
  ASSUME NEW t, NEW i, t.release.receipt \in receipts, t.result = "running", ~t.fallback, t.hit = 0,
         t.kind = "close" => t.sha = t.release.sha
  PROVE  TaskSound(t, i)
BY DEF TaskSound, Green

LEMMA StartKeeps == RecoveryInv /\ StartTask => RecoveryInv'
<1> SUFFICES ASSUME RecoveryInv, StartTask PROVE RecoveryInv'
  OBVIOUS
<1>1. PICK t \in {Task("close", config.sha, config, 1)}
                  \cup {Task(kind, sha, config, 1) : kind \in Checks, sha \in Shas} :
        tasks' = Append(tasks, t)
  BY DEF StartTask, Checks
<1>2. config \in Pins /\ config.sha \in Shas
  BY PinFields DEF RecoveryInv, RecoveryTypes
<1>3. /\ t \in TaskStates /\ t.result = "running" /\ ~t.fallback /\ t.hit = 0
      /\ t.release = config /\ (t.kind = "close" => t.sha = t.release.sha)
  BY <1>1, <1>2, TaskStarts DEF Checks
<1>4. /\ tasks' \in Seq(TaskStates) /\ DOMAIN tasks' = DOMAIN tasks \cup {Len(tasks) + 1}
      /\ \A i \in DOMAIN tasks : tasks'[i] = tasks[i]
      /\ tasks'[Len(tasks) + 1] = t
  BY <1>1, <1>3, Appended DEF RecoveryInv, RecoveryTypes
<1>5. UNCHANGED <<close, archive, config, collected, receipts, proved>>
  BY DEF StartTask
<1>6. Grows
  BY <1>4, <1>5 DEF Grows
<1>7. \A k \in DOMAIN archive' : UploadSound(archive[k])'
  BY <1>5, <1>6, UploadsStay DEF RecoveryInv, RecoveryTypes
<1>8. ASSUME NEW i \in DOMAIN tasks' PROVE TaskSound(tasks[i], i)'
  <2>1. CASE i \in DOMAIN tasks
    BY <1>4, <1>6, <2>1, TasksStay DEF RecoveryInv
  <2>2. CASE i = Len(tasks) + 1
    <3>1. TaskSound(t, i)
      BY <1>3, FreshSound DEF RecoveryInv
    <3>2. tasks'[i] = t
      BY <1>4, <2>2
    <3>3. QED BY <1>3, <1>5, <3>1, <3>2 DEF TaskSound, Green
  <2>3. QED BY <1>4, <2>1, <2>2
<1>9. RecoveryTypes' /\ ProofsSound' /\ (config.receipt \in receipts)' /\ CollectedSound'
  BY <1>4, <1>5, <1>6, CollectedStays DEF RecoveryInv, RecoveryTypes, ProofsSound
<1>10. QED BY <1>7, <1>8, <1>9 DEF RecoveryInv

LEMMA RerunKeeps == RecoveryInv /\ RerunTask => RecoveryInv'
<1> SUFFICES ASSUME RecoveryInv, RerunTask PROVE RecoveryInv'
  OBVIOUS
<1>1. PICK j \in DOMAIN tasks :
        tasks' = [tasks EXCEPT ![j] = Task(tasks[j].kind, tasks[j].sha, tasks[j].release, 2)]
  BY DEF RerunTask
<1>2. UNCHANGED <<close, archive, config, collected, receipts, proved>>
  BY DEF RerunTask
<1>3. PICK o : o = tasks[j]
  OBVIOUS
<1>4. o \in TaskStates /\ TaskSound(o, j)
  BY <1>3, Elements DEF RecoveryInv, RecoveryTypes
<1>5. PICK t \in TaskStates : /\ t = Task(o.kind, o.sha, o.release, 2)
                              /\ t.result = "running" /\ ~t.fallback /\ t.hit = 0
                              /\ t.kind = o.kind /\ t.sha = o.sha /\ t.release = o.release
  BY <1>4, TaskFields, TaskStarts
<1>6. TaskSound(t, j)
  BY <1>4, <1>5 DEF TaskSound, Green
<1>7. TaskSound(t, j)'
  BY <1>2, <1>5, <1>6 DEF TaskSound, Green
<1>8. tasks' = [tasks EXCEPT ![j] = t]
  BY <1>1, <1>3, <1>5
<1>9. DOMAIN tasks' = DOMAIN tasks
  BY <1>8
<1>10. Grows
  BY <1>2, <1>9 DEF Grows
<1>11. tasks' \in Seq(TaskStates) /\ \A i \in DOMAIN tasks' : TaskSound(tasks[i], i)'
  BY <1>7, <1>8, <1>10, OneTask
<1>12. \A k \in DOMAIN archive' : UploadSound(archive[k])'
  BY <1>2, <1>10, UploadsStay DEF RecoveryInv, RecoveryTypes
<1>13. RecoveryTypes' /\ ProofsSound' /\ (config.receipt \in receipts)' /\ CollectedSound'
  BY <1>2, <1>10, <1>11, CollectedStays DEF RecoveryInv, RecoveryTypes, ProofsSound
<1>14. QED BY <1>11, <1>12, <1>13 DEF RecoveryInv

\* An upload of a run, packed for its runtime and a complete session.
LEMMA UploadKept ==
  ASSUME RecoveryInv, NEW i \in DOMAIN tasks, NEW body \in Bundles,
         body.sha = tasks[i].sha, body.seed <= close, archive' = Upload(i, body), close' = close,
         DOMAIN tasks' = DOMAIN tasks, receipts \subseteq receipts', proved \subseteq proved'
  PROVE  /\ archive' \in Seq(Uploads) /\ Grows
         /\ \A k \in DOMAIN archive' : UploadSound(archive[k])'
         /\ \A k \in DOMAIN archive : archive'[k] = archive[k]
<1>1. tasks[i].sha \in Shas /\ i \in Nat /\ close \in Nat /\ Len(archive) \in Nat
  BY Elements, TaskFields DEF RecoveryInv, RecoveryTypes
<1>2. PICK u : u = [sha |-> tasks[i].sha, run |-> i, body |-> body, at |-> close, live |-> TRUE]
  OBVIOUS
<1>3. u \in Uploads
  BY <1>1, <1>2 DEF Uploads
<1>4. u.run \in DOMAIN tasks' /\ u.body.sha = u.sha /\ u.body.seed <= u.at /\ u.at <= close'
  BY <1>1, <1>2
<1>5. archive' = Append(archive, u)
  BY <1>2 DEF Upload
<1>6. PICK n : n = Len(archive) + 1
  OBVIOUS
<1>7. /\ archive' \in Seq(Uploads) /\ DOMAIN archive' = DOMAIN archive \cup {n}
      /\ \A k \in DOMAIN archive : archive'[k] = archive[k]
      /\ archive'[n] = u
  BY <1>3, <1>5, <1>6, Appended DEF RecoveryInv, RecoveryTypes
<1>8. Grows
  BY <1>7 DEF Grows
<1>9. ASSUME NEW k \in DOMAIN archive PROVE UploadSound(archive[k])'
  <2>1. PICK v : v = archive[k]
    OBVIOUS
  <2>2. UploadSound(v)
    BY <1>9, <2>1 DEF RecoveryInv
  <2>3. archive'[k] = v
    BY <1>7, <1>9, <2>1
  <2>4. QED BY <2>2, <2>3 DEF UploadSound
<1>10. UploadSound(archive[n])'
  BY <1>4, <1>7 DEF UploadSound
<1>11. QED BY <1>7, <1>8, <1>9, <1>10

\* A pin that passes the identity check stands on a proof.
LEMMA VerifiedStands ==
  ASSUME ProofsSound, NEW t, t.release \in Pins, t.release.receipt \in receipts,
         ReleaseVerified(t.release), t.sha = t.release.sha
  PROVE  Stands(t)
<1> DEFINE p == t.release.receipt
<1>1. p \in proved /\ p.body.sha = p.sha
  BY DEF ProofsSound
<1>2. p.body = t.release.body /\ p.sha = Accepted(t.release)
  BY DEF ReleaseVerified
<1>3. p.sha = t.sha \/ <<p.sha, t.sha>> \in Successors
  BY <1>2 DEF Accepted, ReleaseVerified
<1>4. QED BY <1>1, <1>2, <1>3 DEF Stands

\* A task that ends, with what it leaves: nothing, or one upload.
LEMMA EndKeeps ==
  ASSUME RecoveryInv, NEW j \in DOMAIN tasks, NEW n \in TaskStates,
         tasks' = [tasks EXCEPT ![j] = n],
         \/ archive' = archive
         \/ \E body \in Bundles : /\ archive' = Upload(j, body)
                                  /\ body.sha = tasks[j].sha /\ body.seed <= close,
         UNCHANGED <<close, config, collected, receipts>>,
         proved' \in SUBSET Proofs, proved \subseteq proved', \A p \in proved' : p.body.sha = p.sha,
         TaskSound(n, j)'
  PROVE  RecoveryInv'
<1>1. DOMAIN tasks' = DOMAIN tasks
  OBVIOUS
<1>2. /\ Grows /\ archive' \in Seq(Uploads)
      /\ \A k \in DOMAIN archive' : UploadSound(archive[k])'
  <2>1. CASE archive' = archive
    <3>1. Grows
      BY <1>1, <2>1 DEF Grows
    <3>2. QED BY <2>1, <3>1, UploadsStay DEF RecoveryInv, RecoveryTypes
  <2>2. CASE archive' # archive
    <3>1. PICK body \in Bundles : archive' = Upload(j, body) /\ body.sha = tasks[j].sha /\ body.seed <= close
      BY <2>2
    <3>2. QED BY <1>1, <3>1, UploadKept
  <2>3. QED BY <2>1, <2>2
<1>3. tasks' \in Seq(TaskStates) /\ \A i \in DOMAIN tasks' : TaskSound(tasks[i], i)'
  BY <1>2, OneTask
<1>4. RecoveryTypes' /\ ProofsSound' /\ (config.receipt \in receipts)' /\ CollectedSound'
  BY <1>2, <1>3, CollectedStays DEF RecoveryInv, RecoveryTypes, ProofsSound
<1>5. QED BY <1>2, <1>3, <1>4 DEF RecoveryInv

LEMMA DeliverKeeps == RecoveryInv /\ Deliver => RecoveryInv'
<1> SUFFICES ASSUME RecoveryInv, Deliver PROVE RecoveryInv'
  OBVIOUS
<1>1. PICK j \in DOMAIN tasks :
        /\ tasks[j].result = "running" /\ tasks[j].kind = "close"
        /\ \/ tasks' = [tasks EXCEPT ![j].result = "failure"] /\ archive' = archive
           \/ ReleaseVerified(tasks[j].release) /\ tasks' = [tasks EXCEPT ![j].result = "success"] /\ archive' = archive
           \/ /\ ReleaseVerified(tasks[j].release)
              /\ \E approved \in BOOLEAN, saved \in BOOLEAN, result \in {"failure", "success"} :
                   /\ archive' = IF saved THEN Upload(j, Body(tasks[j].sha, close, Len(archive) + 1)) ELSE archive
                   /\ tasks' = [tasks EXCEPT ![j] = [tasks[j] EXCEPT !.fallback = approved, !.result = result]]
  BY Zenon DEF Deliver, Results
<1>2. PICK t : t = tasks[j]
  OBVIOUS
<1>3. /\ t \in TaskStates /\ TaskSound(t, j) /\ t.result = "running" /\ t.kind = "close"
      /\ t.sha = t.release.sha /\ ~t.fallback /\ t.hit = 0
      /\ t.release \in Pins /\ t.release.receipt \in receipts /\ t.sha \in Shas
  BY <1>1, <1>2, Elements, TaskFields DEF RecoveryInv, RecoveryTypes, TaskSound
<1>4. /\ UNCHANGED <<close, config, collected, receipts, proved>>
      /\ proved \in SUBSET Proofs /\ \A p \in proved : p.body.sha = p.sha
      /\ close \in Nat /\ Len(archive) \in Nat
  <2>1. UNCHANGED <<close, config, collected, receipts, proved>>
    BY Zenon DEF Deliver
  <2>2. QED BY <2>1 DEF RecoveryInv, RecoveryTypes, ProofsSound
<1>5. ASSUME NEW n \in TaskStates, n.kind = "close", n.sha = t.sha, n.release = t.release,
             n.result # "running", n.fallback => ReleaseVerified(t.release)
      PROVE  TaskSound(n, j)'
  <2>1. n.fallback => Stands(n)
    BY <1>3, <1>5, VerifiedStands DEF RecoveryInv
  <2>2. ~Green(n) /\ ~Green(n)'
    BY <1>5 DEF Green, Checks
  <2>3. n.fallback => Stands(n)'
    BY <1>4, <2>1 DEF Stands
  <2>4. QED BY <1>3, <1>4, <1>5, <2>2, <2>3 DEF TaskSound
<1>6. CASE tasks' = [tasks EXCEPT ![j].result = "failure"] /\ archive' = archive
  <2>1. PICK n : n = [t EXCEPT !.result = "failure"]
    OBVIOUS
  <2>2. /\ n \in TaskStates /\ n.kind = "close" /\ n.sha = t.sha /\ n.release = t.release
        /\ n.result # "running" /\ ~n.fallback
    BY <1>3, <2>1 DEF TaskStates
  <2>3. tasks' = [tasks EXCEPT ![j] = n]
    BY <1>2, <1>6, <2>1
  <2>4. QED BY <1>4, <1>5, <1>6, <2>2, <2>3, EndKeeps
<1>7. CASE /\ ReleaseVerified(t.release)
           /\ tasks' = [tasks EXCEPT ![j].result = "success"] /\ archive' = archive
  <2>1. PICK n : n = [t EXCEPT !.result = "success"]
    OBVIOUS
  <2>2. /\ n \in TaskStates /\ n.kind = "close" /\ n.sha = t.sha /\ n.release = t.release
        /\ n.result # "running" /\ ~n.fallback
    BY <1>3, <2>1 DEF TaskStates
  <2>3. tasks' = [tasks EXCEPT ![j] = n]
    BY <1>2, <1>7, <2>1
  <2>4. QED BY <1>4, <1>5, <1>7, <2>2, <2>3, EndKeeps
<1>8. ASSUME ReleaseVerified(t.release), NEW approved \in BOOLEAN, NEW saved \in BOOLEAN,
             NEW result \in {"failure", "success"},
             archive' = IF saved THEN Upload(j, Body(t.sha, close, Len(archive) + 1)) ELSE archive,
             tasks' = [tasks EXCEPT ![j] = [t EXCEPT !.fallback = approved, !.result = result]]
      PROVE  RecoveryInv'
  <2>1. PICK n : n = [t EXCEPT !.fallback = approved, !.result = result]
    OBVIOUS
  <2>2. /\ n \in TaskStates /\ n.kind = "close" /\ n.sha = t.sha /\ n.release = t.release
        /\ n.result # "running"
    BY <1>3, <2>1 DEF TaskStates
  <2>3. tasks' = [tasks EXCEPT ![j] = n]
    BY <1>8, <2>1
  <2>4. TaskSound(n, j)'
    BY <1>5, <1>8, <2>2
  <2>5. PICK body : body = Body(t.sha, close, Len(archive) + 1)
    OBVIOUS
  <2>6. body \in Bundles /\ body.sha = tasks[j].sha /\ body.seed <= close
    BY <1>2, <1>3, <1>4, <2>5, BodyType
  <2>7. archive' = archive \/ archive' = Upload(j, body)
    BY <1>8, <2>5
  <2>8. QED BY <1>4, <2>2, <2>3, <2>4, <2>6, <2>7, EndKeeps
<1>9. QED BY <1>1, <1>2, <1>6, <1>7, <1>8

\* What fetch_latest finds.
LEMMA Found ==
  ASSUME RecoveryInv, NEW sha
  PROVE  LatestUpload(sha) # 0 => /\ LatestUpload(sha) \in DOMAIN archive
                                  /\ archive[LatestUpload(sha)].sha = sha
<1> DEFINE S == {k \in DOMAIN archive : archive[k].sha = sha /\ Restorable(k)}
<1>1. DOMAIN archive = 1 .. Len(archive) /\ Len(archive) \in Nat
  BY DEF RecoveryInv, RecoveryTypes
<1> DEFINE T == {0} \cup S
<1>2. PICK n \in Int : n = Len(archive)
  BY DEF RecoveryInv, RecoveryTypes
<1>3. T \in SUBSET Int /\ T # {} /\ \A x \in T : x <= n
  BY <1>1, <1>2
<1> HIDE DEF T
<1>4. Max(T) \in T
  BY <1>3, MaxIs
<1>5. QED BY <1>4 DEF LatestUpload, T

LEMMA RecoverKeeps == RecoveryInv /\ Recover => RecoveryInv'
<1> SUFFICES ASSUME RecoveryInv, Recover PROVE RecoveryInv'
  OBVIOUS
<1>1. PICK j \in DOMAIN tasks :
        /\ tasks[j].result = "running" /\ tasks[j].kind \in Checks
        /\ LET t == tasks[j]
               hit == LatestUpload(t.sha)
           IN \E packs \in BOOLEAN :
              LET repack == hit = 0 /\ packs
                  body == IF hit # 0 THEN archive[hit].body
                          ELSE IF repack /\ t.release.body.sha # t.sha
                          THEN Body(t.sha, t.release.body.seed, Len(archive) + 1) ELSE t.release.body
                  done == (hit # 0 \/ t.kind = "bootstrap") /\ Identified(body, t.sha)
              IN \E saved \in BOOLEAN, result \in Results(done) :
                   /\ saved => done /\ Len(archive) < MaxUploads
                   /\ result = "success" => saved
                   /\ archive' = IF saved THEN Upload(j, body) ELSE archive
                   /\ tasks' = [tasks EXCEPT ![j] = IF result = "failure" THEN [t EXCEPT !.result = result]
                                  ELSE [t EXCEPT !.hit = hit, !.fallback = (hit = 0), !.repack = repack, !.result = result]]
                   /\ proved' = IF saved /\ hit # 0 /\ archive[hit].run # j
                                THEN proved \cup {[sha |-> t.sha, body |-> body]} ELSE proved
  BY Zenon DEF Recover, Checks
<1> DEFINE t == tasks[j]
           hit == LatestUpload(t.sha)
<1>4. PICK packs \in BOOLEAN :
        LET repack == hit = 0 /\ packs
            body == IF hit # 0 THEN archive[hit].body
                    ELSE IF repack /\ t.release.body.sha # t.sha
                    THEN Body(t.sha, t.release.body.seed, Len(archive) + 1) ELSE t.release.body
            done == (hit # 0 \/ t.kind = "bootstrap") /\ Identified(body, t.sha)
        IN \E saved \in BOOLEAN, result \in Results(done) :
             /\ saved => done /\ Len(archive) < MaxUploads
             /\ result = "success" => saved
             /\ archive' = IF saved THEN Upload(j, body) ELSE archive
             /\ tasks' = [tasks EXCEPT ![j] = IF result = "failure" THEN [t EXCEPT !.result = result]
                            ELSE [t EXCEPT !.hit = hit, !.fallback = (hit = 0), !.repack = repack, !.result = result]]
             /\ proved' = IF saved /\ hit # 0 /\ archive[hit].run # j
                          THEN proved \cup {[sha |-> t.sha, body |-> body]} ELSE proved
  BY <1>1, Zenon
<1> DEFINE repack == hit = 0 /\ packs
<1>5. PICK body : body = IF hit # 0 THEN archive[hit].body
                       ELSE IF repack /\ t.release.body.sha # t.sha
                       THEN Body(t.sha, t.release.body.seed, Len(archive) + 1) ELSE t.release.body
  OBVIOUS
<1>6. PICK saved \in BOOLEAN, result \in {"failure", "success"} :
        /\ saved => Identified(body, t.sha)
        /\ result = "success" => saved
        /\ archive' = IF saved THEN Upload(j, body) ELSE archive
        /\ tasks' = [tasks EXCEPT ![j] = IF result = "failure" THEN [t EXCEPT !.result = result]
                       ELSE [t EXCEPT !.hit = hit, !.fallback = (hit = 0), !.repack = repack, !.result = result]]
        /\ proved' = IF saved /\ hit # 0 /\ archive[hit].run # j
                     THEN proved \cup {[sha |-> t.sha, body |-> body]} ELSE proved
  BY <1>4, <1>5 DEF Results
<1>7. /\ t \in TaskStates /\ TaskSound(t, j) /\ t.result = "running" /\ t.kind \in Checks
      /\ ~t.fallback /\ t.hit = 0
      /\ t.release \in Pins /\ t.release.receipt \in receipts /\ t.sha \in Shas
  BY <1>1, Elements, TaskFields DEF RecoveryInv, RecoveryTypes, TaskSound
<1>8. hit # 0 => hit \in DOMAIN archive /\ archive[hit] \in Uploads
  BY Found, Elements DEF RecoveryInv, RecoveryTypes
<1>9. hit \in Nat
  BY <1>8, Elements DEF RecoveryInv, RecoveryTypes
<1> HIDE DEF hit
<1>10. /\ UNCHANGED <<close, config, collected, receipts>>
       /\ proved \in SUBSET Proofs /\ \A p \in proved : p.body.sha = p.sha
       /\ close \in Nat /\ Len(archive) \in Nat
  <2>1. UNCHANGED <<close, config, collected, receipts>>
    BY Zenon DEF Recover
  <2>2. QED BY <2>1 DEF RecoveryInv, RecoveryTypes, ProofsSound
<1>11. body \in Bundles
  <2>1. t.release.body \in Bundles /\ t.release.body.seed \in Nat
    BY <1>7, PinFields DEF Bundles
  <2>2. hit # 0 => archive[hit].body \in Bundles
    BY <1>8 DEF Uploads
  <2>3. Body(t.sha, t.release.body.seed, Len(archive) + 1) \in Bundles
    BY <1>7, <1>10, <2>1, BodyType
  <2>4. QED BY <1>5, <2>1, <2>2, <2>3
<1>12. saved => body.sha = t.sha /\ body.seed <= close
  BY <1>6 DEF Identified
<1>13. archive' = archive \/ (archive' = Upload(j, body) /\ body.sha = tasks[j].sha /\ body.seed <= close)
  BY <1>6, <1>12
<1>14. /\ proved' \in SUBSET Proofs /\ proved \subseteq proved'
       /\ \A p \in proved' : p.body.sha = p.sha
  <2>1. [sha |-> t.sha, body |-> body] \in Proofs
    BY <1>7, <1>11 DEF Proofs
  <2>2. QED BY <1>6, <1>10, <1>12, <2>1
<1>15. \A k \in DOMAIN archive : k \in DOMAIN archive' /\ archive'[k] = archive[k]
  <2>1. CASE archive' = archive
    BY <2>1
  <2>2. CASE archive' = Upload(j, body) /\ body.sha = tasks[j].sha /\ body.seed <= close
    <3>1. DOMAIN tasks' = DOMAIN tasks
      BY <1>6
    <3>2. QED BY <1>10, <1>11, <1>14, <2>2, <3>1, UploadKept DEF Grows
  <2>3. QED BY <1>13, <2>1, <2>2
<1>16. CASE result = "failure"
  <2>1. PICK n : n = [t EXCEPT !.result = "failure"]
    OBVIOUS
  <2>2. /\ n \in TaskStates /\ n.kind = t.kind /\ n.sha = t.sha /\ n.release = t.release
        /\ n.result = "failure" /\ ~n.fallback
    BY <1>7, <2>1 DEF TaskStates
  <2>3. tasks' = [tasks EXCEPT ![j] = n]
    BY <1>6, <1>16, <2>1
  <2>4. TaskSound(n, j)'
    BY <1>7, <1>10, <2>2 DEF TaskSound, Green, Checks
  <2>5. QED BY <1>10, <1>11, <1>13, <1>14, <2>2, <2>3, <2>4, EndKeeps
<1>17. CASE result = "success"
  <2>1. PICK n : n = [t EXCEPT !.hit = hit, !.fallback = (hit = 0), !.repack = repack, !.result = result]
    OBVIOUS
  <2>2. /\ n \in TaskStates /\ n.kind = t.kind /\ n.sha = t.sha /\ n.release = t.release
        /\ n.result = "success" /\ n.hit = hit
    BY <1>7, <1>9, <1>17, <2>1 DEF TaskStates
  <2>3. tasks' = [tasks EXCEPT ![j] = n]
    BY <1>6, <1>17, <2>1
  <2>4. hit # 0 => /\ hit \in DOMAIN archive' /\ archive'[hit].body = body
                   /\ archive'[hit].run # j => [sha |-> n.sha, body |-> body] \in proved'
    BY <1>5, <1>6, <1>8, <1>15, <1>17, <2>2
  <2>5. TaskSound(n, j)'
    BY <1>7, <1>10, <2>2, <2>4 DEF TaskSound, Green, Checks
  <2>6. QED BY <1>10, <1>11, <1>13, <1>14, <2>2, <2>3, <2>5, EndKeeps
<1>18. QED BY <1>6, <1>16, <1>17

LEMMA ExpireKeeps == RecoveryInv /\ Expire => RecoveryInv'
<1> SUFFICES ASSUME RecoveryInv, Expire PROVE RecoveryInv'
  OBVIOUS
<1>1. PICK k \in DOMAIN archive : archive' = [archive EXCEPT ![k].live = FALSE]
  BY DEF Expire
<1>2. UNCHANGED <<close, tasks, config, collected, receipts, proved>>
  BY DEF Expire
<1>3. PICK u : u = archive[k]
  OBVIOUS
<1>4. u \in Uploads
  BY <1>3, Elements DEF RecoveryInv, RecoveryTypes
<1>5. PICK v : v = [u EXCEPT !.live = FALSE]
  OBVIOUS
<1>6. v \in Uploads /\ v.sha = u.sha /\ v.run = u.run /\ v.body = u.body /\ v.at = u.at
  BY <1>4, <1>5 DEF Uploads
<1>7. archive' = [archive EXCEPT ![k] = v]
  BY <1>1, <1>3, <1>5
<1>8. /\ archive' \in Seq(Uploads) /\ DOMAIN archive' = DOMAIN archive
      /\ \A i \in DOMAIN archive : archive'[i] = IF i = k THEN v ELSE archive[i]
  BY <1>6, <1>7, Replaced DEF RecoveryInv, RecoveryTypes
<1>9. \A i \in DOMAIN archive : /\ archive'[i].sha = archive[i].sha /\ archive'[i].run = archive[i].run
                                /\ archive'[i].body = archive[i].body /\ archive'[i].at = archive[i].at
  BY <1>3, <1>6, <1>8
<1>10. Grows
  BY <1>2, <1>8, <1>9 DEF Grows
<1>11. \A i \in DOMAIN archive' : UploadSound(archive[i])'
  BY <1>2, <1>8, <1>9, <1>10, UploadsStay DEF RecoveryInv, RecoveryTypes
<1>12. \A i \in DOMAIN tasks' : TaskSound(tasks[i], i)'
  BY <1>2, <1>10, TasksStay DEF RecoveryInv
<1>13. RecoveryTypes' /\ ProofsSound' /\ (config.receipt \in receipts)' /\ CollectedSound'
  BY <1>2, <1>8, <1>10, CollectedStays DEF RecoveryInv, RecoveryTypes, ProofsSound
<1>14. QED BY <1>11, <1>12, <1>13 DEF RecoveryInv

\* The one upload of a run.
LEMMA OneUpload ==
  ASSUME RecoveryInv, NEW i \in DOMAIN tasks, Cardinality(UploadsOf(i)) = 1
  PROVE  Max(UploadsOf(i)) \in UploadsOf(i)
<1> DEFINE S == UploadsOf(i)
<1>1. PICK n \in Int : n = Len(archive) /\ DOMAIN archive = 1 .. n
  BY DEF RecoveryInv, RecoveryTypes
<1>2. S \in SUBSET Int /\ \A x \in S : x <= n
  BY <1>1 DEF UploadsOf
<1>3. S # {}
  BY FS_EmptySet
<1> HIDE DEF S
<1>4. Max(S) \in S
  BY <1>2, <1>3, MaxIs
<1>5. QED BY <1>4 DEF S

LEMMA CollectKeeps == RecoveryInv /\ Collect => RecoveryInv'
<1> SUFFICES ASSUME RecoveryInv, Collect PROVE RecoveryInv'
  OBVIOUS
<1>1. PICK p, c \in DOMAIN tasks :
        /\ GreenRecovery(p) /\ GreenRecovery(c)
        /\ Cardinality(UploadsOf(p)) = 1 /\ Cardinality(UploadsOf(c)) = 1
        /\ collected' = [producer |-> p, consumer |-> c, p |-> tasks[p], c |-> tasks[c],
                         pu |-> Max(UploadsOf(p)), cu |-> Max(UploadsOf(c))]
  BY DEF Collect
<1>2. UNCHANGED <<close, archive, tasks, config, receipts, proved>>
  BY DEF Collect
<1>3. Grows
  BY <1>2 DEF Grows
<1>4. CollectedSound'
  <2>1. Max(UploadsOf(p)) \in UploadsOf(p) /\ Max(UploadsOf(c)) \in UploadsOf(c)
    BY <1>1, OneUpload
  <2>2. Green(tasks[p]) /\ Green(tasks[c])
    BY <1>1 DEF GreenRecovery, Green, Checks
  <2>3. QED BY <1>1, <1>2, <2>1, <2>2 DEF CollectedSound, Green, UploadsOf
<1>5. \A i \in DOMAIN archive' : UploadSound(archive[i])'
  BY <1>2, <1>3, UploadsStay DEF RecoveryInv, RecoveryTypes
<1>6. \A i \in DOMAIN tasks' : TaskSound(tasks[i], i)'
  BY <1>2, <1>3, TasksStay DEF RecoveryInv
<1>7. RecoveryTypes' /\ ProofsSound' /\ (config.receipt \in receipts)'
  BY <1>2 DEF RecoveryInv, RecoveryTypes, ProofsSound
<1>8. QED BY <1>4, <1>5, <1>6, <1>7 DEF RecoveryInv

\* What the verifier accepts, some run has proved, and both its runs still stand.
LEMMA PairStands ==
  ASSUME RecoveryInv, collected # Nothing, Recheck, NEW sha \in Shas, SamePair(sha)
  PROVE  LET p == collected.producer
             c == collected.consumer
             body == archive[collected.pu].body
         IN /\ [sha |-> sha, body |-> body] \in Proofs \cap proved
            /\ p \in DOMAIN tasks /\ c \in DOMAIN tasks /\ p # c /\ GreenRecovery(p) /\ GreenRecovery(c)
            /\ collected.pu \in UploadsOf(p) /\ tasks[c].hit = collected.pu
            /\ UploadsOf(c) # {}
<1> DEFINE p == collected.producer
           c == collected.consumer
           a == archive[collected.pu]
<1>1. /\ p \in DOMAIN tasks /\ c \in DOMAIN tasks
      /\ Green(collected.p) /\ Green(collected.c)
      /\ collected.pu \in DOMAIN archive /\ a.run = p
      /\ collected.cu \in DOMAIN archive /\ archive[collected.cu].run = c
  BY DEF RecoveryInv, CollectedSound
<1>2. /\ tasks[p] = collected.p /\ tasks[c] = collected.c /\ a.live /\ archive[collected.cu].live
  BY DEF Recheck
<1>3. /\ p # c /\ tasks[c].sha = sha /\ tasks[c].hit = collected.pu /\ a.sha = sha
  BY <1>2 DEF SamePair
<1>4. Green(tasks[p]) /\ Green(tasks[c]) /\ GreenRecovery(p) /\ GreenRecovery(c)
  BY <1>1, <1>2 DEF GreenRecovery, Green, Checks
<1>5. collected.pu # 0 /\ a \in Uploads
  BY <1>1, Elements DEF RecoveryInv, RecoveryTypes
<1>6. TaskSound(tasks[c], c)
  BY <1>1 DEF RecoveryInv
<1>7. [sha |-> sha, body |-> a.body] \in proved
  BY <1>1, <1>3, <1>4, <1>5, <1>6 DEF TaskSound
<1>8. QED BY <1>1, <1>2, <1>3, <1>4, <1>5, <1>7 DEF UploadsOf, Proofs, RecoveryInv, RecoveryTypes

LEMMA IssueKeeps == RecoveryInv /\ IssueReceipt => RecoveryInv'
<1> SUFFICES ASSUME RecoveryInv, IssueReceipt PROVE RecoveryInv'
  OBVIOUS
<1>1. PICK sha \in Shas :
        receipts' = IF Recheck /\ SamePair(sha)
                    THEN receipts \cup {[sha |-> sha, body |-> archive[collected.pu].body]} ELSE receipts
  BY DEF IssueReceipt
<1>2. collected # Nothing /\ collected' = Nothing /\ UNCHANGED <<close, archive, tasks, config, proved>>
  BY DEF IssueReceipt
<1>3. receipts \subseteq receipts' /\ receipts' \in SUBSET Proofs /\ receipts' \subseteq proved
  BY <1>1, <1>2, PairStands DEF RecoveryInv, RecoveryTypes, ProofsSound
<1>4. Grows
  BY <1>2, <1>3 DEF Grows
<1>5. \A i \in DOMAIN archive' : UploadSound(archive[i])'
  BY <1>2, <1>4, UploadsStay DEF RecoveryInv, RecoveryTypes
<1>6. \A i \in DOMAIN tasks' : TaskSound(tasks[i], i)'
  BY <1>2, <1>4, TasksStay DEF RecoveryInv
<1>7. RecoveryTypes' /\ ProofsSound' /\ (config.receipt \in receipts)' /\ CollectedSound'
  BY <1>2, <1>3, <1>4, CollectedStays DEF RecoveryInv, RecoveryTypes, ProofsSound
<1>8. QED BY <1>5, <1>6, <1>7 DEF RecoveryInv

LEMMA ReleaseKeeps == RecoveryInv /\ Release => RecoveryInv'
<1> SUFFICES ASSUME RecoveryInv, Release PROVE RecoveryInv'
  OBVIOUS
<1>1. PICK sha \in Shas, from \in {0} \cup Shas, r \in {config.receipt} \cup receipts,
           body \in {config.body} \cup {archive[k].body : k \in DOMAIN archive} :
        config' = [sha |-> sha, from |-> from, body |-> body, receipt |-> r]
  BY DEF Release
<1>2. UNCHANGED <<close, archive, tasks, collected, receipts, proved>>
  BY DEF Release
<1>3. body \in Bundles
  <2>1. config.body \in Bundles
    BY PinFields DEF RecoveryInv, RecoveryTypes
  <2>2. ASSUME NEW k \in DOMAIN archive PROVE archive[k].body \in Bundles
    <3>1. archive[k] \in Uploads
      BY Elements DEF RecoveryInv, RecoveryTypes
    <3>2. QED BY <3>1 DEF Uploads
  <2>3. QED BY <1>1, <2>1, <2>2
<1>4. r \in receipts /\ r \in Proofs
  BY <1>1 DEF RecoveryInv, RecoveryTypes
<1>5. config' \in Pins /\ config'.receipt = r
  BY <1>1, <1>3, <1>4 DEF Pins
<1>6. Grows
  BY <1>2 DEF Grows
<1>7. \A i \in DOMAIN archive' : UploadSound(archive[i])'
  BY <1>2, <1>6, UploadsStay DEF RecoveryInv, RecoveryTypes
<1>8. \A i \in DOMAIN tasks' : TaskSound(tasks[i], i)'
  BY <1>2, <1>6, TasksStay DEF RecoveryInv
<1>9. RecoveryTypes' /\ ProofsSound' /\ (config.receipt \in receipts)' /\ CollectedSound'
  BY <1>2, <1>4, <1>5, <1>6, CollectedStays DEF RecoveryInv, RecoveryTypes, ProofsSound
<1>10. QED BY <1>7, <1>8, <1>9 DEF RecoveryInv

LEMMA RecoveryStays == RecoveryInv /\ UNCHANGED recovery => RecoveryInv'
<1> SUFFICES ASSUME RecoveryInv, UNCHANGED recovery PROVE RecoveryInv'
  OBVIOUS
<1>1. UNCHANGED <<close, archive, tasks, config, collected, receipts, proved>>
  BY DEF recovery
<1>2. Grows
  BY <1>1 DEF Grows
<1>3. \A i \in DOMAIN archive' : UploadSound(archive[i])'
  BY <1>1, <1>2, UploadsStay DEF RecoveryInv, RecoveryTypes
<1>4. \A i \in DOMAIN tasks' : TaskSound(tasks[i], i)'
  BY <1>1, <1>2, TasksStay DEF RecoveryInv
<1>5. RecoveryTypes' /\ ProofsSound' /\ (config.receipt \in receipts)' /\ CollectedSound'
  BY <1>1, <1>2, CollectedStays DEF RecoveryInv, RecoveryTypes, ProofsSound
<1>6. QED BY <1>3, <1>4, <1>5 DEF RecoveryInv

LEMMA RecoveryMoves == RecoveryInv /\ [RecoveryNext]_recovery => RecoveryInv'
BY CloseKeeps, StartKeeps, RerunKeeps, DeliverKeeps, RecoverKeeps, ExpireKeeps, CollectKeeps,
   IssueKeeps, ReleaseKeeps, RecoveryStays DEF RecoveryNext

\* What the invariant says of the deliveries and the archives.
LEMMA RecoverySound == RecoveryInv => DeliveriesAreRecoverable /\ ArchiveBearsItsName
<1> SUFFICES ASSUME RecoveryInv PROVE DeliveriesAreRecoverable /\ ArchiveBearsItsName
  OBVIOUS
<1>1. DeliveriesAreRecoverable
  <2>1. ASSUME NEW i \in DOMAIN tasks, tasks[i].kind = "close", tasks[i].fallback PROVE Stands(tasks[i])
    BY <2>1 DEF RecoveryInv, TaskSound
  <2>2. QED BY <2>1 DEF DeliveriesAreRecoverable, Stands
<1>2. ArchiveBearsItsName
  BY DEF RecoveryInv, UploadSound, ArchiveBearsItsName
<1>3. QED BY <1>1, <1>2

\* A new receipt is of two standing runs, whatever the step.
LEMMA ReceiptStands ==
  RecoveryInv /\ [RecoveryNext]_recovery =>
    \A r \in receipts' \ receipts :
       \E p, c \in DOMAIN tasks :
         /\ p # c /\ GreenRecovery(p) /\ GreenRecovery(c)
         /\ \E k \in UploadsOf(p) : tasks[c].hit = k /\ archive[k].body = r.body
         /\ UploadsOf(c) # {}
<1> SUFFICES ASSUME RecoveryInv, [RecoveryNext]_recovery, NEW r \in receipts' \ receipts
             PROVE  \E p, c \in DOMAIN tasks :
                      /\ p # c /\ GreenRecovery(p) /\ GreenRecovery(c)
                      /\ \E k \in UploadsOf(p) : tasks[c].hit = k /\ archive[k].body = r.body
                      /\ UploadsOf(c) # {}
  OBVIOUS
<1>1. IssueReceipt
  <2>1. /\ NextClose => receipts' = receipts
        /\ StartTask => receipts' = receipts
        /\ RerunTask => receipts' = receipts
    BY DEF NextClose, StartTask, RerunTask
  <2>2. Deliver => receipts' = receipts
    BY Zenon DEF Deliver
  <2>3. Recover => receipts' = receipts
    BY Zenon DEF Recover
  <2>4. /\ Expire => receipts' = receipts
        /\ Collect => receipts' = receipts
        /\ Release => receipts' = receipts
        /\ UNCHANGED recovery => receipts' = receipts
    BY Zenon DEF Expire, Collect, Release, recovery
  <2>5. receipts' # receipts
    OBVIOUS
  <2>6. QED BY <2>1, <2>2, <2>3, <2>4, <2>5, Zenon DEF RecoveryNext
<1>2. collected # Nothing
  BY <1>1 DEF IssueReceipt
<1>3. PICK sha \in Shas : Recheck /\ SamePair(sha) /\ r = [sha |-> sha, body |-> archive[collected.pu].body]
  BY <1>1 DEF IssueReceipt
<1>4. QED BY <1>2, <1>3, PairStands

-------------------------------------------------------------------------------
(* Months and readings of the weekly monitor.                                    *)

\* The rows of a calendar are its months, one after the other.
LEMMA RowsOfAnInterval ==
  ASSUME NEW lo \in Int, NEW hi \in Int, NEW n \in Nat, n = IF lo <= hi THEN hi - lo + 1 ELSE 0
  PROVE  SortedRows(lo .. hi) = [k \in 1 .. n |-> lo + k - 1]
<1>1. Cardinality(lo .. hi) = n
  BY FS_Interval
<1>2. ASSUME NEW k \in 1 .. n
      PROVE  (CHOOSE m \in lo .. hi : Cardinality({x \in lo .. hi : x <= m}) = k) = lo + k - 1
  <2>1. \A m \in lo .. hi : Cardinality({x \in lo .. hi : x <= m}) = m - lo + 1
    <3>1. ASSUME NEW m \in lo .. hi PROVE Cardinality({x \in lo .. hi : x <= m}) = m - lo + 1
      <4>1. {x \in lo .. hi : x <= m} = lo .. m
        OBVIOUS
      <4>2. Cardinality(lo .. m) = m - lo + 1
        BY FS_Interval
      <4>3. QED BY <4>1, <4>2
    <3>2. QED BY <3>1
  <2>2. lo + k - 1 \in lo .. hi
    BY <1>2
  <2>3. \A m \in lo .. hi : Cardinality({x \in lo .. hi : x <= m}) = k <=> m = lo + k - 1
    BY <2>1, <1>2
  <2> DEFINE P(m) == m \in lo .. hi /\ Cardinality({x \in lo .. hi : x <= m}) = k
  <2>4. \E m : P(m)
    BY <2>2, <2>3
  <2>5. PICK c : c = CHOOSE m \in lo .. hi : Cardinality({x \in lo .. hi : x <= m}) = k
    OBVIOUS
  <2>6. P(c)
    BY <2>2, <2>3, <2>5, Zenon
  <2>7. QED BY <2>3, <2>5, <2>6
<1>3. QED BY <1>1, <1>2 DEF SortedRows

\* A month is scored when every month of its means' windows is present.
LEMMA ScoredIsWhole ==
  ASSUME NEW rows \in SUBSET Nat, rows # {}, NEW top \in Nat, \A r \in rows : r <= top,
         NEW present, NEW ma \in Nat \ {0}, NEW window \in Nat \ {0},
         NEW m \in Scored(rows, present, ma, window)
  PROVE  m \in Int /\ m <= top /\ \A x \in m - ma - window + 2 .. m : x \in present
<1>1. PICK lo, hi : lo = Min(rows) /\ hi = Max(rows)
  OBVIOUS
<1>2. hi \in rows /\ \A r \in rows : r <= hi
  BY <1>1, MaxIs
<1>3. lo \in rows /\ \A r \in rows : lo <= r
  <2>1. PICK least \in rows : \A r \in rows : least <= r
    BY LeastOf
  <2>2. QED BY <1>1, <2>1, Zenon DEF Min
<1>4. lo \in Nat /\ hi \in Nat /\ lo <= hi
  BY <1>2, <1>3
<1>5. PICK n \in Nat : n = hi - lo + 1
  BY <1>4
<1>6. PICK months : months = [k \in 1 .. n |-> lo + k - 1]
  OBVIOUS
<1>7. SortedRows(Calendar(rows)) = months
  <2>1. Calendar(rows) = lo .. hi
    BY <1>1 DEF Calendar
  <2>2. lo \in Int /\ hi \in Int /\ n = IF lo <= hi THEN hi - lo + 1 ELSE 0
    BY <1>4, <1>5
  <2>3. QED BY <1>6, <2>1, <2>2, RowsOfAnInterval
<1>8. PICK mean : mean = {k \in DOMAIN months : k >= ma /\ \A j \in k - ma + 1 .. k : months[j] \in present}
  OBVIOUS
<1>9. PICK k \in DOMAIN months : m = months[k] /\ k - window + 1 .. k \subseteq mean
  BY <1>7, <1>8, Zenon DEF Scored
<1>10. k \in 1 .. n /\ m = lo + k - 1
  BY <1>6, <1>9
<1>11. m \in Int /\ m <= top
  BY <1>2, <1>4, <1>5, <1>10
<1>12. ASSUME NEW x \in m - ma - window + 2 .. m PROVE x \in present
  <2>1. PICK i \in Int : i = x - lo + 1 /\ i <= k /\ i >= k - ma - window + 2
    BY <1>4, <1>10, <1>12
  <2>2. PICK j \in k - window + 1 .. k : i \in j - ma + 1 .. j
    <3>1. CASE i <= k - window + 1
      <4>1. k - window + 1 \in k - window + 1 .. k /\ i \in (k - window + 1) - ma + 1 .. k - window + 1
        BY <1>10, <2>1, <3>1
      <4>2. QED BY <4>1
    <3>2. CASE i > k - window + 1
      <4>1. i \in k - window + 1 .. k /\ i \in i - ma + 1 .. i
        BY <1>10, <2>1, <3>2
      <4>2. QED BY <4>1
    <3>3. QED BY <1>10, <2>1, <3>1, <3>2
  <2>3. j \in mean
    BY <1>9, <2>2
  <2>4. j \in 1 .. n /\ j >= ma /\ months[i] \in present
    BY <1>6, <1>8, <2>2, <2>3
  <2>5. i \in 1 .. n
    BY <2>1, <2>2, <2>4
  <2>6. months[i] = x
    BY <1>4, <1>6, <1>12, <2>1, <2>5
  <2>7. QED BY <2>4, <2>6
<1>13. QED BY <1>11, <1>12

\* Every month of the sheet is read as itself.
LEMMA MonthsAreRead == \A k \in 1 .. 12 : Parsed(k) = k
<1> TAKE k \in 1 .. 12
<1>1. CASE k = 10
  BY <1>1 DEF Parsed, Printed
<1>2. CASE k < 10
  BY <1>2 DEF Parsed, Printed
<1>3. CASE k > 10
  BY <1>3 DEF Parsed, Printed
<1>4. QED BY <1>1, <1>2, <1>3

LEMMA WholeWindows ==
  ASSUME NEW valuation, valuation.rows \in SUBSET Nat, NEW top \in Nat, \A r \in valuation.rows : r <= top,
         NEW term, NEW ma \in Nat \ {0}, NEW window \in Nat \ {0}
  PROVE  WindowsAreWhole(valuation, term, ma, window)
<1>1. PICK rows : rows = valuation.rows \cap term
  OBVIOUS
<1>2. rows \in SUBSET Nat /\ \A r \in rows : r <= top
  BY <1>1
<1>3. PICK both : both = Scored(rows, valuation.present, ma, window) \cap Scored(rows, term, ma, window)
  OBVIOUS
<1>4. PICK m : m = VariantMonth(valuation, term, ma, window)
  OBVIOUS
<1>5. m = IF rows = {} \/ both = {} THEN 0 ELSE Max(both)
  BY <1>1, <1>3, <1>4 DEF VariantMonth
<1>6. ASSUME m # 0 PROVE m - ma - window + 2 .. m \subseteq valuation.present \cap term
  <2>1. rows # {} /\ both # {} /\ m = Max(both)
    BY <1>5, <1>6
  <2>2. \A x \in both : x \in Int /\ x <= top
    BY <1>2, <1>3, <2>1, ScoredIsWhole
  <2>3. m \in both
    <3>1. both \in SUBSET Int /\ top \in Int
      BY <2>2
    <3>2. QED BY <2>1, <2>2, <3>1, MaxIs
  <2>4. m \in Scored(rows, valuation.present, ma, window) /\ m \in Scored(rows, term, ma, window)
    BY <1>3, <2>3
  <2>5. \A x \in m - ma - window + 2 .. m : x \in valuation.present
    BY <1>2, <2>1, <2>4, ScoredIsWhole
  <2>6. \A x \in m - ma - window + 2 .. m : x \in term
    BY <1>2, <2>1, <2>4, ScoredIsWhole
  <2>7. QED BY <2>5, <2>6
<1>7. QED BY <1>4, <1>6, MonthsAreRead DEF WindowsAreWhole

-------------------------------------------------------------------------------
(* What the monitor concludes.                                                   *)

LEMMA NeverRelaxed ==
  ASSUME NEW w, NEW up \in SUBSET Sources
  PROVE  OutageNeverRelaxes(w, up)
<1>1. PICK e : e = Evidence(w, up)
  OBVIOUS
<1>2. PICK all : all = IF e.term = "h15" THEN Sources \ {"fred"} ELSE Sources
  OBVIOUS
<1>3. PICK whole : whole = Evidence(w, all)
  OBVIOUS
<1>4. /\ Suggestion(e) \in 0 .. 3 /\ (~Usable(e) => Suggestion(e) = 3)
      /\ Suggestion(whole) \in 0 .. 3
  BY DEF Suggestion
<1>5. CASE ~Usable(e)
  BY <1>1, <1>2, <1>3, <1>4, <1>5 DEF OutageNeverRelaxes
<1>6. CASE Usable(e)
  <2>1. "shiller" \in up /\ e.term # "none"
    <3>1. SUFFICES ASSUME ~("shiller" \in up /\ e.term # "none") PROVE FALSE
      OBVIOUS
    <3>2. \A k \in Variants : e.v[k] = NoVariant
      BY <1>1, <3>1 DEF Evidence
    <3>3. \A k \in Variants : e.v[k].month = 0
      BY <3>2 DEF NoVariant
    <3>4. Current(e) = {}
      BY <3>3 DEF Current
    <3>5. QED BY <1>6, <3>4 DEF Usable, CoreState, Capes
  <2>2. "shiller" \in all /\ whole.term = e.term
    BY <1>1, <1>2, <1>3, <2>1 DEF Evidence, Sources
  <2>3. /\ e.v = whole.v /\ e.gen = whole.gen
        /\ e.m1 = whole.m1 /\ e.m3 = whole.m3 /\ e.m12 = whole.m12
    BY <1>1, <1>3, <2>1, <2>2 DEF Evidence
  <2>4. whole.market /\ (e.vix = whole.vix \/ e.vix = "missing")
    BY <1>1, <1>2, <1>3 DEF Evidence, Sources
  <2>5. Current(e) = Current(whole) /\ CoreState(e) = CoreState(whole) /\ Conflict(e) = Conflict(whole)
    BY <2>3 DEF Current, CoreState, Conflict
  <2>6. Usable(whole)
    BY <1>6, <2>4, <2>5 DEF Usable
  <2>7. Suggestion(e) >= Suggestion(whole)
    BY <1>6, <2>3, <2>4, <2>5, <2>6 DEF Suggestion
  <2>8. QED BY <1>1, <1>2, <1>3, <2>7 DEF OutageNeverRelaxes
<1>7. QED BY <1>5, <1>6

LEMMA StaleIsInert ==
  ASSUME NEW w, w.m12 \in Int, w.m1 \in Int, NEW up
  PROVE  StaleEvidenceIsInert(Evidence(w, up))
<1>1. PICK e : e = Evidence(w, up)
  OBVIOUS
<1>2. PICK stale : stale = {k \in Variants : e.v[k].month # e.v["cape10"].month}
  OBVIOUS
<1>3. PICK v : v = [k \in Variants |-> IF k \in stale THEN NoVariant ELSE e.v[k]]
  OBVIOUS
<1>4. PICK clean : clean = [e EXCEPT !.v = v]
  OBVIOUS
<1>5. /\ clean.v = v /\ clean.gen = e.gen /\ clean.market = e.market /\ clean.vix = e.vix
      /\ clean.m1 = e.m1 /\ clean.m3 = e.m3 /\ clean.m12 = e.m12
      /\ e.m12 \in Int /\ e.m1 \in Int
  BY <1>1, <1>4 DEF Evidence
<1>6. "cape10" \in Variants /\ v["cape10"] = e.v["cape10"]
  BY <1>2, <1>3 DEF Variants
<1>7. NoVariant.month = 0
  BY DEF NoVariant
<1>8. Current(clean) = Current(e) /\ \A k \in Current(e) : clean.v[k] = e.v[k]
  BY <1>2, <1>3, <1>5, <1>6, <1>7 DEF Current
<1>9. {clean.v[k].extremes : k \in Current(clean)} = {e.v[k].extremes : k \in Current(e)}
  BY <1>8
<1>10. CoreState(clean) = CoreState(e)
  BY <1>8, <1>9 DEF CoreState
<1>11. Conflict(clean) = Conflict(e)
  <2>1. ASSUME NEW x \in {e, clean}
        PROVE  Conflict(x) <=>
                 (\/ /\ "cape10" \in Current(e) /\ "div10" \in Current(e)
                     /\ e.v["cape10"].tail = e.v["div10"].tail /\ e.v["cape10"].tail # "mid"
                  \/ /\ "cape20" \in Current(e) /\ "div20" \in Current(e)
                     /\ e.v["cape20"].tail = e.v["div20"].tail /\ e.v["cape20"].tail # "mid")
    BY <1>8, <2>1 DEF Conflict
  <2>2. Conflict(clean) \in BOOLEAN /\ Conflict(e) \in BOOLEAN
    BY Zenon DEF Conflict
  <2>3. QED BY <2>1, <2>2
<1>12. Usable(clean) = Usable(e)
  BY <1>5, <1>10 DEF Usable
<1>13. Stance(clean) = Stance(e) /\ Suggestion(clean) = Suggestion(e)
  BY <1>5, <1>10, <1>11, <1>12 DEF Stance, Suggestion
<1>14. Suggestion(e) = 0 => Stance(e) \in {"track", "extreme"}
  BY <1>5 DEF Stance, Suggestion
<1>15. Stance(e) \in {"insufficient", "defensive"} => Suggestion(e) >= 2
  BY <1>5 DEF Stance, Suggestion
<1>16. QED BY <1>1, <1>2, <1>3, <1>4, <1>10, <1>13, <1>14, <1>15 DEF StaleEvidenceIsInert

-------------------------------------------------------------------------------
(* The chain of the weekly monitor.                                              *)

ReportSet == [at : Nat, method : Nat]
Phases == {"restore", "build", "send", "save", "conclude"}
JobSet == [phase : Phases, id : Nat \ {0}, attempt : Nat, send : BOOLEAN, base : ReportSet, report : ReportSet]
Snapshots == [key : (Nat \ {0}) \X Nat, report : ReportSet]
Attempted == [id : Nat \ {0}, attempt : Nat, send : BOOLEAN]
Letters == [report : ReportSet, base : ReportSet]

EquityTypes ==
  /\ moment \in Nat \ {0} /\ method \in Nat \ {0}
  /\ cache \in Seq(Snapshots)
  /\ jobs \in SUBSET JobSet /\ pending \in JobSet \cup {Idle}
  /\ pending # Idle => pending.phase = "restore"
  /\ ended \in SUBSET Attempted /\ letters \in SUBSET Letters

\* One job at a time, one place for every run.
RunsApart ==
  /\ \A j, k \in jobs : j = k
  /\ \A p, q \in ended : p.id = q.id => p = q
  /\ \A p \in ended, j \in jobs : p.id # j.id
  /\ pending # Idle => (\A p \in ended : p.id # pending.id) /\ (\A j \in jobs : j.id # pending.id)
  /\ \E n \in Nat : RunIds = 1 .. n

\* A snapshot was saved by an attempt that was made, and a key is not used twice.
KeysKnown ==
  \A i \in DOMAIN cache :
    LET id == cache[i].key[1]
        attempt == cache[i].key[2]
    IN /\ id \in RunIds
       /\ \A p \in ended : id = p.id => attempt <= p.attempt
       /\ \A j \in jobs : id = j.id => attempt <= j.attempt
       /\ \A j \in jobs : id = j.id /\ j.phase # "conclude" => attempt < j.attempt
       /\ pending # Idle /\ id = pending.id => attempt < pending.attempt

Sent == {n.report : n \in letters}
\* The snapshots are of mails, oldest first; the report of a mail is in the cache, lost,
\* or about to be saved.
MailsKept ==
  /\ \A i, k \in DOMAIN cache : i < k => cache[i].report.at < cache[k].report.at
  /\ \A i \in DOMAIN cache : cache[i].report \in Sent
  /\ \A n \in letters : 0 < n.report.at /\ n.report.at < moment
  /\ \A n \in letters : \/ n.report \in lost
                        \/ \E i \in DOMAIN cache : cache[i].report = n.report
                        \/ \E j \in jobs : j.phase = "save" /\ j.report = n.report
  /\ ComparedWithTheLastMail

\* What a job has restored is the newest report still kept.
NewestKept(base) ==
  base # NoReport => base \in Sent /\ \A n \in letters : base.at < n.report.at => n.report \in lost
JobSound(j) ==
  /\ j.phase \in {"build", "send"} => NewestKept(j.base)
  /\ j.phase = "send" =>
       /\ 0 < j.report.at /\ j.report.at < moment
       /\ \A n \in letters : n.report.at < j.report.at
       /\ j.base # NoReport => j.base.method = j.report.method /\ j.report.at - j.base.at \in 1 .. MaxAge
  /\ j.phase = "save" =>
       j.report \in Sent /\ \A i \in DOMAIN cache : cache[i].report.at < j.report.at

EquityInv == EquityTypes /\ RunsApart /\ KeysKnown /\ MailsKept /\ \A j \in jobs : JobSound(j)

LEMMA EquityFields ==
  /\ NoReport \in ReportSet
  /\ \A j \in JobSet : /\ j.phase \in Phases /\ j.id \in Nat \ {0} /\ j.attempt \in Nat
                       /\ j.send \in BOOLEAN /\ j.base \in ReportSet /\ j.report \in ReportSet
                       /\ j # Idle /\ Past(j) \in Attempted
                       /\ Past(j).id = j.id /\ Past(j).attempt = j.attempt
  /\ Idle.id = 0
  /\ \A p \in Attempted : p.id \in Nat \ {0} /\ p.attempt \in Nat /\ p.send \in BOOLEAN
  /\ \A r \in ReportSet : r.at \in Nat /\ r.method \in Nat
  /\ \A m \in Letters : m.report \in ReportSet /\ m.base \in ReportSet
  /\ \A s \in Snapshots : s.key[1] \in Nat \ {0} /\ s.key[2] \in Nat /\ s.report \in ReportSet
<1>1. NoReport \in ReportSet
  BY DEF NoReport, ReportSet
<1>2. Idle.id = 0
  BY DEF Idle
<1>3. ASSUME NEW j \in JobSet
      PROVE  /\ j.phase \in Phases /\ j.id \in Nat \ {0} /\ j.attempt \in Nat
             /\ j.send \in BOOLEAN /\ j.base \in ReportSet /\ j.report \in ReportSet
  BY <1>3 DEF JobSet
<1>4. ASSUME NEW j \in JobSet
      PROVE  /\ j # Idle /\ Past(j) \in Attempted
             /\ Past(j).id = j.id /\ Past(j).attempt = j.attempt
  BY <1>2, <1>3, <1>4 DEF Past, Attempted
<1>5. \A p \in Attempted : p.id \in Nat \ {0} /\ p.attempt \in Nat /\ p.send \in BOOLEAN
  BY DEF Attempted
<1>6. \A r \in ReportSet : r.at \in Nat /\ r.method \in Nat
  BY DEF ReportSet
<1>7. \A m \in Letters : m.report \in ReportSet /\ m.base \in ReportSet
  BY DEF Letters
<1>8. \A s \in Snapshots : s.key[1] \in Nat \ {0} /\ s.key[2] \in Nat /\ s.report \in ReportSet
  BY DEF Snapshots
<1>9. QED BY <1>1, <1>2, <1>3, <1>4, <1>5, <1>6, <1>7, <1>8

LEMMA CacheElement ==
  ASSUME EquityTypes, NEW i \in DOMAIN cache
  PROVE  cache[i] \in Snapshots /\ i \in Nat
BY DEF EquityTypes

LEMMA EquityStarts == EquityInit => EquityInv
<1> SUFFICES ASSUME EquityInit PROVE EquityInv
  OBVIOUS
<1>1. EquityTypes
  BY DEF EquityInit, EquityTypes
<1>2. RunIds = 1 .. 0
  BY EquityFields DEF EquityInit, RunIds
<1>3. cache = <<>> /\ DOMAIN cache = {} /\ jobs = {} /\ pending = Idle /\ ended = {} /\ letters = {}
  BY DEF EquityInit
<1>4. RunsApart
  BY <1>2, <1>3 DEF RunsApart
<1>5. KeysKnown /\ MailsKept /\ \A j \in jobs : JobSound(j)
  BY <1>3 DEF KeysKnown, MailsKept, ComparedWithTheLastMail, Sent
<1>6. QED BY <1>1, <1>4, <1>5 DEF EquityInv

\* No mail, snapshot or job changes, time may pass.
LEMMA MailsStay ==
  ASSUME EquityInv, UNCHANGED <<cache, jobs, letters, lost>>, moment' \in Nat, moment <= moment'
  PROVE  MailsKept' /\ \A j \in jobs' : JobSound(j)'
<1>1. \A n \in letters : 0 < n.report.at /\ n.report.at < moment'
  BY EquityFields DEF EquityInv, MailsKept, EquityTypes
<1>2. Sent' = Sent /\ ComparedWithTheLastMail'
  BY DEF EquityInv, MailsKept, Sent, ComparedWithTheLastMail
<1>3. MailsKept'
  BY <1>1, <1>2 DEF EquityInv, MailsKept
<1>4. ASSUME NEW j \in jobs PROVE JobSound(j)'
  <2>1. JobSound(j) /\ j.report.at \in Nat /\ moment \in Nat
    BY EquityFields DEF EquityInv, EquityTypes
  <2>2. NewestKept(j.base)' <=> NewestKept(j.base)
    BY <1>2 DEF NewestKept
  <2>3. QED BY <1>2, <2>1, <2>2 DEF JobSound
<1>5. QED BY <1>3, <1>4

LEMMA TimeKeeps == EquityInv /\ (Later \/ NewMethod) => EquityInv'
<1> SUFFICES ASSUME EquityInv, Later \/ NewMethod PROVE EquityInv'
  OBVIOUS
<1>1. UNCHANGED <<cache, jobs, pending, ended, letters, lost>>
  BY DEF Later, NewMethod
<1>2. moment' \in Nat \ {0} /\ method' \in Nat \ {0} /\ moment <= moment'
  BY DEF Later, NewMethod, EquityInv, EquityTypes
<1>3. EquityTypes' /\ RunIds' = RunIds
  BY <1>1, <1>2 DEF EquityInv, EquityTypes, RunIds
<1>4. RunsApart' /\ KeysKnown'
  BY <1>1, <1>3 DEF EquityInv, RunsApart, KeysKnown
<1>5. QED BY <1>1, <1>2, <1>3, <1>4, MailsStay DEF EquityInv

\* A run that waits: it is nowhere else, and no snapshot is of this attempt.
LEMMA EnqueueKeeps ==
  ASSUME EquityInv, NEW r \in Attempted, Enqueue(r),
         \A j \in jobs : j.id # r.id,
         pending # Idle => pending.id # r.id,
         \A i \in DOMAIN cache : cache[i].key[1] = r.id => cache[i].key[2] < r.attempt,
         NEW n \in Nat, RunIds \cup {r.id} = 1 .. n
  PROVE  EquityInv'
<1>1. PICK k : k = [Idle EXCEPT !.phase = "restore", !.id = r.id, !.attempt = r.attempt, !.send = r.send]
  OBVIOUS
<1>2. k \in JobSet /\ k.id = r.id /\ k.attempt = r.attempt /\ k # Idle /\ k.phase = "restore"
  BY <1>1, EquityFields DEF Idle, JobSet, Phases, Attempted
<1>3. /\ pending' = k
      /\ ended' = {p \in ended : p.id # r.id} \cup (IF pending = Idle THEN {} ELSE {Past(pending)})
      /\ UNCHANGED <<moment, method, cache, jobs, letters, lost>>
  BY <1>1 DEF Enqueue
<1>4. pending # Idle => pending \in JobSet /\ Past(pending) \in Attempted /\ Past(pending).id = pending.id
                        /\ Past(pending).attempt = pending.attempt
  BY EquityFields DEF EquityInv, EquityTypes
<1>5. EquityTypes'
  BY <1>2, <1>3, <1>4 DEF EquityInv, EquityTypes
<1>6. RunIds' = 1 .. n
  <2>1. 0 \notin RunIds' /\ 0 \notin RunIds
    BY DEF RunIds
  <2>2. ASSUME NEW x, x # 0 PROVE x \in RunIds' <=> x \in RunIds \cup {r.id}
    <3>1. x \in RunIds <=> (\E p \in ended : p.id = x) \/ (\E j \in jobs : j.id = x) \/ pending.id = x
      BY <2>2 DEF RunIds
    <3>2. x \in RunIds' <=> (\E p \in ended' : p.id = x) \/ (\E j \in jobs : j.id = x) \/ k.id = x
      BY <1>3, <2>2 DEF RunIds
    <3>3. pending = Idle => pending.id = 0
      BY EquityFields
    <3>4. (\E p \in ended' : p.id = x)
             <=> (\E p \in ended : p.id # r.id /\ p.id = x) \/ (pending # Idle /\ pending.id = x)
      BY <1>3, <1>4
    <3>5. QED BY <1>2, <2>2, <3>1, <3>2, <3>3, <3>4
  <2>3. r.id # 0
    BY EquityFields
  <2>4. QED BY <2>1, <2>2, <2>3
<1>7. RunsApart'
  <2>1. \A p, q \in ended' : p.id = q.id => p = q
    BY <1>3, <1>4 DEF EquityInv, RunsApart
  <2>2. \A p \in ended', j \in jobs' : p.id # j.id
    BY <1>3, <1>4 DEF EquityInv, RunsApart
  <2>3. (\A p \in ended' : p.id # pending'.id) /\ (\A j \in jobs' : j.id # pending'.id)
    BY <1>2, <1>3, <1>4
  <2>4. QED BY <1>3, <1>6, <2>1, <2>2, <2>3 DEF EquityInv, RunsApart
<1>8. KeysKnown'
  <2> SUFFICES ASSUME NEW i \in DOMAIN cache
               PROVE  /\ cache[i].key[1] \in RunIds'
                      /\ \A p \in ended' : cache[i].key[1] = p.id => cache[i].key[2] <= p.attempt
                      /\ \A j \in jobs : cache[i].key[1] = j.id => cache[i].key[2] <= j.attempt
                      /\ \A j \in jobs : cache[i].key[1] = j.id /\ j.phase # "conclude" => cache[i].key[2] < j.attempt
                      /\ cache[i].key[1] = k.id => cache[i].key[2] < k.attempt
    BY <1>3 DEF KeysKnown
  <2>1. cache[i].key[1] \in RunIds /\ cache[i].key[2] \in Nat
    BY CacheElement, EquityFields DEF EquityInv, KeysKnown
  <2>2. \A p \in ended' : cache[i].key[1] = p.id => cache[i].key[2] <= p.attempt
    <3>1. \A p \in ended : cache[i].key[1] = p.id => cache[i].key[2] <= p.attempt
      BY DEF EquityInv, KeysKnown
    <3>2. pending # Idle /\ cache[i].key[1] = pending.id => cache[i].key[2] < pending.attempt
      BY DEF EquityInv, KeysKnown
    <3>3. pending # Idle => pending.attempt \in Nat
      BY <1>4, EquityFields
    <3>4. QED BY <1>3, <1>4, <2>1, <3>1, <3>2, <3>3
  <2>3. QED BY <1>2, <1>6, <2>1, <2>2 DEF EquityInv, KeysKnown
<1>9. QED BY <1>3, <1>5, <1>7, <1>8, MailsStay DEF EquityInv, EquityTypes

LEMMA ArriveKeeps == EquityInv /\ (Arrive \/ RerunJob) => EquityInv'
<1> SUFFICES ASSUME EquityInv, Arrive \/ RerunJob PROVE EquityInv'
  OBVIOUS
<1>1. PICK n \in Nat : RunIds = 1 .. n
  BY DEF EquityInv, RunsApart
<1>2. CASE Arrive
  <2>0. PICK send \in BOOLEAN : Enqueue([id |-> Cardinality(RunIds) + 1, attempt |-> 1, send |-> send])
    BY <1>2 DEF Arrive
  <2>1. PICK r : r = [id |-> Cardinality(RunIds) + 1, attempt |-> 1, send |-> send] /\ Enqueue(r)
    BY <2>0
  <2>2. Cardinality(RunIds) = n
    BY <1>1, FS_Interval
  <2>3. r \in Attempted /\ r.id = n + 1 /\ r.attempt = 1
    BY <2>1, <2>2 DEF Attempted
  <2>4. RunIds \cup {r.id} = 1 .. (n + 1) /\ r.id \notin RunIds
    BY <1>1, <2>3
  <2>5. /\ \A j \in jobs : j.id # r.id
        /\ pending # Idle => pending.id # r.id
    BY <2>3, <2>4 DEF RunIds
  <2>6. \A i \in DOMAIN cache : cache[i].key[1] # r.id
    BY <2>4 DEF EquityInv, KeysKnown
  <2>7. QED BY <2>1, <2>3, <2>4, <2>5, <2>6, EnqueueKeeps
<1>3. CASE RerunJob
  <2>1. PICK r \in ended : Enqueue([r EXCEPT !.attempt = r.attempt + 1])
    BY <1>3 DEF RerunJob
  <2>2. r \in Attempted
    BY DEF EquityInv, EquityTypes
  <2>3. PICK q : q = [r EXCEPT !.attempt = r.attempt + 1]
    OBVIOUS
  <2>4. q \in Attempted /\ q.id = r.id /\ q.attempt = r.attempt + 1 /\ r.id # 0 /\ r.attempt \in Nat
    BY <2>2, <2>3 DEF Attempted
  <2>5. RunIds \cup {q.id} = 1 .. n
    BY <1>1, <2>4 DEF RunIds
  <2>6. /\ \A j \in jobs : j.id # q.id
        /\ pending # Idle => pending.id # q.id
    BY <2>4 DEF EquityInv, RunsApart
  <2>7. \A i \in DOMAIN cache : cache[i].key[1] = q.id => cache[i].key[2] < q.attempt
    <3>1. ASSUME NEW i \in DOMAIN cache, cache[i].key[1] = q.id PROVE cache[i].key[2] < q.attempt
      <4>1. cache[i].key[2] \in Nat
        BY CacheElement, EquityFields DEF EquityInv
      <4>2. cache[i].key[2] <= r.attempt
        BY <2>4, <3>1 DEF EquityInv, KeysKnown
      <4>3. QED BY <2>4, <4>1, <4>2
    <3>2. QED BY <3>1
  <2>8. QED BY <2>1, <2>3, <2>4, <2>5, <2>6, <2>7, EnqueueKeeps
<1>4. QED BY <1>2, <1>3

LEMMA BeginKeeps == EquityInv /\ BeginJob => EquityInv'
<1> SUFFICES ASSUME EquityInv, BeginJob PROVE EquityInv'
  OBVIOUS
<1>1. /\ jobs = {} /\ pending # Idle /\ jobs' = {pending} /\ pending' = Idle
      /\ UNCHANGED <<moment, method, cache, ended, letters, lost>>
  BY DEF BeginJob, GroupIdle
<1>2. pending \in JobSet
  BY <1>1 DEF EquityInv, EquityTypes
<1>3. EquityTypes'
  BY <1>1, <1>2 DEF EquityInv, EquityTypes
<1>4. RunIds' = RunIds
  BY <1>1, EquityFields DEF RunIds
<1>5. RunsApart'
  BY <1>1, <1>4 DEF EquityInv, RunsApart
<1>6. KeysKnown'
  <2> SUFFICES ASSUME NEW i \in DOMAIN cache
               PROVE  /\ cache[i].key[1] \in RunIds'
                      /\ \A p \in ended : cache[i].key[1] = p.id => cache[i].key[2] <= p.attempt
                      /\ cache[i].key[1] = pending.id => /\ cache[i].key[2] <= pending.attempt
                                                         /\ cache[i].key[2] < pending.attempt
    BY <1>1 DEF KeysKnown
  <2>1. cache[i].key[2] \in Nat /\ pending.attempt \in Nat
    BY <1>2, CacheElement, EquityFields DEF EquityInv
  <2>2. /\ cache[i].key[1] \in RunIds
        /\ \A p \in ended : cache[i].key[1] = p.id => cache[i].key[2] <= p.attempt
        /\ cache[i].key[1] = pending.id => cache[i].key[2] < pending.attempt
    BY <1>1 DEF EquityInv, KeysKnown
  <2>3. QED BY <1>4, <2>1, <2>2
<1>7. MailsKept'
  <2>1. Sent' = Sent /\ ComparedWithTheLastMail'
    BY <1>1 DEF EquityInv, MailsKept, Sent, ComparedWithTheLastMail
  <2>2. QED BY <1>1, <2>1 DEF EquityInv, MailsKept
<1>8. PICK j : j = pending
  OBVIOUS
<1>9. JobSound(j)'
  BY <1>1, <1>8 DEF EquityInv, EquityTypes, JobSound
<1>10. QED BY <1>1, <1>3, <1>5, <1>6, <1>7, <1>8, <1>9 DEF EquityInv

\* A job goes on from j to k.
LEMMA JobMoves ==
  ASSUME EquityInv, NEW j \in jobs, NEW k \in JobSet, k.id = j.id, k.attempt = j.attempt,
         j.phase # "conclude", Becomes(j, k), UNCHANGED <<pending, ended>>
  PROVE  /\ jobs = {j} /\ jobs' = {k} /\ RunIds' = RunIds /\ RunsApart'
         /\ cache' = cache => KeysKnown'
<1>1. jobs = {j} /\ jobs' = {k}
  BY DEF EquityInv, RunsApart, Becomes
<1>2. RunIds' = RunIds
  BY <1>1 DEF RunIds
<1>3. RunsApart'
  BY <1>1, <1>2 DEF EquityInv, RunsApart
<1>4. ASSUME cache' = cache PROVE KeysKnown'
  <2> SUFFICES ASSUME NEW i \in DOMAIN cache
               PROVE  /\ cache[i].key[1] \in RunIds
                      /\ \A p \in ended : cache[i].key[1] = p.id => cache[i].key[2] <= p.attempt
                      /\ cache[i].key[1] = j.id => /\ cache[i].key[2] <= j.attempt
                                                   /\ cache[i].key[2] < j.attempt
                      /\ pending # Idle /\ cache[i].key[1] = pending.id => cache[i].key[2] < pending.attempt
    BY <1>1, <1>2, <1>4 DEF KeysKnown
  <2>1. QED BY DEF EquityInv, KeysKnown
<1>5. QED BY <1>1, <1>2, <1>3, <1>4

\* The job moves on with all mails and snapshots as they are; what it was about to save is lost.
LEMMA MailsUnmoved ==
  ASSUME EquityInv, NEW j, NEW k, jobs = {j}, jobs' \in {{}, {k}}, k.phase # "save",
         UNCHANGED <<cache, letters>>, moment' \in Nat, moment <= moment',
         lost \subseteq lost', j.phase = "save" => j.report \in lost'
  PROVE  MailsKept' /\ Sent' = Sent
<1>1. \A n \in letters : 0 < n.report.at /\ n.report.at < moment'
  BY EquityFields DEF EquityInv, MailsKept, EquityTypes
<1>2. Sent' = Sent
  BY DEF Sent
<1>3. ComparedWithTheLastMail'
  BY DEF EquityInv, MailsKept, ComparedWithTheLastMail
<1>4. \A n \in letters : n.report \in lost' \/ \E i \in DOMAIN cache : cache[i].report = n.report
  BY DEF EquityInv, MailsKept
<1>5. QED BY <1>1, <1>2, <1>3, <1>4 DEF EquityInv, MailsKept

LEMMA RestoreKeeps == EquityInv /\ Restore => EquityInv'
<1> SUFFICES ASSUME EquityInv, Restore PROVE EquityInv'
  OBVIOUS
<1>1. PICK j \in jobs, found \in {NoReport} \cup (IF cache = <<>> THEN {} ELSE {Last(cache).report}) :
        j.phase = "restore" /\ Becomes(j, [j EXCEPT !.phase = "build", !.base = found])
  BY DEF Restore
<1>2. UNCHANGED <<moment, method, cache, pending, ended, letters, lost>>
  BY DEF Restore
<1>3. cache # <<>> => Len(cache) \in DOMAIN cache /\ Len(cache) \in Nat /\ Last(cache) = cache[Len(cache)]
  BY DEF EquityInv, EquityTypes, Last
<1>4. found \in ReportSet
  BY <1>1, <1>3, CacheElement, EquityFields DEF EquityInv
<1>5. PICK k : k = [j EXCEPT !.phase = "build", !.base = found]
  OBVIOUS
<1>6. k \in JobSet /\ k.phase = "build" /\ k.base = found /\ k.id = j.id /\ k.attempt = j.attempt
  BY <1>1, <1>4, <1>5 DEF EquityInv, EquityTypes, JobSet, Phases
<1>7. jobs = {j} /\ jobs' = {k} /\ RunsApart' /\ KeysKnown'
  BY <1>1, <1>2, <1>5, <1>6, JobMoves
<1>8. MailsKept' /\ Sent' = Sent
  BY <1>1, <1>2, <1>6, <1>7, MailsUnmoved DEF EquityInv, EquityTypes
<1>9. NewestKept(found)
  <2> SUFFICES ASSUME found # NoReport PROVE found \in Sent /\ \A n \in letters : found.at < n.report.at => n.report \in lost
    BY DEF NewestKept
  <2>1. found = cache[Len(cache)].report /\ Len(cache) \in DOMAIN cache
    BY <1>1, <1>3
  <2>2. found \in Sent
    BY <2>1 DEF EquityInv, MailsKept
  <2>3. ASSUME NEW n \in letters, found.at < n.report.at, NEW i \in DOMAIN cache, cache[i].report = n.report
        PROVE  FALSE
    <3>1. i \in Nat /\ i <= Len(cache) /\ Len(cache) \in Nat
      BY DEF EquityInv, EquityTypes
    <3>2. i < Len(cache) => n.report.at < found.at
      BY <2>1, <2>3 DEF EquityInv, MailsKept
    <3>3. found.at \in Nat /\ n.report.at \in Nat
      BY <1>4, EquityFields DEF EquityInv, EquityTypes
    <3>4. QED BY <2>1, <2>3, <3>1, <3>2, <3>3
  <2>4. QED BY <1>1, <1>7, <2>2, <2>3 DEF EquityInv, MailsKept
<1>10. JobSound(k)'
  BY <1>2, <1>6, <1>8, <1>9 DEF JobSound, NewestKept
<1>11. EquityTypes'
  BY <1>2, <1>6, <1>7 DEF EquityInv, EquityTypes
<1>12. QED BY <1>7, <1>8, <1>10, <1>11 DEF EquityInv

LEMMA BuildReportKeeps == EquityInv /\ BuildReport => EquityInv'
<1> SUFFICES ASSUME EquityInv, BuildReport PROVE EquityInv'
  OBVIOUS
<1>1. PICK j \in jobs :
        /\ j.phase = "build" /\ moment' = moment + 1
        /\ Becomes(j, [j EXCEPT !.phase = IF j.send THEN "send" ELSE "conclude",
                                !.report = [at |-> moment, method |-> method],
                                !.base = IF Comparable(j.base) THEN j.base ELSE NoReport])
  BY DEF BuildReport
<1>2. UNCHANGED <<method, cache, pending, ended, letters, lost>>
  BY DEF BuildReport
<1>3. moment \in Nat \ {0} /\ method \in Nat \ {0} /\ j \in JobSet
  BY DEF EquityInv, EquityTypes
<1>4. PICK report : report = [at |-> moment, method |-> method]
  OBVIOUS
<1>5. report \in ReportSet /\ report.at = moment /\ report.method = method
  BY <1>3, <1>4 DEF ReportSet
<1>6. PICK base : base = IF Comparable(j.base) THEN j.base ELSE NoReport
  OBVIOUS
<1>7. /\ base \in ReportSet
      /\ base # NoReport => base = j.base /\ base.method = method /\ moment - base.at \in 1 .. MaxAge
  BY <1>3, <1>6, EquityFields DEF Comparable
<1>8. PICK k : k = [j EXCEPT !.phase = IF j.send THEN "send" ELSE "conclude", !.report = report, !.base = base]
  OBVIOUS
<1>9. /\ k \in JobSet /\ k.phase \in {"send", "conclude"} /\ k.base = base /\ k.report = report
      /\ k.id = j.id /\ k.attempt = j.attempt
  BY <1>3, <1>5, <1>7, <1>8 DEF JobSet, Phases
<1>10. jobs = {j} /\ jobs' = {k} /\ RunsApart' /\ KeysKnown'
  BY <1>1, <1>2, <1>4, <1>6, <1>8, <1>9, JobMoves
<1>11. MailsKept' /\ Sent' = Sent
  BY <1>1, <1>2, <1>3, <1>9, <1>10, MailsUnmoved
<1>12. NewestKept(base)
  BY <1>1, <1>7 DEF EquityInv, JobSound, NewestKept
<1>13. /\ 0 < report.at /\ report.at < moment' /\ \A n \in letters : n.report.at < report.at
  BY <1>1, <1>3, <1>5 DEF EquityInv, MailsKept
<1>14. JobSound(k)'
  BY <1>2, <1>5, <1>7, <1>9, <1>11, <1>12, <1>13 DEF JobSound, NewestKept
<1>15. EquityTypes'
  BY <1>1, <1>2, <1>3, <1>9, <1>10 DEF EquityInv, EquityTypes
<1>16. QED BY <1>10, <1>11, <1>14, <1>15 DEF EquityInv

LEMMA SendLetterKeeps == EquityInv /\ SendLetter => EquityInv'
<1> SUFFICES ASSUME EquityInv, SendLetter PROVE EquityInv'
  OBVIOUS
<1>1. PICK j \in jobs :
        /\ j.phase = "send"
        /\ \/ /\ letters' = letters \cup {[report |-> j.report, base |-> j.base]}
              /\ \E ok \in BOOLEAN :
                   /\ lost' = IF ok THEN lost ELSE lost \cup {j.report}
                   /\ Becomes(j, [j EXCEPT !.phase = IF ok THEN "save" ELSE "conclude"])
           \/ Becomes(j, [j EXCEPT !.phase = "conclude"]) /\ UNCHANGED <<letters, lost>>
  BY DEF SendLetter
<1>2. UNCHANGED <<moment, method, cache, pending, ended>>
  BY DEF SendLetter
<1>3. moment \in Nat \ {0} /\ j \in JobSet
  BY DEF EquityInv, EquityTypes
<1>4. PICK save, conclude : save = [j EXCEPT !.phase = "save"] /\ conclude = [j EXCEPT !.phase = "conclude"]
  OBVIOUS
<1>5. ASSUME NEW k \in {save, conclude}
      PROVE  k \in JobSet /\ k.report = j.report /\ k.id = j.id /\ k.attempt = j.attempt
  BY <1>3, <1>4, <1>5 DEF JobSet, Phases
<1>6. save.phase = "save" /\ conclude.phase = "conclude"
  BY <1>3, <1>4 DEF JobSet
<1>7. CASE Becomes(j, conclude) /\ UNCHANGED <<letters, lost>>
  <2>1. jobs = {j} /\ jobs' = {conclude} /\ RunsApart' /\ KeysKnown'
    BY <1>1, <1>2, <1>5, <1>7, JobMoves
  <2>2. MailsKept'
    BY <1>1, <1>2, <1>3, <1>6, <1>7, <2>1, MailsUnmoved
  <2>3. JobSound(conclude)'
    BY <1>6 DEF JobSound
  <2>4. EquityTypes'
    BY <1>2, <1>5, <1>7, <2>1 DEF EquityInv, EquityTypes
  <2>5. QED BY <2>1, <2>2, <2>3, <2>4 DEF EquityInv
<1>8. ASSUME letters' = letters \cup {[report |-> j.report, base |-> j.base]},
             NEW ok \in BOOLEAN, lost' = IF ok THEN lost ELSE lost \cup {j.report},
             Becomes(j, [j EXCEPT !.phase = IF ok THEN "save" ELSE "conclude"])
      PROVE  EquityInv'
  <2>1. PICK k \in {save, conclude} : Becomes(j, k) /\ (k = IF ok THEN save ELSE conclude)
    BY <1>4, <1>8
  <2>2. jobs = {j} /\ jobs' = {k} /\ RunsApart' /\ KeysKnown'
    BY <1>1, <1>2, <1>5, <2>1, JobMoves
  <2>3. PICK m : m = [report |-> j.report, base |-> j.base]
    OBVIOUS
  <2>4. m \in Letters /\ m.report = j.report /\ m.base = j.base /\ letters' = letters \cup {m}
    BY <1>3, <1>8, <2>3, EquityFields DEF Letters
  <2>5. /\ NewestKept(j.base)
        /\ 0 < j.report.at /\ j.report.at < moment
        /\ \A n \in letters : n.report.at < j.report.at
        /\ j.base # NoReport => j.base.method = j.report.method /\ j.report.at - j.base.at \in 1 .. MaxAge
    BY <1>1 DEF EquityInv, JobSound
  <2>6. \A n \in letters' : n.report.at \in Nat /\ n.base \in ReportSet
    BY <2>4, EquityFields DEF EquityInv, EquityTypes
  <2>7. Sent' = Sent \cup {j.report}
    BY <2>4 DEF Sent
  <2>8. lost \subseteq lost'
    BY <1>8
  <2>9. \A n \in letters' : /\ 0 < n.report.at /\ n.report.at < moment
                            /\ n # m => n \in letters /\ n.report.at < j.report.at
    BY <2>4, <2>5 DEF EquityInv, MailsKept
  <2>10. ASSUME NEW n \in letters
         PROVE  \/ n.report \in lost'
                \/ \E i \in DOMAIN cache : cache[i].report = n.report
    BY <1>1, <2>2, <2>8 DEF EquityInv, MailsKept
  <2>11. m.report \in lost' \/ (\E l \in jobs' : l.phase = "save" /\ l.report = m.report)
    BY <1>5, <1>6, <1>8, <2>1, <2>2, <2>4
  <2>12. ComparedWithTheLastMail'
    <3> SUFFICES ASSUME NEW l \in letters', l.base # NoReport
                 PROVE  /\ l.base \in Sent'
                        /\ l.base.method = l.report.method /\ l.report.at - l.base.at \in 1 .. MaxAge
                        /\ \A n \in letters' :
                             (l.base.at < n.report.at /\ n.report.at < l.report.at) => n.report \in lost'
      BY DEF ComparedWithTheLastMail, Sent
    <3>1. CASE l = m
      <4>1. /\ j.base \in Sent /\ \A n \in letters : j.base.at < n.report.at => n.report \in lost
        BY <2>4, <2>5, <3>1 DEF NewestKept
      <4>2. QED BY <2>4, <2>5, <2>6, <2>7, <2>8, <3>1, <4>1
    <3>2. CASE l # m
      <4>1. l \in letters /\ l.report.at < j.report.at
        BY <2>9, <3>2
      <4>2. /\ l.base \in Sent
            /\ l.base.method = l.report.method /\ l.report.at - l.base.at \in 1 .. MaxAge
            /\ \A n \in letters :
                 (l.base.at < n.report.at /\ n.report.at < l.report.at) => n.report \in lost
        BY <4>1 DEF EquityInv, MailsKept, ComparedWithTheLastMail, Sent
      <4>3. ASSUME NEW n \in letters', n.report.at < l.report.at PROVE n \in letters
        BY <2>4, <2>6, <4>1, <4>3
      <4>4. QED BY <2>7, <2>8, <4>2, <4>3
    <3>3. QED BY <3>1, <3>2
  <2>13. MailsKept'
    BY <1>2, <2>4, <2>7, <2>9, <2>10, <2>11, <2>12 DEF EquityInv, MailsKept
  <2>14. \A i \in DOMAIN cache : cache[i].report.at < j.report.at
    BY <2>5 DEF EquityInv, MailsKept, Sent
  <2>15. JobSound(k)'
    BY <1>2, <1>5, <1>6, <2>1, <2>7, <2>14 DEF JobSound
  <2>16. EquityTypes'
    BY <1>2, <1>5, <2>2, <2>4 DEF EquityInv, EquityTypes
  <2>17. QED BY <2>2, <2>13, <2>15, <2>16 DEF EquityInv
<1>9. QED BY <1>1, <1>4, <1>7, <1>8

LEMMA EndJobKeeps == EquityInv /\ EndJob => EquityInv'
<1> SUFFICES ASSUME EquityInv, EndJob PROVE EquityInv'
  OBVIOUS
<1>1. PICK j \in jobs :
        /\ jobs' = jobs \ {j} /\ ended' = ended \cup {Past(j)}
        /\ lost' = IF j.phase = "save" THEN lost \cup {j.report} ELSE lost
        /\ UNCHANGED <<moment, method, cache, pending, letters>>
  BY DEF EndJob
<1>2. j \in JobSet /\ moment \in Nat
  BY DEF EquityInv, EquityTypes
<1>3. PICK q : q = Past(j)
  OBVIOUS
<1>4. q \in Attempted /\ q.id = j.id /\ q.attempt = j.attempt
  BY <1>2, <1>3, EquityFields
<1>5. jobs = {j} /\ jobs' = {} /\ ended' = ended \cup {q}
  BY <1>1, <1>3 DEF EquityInv, RunsApart
<1>6. RunIds' = RunIds
  BY <1>1, <1>4, <1>5 DEF RunIds
<1>7. RunsApart'
  <2>1. \A p, r \in ended' : p.id = r.id => p = r
    BY <1>4, <1>5 DEF EquityInv, RunsApart
  <2>2. pending # Idle => \A p \in ended' : p.id # pending.id
    BY <1>4, <1>5 DEF EquityInv, RunsApart
  <2>3. QED BY <1>1, <1>5, <1>6, <2>1, <2>2 DEF EquityInv, RunsApart
<1>8. KeysKnown'
  <2> SUFFICES ASSUME NEW i \in DOMAIN cache
               PROVE  /\ cache[i].key[1] \in RunIds
                      /\ \A p \in ended \cup {q} : cache[i].key[1] = p.id => cache[i].key[2] <= p.attempt
                      /\ pending # Idle /\ cache[i].key[1] = pending.id => cache[i].key[2] < pending.attempt
    BY <1>1, <1>5, <1>6 DEF KeysKnown
  <2>1. cache[i].key[1] = j.id => cache[i].key[2] <= j.attempt
    BY DEF EquityInv, KeysKnown
  <2>2. QED BY <1>4, <2>1 DEF EquityInv, KeysKnown
<1>9. MailsKept'
  <2>1. ComparedWithTheLastMail' /\ Sent' = Sent
    BY <1>1 DEF EquityInv, MailsKept, ComparedWithTheLastMail, Sent
  <2>2. \A n \in letters : n.report \in lost' \/ \E i \in DOMAIN cache : cache[i].report = n.report
    BY <1>1, <1>5 DEF EquityInv, MailsKept
  <2>3. QED BY <1>1, <2>1, <2>2 DEF EquityInv, MailsKept
<1>10. EquityTypes'
  BY <1>1, <1>4, <1>5 DEF EquityInv, EquityTypes
<1>11. QED BY <1>5, <1>7, <1>8, <1>9, <1>10 DEF EquityInv

LEMMA SaveSnapshotKeeps == EquityInv /\ SaveSnapshot => EquityInv'
<1> SUFFICES ASSUME EquityInv, SaveSnapshot PROVE EquityInv'
  OBVIOUS
<1>1. PICK j \in jobs :
        /\ j.phase = "save"
        /\ \/ /\ cache' = IF \E i \in DOMAIN cache : cache[i].key = SaveKey(j) THEN cache
                          ELSE Append(cache, [key |-> SaveKey(j), report |-> j.report])
              /\ lost' = lost
           \/ /\ cache' = cache
              /\ lost' = lost \cup {j.report}
        /\ Becomes(j, [j EXCEPT !.phase = "conclude"])
  BY DEF SaveSnapshot
<1>2. UNCHANGED <<moment, method, pending, ended, letters>>
  BY DEF SaveSnapshot
<1>3. moment \in Nat /\ j \in JobSet
  BY DEF EquityInv, EquityTypes
<1>4. PICK k : k = [j EXCEPT !.phase = "conclude"]
  OBVIOUS
<1>5. k \in JobSet /\ k.phase = "conclude" /\ k.id = j.id /\ k.attempt = j.attempt
  BY <1>3, <1>4 DEF JobSet, Phases
<1>6. jobs = {j} /\ jobs' = {k} /\ RunIds' = RunIds /\ RunsApart' /\ (cache' = cache => KeysKnown')
  BY <1>1, <1>2, <1>4, <1>5, JobMoves
<1>7. JobSound(k)'
  BY <1>5 DEF JobSound
<1>8. CASE cache' = cache /\ lost' = lost \cup {j.report}
  <2>1. MailsKept'
    BY <1>2, <1>3, <1>5, <1>6, <1>8, MailsUnmoved
  <2>2. EquityTypes'
    BY <1>2, <1>5, <1>6, <1>8 DEF EquityInv, EquityTypes
  <2>3. QED BY <1>6, <1>7, <1>8, <2>1, <2>2 DEF EquityInv
<1>9. CASE /\ cache' = IF \E i \in DOMAIN cache : cache[i].key = SaveKey(j) THEN cache
                       ELSE Append(cache, [key |-> SaveKey(j), report |-> j.report])
           /\ lost' = lost
  <2>1. \A i \in DOMAIN cache : cache[i].key # SaveKey(j)
    <3>1. ASSUME NEW i \in DOMAIN cache, cache[i].key = SaveKey(j) PROVE FALSE
      <4>1. cache[i].key[1] = j.id /\ cache[i].key[2] = j.attempt
        BY <3>1 DEF SaveKey
      <4>2. cache[i].key[2] < j.attempt
        BY <1>1, <4>1 DEF EquityInv, KeysKnown
      <4>3. j.attempt \in Nat
        BY <1>3, EquityFields
      <4>4. QED BY <4>1, <4>2, <4>3
    <3>2. QED BY <3>1
  <2>2. PICK s : s = [key |-> SaveKey(j), report |-> j.report]
    OBVIOUS
  <2>3. s \in Snapshots /\ s.key[1] = j.id /\ s.key[2] = j.attempt /\ s.report = j.report
    BY <1>3, <2>2, EquityFields DEF Snapshots, SaveKey
  <2>4. cache' = Append(cache, s)
    BY <1>9, <2>1, <2>2
  <2>5. PICK top \in Nat : top = Len(cache) + 1 /\ cache \in Seq(Snapshots)
    BY DEF EquityInv, EquityTypes
  <2>6. /\ cache' \in Seq(Snapshots) /\ DOMAIN cache' = DOMAIN cache \cup {top}
        /\ cache'[top] = s /\ \A i \in DOMAIN cache : cache'[i] = cache[i] /\ i < top
        /\ top \notin DOMAIN cache
    BY <2>3, <2>4, <2>5
  <2>7. EquityTypes'
    BY <1>2, <1>5, <1>6, <2>6 DEF EquityInv, EquityTypes
  <2>8. KeysKnown'
    <3> SUFFICES ASSUME NEW i \in DOMAIN cache'
                 PROVE  /\ cache'[i].key[1] \in RunIds
                        /\ \A p \in ended : cache'[i].key[1] = p.id => cache'[i].key[2] <= p.attempt
                        /\ cache'[i].key[1] = j.id => cache'[i].key[2] <= j.attempt
                        /\ pending # Idle /\ cache'[i].key[1] = pending.id => cache'[i].key[2] < pending.attempt
      BY <1>2, <1>5, <1>6 DEF KeysKnown
    <3>1. CASE i = top
      <4>1. j.id \in RunIds
        BY <1>3, EquityFields DEF RunIds
      <4>2. /\ \A p \in ended : p.id # j.id
            /\ pending # Idle => pending.id # j.id
        BY DEF EquityInv, RunsApart
      <4>3. j.attempt \in Nat
        BY <1>3, EquityFields
      <4>4. QED BY <2>3, <2>6, <3>1, <4>1, <4>2, <4>3
    <3>2. CASE i # top
      <4>1. i \in DOMAIN cache /\ cache'[i] = cache[i]
        BY <2>6, <3>2
      <4>2. QED BY <4>1 DEF EquityInv, KeysKnown
    <3>3. QED BY <3>1, <3>2
  <2>9. MailsKept'
    <3>1. Sent' = Sent /\ ComparedWithTheLastMail'
      BY <1>2, <1>9 DEF EquityInv, MailsKept, ComparedWithTheLastMail, Sent
    <3>2. j.report \in Sent /\ \A i \in DOMAIN cache : cache[i].report.at < j.report.at
      BY <1>1 DEF EquityInv, JobSound
    <3>3. \A i, l \in DOMAIN cache' : i < l => cache'[i].report.at < cache'[l].report.at
      <4>1. ASSUME NEW i \in DOMAIN cache', NEW l \in DOMAIN cache', i < l
            PROVE  cache'[i].report.at < cache'[l].report.at
        <5>1. i # top
          BY <2>5, <2>6, <4>1
        <5>2. i \in DOMAIN cache /\ cache'[i] = cache[i]
          BY <2>6, <5>1
        <5>3. CASE l = top
          BY <2>3, <2>6, <3>2, <5>2, <5>3
        <5>4. CASE l # top
          <6>1. l \in DOMAIN cache /\ cache'[l] = cache[l]
            BY <2>6, <5>4
          <6>2. QED BY <4>1, <5>2, <6>1 DEF EquityInv, MailsKept
        <5>5. QED BY <5>3, <5>4
      <4>2. QED BY <4>1
    <3>4. \A i \in DOMAIN cache' : cache'[i].report \in Sent
      BY <2>3, <2>6, <3>2 DEF EquityInv, MailsKept
    <3>5. ASSUME NEW n \in letters
          PROVE  n.report \in lost \/ \E i \in DOMAIN cache' : cache'[i].report = n.report
      <4>1. \/ n.report \in lost
            \/ \E i \in DOMAIN cache : cache[i].report = n.report
            \/ j.report = n.report
        BY <1>6 DEF EquityInv, MailsKept
      <4>2. QED BY <2>3, <2>6, <4>1
    <3>6. \A n \in letters : 0 < n.report.at /\ n.report.at < moment
      BY DEF EquityInv, MailsKept
    <3>7. QED BY <1>2, <1>9, <3>1, <3>3, <3>4, <3>5, <3>6 DEF MailsKept
  <2>10. QED BY <1>6, <1>7, <2>7, <2>8, <2>9 DEF EquityInv
<1>10. QED BY <1>1, <1>8, <1>9

LEMMA EvictKeeps == EquityInv /\ Evict => EquityInv'
<1> SUFFICES ASSUME EquityInv, Evict PROVE EquityInv'
  OBVIOUS
<1>1. PICK x \in DOMAIN cache : cache' = RemoveAt(cache, x) /\ lost' = lost \cup {cache[x].report}
  BY DEF Evict
<1>2. UNCHANGED <<moment, method, jobs, pending, ended, letters>>
  BY DEF Evict
<1>3. PICK n \in Nat : n = Len(cache) /\ cache \in Seq(Snapshots) /\ DOMAIN cache = 1 .. n
  BY DEF EquityInv, EquityTypes
<1>4. x \in 1 .. n
  BY <1>3
<1>5. PICK old : old = [i \in 1 .. n - 1 |-> IF i < x THEN i ELSE i + 1]
  OBVIOUS
<1>6. /\ cache' \in Seq(Snapshots) /\ DOMAIN cache' = 1 .. n - 1
      /\ \A i \in 1 .. n - 1 : cache'[i] = cache[old[i]]
  <2>1. cache' = SubSeq(cache, 1, x - 1) \o SubSeq(cache, x + 1, n)
    BY <1>1, <1>3 DEF RemoveAt
  <2>2. /\ SubSeq(cache, 1, x - 1) \in Seq(Snapshots) /\ Len(SubSeq(cache, 1, x - 1)) = x - 1
        /\ \A i \in 1 .. x - 1 : SubSeq(cache, 1, x - 1)[i] = cache[i]
    BY <1>3, <1>4
  <2>3. /\ SubSeq(cache, x + 1, n) \in Seq(Snapshots) /\ Len(SubSeq(cache, x + 1, n)) = n - x
        /\ \A i \in 1 .. n - x : SubSeq(cache, x + 1, n)[i] = cache[x + i]
    BY <1>3, <1>4
  <2>4. PICK front \in Seq(Snapshots) : front = SubSeq(cache, 1, x - 1)
    BY <2>2
  <2>5. PICK back \in Seq(Snapshots) : back = SubSeq(cache, x + 1, n)
    BY <2>3
  <2>6. /\ Len(front) = x - 1 /\ Len(back) = n - x
        /\ \A i \in 1 .. x - 1 : front[i] = cache[i]
        /\ \A i \in 1 .. n - x : back[i] = cache[x + i]
    BY <2>2, <2>3, <2>4, <2>5
  <2>7. PICK all \in Seq(Snapshots) : all = front \o back
    BY ConcatProperties
  <2>8. Len(all) = n - 1
    BY <1>3, <1>4, <2>6, <2>7, ConcatProperties
  <2>9. ASSUME NEW i \in 1 .. n - 1 PROVE all[i] = cache[old[i]]
    <3>1. CASE i < x
      <4>1. i \in 1 .. Len(front) /\ old[i] = i
        BY <1>3, <1>4, <1>5, <2>6, <2>9, <3>1
      <4>2. all[i] = front[i]
        BY <2>7, <4>1, ConcatProperties
      <4>3. QED BY <1>4, <2>6, <3>1, <4>1, <4>2
    <3>2. CASE i >= x
      <4>1. i \in Len(front) + 1 .. Len(front) + Len(back) /\ old[i] = i + 1
        BY <1>3, <1>4, <1>5, <2>6, <2>9, <3>2
      <4>2. all[i] = back[i - Len(front)]
        BY <2>7, <4>1, ConcatProperties
      <4>3. i - Len(front) \in 1 .. n - x /\ x + (i - Len(front)) = i + 1
        BY <1>3, <1>4, <2>6, <2>9, <3>2
      <4>4. QED BY <2>6, <4>1, <4>2, <4>3
    <3>3. QED BY <1>3, <1>4, <2>9, <3>1, <3>2
  <2>10. cache' = all
    BY <2>1, <2>4, <2>5, <2>7
  <2>11. DOMAIN all = 1 .. n - 1
    BY <1>3, <1>4, <2>8
  <2>12. QED BY <2>9, <2>10, <2>11
<1>7. /\ \A i \in DOMAIN cache' : old[i] \in DOMAIN cache /\ cache'[i] = cache[old[i]]
      /\ \A i, l \in DOMAIN cache' : i < l => old[i] < old[l]
  BY <1>3, <1>4, <1>5, <1>6
<1>8. \A i \in DOMAIN cache : i # x => \E l \in DOMAIN cache' : cache'[l] = cache[i]
  <2>1. ASSUME NEW i \in 1 .. n, i # x PROVE \E l \in 1 .. n - 1 : old[l] = i
    <3>1. CASE i < x
      BY <1>3, <1>4, <1>5, <3>1
    <3>2. CASE i > x
      <4>1. i - 1 \in 1 .. n - 1 /\ old[i - 1] = i
        BY <1>3, <1>4, <1>5, <3>2
      <4>2. QED BY <4>1
    <3>3. QED BY <1>3, <1>4, <2>1, <3>1, <3>2
  <2>2. ASSUME NEW i \in DOMAIN cache, i # x PROVE \E l \in DOMAIN cache' : cache'[l] = cache[i]
    <3>1. PICK l \in 1 .. n - 1 : old[l] = i
      BY <1>3, <2>1, <2>2
    <3>2. QED BY <1>6, <3>1
  <2>3. QED BY <2>2
<1>9. EquityTypes'
  BY <1>2, <1>6 DEF EquityInv, EquityTypes
<1>10. RunIds' = RunIds /\ RunsApart'
  BY <1>2 DEF EquityInv, RunsApart, RunIds
<1>11. KeysKnown'
  <2> SUFFICES ASSUME NEW i \in DOMAIN cache'
               PROVE  /\ cache'[i].key[1] \in RunIds
                      /\ \A p \in ended : cache'[i].key[1] = p.id => cache'[i].key[2] <= p.attempt
                      /\ \A j \in jobs : cache'[i].key[1] = j.id => cache'[i].key[2] <= j.attempt
                      /\ \A j \in jobs : cache'[i].key[1] = j.id /\ j.phase # "conclude" => cache'[i].key[2] < j.attempt
                      /\ pending # Idle /\ cache'[i].key[1] = pending.id => cache'[i].key[2] < pending.attempt
    BY <1>2, <1>10 DEF KeysKnown
  <2>1. PICK l \in DOMAIN cache : cache'[i] = cache[l]
    BY <1>7
  <2>2. QED BY <2>1 DEF EquityInv, KeysKnown
<1>12. MailsKept'
  <2>1. Sent' = Sent
    BY <1>2 DEF Sent
  <2>2. ComparedWithTheLastMail'
    BY <1>1, <1>2 DEF EquityInv, MailsKept, ComparedWithTheLastMail
  <2>3. \A i, l \in DOMAIN cache' : i < l => cache'[i].report.at < cache'[l].report.at
    BY <1>7 DEF EquityInv, MailsKept
  <2>4. \A i \in DOMAIN cache' : cache'[i].report \in Sent
    BY <1>7 DEF EquityInv, MailsKept
  <2>5. ASSUME NEW m \in letters
        PROVE  \/ m.report \in lost'
               \/ \E i \in DOMAIN cache' : cache'[i].report = m.report
               \/ \E j \in jobs : j.phase = "save" /\ j.report = m.report
    <3>1. \/ m.report \in lost
          \/ \E i \in DOMAIN cache : cache[i].report = m.report
          \/ \E j \in jobs : j.phase = "save" /\ j.report = m.report
      BY DEF EquityInv, MailsKept
    <3>2. QED BY <1>1, <1>8, <3>1
  <2>6. \A m \in letters : 0 < m.report.at /\ m.report.at < moment
    BY DEF EquityInv, MailsKept
  <2>7. QED BY <1>2, <2>1, <2>2, <2>3, <2>4, <2>5, <2>6 DEF MailsKept
<1>13. ASSUME NEW j \in jobs PROVE JobSound(j)'
  <2>1. Sent' = Sent /\ lost \subseteq lost'
    BY <1>1, <1>2 DEF Sent
  <2>2. \A i \in DOMAIN cache' : \E l \in DOMAIN cache : cache'[i] = cache[l]
    BY <1>7
  <2>3. NewestKept(j.base) => NewestKept(j.base)'
    BY <1>2, <2>1 DEF NewestKept
  <2>4. JobSound(j)
    BY DEF EquityInv
  <2>5. QED BY <1>2, <2>1, <2>2, <2>3, <2>4 DEF JobSound
<1>14. QED BY <1>2, <1>9, <1>10, <1>11, <1>12, <1>13 DEF EquityInv

LEMMA EquityMoves == EquityInv /\ [EquityNext]_equity => EquityInv'
<1> SUFFICES ASSUME EquityInv, [EquityNext]_equity PROVE EquityInv'
  OBVIOUS
<1>1. CASE EquityNext
  BY <1>1, TimeKeeps, ArriveKeeps, BeginKeeps, RestoreKeeps, BuildReportKeeps, SendLetterKeeps,
     SaveSnapshotKeeps, EndJobKeeps, EvictKeeps DEF EquityNext
<1>2. CASE UNCHANGED equity
  <2>1. UNCHANGED <<moment, method, cache, jobs, pending, ended, letters, lost>>
    BY <1>2 DEF equity
  <2>2. EquityTypes' /\ RunIds' = RunIds
    BY <2>1 DEF EquityInv, EquityTypes, RunIds
  <2>3. RunsApart' /\ KeysKnown'
    BY <2>1, <2>2 DEF EquityInv, RunsApart, KeysKnown
  <2>4. MailsKept' /\ \A j \in jobs' : JobSound(j)'
    BY <2>1, MailsStay DEF EquityInv, EquityTypes
  <2>5. QED BY <2>2, <2>3, <2>4 DEF EquityInv
<1>3. QED BY <1>1, <1>2

-------------------------------------------------------------------------------
(* The day of an AI HOT mail.                                                    *)

AiInv ==
  /\ aiDay \in Nat
  /\ aiRun.started \in 0 .. aiDay /\ aiRun.asked \in 0 .. aiRun.started
  /\ AiHotMailsAreOfTheirDay

LEMMA AiStarts == AiInit => AiInv
BY DEF AiInit, AiInv, NoBuildYet, AiHotMailsAreOfTheirDay

\* The settled day is at most the day the run began; an accepted report is of it.
LEMMA SettledDay ==
  ASSUME AiInv
  PROVE  Expected(aiRun) = (IF aiRun.asked = 0 THEN aiRun.started ELSE aiRun.asked)
         /\ Expected(aiRun) <= aiRun.started
BY DEF AiInv, Expected

LEMMA AiMoves == AiInv /\ [AiNext]_aiVars => AiInv'
<1> SUFFICES ASSUME AiInv, [AiNext]_aiVars PROVE AiInv'
  OBVIOUS
<1>1. CASE Publish \/ UNCHANGED aiVars
  BY <1>1 DEF Publish, aiVars, AiInv, AiHotMailsAreOfTheirDay
<1>2. CASE AiMidnight
  BY <1>2 DEF AiMidnight, AiInv, AiHotMailsAreOfTheirDay
<1>3. CASE StartAi
  BY <1>3 DEF StartAi, AiInv, AiHotMailsAreOfTheirDay
<1>4. ASSUME aiRun'.started = aiRun.started, aiRun'.asked = aiRun.asked, UNCHANGED <<aiDay, aiMails>>
      PROVE  AiInv'
  BY <1>4 DEF AiInv, AiHotMailsAreOfTheirDay
<1>5. CASE LoseAnswer
  BY <1>4, <1>5 DEF LoseAnswer
<1>6. CASE EndAi
  BY <1>6 DEF EndAi, NoBuildYet, AiInv, AiHotMailsAreOfTheirDay
<1>7. CASE Answer
  <2>1. PICK report \in Endpoint(aiRun), readable \in BOOLEAN :
          LET ok == readable /\ AcceptedReport(report, aiRun) IN
          /\ aiRun' = [aiRun EXCEPT !.pc = IF ok THEN "built" ELSE "failed"]
          /\ aiMails' = IF ok THEN aiMails \cup {[day |-> report.day, asked |-> aiRun.asked, started |-> aiRun.started]}
                        ELSE aiMails
    BY <1>7 DEF Answer
  <2>2. aiRun'.started = aiRun.started /\ aiRun'.asked = aiRun.asked /\ aiDay' = aiDay
    BY <1>7, <2>1 DEF Answer
  <2>3. CASE aiMails' = aiMails
    BY <1>4, <2>2, <2>3
  <2>4. CASE /\ AcceptedReport(report, aiRun)
             /\ aiMails' = aiMails \cup {[day |-> report.day, asked |-> aiRun.asked, started |-> aiRun.started]}
    BY <2>2, <2>4, SettledDay DEF AcceptedReport, AiInv, AiHotMailsAreOfTheirDay
  <2>5. QED BY <2>1, <2>3, <2>4
<1>8. QED BY <1>1, <1>2, <1>3, <1>5, <1>6, <1>7 DEF AiNext

-------------------------------------------------------------------------------
(* The MNT advisory.                                                             *)

ExitCodes == [Builds -> {"none", "zero", "other"}]
MntMails == [conclusion : {"success", "failure"}, summary : {"of this run", "earlier", "missing"}]
MntStates ==
  [at : 1 .. 8, cut : BOOLEAN, codes : ExitCodes, committed : BOOLEAN, wrote : BOOLEAN,
   sent : SUBSET MntMails, result : {"running", "success", "failure", "cancelled"}]

\* A build that ended well wrote the summary; past the mail steps a job that nothing cut
\* has mailed the conclusion of its codes.
MntInv ==
  /\ mnt \in MntStates
  /\ mnt.codes["build"] = "zero" => mnt.wrote
  /\ mnt.at >= 7 /\ ~mnt.cut => \E mail \in mnt.sent : mail.conclusion = Conclusion(mnt.codes)
  /\ MntSuccessIsOfThisRun

LEMMA StepsOfMnt ==
  /\ \A step : AtStep(step) => mnt.result = "running" /\ step = MntSteps[mnt.at]
  /\ MntSteps[1] = "checkout" /\ MntSteps[2] = "microcap" /\ MntSteps[3] = "source_returns"
  /\ MntSteps[4] = "build" /\ MntSteps[5] = "digest" /\ MntSteps[6] = "send"
  /\ MntSteps[7] = "upload" /\ MntSteps[8] = "verdict" /\ Len(MntSteps) = 8
BY DEF AtStep, MntSteps

\* The step of the job by its number.
LEMMA StepNumbers ==
  ASSUME mnt \in MntStates
  PROVE  /\ \A step \in Builds \cup {"checkout"} : AtStep(step) => mnt.at \in 1 .. 4
         /\ AtStep("build") => mnt.at = 4
         /\ \A step \in {"microcap", "source_returns"} : AtStep(step) => mnt.at \in 2 .. 3
         /\ AtStep("digest") => mnt.at = 5
         /\ AtStep("upload") => mnt.at = 7
         /\ AtStep("verdict") => mnt.at = 8
<1>1. mnt.at \in {1, 2, 3, 4, 5, 6, 7, 8}
  BY DEF MntStates
<1>2. QED BY <1>1, StepsOfMnt DEF Builds

LEMMA MntFields ==
  ASSUME mnt \in MntStates
  PROVE  /\ mnt.at \in 1 .. 8 /\ mnt.cut \in BOOLEAN /\ mnt.codes \in ExitCodes
         /\ mnt.committed \in BOOLEAN /\ mnt.wrote \in BOOLEAN /\ mnt.sent \in SUBSET MntMails
         /\ mnt.result \in {"running", "success", "failure", "cancelled"}
         /\ mnt = [at |-> mnt.at, cut |-> mnt.cut, codes |-> mnt.codes, committed |-> mnt.committed,
                   wrote |-> mnt.wrote, sent |-> mnt.sent, result |-> mnt.result]
BY DEF MntStates

\* The job after a step.
LEMMA MntNow ==
  ASSUME NEW at \in 1 .. 8, NEW cut \in BOOLEAN, NEW codes \in ExitCodes, NEW committed \in BOOLEAN,
         NEW wrote \in BOOLEAN, NEW sent \in SUBSET MntMails,
         NEW result \in {"running", "success", "failure", "cancelled"},
         mnt' = [at |-> at, cut |-> cut, codes |-> codes, committed |-> committed, wrote |-> wrote,
                 sent |-> sent, result |-> result]
  PROVE  /\ mnt' \in MntStates /\ mnt'.at = at /\ mnt'.cut = cut /\ mnt'.codes = codes
         /\ mnt'.wrote = wrote /\ mnt'.sent = sent /\ mnt'.result = result
BY DEF MntStates

LEMMA MntStarts == MntInit => MntInv
<1> SUFFICES ASSUME MntInit PROVE MntInv
  OBVIOUS
<1>1. PICK committed \in BOOLEAN :
        mnt = [at |-> 1, cut |-> FALSE, codes |-> [b \in Builds |-> "none"], committed |-> committed,
               wrote |-> FALSE, sent |-> {}, result |-> "running"]
  BY DEF MntInit
<1>2. mnt \in MntStates
  BY <1>1 DEF MntStates, ExitCodes
<1>3. mnt.codes["build"] = "none"
  BY <1>1 DEF Builds
<1>4. QED BY <1>1, <1>2, <1>3 DEF MntInv, MntSuccessIsOfThisRun

\* A step before the mail that changes no result.
LEMMA EarlyStep ==
  ASSUME MntInv, mnt' \in MntStates, mnt.result = "running", mnt'.result = "running", mnt'.at <= 5,
         mnt'.sent = mnt.sent, mnt'.codes["build"] = "zero" => mnt'.wrote
  PROVE  MntInv'
<1>1. ~(mnt'.at >= 7)
  <2>1. mnt'.at \in 1 .. 8
    BY DEF MntStates
  <2>2. QED BY <2>1
<1>2. MntSuccessIsOfThisRun'
  BY DEF MntInv, MntSuccessIsOfThisRun
<1>3. QED BY <1>1, <1>2 DEF MntInv

LEMMA MntMoves == MntInv /\ [MntNext]_mnt => MntInv'
<1> SUFFICES ASSUME MntInv, [MntNext]_mnt PROVE MntInv'
  OBVIOUS
<1>0. mnt \in MntStates
  BY DEF MntInv
<1>1. CASE UNCHANGED mnt
  BY <1>1 DEF MntInv, MntSuccessIsOfThisRun
<1>20. /\ mnt.cut \in BOOLEAN /\ mnt.codes \in ExitCodes
       /\ mnt.committed \in BOOLEAN /\ mnt.wrote \in BOOLEAN /\ mnt.sent \in SUBSET MntMails
       /\ 7 \in 1 .. 8 /\ "running" \in {"running", "success", "failure", "cancelled"}
  BY <1>0, MntFields
\* The fields of the job before the step.
<1> DEFINE Is(at, cut, codes, wrote, sent, result) ==
      mnt' = [at |-> at, cut |-> cut, codes |-> codes, committed |-> mnt.committed, wrote |-> wrote,
              sent |-> sent, result |-> result]
<1>2. ASSUME mnt.at \in 1 .. 4, mnt.result = "running", NEW cut \in BOOLEAN, NEW codes \in ExitCodes,
             NEW wrote \in BOOLEAN, codes["build"] = "zero" => wrote,
             Is(mnt.at + 1, cut, codes, wrote, mnt.sent, "running")
      PROVE MntInv'
  <2>1. PICK at \in 1 .. 8 : at = mnt.at + 1 /\ at <= 5
    BY <1>2
  <2>2. Is(at, cut, codes, wrote, mnt.sent, "running")
    BY <1>2, <2>1
  <2>3. /\ mnt' \in MntStates /\ mnt'.at = at /\ mnt'.cut = cut /\ mnt'.codes = codes
        /\ mnt'.wrote = wrote /\ mnt'.sent = mnt.sent /\ mnt'.result = "running"
    BY <1>20, <2>2, MntNow, Zenon
  <2>4. QED BY <1>2, <2>1, <2>3, EarlyStep
<1>3. CASE SkipStep \/ CheckOut
  <2>1. mnt.at \in 1 .. 4 /\ mnt.result = "running" /\ mnt' = Onwards(mnt)
    BY <1>0, <1>3, StepNumbers, StepsOfMnt DEF SkipStep, CheckOut, Reached
  <2>2. Is(mnt.at + 1, mnt.cut, mnt.codes, mnt.wrote, mnt.sent, "running")
    BY <1>0, <2>1, MntFields DEF Onwards
  <2>3. QED BY <1>0, <1>2, <2>1, <2>2, MntFields DEF MntInv
<1>4. CASE CutStep
  <2>1. mnt.at \in 1 .. 4 /\ mnt.result = "running" /\ mnt' = [Onwards(mnt) EXCEPT !.cut = TRUE]
    BY <1>0, <1>4, StepNumbers, StepsOfMnt DEF CutStep, Reached
  <2>2. Is(mnt.at + 1, TRUE, mnt.codes, mnt.wrote, mnt.sent, "running")
    BY <1>0, <2>1, MntFields DEF Onwards
  <2>3. QED BY <1>0, <1>2, <2>1, <2>2, MntFields DEF MntInv
<1>5. CASE BuildSource
  <2>1. PICK step \in {"microcap", "source_returns"}, code \in {"zero", "other"} :
          AtStep(step) /\ mnt' = [Onwards(mnt) EXCEPT !.codes[step] = code]
    BY <1>5 DEF BuildSource, Reached
  <2>2. mnt.at \in 1 .. 4 /\ mnt.result = "running"
    BY <1>0, <2>1, StepNumbers, StepsOfMnt
  <2>3. PICK codes : codes = [mnt.codes EXCEPT ![step] = code]
    OBVIOUS
  <2>4. codes \in ExitCodes /\ codes["build"] = mnt.codes["build"]
    BY <1>0, <2>3, MntFields DEF ExitCodes, Builds
  <2>5. Is(mnt.at + 1, mnt.cut, codes, mnt.wrote, mnt.sent, "running")
    BY <1>0, <2>1, <2>2, <2>3, MntFields DEF Onwards
  <2>6. QED BY <1>0, <1>2, <2>2, <2>4, <2>5, MntFields DEF MntInv
<1>6. CASE BuildAdvisory
  <2>1. PICK runs \in [1 .. 4 -> {"zero", "other"}], half \in BOOLEAN :
          /\ AtStep("build")
          /\ mnt' = [Onwards(mnt) EXCEPT !.codes["build"] = runs[4], !.wrote = runs[4] = "zero" \/ half]
    BY <1>6 DEF BuildAdvisory, Reached
  <2>2. mnt.at \in 1 .. 4 /\ mnt.result = "running"
    BY <1>0, <2>1, StepNumbers, StepsOfMnt
  <2>3. PICK codes : codes = [mnt.codes EXCEPT !["build"] = runs[4]]
    OBVIOUS
  <2>4. codes \in ExitCodes /\ codes["build"] = runs[4]
    <3>1. runs[4] \in {"zero", "other"}
      OBVIOUS
    <3>2. QED BY <1>0, <2>3, <3>1, MntFields DEF ExitCodes, Builds
  <2>5. PICK wrote \in BOOLEAN : wrote = (runs[4] = "zero" \/ half)
    OBVIOUS
  <2>6. mnt' = [Onwards(mnt) EXCEPT !.codes["build"] = runs[4], !.wrote = wrote]
    BY <2>1, <2>5
  <2>7. Is(mnt.at + 1, mnt.cut, codes, wrote, mnt.sent, "running")
    BY <1>0, <2>2, <2>3, <2>6, MntFields DEF Onwards
  <2>8. QED BY <1>0, <1>2, <2>2, <2>4, <2>5, <2>7, MntFields
<1>7. CASE SendMnt
  <2>1. PICK written \in BOOLEAN, delivered \in BOOLEAN :
          /\ AtStep("digest")
          /\ mnt' = [mnt EXCEPT !.at = @ + 2, !.cut = @ \/ ~(written /\ delivered),
                                !.sent = IF written /\ delivered THEN {MntMail(mnt)} ELSE {}]
    BY <1>7 DEF SendMnt
  <2>2. mnt.at = 5 /\ mnt.result = "running"
    BY <1>0, <2>1, StepNumbers, StepsOfMnt
  <2>3. PICK mail : mail = MntMail(mnt)
    OBVIOUS
  <2>4. /\ mail.conclusion = Conclusion(mnt.codes) /\ mail.summary = Summary(mnt) /\ mail \in MntMails
    BY <2>3 DEF MntMail, Conclusion, Summary, MntMails
  <2>5. mail.conclusion = "success" => mail.summary = "of this run"
    <3>1. mail.conclusion = "success" => mnt.codes["build"] = "zero"
      BY <2>4 DEF Conclusion, Builds
    <3>2. QED BY <2>4, <3>1 DEF MntInv, Summary
  <2>6. PICK cut \in BOOLEAN : cut = (mnt.cut \/ ~(written /\ delivered))
    OBVIOUS
  <2>7. PICK sent \in SUBSET MntMails : sent = IF written /\ delivered THEN {mail} ELSE {}
    BY <2>4
  <2>8. mnt' = [mnt EXCEPT !.at = 7, !.cut = cut, !.sent = sent]
    BY <2>1, <2>2, <2>3, <2>6, <2>7
  <2>9. Is(7, cut, mnt.codes, mnt.wrote, sent, "running")
    BY <1>0, <2>2, <2>8, MntFields
  <2>10. /\ mnt' \in MntStates /\ mnt'.at = 7 /\ mnt'.cut = cut /\ mnt'.codes = mnt.codes
         /\ mnt'.wrote = mnt.wrote /\ mnt'.sent = sent /\ mnt'.result = "running"
    BY <1>20, <2>9, MntNow
  <2>11. ~cut => mail \in sent
    BY <2>6, <2>7
  <2>12. ~mnt'.cut => \E m \in mnt'.sent : m.conclusion = Conclusion(mnt'.codes)
    BY <2>4, <2>10, <2>11
  <2>13. MntSuccessIsOfThisRun'
    BY <2>5, <2>7, <2>10 DEF MntSuccessIsOfThisRun
  <2>14. (mnt'.codes["build"] = "zero") => mnt'.wrote
    BY <2>10 DEF MntInv
  <2>15. QED BY <2>10, <2>12, <2>13, <2>14 DEF MntInv, Conclusion
\* Past the mail, nothing but the step and the result changes.
<1>8. ASSUME mnt.result = "running", NEW at \in 1 .. 8, at >= 7 => mnt.at >= 7,
             NEW result \in {"running", "success", "failure", "cancelled"},
             result = "success" => mnt.at >= 7 /\ ~mnt.cut /\ Conclusion(mnt.codes) = "success",
             Is(at, mnt.cut, mnt.codes, mnt.wrote, mnt.sent, result)
      PROVE  MntInv'
  <2>1. /\ mnt' \in MntStates /\ mnt'.at = at /\ mnt'.cut = mnt.cut /\ mnt'.codes = mnt.codes
        /\ mnt'.wrote = mnt.wrote /\ mnt'.sent = mnt.sent /\ mnt'.result = result
    <3>1. PICK cut \in BOOLEAN, codes \in ExitCodes, committed \in BOOLEAN, wrote \in BOOLEAN,
               sent \in SUBSET MntMails :
            /\ cut = mnt.cut /\ codes = mnt.codes /\ committed = mnt.committed /\ wrote = mnt.wrote
            /\ sent = mnt.sent
      BY <1>20
    <3>2. mnt' = [at |-> at, cut |-> cut, codes |-> codes, committed |-> committed, wrote |-> wrote,
                  sent |-> sent, result |-> result]
      BY <1>8, <3>1
    <3>3. QED BY <3>1, <3>2 DEF MntStates
  <2>2. mnt.at >= 7 /\ ~mnt.cut => \E mail \in mnt.sent : mail.conclusion = Conclusion(mnt.codes)
    BY DEF MntInv
  <2>3. mnt'.at >= 7 /\ ~mnt'.cut => \E mail \in mnt'.sent : mail.conclusion = Conclusion(mnt'.codes)
    BY <1>8, <2>1, <2>2
  <2>4. MntSuccessIsOfThisRun'
    BY <1>8, <2>1, <2>2 DEF MntInv, MntSuccessIsOfThisRun
  <2>5. (mnt'.codes["build"] = "zero") => mnt'.wrote
    BY <2>1 DEF MntInv
  <2>6. QED BY <2>1, <2>3, <2>4, <2>5 DEF MntInv, Conclusion
<1>9. CASE UploadMnt
  <2>1. mnt.at = 7 /\ mnt.result = "running" /\ mnt' = Onwards(mnt)
    BY <1>0, <1>9, StepNumbers, StepsOfMnt DEF UploadMnt
  <2>2. Is(8, mnt.cut, mnt.codes, mnt.wrote, mnt.sent, "running")
    BY <1>0, <2>1, MntFields DEF Onwards
  <2>3. QED BY <1>8, <2>1, <2>2
<1>10. CASE Verdict
  <2>1. PICK result \in {"success", "failure"} :
          /\ result = IF mnt.cut \/ Conclusion(mnt.codes) = "failure" THEN "failure" ELSE "success"
          /\ mnt' = [mnt EXCEPT !.result = result]
    BY <1>10 DEF Verdict
  <2>2. mnt.at = 8 /\ mnt.result = "running"
    BY <1>0, <1>10, StepNumbers, StepsOfMnt DEF Verdict
  <2>3. Is(8, mnt.cut, mnt.codes, mnt.wrote, mnt.sent, result)
    BY <1>0, <2>1, <2>2, MntFields
  <2>4. Conclusion(mnt.codes) \in {"success", "failure"}
    BY DEF Conclusion
  <2>5. result = "success" => ~mnt.cut /\ Conclusion(mnt.codes) = "success"
    BY <2>1, <2>4
  <2>6. QED BY <1>8, <2>2, <2>3, <2>5
<1>11. CASE LoseRunner
  <2>1. mnt.result = "running" /\ mnt' = [mnt EXCEPT !.result = "cancelled"]
    BY <1>11 DEF LoseRunner
  <2>2. Is(mnt.at, mnt.cut, mnt.codes, mnt.wrote, mnt.sent, "cancelled")
    BY <1>0, <2>1, MntFields
  <2>3. QED BY <1>0, <1>8, <2>1, <2>2, MntFields
<1>12. QED BY <1>1, <1>3, <1>4, <1>5, <1>6, <1>7, <1>9, <1>10, <1>11 DEF MntNext

-------------------------------------------------------------------------------
(* The contracts of the IC/IM mail, for every evidence and every payload.        *)

\* A fetch: its day is not the first one, its times are numbers.
LEMMA FearContract ==
  ASSUME NEW e, e.day \in Nat, e.day > 1, e.close \in BOOLEAN,
         {e.started, e.retrieved, e.checked, e.pageAt} \subseteq Nat,
         e.csvDay \in Nat, e.pageDay \in Nat, DOMAIN e.csv \subseteq Nat,
         NEW claims, \A c \in claims : c.generated \in Nat /\ c.data \in Nat
  PROVE  NoFresherReadingIsHidden(e, claims)
<1> SUFFICES ASSUME NEW c \in claims
             PROVE  /\ EvidenceAccepted(e, c) =>
                         /\ c.data \in {None, e.day, Prior(e.day)}
                         /\ c.data = Prior(e.day) => ~(e.pageDay = e.day /\ (e.pageAt > Close(e.day) \/ ~e.close))
                         /\ c.status = "post_close" => e.retrieved > Close(e.day) /\ e.page[e.pageDay] = c.value
                                                       /\ e.pageAt > Close(e.day)
                         /\ e.retrieved < 4 * (e.day + 1) \/ c.replay
                    /\ (FallbackAccepted(e, c) /\ QualityIsTrue(e, c) /\ SnapshotIsWhole(e) /\ c.warned) =>
                         EvidenceAccepted(e, c)
  BY Zenon DEF NoFresherReadingIsHidden
<1>1. ASSUME EvidenceAccepted(e, c)
      PROVE  /\ c.data \in {None, e.day, Prior(e.day)}
             /\ c.data = Prior(e.day) => ~(e.pageDay = e.day /\ (e.pageAt > Close(e.day) \/ ~e.close))
             /\ c.status = "post_close" => e.retrieved > Close(e.day) /\ e.page[e.pageDay] = c.value
                                           /\ e.pageAt > Close(e.day)
             /\ e.retrieved < 4 * (e.day + 1) \/ c.replay
  <2>1. /\ ClocksAgree(e, c)
        /\ \/ c.value = None /\ c.data = None /\ c.status = "unavailable"
           \/ Carried(c) /\ CarryAllowed(e, c)
           \/ ~Carried(c) /\ OwnReading(e, c)
    BY <1>1 DEF EvidenceAccepted
  <2>2. e.retrieved < 4 * (e.day + 1) \/ c.replay
    BY <2>1 DEF ClocksAgree, DateOf
  <2>3. CASE c.data = None /\ c.status = "unavailable"
    BY <2>2, <2>3 DEF None, Prior
  <2>4. CASE Carried(c) /\ CarryAllowed(e, c)
    <3>1. c.status # "post_close"
      BY <2>4 DEF Carried, CarryTerms
    <3>2. QED BY <2>2, <2>4, <3>1 DEF CarryAllowed, Close
  <2>5. CASE OwnReading(e, c)
    <3>1. c.data = e.day /\ c.data # Prior(e.day)
      BY <2>5 DEF OwnReading, Prior
    <3>2. c.status = "post_close" => e.pageDay = e.day /\ e.page[e.day] = c.value /\ e.pageAt > Close(e.day)
      BY <2>5, Zenon DEF OwnReading
    <3>3. c.status = "post_close" => e.retrieved > Close(e.day)
      BY <2>1, <3>2 DEF ClocksAgree, None, Close
    <3>4. QED BY <2>2, <3>1, <3>2, <3>3
  <2>6. QED BY <2>1, <2>3, <2>4, <2>5
<1>2. ASSUME FallbackAccepted(e, c), QualityIsTrue(e, c), SnapshotIsWhole(e), c.warned
      PROVE  EvidenceAccepted(e, c)
  <2> DEFINE source == IF e.close /\ c.reason = "not_confirmed" THEN e.day ELSE Prior(e.day)
  <2>1. /\ ClocksAgree(e, c) /\ AfterClose(e) /\ Available(e) = {"csv", "page"}
        /\ c.status = SignalTerm(e) /\ c.data = Prior(e.day)
        /\ c.reason \in (IF e.close THEN {"not_published", "not_confirmed"} ELSE {"not_published"})
        /\ e.pageDay = source /\ Max({e.csvDay, e.pageDay}) = source
        /\ c.selected = "csv" /\ c.value # None /\ ReadingSeen(e, c)
        /\ (e.close /\ c.reason = "not_confirmed") => DateOf(e.pageAt) = e.day /\ e.pageAt <= Close(e.day)
        /\ c.timing = IF ~e.close THEN "intraday"
                      ELSE IF DateOf(e.retrieved) > e.day THEN "replay" ELSE "post_close"
    BY <1>2, Zenon DEF FallbackAccepted
  <2>2. c.selected \in Available(e) /\ Carried(c)
    BY <2>1 DEF Carried, CarryTerms, SignalTerm
  <2>3. e.csvDay <= source
    <3>1. Max({e.csvDay, e.pageDay}) >= e.csvDay
      <4>1. \E x \in {e.csvDay, e.pageDay} : \A y \in {e.csvDay, e.pageDay} : x >= y
        OBVIOUS
      <4>2. QED BY <4>1, Zenon DEF Max
    <3> HIDE DEF source
    <3>2. QED BY <2>1, <3>1
  <2>4. CarryAllowed(e, c)
    <3>1. c.timing = IF DateOf(e.retrieved) > e.day THEN "replay" ELSE IF e.close THEN "post_close" ELSE "intraday"
      BY <2>1 DEF ClocksAgree, DateOf
    <3>2. CASE c.reason = "not_confirmed"
      BY <2>1, <3>1, <3>2 DEF CarryAllowed
    <3>3. CASE c.reason = "not_published"
      <4>1. source = Prior(e.day) /\ e.pageDay # e.day /\ e.csvDay # e.day
        BY <2>1, <2>3, <3>3 DEF Prior
      <4>2. e.day \notin DOMAIN e.csv
        <5>1. "csv" \in Available(e)
          BY <2>1
        <5>2. e.csvDay # None
          BY <5>1 DEF Available
        <5>3. \A d \in DOMAIN e.csv : d <= e.csvDay
          BY <1>2, <5>2 DEF SnapshotIsWhole
        <5>4. e.csvDay < e.day
          BY <2>3, <4>1 DEF Prior
        <5>5. QED BY <5>3, <5>4
      <4>3. QED BY <2>1, <3>1, <3>3, <4>1, <4>2 DEF CarryAllowed
    <3>4. QED BY <2>1, <3>2, <3>3
  <2>5. QED BY <1>2, <2>1, <2>2, <2>4 DEF EvidenceAccepted
<1>3. QED BY <1>1, <1>2

LEMMA PartialContract ==
  ASSUME NEW p PROVE PartialIsExact(p)
<1> SUFFICES ASSUME DigestAccepted(p) PROVE PartialIsExact(p)
  BY DEF PartialIsExact
<1>1. /\ Marked(p) /\ Publication(p)
      /\ p.signals["IC"].fear = p.signals["IM"].fear /\ p.signals["IC"].flexible = p.signals["IM"].flexible
      /\ p.status = "partial" =>
           \A x \in Products : p.signals[x].action = "UNCONFIRMED" => p.signals[x].fear = None
  BY Zenon DEF DigestAccepted, Marked
<1>2. WithoutFear(p) \in {{}, Products}
  BY <1>1 DEF WithoutFear, Products
<1>3. p.status = "partial" => WithoutFear(p) = Products
  <2>1. SUFFICES ASSUME p.status = "partial" PROVE WithoutFear(p) # {}
    BY <1>2
  <2>2. PICK x \in Products : p.signals[x].action = "UNCONFIRMED" /\ p.signals[x].flexible
    BY <1>1, <2>1, Zenon DEF Marked
  <2>3. QED BY <1>1, <2>1, <2>2 DEF WithoutFear
<1>4. WithoutFear(p) = Products =>
        /\ p.status = "partial" /\ ~p.complete /\ p.missing = Products
        /\ \A x \in Products : p.signals[x].hidden
  BY <1>1 DEF Publication, Products
<1>5. QED BY <1>2, <1>3, <1>4, Zenon DEF PartialIsExact

LEMMA IdentityContract ==
  ASSUME NEW d \in Int, NEW e \in Int PROVE IdentitiesAgree(d, e)
<1>1. TagOf(d) = TagOf(e) <=> BuildOf(d) = BuildOf(e)
  BY DEF TagOf, BuildOf, Sep26, Sep28, Sep29, Oct8
<1>2. RuleOf(d) = RuleOf(e) => BuildOf(d) = BuildOf(e)
  BY DEF RuleOf, BuildOf, Sep26, Sep28, Sep29, Oct8
<1>3. QED BY <1>1, <1>2 DEF IdentitiesAgree

LEMMA PlanContract ==
  ASSUME NEW s, NEW core, NEW mom,
         s.plan = [signal |-> s.plan.signal, exec |-> s.plan.exec, core |-> core, mom |-> mom],
         s.cur = [core |-> s.cur.core, mom |-> s.cur.mom], s.tgt = [core |-> s.tgt.core, mom |-> s.tgt.mom],
         core.changed \in BOOLEAN, mom.changed \in BOOLEAN, s.profit \in BOOLEAN
  PROVE  OneOwnerForEveryLeg(s)
<1> SUFFICES ASSUME SignalAccepted(s), s.plan # NoPlan PROVE OneOwnerForEveryLeg(s)
  BY DEF OneOwnerForEveryLeg
<1> DEFINE trades == NextOpening(s)
           After(l) == IF \E t \in trades : t[1] = l THEN (CHOOSE t \in trades : t[1] = l)[3] ELSE s.cur[l]
<1>1. /\ CoreIsOwned(s) => ~core.changed
      /\ s.plan.core = core /\ s.plan.mom = mom
      /\ s.plan["core"] = core /\ s.plan["mom"] = mom
      /\ s.cur["core"] = s.cur.core /\ s.cur["mom"] = s.cur.mom
  BY DEF SignalAccepted, PendingAccepted
<1>2. CASE Migration(s)
  <2>1. /\ s.cur = s.tgt /\ core = [old |-> Flat, new |-> s.tgt.core, changed |-> TRUE]
    BY <1>1, <1>2 DEF Migration
  <2>2. ~CoreIsOwned(s) /\ s.route = "future" /\ ~s.profit
    BY <1>1, <2>1 DEF CoreIsOwned, ThreeTimes
  <2>3. trades = {}
    BY <1>2, <2>2, Zenon DEF NextOpening
  <2> HIDE DEF trades
  <2>4. After("mom") = s.tgt.mom /\ After("core") = s.tgt.core
    BY <1>1, <2>1, <2>3
  <2>5. QED BY <2>2, <2>3, <2>4, Zenon DEF OneOwnerForEveryLeg, trades
<1>3. CASE ~Migration(s)
  <2>1. /\ OwnerIsSound(s)
        /\ core = IF CoreIsOwned(s) THEN Leg(OwnedCore(s), OwnedCore(s)) ELSE Leg(s.cur.core, s.tgt.core)
        /\ mom = Leg(s.cur.mom, s.tgt.mom)
    BY <1>1, <1>3, Zenon DEF SignalAccepted, PlanAccepted
  <2>2. /\ core.changed => ~CoreIsOwned(s) /\ core.old = s.cur.core /\ core.new = s.tgt.core
        /\ ~CoreIsOwned(s) /\ ~core.changed => s.cur.core = s.tgt.core
        /\ mom.old = s.cur.mom /\ mom.new = s.tgt.mom
        /\ ~mom.changed => s.cur.mom = s.tgt.mom
    <3>1. \A a, b : Leg(a, b).old = a /\ Leg(a, b).new = b /\ (Leg(a, b).changed <=> a # b)
      BY DEF Leg
    <3>2. CASE CoreIsOwned(s)
      BY <1>1, <2>1, <3>1, <3>2
    <3>3. CASE ~CoreIsOwned(s)
      BY <2>1, <3>1, <3>3
    <3>4. QED BY <3>2, <3>3
  <2>3. s.profit => CoreIsOwned(s) /\ s.old3 = s.cur.core
    BY <2>1 DEF OwnerIsSound, CoreIsOwned, ThreeTimes
  <2>4. \A t : t \in trades <=> \/ core.changed /\ t = <<"core", core.old, core.new>>
                                \/ mom.changed /\ t = <<"mom", mom.old, mom.new>>
                                \/ s.profit /\ t = <<"core", s.old3, s.new3>>
    <3>1. trades = {<<l, s.plan[l].old, s.plan[l].new>> : l \in {k \in {"core", "mom"} : s.plan[k].changed}}
                   \cup (IF s.profit THEN {<<"core", s.old3, s.new3>>} ELSE {})
      BY <1>3, Zenon DEF NextOpening
    <3> HIDE DEF trades
    <3>2. QED BY <1>1, <3>1
  <2> HIDE DEF trades
  <2>5. \A t \in trades : /\ t[1] \in {"core", "mom"} /\ t[2] = s.cur[t[1]]
                          /\ t[1] = "mom" => t[3] = s.tgt.mom /\ mom.changed
                          /\ t[1] = "core" /\ ~CoreIsOwned(s) => t[3] = s.tgt.core
    BY <1>1, <2>2, <2>3, <2>4
  <2>6. \A t, u \in trades : t[1] = u[1] => t = u
    BY <2>2, <2>3, <2>4
  <2>7. After("mom") = s.tgt.mom
    <3>1. CASE \E t \in trades : t[1] = "mom"
      BY <2>5, <3>1
    <3>2. CASE ~\E t \in trades : t[1] = "mom"
      <4>1. ~mom.changed
        <5>1. mom.changed => <<"mom", mom.old, mom.new>> \in trades
          BY <2>4
        <5>2. <<"mom", mom.old, mom.new>>[1] = "mom"
          OBVIOUS
        <5>3. QED BY <3>2, <5>1, <5>2, Zenon
      <4>2. QED BY <1>1, <2>2, <3>2, <4>1
    <3>3. QED BY <3>1, <3>2
  <2>8. ~CoreIsOwned(s) => After("core") = s.tgt.core
    <3> SUFFICES ASSUME ~CoreIsOwned(s) PROVE After("core") = s.tgt.core
      OBVIOUS
    <3>1. CASE \E t \in trades : t[1] = "core"
      BY <2>5, <3>1
    <3>2. CASE ~\E t \in trades : t[1] = "core"
      <4>1. ~core.changed
        <5>1. core.changed => <<"core", core.old, core.new>> \in trades
          BY <2>4
        <5>2. <<"core", core.old, core.new>>[1] = "core"
          OBVIOUS
        <5>3. QED BY <3>2, <5>1, <5>2, Zenon
      <4>2. QED BY <1>1, <2>2, <3>2, <4>1
    <3>3. QED BY <3>1, <3>2
  <2>9. s.route # "future" => s.plan.core = Leg(Flat, Flat)
    BY <1>1, <2>1 DEF CoreIsOwned, OwnedCore
  <2> HIDE DEF After
  <2>10. QED BY <2>5, <2>6, <2>7, <2>8, <2>9, Zenon DEF OneOwnerForEveryLeg, trades, After
<1>4. QED BY <1>2, <1>3

LEMMA SumsContract ==
  ASSUME NEW t, \A w \in {"cur", "tgt"} : {t.core[w], t.mom[w], t.grid[w], t.total[w], t.weight[w]} \subseteq Int,
         t.core = [cur |-> t.core.cur, tgt |-> t.core.tgt], t.grid = [cur |-> t.grid.cur, tgt |-> t.grid.tgt],
         t.weight = [cur |-> t.weight.cur, tgt |-> t.weight.tgt], t.total = [cur |-> t.total.cur, tgt |-> t.total.tgt]
  PROVE  ChangesAddUp(t)
BY DEF ChangesAddUp, SumsAccepted

LEMMA CostContract ==
  ASSUME NEW x PROVE QuietMeansPriced(x)
<1> SUFFICES ASSUME CostAccepted(x), ~NeedsAttention(x) PROVE QuietMeansPriced(x)
  BY DEF QuietMeansPriced
<1>1. /\ x.pending = NoPlan /\ (x.route = "short_put" => x.basis = "confirmed")
      /\ \A e \in x.events : e.status = "confirmed"
  BY Zenon DEF NeedsAttention
<1>2. \A e \in x.events : \A l \in e.legs : \E p \in e.prices : p.leg = l /\ p.day = x.day
  <2> TAKE e \in x.events
  <2>1. {p.leg : p \in e.prices} = e.legs /\ \A p \in e.prices : p.day = x.day
    BY <1>1 DEF CostAccepted, EventAccepted
  <2>2. QED BY <2>1
<1>3. x.route = "short_put" =>
        /\ x.premium # 0 /\ x.priceDay # 0 /\ x.priceDay <= x.day
        /\ x.priceDay = x.day => \E e \in x.events : \E p \in e.prices : p.leg = x.held /\ p.open = x.premium
  BY <1>1, Zenon DEF CostAccepted
<1>4. QED BY <1>2, <1>3, Zenon DEF QuietMeansPriced

LEMMA SubjectContract ==
  ASSUME NEW f PROVE WorkIsNeverQuiet(f)
BY DEF WorkIsNeverQuiet, ToAdjust, SubjectTag, Headline

\* A month whose holidays leave an open day in any twenty.
LEMMA NextOpenIsLater ==
  ASSUME NEW m, NEW n \in Int, \E k \in n + 1 .. n + 20 : Opens(m, k)
  PROVE  NextOpen(m, n) \in Int /\ NextOpen(m, n) > n
<1> DEFINE T == {k - n : k \in {j \in n + 1 .. n + 20 : Opens(m, j)}}
<1>1. T \in SUBSET Nat /\ T # {}
  OBVIOUS
<1>2. PICK t \in T : \A u \in T : t <= u
  <2> HIDE DEF T
  <2>1. QED BY <1>1, LeastOf
<1>3. PICK k \in n + 1 .. n + 20 : Opens(m, k) /\ t = k - n
  BY <1>2
<1>4. \A j \in n + 1 .. k - 1 : ~Opens(m, j)
  <2> SUFFICES ASSUME NEW j \in n + 1 .. k - 1, Opens(m, j) PROVE FALSE
    OBVIOUS
  <2>1. j - n \in T /\ j - n < t
    BY <1>3
  <2>2. QED BY <1>2, <1>3, <2>1
<1>5. NextOpen(m, n) \in n + 1 .. n + 20
  BY <1>3, <1>4, Zenon DEF NextOpen
<1>6. QED BY <1>5

LEMMA MonthContract ==
  ASSUME NEW m, NEW day \in Int, NEW after \in BOOLEAN, NEW read, NEW now,
         \E k \in day + 1 .. day + 20 : Opens(m, k)
  PROVE  AnnouncedOnTheDay(m, day, after, read, now)
<1> SUFFICES ASSUME Opens(m, day) PROVE AnnouncedOnTheDay(m, day, after, read, now)
  BY DEF AnnouncedOnTheDay
<1> DEFINE right == CASE after /\ NextOpen(m, day) = Maintenance(m) -> "next"
                      [] ~after /\ day = Maintenance(m) -> "today"
                      [] OTHER -> "none"
<1>1. PICK next \in Int : next = NextOpen(m, day) /\ next > day
  BY NextOpenIsLater
<1>2. ASSUME NEW preview, preview = after \/ preview = (after /\ next = Maintenance(m))
      PROVE  Reminder(m, day, after, Maintenance(m), next, preview) = right
  <2>1. CASE after /\ next = Maintenance(m)
    BY <1>1, <1>2, <2>1 DEF Reminder
  <2>2. CASE ~after /\ day = Maintenance(m)
    BY <1>1, <1>2, <2>2 DEF Reminder
  <2>3. CASE ~(after /\ next = Maintenance(m)) /\ ~(~after /\ day = Maintenance(m))
    BY <1>1, <1>2, <2>3 DEF Reminder
  <2>4. QED BY <2>1, <2>2, <2>3
<1> HIDE DEF right
<1>3. ReminderOfSuccess(m, day, after) = right
  BY <1>1, <1>2 DEF ReminderOfSuccess
<1>4. ReminderOfFailure(m, day, after, read, now) = IF read = day /\ now = day THEN right ELSE "none"
  BY <1>1, <1>2 DEF ReminderOfFailure
<1>5. QED BY <1>3, <1>4, Zenon DEF AnnouncedOnTheDay, right

\* Eight holidays in a row leave an open day in any twenty.
LEMMA HolidaysEnd ==
  ASSUME NEW first \in 0 .. 6, NEW a \in Int, NEW n \in 0 .. 8, NEW m,
         m = [first |-> first, closed |-> a .. a + n - 1], NEW day \in Int
  PROVE  \E k \in day + 1 .. day + 20 : Opens(m, k)
<1>1. \A k \in Int : WeekdayIn(m, k) < 5 \/ WeekdayIn(m, k + 1) < 5 \/ WeekdayIn(m, k + 2) < 5
  <2> TAKE k \in Int
  <2>1. \/ (first + k - 1) % 7 < 5 \/ (first + (k + 1) - 1) % 7 < 5 \/ (first + (k + 2) - 1) % 7 < 5
    OBVIOUS
  <2>2. QED BY <2>1 DEF WeekdayIn
<1>2. PICK i \in day + 1 .. day + 3 : WeekdayIn(m, i) < 5
  <2>1. PICK k \in Int : k = day + 1
    OBVIOUS
  <2>2. k \in day + 1 .. day + 3 /\ k + 1 \in day + 1 .. day + 3 /\ k + 2 \in day + 1 .. day + 3
    BY <2>1
  <2>3. QED BY <1>1, <2>2, Zenon
<1>3. PICK j \in day + 12 .. day + 14 : WeekdayIn(m, j) < 5
  <2>1. PICK k \in Int : k = day + 12
    OBVIOUS
  <2>2. k \in day + 12 .. day + 14 /\ k + 1 \in day + 12 .. day + 14 /\ k + 2 \in day + 12 .. day + 14
    BY <2>1
  <2>3. QED BY <1>1, <2>2, Zenon
<1>4. i \notin m.closed \/ j \notin m.closed
  OBVIOUS
<1>5. QED BY <1>2, <1>3, <1>4 DEF Opens

-------------------------------------------------------------------------------
(* The handoff, for every ledger whose digests name one record each, and whose    *)
(* records before the newest are followed by a session.                           *)

LEMMA HandoffContract ==
  ASSUME NEW ledger, NEW report, NEW preflight,
         \A r \in ledger.journal : r.seq \in Nat /\ r.day \in Trading,
         \A r, q \in ledger.journal : r.digest = q.digest => r = q,
         ledger.latest \in ledger.journal,
         \A r \in ledger.journal : r.seq < ledger.latest.seq => \E d \in Trading : d > r.day
  PROVE  HandoffIsOneHistory(ledger, report, preflight)
<1> SUFFICES ASSUME Exports(ledger, report, preflight) PROVE HandoffIsOneHistory(ledger, report, preflight)
  BY DEF HandoffIsOneHistory
<1> DEFINE J == ledger.journal
           N == ledger.latest.seq
           R(n) == Record(ledger, n)
<1>1. /\ \A n \in 0 .. N : Loads(ledger, n)
      /\ \A n \in 1 .. N : Follows(R(n - 1), R(n))
      /\ R(N).digest = ledger.latest.digest
      /\ J = {R(n) : n \in 0 .. N}
      /\ ledger.migrated = R(0).digest
  BY Zenon DEF Exports, OneChain
<1>2. /\ report.seq = N /\ report.day = ledger.latest.day
      /\ preflight.restored = ledger.latest.digest /\ preflight.completed = ledger.latest.day
  BY DEF Exports, ReportAccepted
<1>3. N \in Nat /\ \A d \in Trading : d \in Nat
  BY DEF Trading
<1>4. \A n \in 0 .. N : R(n) \in J
  BY <1>1
<1>5. IsFiniteSet(J)
  <2> DEFINE f == [n \in 0 .. N |-> R(n)]
  <2>1. f \in Surjection(0 .. N, J)
    BY <1>1, <1>4 DEF Surjection
  <2>2. QED BY <1>3, <2>1, FS_Surjection, FS_Interval
<1>6. \A n \in 0 .. N : R(n).seq = n /\ \A r \in J : r.seq = n => r = R(n)
  <2> TAKE n \in 0 .. N
  <2> DEFINE S == {r \in J : r.seq = n}
  <2>1. IsFiniteSet(S) /\ Cardinality(S) = 1
    BY <1>1, <1>5, FS_Subset DEF Loads
  <2>2. PICK r : S = {r}
    BY <2>1, FS_Singleton
  <2>3. R(n) \in S
    BY <2>2, Zenon DEF Record
  <2>4. QED BY <2>2, <2>3
<1>7. ledger.latest = R(N)
  BY <1>3, <1>6
<1> HIDE DEF R
<1>8. ASSUME NEW n \in 1 .. N
      PROVE  /\ R(n).prev = R(n - 1).digest /\ R(n - 1).day < R(n).day
             /\ \A d \in Trading : d > R(n - 1).day => R(n).day <= d
  <2>1. n - 1 \in 0 .. N /\ n - 1 < N /\ Follows(R(n - 1), R(n))
    BY <1>1
  <2>2. R(n - 1).day \in Nat /\ \E d \in Trading : d > R(n - 1).day
    BY <1>3, <1>4, <1>6, <2>1
  <2>3. PICK b \in Nat : b = R(n - 1).day
    BY <2>2
  <2>4. PICK e \in {d \in Trading : d > b} : \A d \in {f \in Trading : f > b} : e <= d
    BY <1>3, <2>2, <2>3, LeastOf
  <2>5. e \in Trading /\ e >= b + 1 /\ \A f \in Trading : f >= b + 1 => e <= f
    BY <1>3, <2>3, <2>4
  <2>6. /\ RollForward(b + 1) \in Trading /\ RollForward(b + 1) >= b + 1
        /\ \A f \in Trading : f >= b + 1 => RollForward(b + 1) <= f
    BY <2>5, Zenon DEF RollForward
  <2>7. R(n).prev = R(n - 1).digest /\ R(n).day = RollForward(b + 1)
    BY <2>1, <2>3 DEF Follows
  <2>8. QED BY <1>3, <2>3, <2>6, <2>7
<1>9. ASSUME NEW i \in 0 .. N, NEW j \in 0 .. N, i < j PROVE R(i).day < R(j).day
  <2> DEFINE T == {k \in i + 1 .. N : ~(R(i).day < R(k).day)}
  <2>1. SUFFICES ASSUME T # {} PROVE FALSE
    BY <1>9
  <2>2. PICK k \in T : \A l \in T : k <= l
    <3>1. T \in SUBSET Nat
      OBVIOUS
    <3> HIDE DEF T
    <3>2. QED BY <2>1, <3>1, LeastOf
  <2>3. k \in 1 .. N /\ k - 1 \in 0 .. N /\ R(k - 1).day < R(k).day
    BY <1>3, <1>8, <2>2
  <2>4. k - 1 = i \/ R(i).day < R(k - 1).day
    BY <2>2, <2>3
  <2>5. R(i).day \in Nat /\ R(k).day \in Nat /\ R(k - 1).day \in Nat
    BY <1>3, <1>4, <2>2, <2>3
  <2>6. QED BY <2>2, <2>3, <2>4, <2>5
<1>10. /\ 0 \in 0 .. N /\ N \in 0 .. N
       /\ \A n \in 0 .. N : R(n).day \in Nat /\ R(n).day \in Trading
       /\ \A n \in 0 .. N : R(0).day <= R(n).day /\ R(n).day <= R(N).day
  <2>1. 0 \in 0 .. N /\ N \in 0 .. N
    BY <1>3
  <2>2. \A n \in 0 .. N : R(n).day \in Nat /\ R(n).day \in Trading
    BY <1>3, <1>4
  <2>3. ASSUME NEW n \in 0 .. N PROVE R(0).day <= R(n).day /\ R(n).day <= R(N).day
    <3>1. n = 0 \/ R(0).day < R(n).day
      BY <1>9, <2>1
    <3>2. n = N \/ R(n).day < R(N).day
      BY <1>9, <2>1
    <3>3. QED BY <2>1, <2>2, <3>1, <3>2
  <2>4. QED BY <2>1, <2>2, <2>3
<1>11. {r.day : r \in J} = {d \in Trading : R(0).day <= d /\ d <= R(N).day}
  <2>1. ASSUME NEW d \in Trading, R(0).day <= d, d <= R(N).day PROVE \E n \in 0 .. N : d = R(n).day
    <3> DEFINE T == {n \in 0 .. N : d <= R(n).day}
    <3>1. T \in SUBSET Nat /\ T # {}
      BY <1>10, <2>1
    <3>2. PICK n \in T : \A k \in T : n <= k
      BY <3>1, LeastOf
    <3>3. CASE n = 0
      BY <1>3, <1>10, <2>1, <3>2, <3>3
    <3>4. CASE n > 0
      <4>1. n \in 1 .. N /\ n - 1 \in 0 .. N /\ n - 1 \notin T
        BY <3>2, <3>4
      <4>2. R(n - 1).day < d
        BY <1>3, <1>10, <4>1
      <4>3. R(n).day <= d
        BY <1>8, <4>1, <4>2
      <4>4. QED BY <1>3, <1>10, <3>2, <4>3
    <3>5. QED BY <3>2, <3>3, <3>4
  <2>2. QED BY <1>1, <1>10, <2>1
<1>12. Cardinality(J) = N + 1
  <2> DEFINE f == [n \in 0 .. N |-> R(n)]
  <2>1. f \in Bijection(0 .. N, J)
    BY <1>1, <1>6 DEF Bijection, Injection, IsInjective, Surjection
  <2>2. QED BY <1>3, <2>1, FS_Bijection, FS_Interval DEF ExistsBijection
<1>13. Cardinality(J) = Cardinality({r.day : r \in J})
  <2> DEFINE D == {r.day : r \in J}
             f == [r \in J |-> r.day]
  <2>1. \A r, q \in J : r.day = q.day => r = q
    <3> SUFFICES ASSUME NEW r \in J, NEW q \in J, r.day = q.day PROVE r = q
      OBVIOUS
    <3>1. PICK i \in 0 .. N, j \in 0 .. N : r = R(i) /\ q = R(j)
      BY <1>1
    <3>2. ~(i < j) /\ ~(j < i)
      BY <1>9, <1>10, <3>1
    <3>3. QED BY <3>1, <3>2
  <2>2. f \in Bijection(J, D)
    BY <2>1 DEF Bijection, Injection, IsInjective, Surjection
  <2>3. QED BY <1>5, <2>2, FS_Bijection DEF ExistsBijection
<1>14. /\ (CHOOSE r \in J : r.digest = ledger.migrated) = R(0)
       /\ (CHOOSE r \in J : r.digest = preflight.restored) = R(N)
  <2>1. R(0) \in J /\ R(N) \in J
    BY <1>4, <1>10
  <2>2. \A r \in J : r.digest = R(0).digest => r = R(0)
    BY <2>1
  <2>3. \A r \in J : r.digest = R(N).digest => r = R(N)
    BY <2>1
  <2>4. QED BY <1>1, <1>2, <2>1, <2>2, <2>3
<1>15. \A r \in J : r = R(0) \/ \E q \in J : q.digest = r.prev /\ q.day < r.day
  <2> TAKE r \in J
  <2>1. PICK n \in 0 .. N : r = R(n)
    BY <1>1
  <2>2. CASE n > 0
    <3>1. n \in 1 .. N /\ n - 1 \in 0 .. N
      BY <2>2
    <3>2. QED BY <1>4, <1>8, <2>1, <3>1
  <2>3. QED BY <2>1, <2>2
<1>16. R(N).day = report.day /\ report.seq = Cardinality(J) - 1 /\ preflight.completed = R(N).day
  BY <1>2, <1>3, <1>7, <1>12
<1> DEFINE out == Bundle(ledger, report).journal
<1>17. out = J
  BY DEF Bundle
<1> DEFINE first == CHOOSE r \in out : r.digest = ledger.migrated
           final == CHOOSE r \in out : r.digest = preflight.restored
<1> HIDE DEF J, out
<1>18. first = R(0) /\ final = R(N)
  BY <1>14, <1>17
<1> HIDE DEF first, final
<1>19. /\ {r.day : r \in out} = {d \in Trading : first.day <= d /\ d <= preflight.completed}
       /\ Cardinality(out) = Cardinality({r.day : r \in out})
       /\ \A r \in out : r = first \/ \E q \in out : q.digest = r.prev /\ q.day < r.day
       /\ final.day = report.day /\ report.seq = Cardinality(out) - 1
  BY <1>11, <1>13, <1>15, <1>16, <1>17, <1>18
<1>20. QED BY <1>19, Zenon DEF HandoffIsOneHistory, first, final, out

-------------------------------------------------------------------------------
(* The contracts of the microcap mails, for every set of results.                *)

\* Results of a run: finitely many, with numbered days.
ResultsOf(m) ==
  /\ m.mode \in {"close", "realtime"} /\ IsFiniteSet(m.results)
  /\ \A r \in m.results : r.csv.signal \in Nat /\ r.csv.execution \in Nat

\* A trusted row is of the day the mail bears.
LEMMA TrustedIsOfTheDay ==
  ASSUME NEW m, ResultsOf(m), NEW r \in m.results, Trusted(m, r)
  PROVE  /\ r.csv.date = MailDate(m)
         /\ m.mode = "close" => r.csv.confirmed = "yes"
         /\ m.mode = "realtime" => r.csv.quote = m.now.day /\ r.csv.snapshot.day = m.now.day /\ m.now.t < Cutoff
                                   /\ MailDate(m) = m.now.day
<1>1. ReadsRow(r) /\ PublicationAccepted(m.mode, r.csv, m.now) /\ DatesMatch(m)
  BY Zenon DEF Trusted, RowTrusted
<1>2. CASE m.mode = "realtime"
  BY <1>1, <1>2 DEF PublicationAccepted, RealtimeAccepted, MailDate
<1>3. CASE m.mode = "close"
  <2>1. r.csv.confirmed = "yes" /\ r.csv.date # 0
    BY <1>1, <1>3 DEF PublicationAccepted, CloseAccepted
  <2>2. r.csv.date \in CloseDates(m.results)
    BY <1>1, <2>1 DEF CloseDates
  <2>3. IsFiniteSet(CloseDates(m.results))
    <3> DEFINE S == {q \in m.results : ReadsRow(q)}
               D == {q.csv.date : q \in S}
               f == [q \in S |-> q.csv.date]
    <3>1. IsFiniteSet(S)
      BY FS_Subset DEF ResultsOf
    <3>2. f \in Surjection(S, D)
      BY DEF Surjection
    <3>3. IsFiniteSet(D)
      <4> HIDE DEF S, D, f
      <4>1. QED BY <3>1, <3>2, FS_Surjection
    <3>4. CloseDates(m.results) \subseteq D
      BY DEF CloseDates
    <3> HIDE DEF D
    <3>5. QED BY <3>3, <3>4, FS_Subset
  <2>4. /\ Cardinality(CloseDates(m.results)) = 1
        /\ m.expected # 0 => CloseDates(m.results) = {m.expected}
    BY <1>1, <1>3, Zenon DEF DatesMatch
  <2>5. PICK d : CloseDates(m.results) = {d}
    BY <2>3, <2>4, FS_Singleton
  <2>6. r.csv.date = d
    BY <2>2, <2>5
  <2>7. MailDate(m) = d
    <3>1. CASE m.expected # 0
      BY <1>3, <2>4, <2>5, <3>1 DEF MailDate
    <3>2. CASE m.expected = 0
      <4>1. (CHOOSE x \in CloseDates(m.results) : TRUE) = d
        BY <2>5
      <4>2. QED BY <1>3, <2>4, <3>2, <4>1 DEF MailDate
    <3>3. QED BY <3>1, <3>2
  <2>8. QED BY <1>3, <2>1, <2>6, <2>7
<1>4. QED BY <1>2, <1>3 DEF ResultsOf

LEMMA QuietContract ==
  ASSUME NEW m, ResultsOf(m) PROVE QuietMeansNothingDue(m)
<1> SUFFICES ASSUME Tag(m) = "quiet", NEW r \in m.results
             PROVE  /\ r.exit \in {"0", ""} /\ r.csv.revision = r.v /\ r.csv.date = MailDate(m)
                    /\ r.csv.cur = r.csv.next
                    /\ r.csv.cur = "cash" \/ r.csv.actionable = "no"
                    /\ m.mode = "realtime" => r.csv.snapshot.day = m.now.day /\ m.now.t < Cutoff
  BY Zenon DEF QuietMeansNothingDue
<1>1. Trusted(m, r) /\ Action(m, r) = "none"
  <2>1. ~\E q \in m.results : ~Trusted(m, q)
    BY DEF Tag
  <2>2. ~(\A q \in m.results : Trusted(m, q) /\ Action(m, q) = "none") => Tag(m) = "act"
    BY <2>1 DEF Tag
  <2>3. QED BY <2>1, <2>2
<1>2. r.exit \in {"0", ""} /\ r.csv.revision = r.v /\ MemberAccepted(r.csv)
  BY <1>1, Zenon DEF Trusted, RowTrusted, SignalRan, IdentityAccepted
<1>3. r.csv.cur = r.csv.next
  BY <1>1 DEF Action
<1>4. r.csv.cur = "cash" \/ ~MembersDue(r.csv)
  BY <1>1, <1>3 DEF Action
<1>5. r.csv.actionable = "yes" => MembersDue(r.csv)
  <2> SUFFICES ASSUME r.csv.actionable = "yes" PROVE MembersDue(r.csv)
    OBVIOUS
  <2>1. r.csv.official = "yes" /\ r.csv.signal # 0 /\ r.csv.execution > r.csv.signal
    BY <1>2 DEF MemberAccepted
  <2>2. r.csv.signal \in Nat /\ r.csv.execution \in Nat
    BY DEF ResultsOf
  <2>3. QED BY <2>1, <2>2 DEF MembersDue
<1>6. r.csv.actionable \in {"yes", "no"}
  BY <1>2 DEF MemberAccepted
<1>7. QED BY <1>1, <1>2, <1>3, <1>4, <1>5, <1>6, TrustedIsOfTheDay

LEMMA ActionContract ==
  ASSUME NEW m, ResultsOf(m) PROVE ActionIsOfTheSession(m)
<1> SUFFICES ASSUME NEW r \in m.results, Action(m, r) = "members"
             PROVE  /\ r.csv.signal < r.csv.execution
                    /\ m.mode = "close" => r.csv.signal = MailDate(m)
                    /\ m.mode = "realtime" => r.csv.execution = MailDate(m)
  BY Zenon DEF ActionIsOfTheSession
<1>1. Trusted(m, r) /\ MembersDue(r.csv)
  BY DEF Action
<1>2. MemberAccepted(r.csv) /\ OfThisSession(m.mode, r.csv)
  BY <1>1, Zenon DEF Trusted, RowTrusted, PublicationAccepted
<1>3. r.csv.actionable = "yes"
  BY <1>1 DEF MembersDue
<1>4. r.csv.signal < r.csv.execution
  BY <1>2, <1>3 DEF MemberAccepted, ResultsOf
<1>5. QED BY <1>1, <1>2, <1>3, <1>4, TrustedIsOfTheDay DEF OfThisSession, ResultsOf

LEMMA CatchUpContract ==
  ASSUME NEW m, ResultsOf(m) PROVE CatchUpIsPast(m)
BY TrustedIsOfTheDay DEF CatchUpIsPast, Built, CatchUpAccepted

LEMMA MemberContract ==
  ASSUME NEW s, NEW cp, NEW day PROVE MemberMailIsPlain(s, cp, day)
<1> SUFFICES ASSUME MemberRendered(s, day) PROVE MemberMailIsPlain(s, cp, day)
  BY DEF MemberMailIsPlain
<1>1. s.day = day /\ \A x \in s.rows : RowAccepted(x, day)
  BY Zenon DEF MemberRendered
<1>2. MemberStatus(s) = "OK" => \A x \in s.rows : x.day = day /\ x.whole /\ x.revision = x.v
  BY <1>1 DEF MemberStatus, RowAccepted
<1>3. \A x \in s.rows : MemberAction(x) = "trade" =>
         x.cur # x.next /\ (x.cur = "cash" => x.scale = 0) /\ (x.next = "cash" => x.target = 0)
  BY DEF MemberAction, ScalesSound
<1>4. NextShown(cp, s) # 0 => cp.asof = day /\ cp.sound
  BY <1>1 DEF NextShown, ContextKept
<1>5. QED BY <1>2, <1>3, <1>4, Zenon DEF MemberMailIsPlain

LEMMA LocalContract ==
  ASSUME NEW x PROVE LocalReportIsOneEvidence(x)
<1> SUFFICES ASSUME LocalRendered(x) PROVE LocalReportIsOneEvidence(x)
  BY DEF LocalReportIsOneEvidence
<1>1. /\ \A r \in x.rows : LocalRow(x, r)
      /\ x.mode = "intraday" => x.begin.day = x.day /\ x.end.t < Cutoff
      /\ {r.v : r \in x.rows} = Versions
  BY Zenon DEF LocalRendered
<1>2. ASSUME NEW r \in x.rows
      PROVE  /\ r.csv.notice = x.ready.notice.id /\ r.csv.snapshot.day = x.day
             /\ Earlier(x.ready.notice.until, r.csv.snapshot) /\ Earlier(r.csv.snapshot, x.begin)
             /\ r.csv.snapshot.t < Cutoff
             /\ x.mode = "intraday" => x.begin.t < Cutoff
  <2>1. /\ r.csv.notice = x.ready.notice.id /\ r.csv.date = x.day
        /\ Earlier(x.ready.notice.until, r.csv.snapshot) /\ Earlier(r.csv.snapshot, x.begin)
        /\ RealtimeAccepted(r.csv, RowClock(x, r))
    BY <1>1 DEF LocalRow, PublicationAccepted
  <2>2. r.csv.snapshot.day = x.day /\ r.csv.snapshot.t < Cutoff /\ RowClock(x, r).t < Cutoff
    BY <2>1 DEF RealtimeAccepted
  <2>3. QED BY <2>1, <2>2 DEF RowClock
<1>3. x.rows # {}
  BY <1>1 DEF Versions
<1>4. QED BY <1>1, <1>2, <1>3 DEF LocalReportIsOneEvidence

-------------------------------------------------------------------------------
(* The cases have the shape the contracts ask for.                               *)

LEMMA FearCaseIsSound ==
  ASSUME NEW c, FearCases("fear", c)
  PROVE  NoFresherReadingIsHidden(c[2], Claims)
<1>1. PICK after \in BOOLEAN, retrieved \in {8, 9, 11, 12}, csv \in Csvs, p \in PageReads, checked \in {10, 14} :
        c = <<"fear", FearRun(after, retrieved, checked, csv, p)>>
  BY DEF FearCases
<1>2. PICK e : e = FearRun(after, retrieved, checked, csv, p)
  OBVIOUS
<1>3. PICK n \in 0 .. 2 : DOMAIN csv = 1 .. n
  BY DEF Csvs
<1>4. Max({0} \cup DOMAIN csv) \in Nat
  <2>1. \E x \in {0} \cup DOMAIN csv : \A y \in {0} \cup DOMAIN csv : x >= y
    <3>1. n \in {0} \cup DOMAIN csv /\ \A y \in {0} \cup DOMAIN csv : n >= y
      BY <1>3
    <3>2. QED BY <3>1
  <2>2. Max({0} \cup DOMAIN csv) \in {0} \cup DOMAIN csv
    BY <2>1, Zenon DEF Max
  <2>3. QED BY <1>3, <2>2
<1>5. p[1] \in Nat /\ p[2] \in Nat
  BY DEF PageReads
<1>6. /\ e.day = 2 /\ e.close = after /\ e.started = 8 /\ e.retrieved = retrieved /\ e.checked = checked
      /\ e.csv = csv /\ e.csvDay = Max({0} \cup DOMAIN csv) /\ e.pageDay = p[1] /\ e.pageAt = p[2]
  BY <1>2 DEF FearRun
<1>7. \A k \in Claims : k.generated \in Nat /\ k.data \in Nat
  <2>1. \A k \in [value : {0, 11, 12, 20, 21}, data : 0 .. 2, selected : {"csv", "page"}, replay : BOOLEAN,
                  generated : {0, 11, 13}, quality : Qualities, warned : {TRUE},
                  status : {"unavailable"} \cup ProofOfDay, reason : {"none"}, timing : {"none"}] :
          k.generated \in Nat /\ k.data \in Nat
    OBVIOUS
  <2>2. \A k \in [value : {11, 12}, data : {1, 2}, selected : {"csv", "page"}, replay : BOOLEAN,
                  generated : {0, 13}, quality : Qualities, warned : {TRUE}, status : CarryTerms,
                  reason : {"not_published", "not_confirmed"}, timing : {"intraday", "post_close", "replay"}] :
          k.generated \in Nat /\ k.data \in Nat
    OBVIOUS
  <2>3. QED BY <2>1, <2>2, Zenon DEF Claims
<1>8. NoFresherReadingIsHidden(e, Claims)
  <2>1. /\ e.day \in Nat /\ e.day > 1 /\ e.close \in BOOLEAN
        /\ {e.started, e.retrieved, e.checked, e.pageAt} \subseteq Nat
        /\ e.csvDay \in Nat /\ e.pageDay \in Nat /\ DOMAIN e.csv \subseteq Nat
    BY <1>3, <1>4, <1>5, <1>6
  <2>2. QED BY <1>7, <2>1, FearContract
<1>9. QED BY <1>1, <1>2, <1>8

LEMMA SignalCaseIsSound ==
  ASSUME NEW c, IcimCases("signal", c)
  PROVE  OneOwnerForEveryLeg(c[2])
<1>1. PICK route \in {"future", "short_put"}, profit \in BOOLEAN, monthly \in BOOLEAN, action \in {"none", "reenter", "execute"},
           cur \in Books, tgt \in Books, old3 \in {Flat, "a1"}, core \in PutLegs, mom \in MomLegs :
        c = <<"signal", Payload(route, profit, action, monthly, cur, tgt, old3, core, mom)>>
  BY SMT DEF IcimCases
<1>2. PICK s : s = Payload(route, profit, action, monthly, cur, tgt, old3, core, mom)
  OBVIOUS
<1>3. /\ s.plan = [signal |-> Sep29, exec |-> Sep29 + 1, core |-> core, mom |-> mom]
      /\ s.cur = cur /\ s.tgt = tgt /\ s.profit = profit
  BY <1>2 DEF Payload
<1>4. core.changed \in BOOLEAN /\ mom.changed \in BOOLEAN
  <2>1. core.changed \in BOOLEAN
    BY DEF PutLegs
  <2>2. \A a, b : Leg(a, b).changed \in BOOLEAN
    BY DEF Leg
  <2>3. (\E a, b : mom = Leg(a, b)) \/ mom = [old |-> Flat, new |-> "m1", changed |-> FALSE]
    BY DEF MomLegs
  <2>4. CASE \E a, b : mom = Leg(a, b)
    BY <2>1, <2>2, <2>4
  <2>5. CASE mom = [old |-> Flat, new |-> "m1", changed |-> FALSE]
    BY <2>1, <2>5
  <2>6. QED BY <2>3, <2>4, <2>5
<1>5. cur = [core |-> cur.core, mom |-> cur.mom] /\ tgt = [core |-> tgt.core, mom |-> tgt.mom]
  BY DEF Books
<1>6. s.plan = [signal |-> s.plan.signal, exec |-> s.plan.exec, core |-> core, mom |-> mom]
  BY <1>3
<1>7. OneOwnerForEveryLeg(s)
  BY <1>3, <1>4, <1>5, <1>6, PlanContract
<1>8. QED BY <1>1, <1>2, <1>7

LEMMA SumsCaseIsSound ==
  ASSUME NEW c, IcimCases("sums", c)
  PROVE  ChangesAddUp(c[2])
<1>1. PICK core \in Quantities, mom \in Quantities, grid \in Quantities, x \in 0 .. 3, y \in 0 .. 3, change \in -1 .. 3 :
        c = <<"sums", [core |-> core, mom |-> mom, weight |-> mom, grid |-> grid,
                       total |-> [cur |-> x, tgt |-> y], change |-> change]>>
  BY SMT DEF IcimCases
<1>2. PICK t : t = [core |-> core, mom |-> mom, weight |-> mom, grid |-> grid,
                    total |-> [cur |-> x, tgt |-> y], change |-> change]
  OBVIOUS
<1>3. t.core = core /\ t.mom = mom /\ t.weight = mom /\ t.grid = grid /\ t.total = [cur |-> x, tgt |-> y]
  BY <1>2
<1>4. \A q \in Quantities : q = [cur |-> q.cur, tgt |-> q.tgt] /\ q["cur"] \in Int /\ q["tgt"] \in Int
  BY DEF Quantities
<1>5. t.total["cur"] \in Int /\ t.total["tgt"] \in Int
  BY <1>3
<1>6. ChangesAddUp(t)
  BY <1>3, <1>4, <1>5, SumsContract
<1>7. QED BY <1>1, <1>2, <1>6

LEMMA IcimCaseIsSound ==
  ASSUME NEW c
  PROVE  /\ IcimCases("identity", c) => IdentitiesAgree(c[2], c[3])
         /\ IcimCases("cost", c) => QuietMeansPriced(c[2])
         /\ IcimCases("subject", c) => WorkIsNeverQuiet(c[2])
         /\ IcimCases("month", c) => \A day \in 1 .. 31, late \in 0 .. 1 :
                                       AnnouncedOnTheDay(c[2], day, c[3], day, day + late)
<1>1. ASSUME IcimCases("identity", c) PROVE IdentitiesAgree(c[2], c[3])
  <2>1. PICK d \in 1 .. 60, e \in 1 .. 60 : c = <<"identity", d, e>>
    BY <1>1 DEF IcimCases
  <2>2. QED BY <2>1, IdentityContract
<1>2. ASSUME IcimCases("month", c), NEW day \in 1 .. 31, NEW late \in 0 .. 1
      PROVE  AnnouncedOnTheDay(c[2], day, c[3], day, day + late)
  <2>1. PICK first \in 0 .. 6, a \in 1 .. 28, n \in 0 .. 8, after \in BOOLEAN :
          c = <<"month", [first |-> first, closed |-> a .. a + n - 1], after>>
    BY <1>2 DEF IcimCases
  <2>2. PICK m : m = [first |-> first, closed |-> a .. a + n - 1]
    OBVIOUS
  <2>3. a \in Int /\ day \in Int
    OBVIOUS
  <2>4. AnnouncedOnTheDay(m, day, after, day, day + late)
    BY <2>2, <2>3, HolidaysEnd, MonthContract
  <2>5. QED BY <2>1, <2>2, <2>4
<1>3. QED BY <1>1, <1>2, CostContract, SubjectContract

LEMMA HandoffCaseIsSound ==
  ASSUME NEW c, HandoffCases("handoff", c)
  PROVE  HandoffIsOneHistory(c[2], c[3], c[4])
<1> DEFINE All == {Journaled(0, 1, 10, 0), Journaled(0, 2, 11, 0), Journaled(1, 2, 20, 10),
                   Journaled(1, 5, 21, 10), Journaled(1, 2, 22, 11), Journaled(2, 5, 30, 20),
                   Journaled(2, 6, 31, 20), Journaled(2, 6, 32, 21)}
<1>1. PICK ledger \in Ledgers : \E report, preflight : c = <<"handoff", ledger, report, preflight>>
  BY Zenon DEF HandoffCases
<1>2. PICK report, preflight : c = <<"handoff", ledger, report, preflight>>
  BY <1>1
<1>3. ledger.journal \subseteq All /\ ledger.latest \in ledger.journal
  BY DEF Ledgers, Journals
<1>4. \A r \in All : /\ r.seq \in Nat /\ r.day \in Trading
                     /\ r.day < 6 \/ r.seq = 2
                     /\ r.seq <= 2
  BY DEF Journaled, Trading
<1>5. \A r, q \in All : r.digest = q.digest => r = q
  BY DEF Journaled
<1> HIDE DEF All
<1>6. \A r \in ledger.journal : r.seq < ledger.latest.seq => \E d \in Trading : d > r.day
  <2> SUFFICES ASSUME NEW r \in ledger.journal, r.seq < ledger.latest.seq PROVE \E d \in Trading : d > r.day
    OBVIOUS
  <2>1. r.seq \in Nat /\ ledger.latest.seq \in Nat /\ ledger.latest.seq <= 2 /\ r.day \in Trading
    BY <1>3, <1>4
  <2>2. r.day < 6
    BY <1>3, <1>4, <2>1
  <2>3. QED BY <2>2 DEF Trading
<1>7. HandoffIsOneHistory(ledger, report, preflight)
  BY <1>3, <1>4, <1>5, <1>6, HandoffContract
<1>8. QED BY <1>2, <1>7

\* The days of a row that differs from a regular one are numbers.
LEMMA RowsAreDated ==
  ASSUME NEW mode \in {"close", "realtime"}, NEW v \in Versions
  PROVE  \A r \in Deviant(mode, v) \cup Regular(mode, Versions) :
           r.csv.signal \in Nat /\ r.csv.execution \in Nat
<1> DEFINE Dated(x) == x.signal \in Nat /\ x.execution \in Nat
           Whole(x) == DOMAIN x = {"revision", "required", "actionable", "official", "signal", "execution", "date",
                                   "quote", "anchor", "expected", "snapshot", "confirmed", "timing", "cur", "next",
                                   "curScale", "nextScale"}
<1>1. ASSUME NEW w PROVE Dated(RowOf(mode, w)) /\ Whole(RowOf(mode, w))
  <2>1. Dated(CloseRow(w)) /\ Whole(CloseRow(w))
    BY DEF CloseRow
  <2>2. PICK x : x = CloseRow(w)
    OBVIOUS
  <2>3. RowOf(mode, w) = x \/ RowOf(mode, w) = [x EXCEPT !.confirmed = "no", !.timing = "intraday"]
    BY <2>2 DEF RowOf
  <2>4. QED BY <2>1, <2>2, <2>3
<1>2. ASSUME NEW row, Dated(row), Whole(row) PROVE Dated(InCash(row)) /\ Whole(InCash(row))
  BY <1>2 DEF InCash
<1>3. ASSUME NEW row, Dated(row), Whole(row), NEW x \in OtherMembers(row) PROVE Dated(x)
  <2>1. \E y : x = WithMembers(row, y) /\ y.signal \in {0, 4, 5} /\ y.execution \in {4, 5, 6}
    BY <1>3 DEF OtherMembers
  <2>2. QED BY <1>3, <2>1 DEF WithMembers
<1>4. ASSUME NEW row, Dated(row), Whole(row), NEW x \in OtherDates(row) \cup OtherBooks(row) \cup OtherForms(row)
      PROVE  Dated(x)
  <2>1. \/ \E y : x = WithDates(row, y)
        \/ \E y : x = WithBooks(row, y)
        \/ \E y : x = WithForm(row, y)
    <3>1. CASE x \in OtherDates(row)
      BY <3>1 DEF OtherDates
    <3>2. CASE x \in OtherBooks(row)
      BY <3>2 DEF OtherBooks
    <3>3. CASE x \in OtherForms(row)
      BY <3>3 DEF OtherForms
    <3>4. QED BY <1>4, <3>1, <3>2, <3>3
  <2>2. QED BY <1>4, <2>1 DEF WithDates, WithBooks, WithForm
<1> HIDE DEF Dated, Whole
<1>5. ASSUME NEW w, NEW x, Dated(x) PROVE Dated(Outcome(mode, w, x).csv)
  BY <1>5 DEF Outcome
<1>6. ASSUME NEW w PROVE \A r \in OtherRuns(Outcome(mode, w, RowOf(mode, w))) : r.csv = RowOf(mode, w)
  <2> TAKE r \in OtherRuns(Outcome(mode, w, RowOf(mode, w)))
  <2>1. PICK row : row = RowOf(mode, w)
    OBVIOUS
  <2>2. PICK o : o = Outcome(mode, w, row)
    OBVIOUS
  <2>3. \E y : r = WithRun(o, y)
    BY <2>1, <2>2 DEF OtherRuns
  <2>4. o = [v |-> w, exit |-> "0", preflight |-> FALSE, marker |-> mode, rows |-> 1, csv |-> row]
    BY <2>2 DEF Outcome
  <2>5. r.csv = row
    BY <2>3, <2>4 DEF WithRun
  <2>6. QED BY <2>1, <2>5
<1>7. \A r \in Regular(mode, Versions) : Dated(r.csv)
  BY <1>1, <1>5 DEF Regular
<1>8. ASSUME NEW r \in Deviant(mode, v) PROVE Dated(r.csv)
  <2> DEFINE row == RowOf(mode, v)
  <2>1. \/ \E x \in OtherMembers(row) \cup OtherMembers(InCash(row)) \cup OtherDates(row)
                    \cup OtherBooks(row) \cup OtherForms(row) : r = Outcome(mode, v, x)
        \/ r \in OtherRuns(Outcome(mode, v, row))
    BY <1>8 DEF Deviant
  <2>2. Dated(row) /\ Whole(row) /\ Dated(InCash(row)) /\ Whole(InCash(row))
    BY <1>1, <1>2
  <2> HIDE DEF row
  <2>3. \A x \in OtherMembers(row) \cup OtherMembers(InCash(row)) \cup OtherDates(row)
                 \cup OtherBooks(row) \cup OtherForms(row) : Dated(x)
    BY <1>3, <1>4, <2>2
  <2>4. CASE r \in OtherRuns(Outcome(mode, v, row))
    BY <1>6, <2>2, <2>4 DEF row
  <2>5. QED BY <1>5, <2>1, <2>3, <2>4
<1>9. QED BY <1>7, <1>8 DEF Dated

LEMMA RegularIsFinite ==
  ASSUME NEW mode, NEW vs \in SUBSET Versions
  PROVE  IsFiniteSet(Regular(mode, vs))
<1> DEFINE f == [v \in vs |-> Outcome(mode, v, RowOf(mode, v))]
<1>1. IsFiniteSet(Versions)
  <2>1. IsFiniteSet({"v2.0"} \cup {"v2.3"} \cup {"v2.5"})
    BY FS_Singleton, FS_Union
  <2>2. QED BY <2>1 DEF Versions
<1>2. f \in Surjection(vs, Regular(mode, vs))
  BY DEF Surjection, Regular
<1>3. QED BY <1>1, <1>2, FS_Subset, FS_Surjection

LEMMA DigestCaseIsSound ==
  ASSUME NEW c, MicrocapCases("digest", c)
  PROVE  QuietMeansNothingDue(c[2]) /\ ActionIsOfTheSession(c[2]) /\ CatchUpIsPast(c[2])
<1> DEFINE OneDeviates ==
             \E mode \in {"close", "realtime"}, v \in Versions : \E r \in Deviant(mode, v) :
               \E t \in [day : {5, 6}, t : {860, 1230}], expected \in {0, 4, 5}, catchup \in {0, 4, 5} :
                 c = <<"digest", Mail(mode, Regular(mode, Versions \ {v}) \cup {r}, t, expected, catchup)>>
           TwoDeviate(v) ==
             \E a \in OtherMembers(CloseRow(v)), b \in OtherDates(CloseRow("v2.3")), e \in {0, 5} :
               c = <<"digest", Mail("close", {Outcome("close", v, a), Outcome("close", "v2.3", b)},
                                    [day |-> 5, t |-> 1230], e, 0)>>
<1>1. OneDeviates \/ \E v \in {"v2.0", "v2.5"} : TwoDeviate(v)
  BY Zenon DEF MicrocapCases
<1>2. ASSUME NEW mode, NEW results, NEW t, NEW expected, NEW catchup, mode \in {"close", "realtime"},
             IsFiniteSet(results), \A r \in results : r.csv.signal \in Nat /\ r.csv.execution \in Nat
      PROVE  ResultsOf(Mail(mode, results, t, expected, catchup))
  BY <1>2 DEF ResultsOf, Mail
<1>3. CASE OneDeviates
  <2>1. PICK mode \in {"close", "realtime"}, v \in Versions :
          \E r \in Deviant(mode, v) :
            \E t \in [day : {5, 6}, t : {860, 1230}], expected \in {0, 4, 5}, catchup \in {0, 4, 5} :
              c = <<"digest", Mail(mode, Regular(mode, Versions \ {v}) \cup {r}, t, expected, catchup)>>
    BY <1>3
  <2>2. PICK r \in Deviant(mode, v) :
          \E t \in [day : {5, 6}, t : {860, 1230}], expected \in {0, 4, 5}, catchup \in {0, 4, 5} :
            c = <<"digest", Mail(mode, Regular(mode, Versions \ {v}) \cup {r}, t, expected, catchup)>>
    BY <2>1
  <2>3. PICK results : results = Regular(mode, Versions \ {v}) \cup {r}
    OBVIOUS
  <2>4. IsFiniteSet(results)
    BY <2>3, RegularIsFinite, FS_AddElement
  <2>5. \A x \in results : x.csv.signal \in Nat /\ x.csv.execution \in Nat
    <3>1. Regular(mode, Versions \ {v}) \subseteq Regular(mode, Versions)
      BY DEF Regular
    <3>2. QED BY <2>3, <3>1, RowsAreDated
  <2>6. PICK t \in [day : {5, 6}, t : {860, 1230}], expected \in {0, 4, 5}, catchup \in {0, 4, 5} :
          c = <<"digest", Mail(mode, results, t, expected, catchup)>>
    BY <2>2, <2>3
  <2>7. ResultsOf(c[2])
    BY <1>2, <2>4, <2>5, <2>6
  <2>8. QED BY <2>7, QuietContract, ActionContract, CatchUpContract
<1>4. CASE \E v \in {"v2.0", "v2.5"} : TwoDeviate(v)
  <2>1. PICK v \in {"v2.0", "v2.5"} : TwoDeviate(v)
    BY <1>4
  <2>2. PICK a \in OtherMembers(CloseRow(v)), b \in OtherDates(CloseRow("v2.3")), e \in {0, 5} :
          c = <<"digest", Mail("close", {Outcome("close", v, a), Outcome("close", "v2.3", b)},
                               [day |-> 5, t |-> 1230], e, 0)>>
    BY <2>1
  <2>3. PICK results : results = {Outcome("close", v, a), Outcome("close", "v2.3", b)}
    OBVIOUS
  <2>4. IsFiniteSet(results)
    <3>1. results = {Outcome("close", v, a)} \cup {Outcome("close", "v2.3", b)}
      BY <2>3
    <3>2. QED BY <3>1, FS_Singleton, FS_Union
  <2>5. \A x \in results : x.csv.signal \in Nat /\ x.csv.execution \in Nat
    <3>1. Outcome("close", v, a) \in Deviant("close", v) /\ Outcome("close", "v2.3", b) \in Deviant("close", "v2.3")
      BY <2>2 DEF Deviant, RowOf
    <3>2. v \in Versions /\ "v2.3" \in Versions
      BY DEF Versions
    <3>3. QED BY <2>3, <3>1, <3>2, RowsAreDated
  <2>6. c = <<"digest", Mail("close", results, [day |-> 5, t |-> 1230], e, 0)>>
    BY <2>2, <2>3
  <2>7. ResultsOf(c[2])
    BY <1>2, <2>4, <2>5, <2>6
  <2>8. QED BY <2>7, QuietContract, ActionContract, CatchUpContract
<1> HIDE DEF OneDeviates, TwoDeviate
<1>5. QED BY <1>1, <1>3, <1>4

LEMMA MicrocapCaseIsSound ==
  ASSUME NEW c
  PROVE  /\ MicrocapCases("members", c) => MemberMailIsPlain(c[2], c[3], c[4])
         /\ MicrocapCases("local", c) => LocalReportIsOneEvidence(c[2])
BY MemberContract, LocalContract

-------------------------------------------------------------------------------
(* The market tables, for every universe and every chart.                        *)

\* Listed ETFs: finitely many, each with a symbol of its own.
ListedEtfs(U) ==
  /\ IsFiniteSet(U)
  /\ \A e \in U : {e.sym, e.traded, e.assets, e.change} \subseteq Int
  /\ \A e, f \in U : e.sym = f.sym => e = f

\* Of finitely many ETFs one is not smaller than any other.
LEMMA BiggestExists ==
  ASSUME NEW S, ListedEtfs(S), NEW x \in S
  PROVE  \E y \in S : \A z \in S : ~Bigger(z, y)
<1> DEFINE Above(y) == {z \in S : Bigger(z, y)}
           Counts == {Cardinality(Above(y)) : y \in S}
<1>1. ASSUME NEW y \in S PROVE IsFiniteSet(Above(y)) /\ Cardinality(Above(y)) \in Nat
  BY FS_Subset, FS_CardinalityType DEF ListedEtfs
<1>2. Counts \in SUBSET Nat /\ Counts # {}
  BY <1>1
<1>3. PICK n \in Counts : \A k \in Counts : n <= k
  <2> HIDE DEF Counts
  <2>1. QED BY <1>2, LeastOf
<1>4. PICK y \in S : n = Cardinality(Above(y))
  BY <1>3
<1>5. ASSUME NEW z \in S, Bigger(z, y) PROVE FALSE
  <2>1. Above(z) \subseteq Above(y) /\ z \in Above(y) /\ z \notin Above(z)
    BY <1>5 DEF ListedEtfs, Bigger
  <2>2. Cardinality(Above(z)) <= Cardinality(Above(y)) /\ Cardinality(Above(y)) # Cardinality(Above(z))
    <3> HIDE DEF Above
    <3>1. QED BY <2>1, <1>1, FS_Subset
  <2>3. Cardinality(Above(y)) <= Cardinality(Above(z))
    BY <1>3, <1>4
  <2> HIDE DEF Above
  <2>4. QED BY <2>2, <2>3, <1>1, <1>5
<1>6. QED BY <1>5

\* A table of one direction shows no family twice and no ETF that moved the other way, the
\* largest of each family, and whatever its limit leaves out moved no more than what it shows
\* (_rank of etf_movers.py).
THEOREM RankingFair ==
  ASSUME NEW U, ListedEtfs(U), NEW limit \in Nat
  PROVE  RankingIsFair(U, limit)
<1> SUFFICES ASSUME NEW sign \in {Up, Down}
             PROVE  LET S == Moves(U, sign)
                        T == Rank(U, sign, limit)
                        Left == {e \in S : \A f \in T : f.family # e.family}
                    IN /\ T \subseteq S
                       /\ \A e, f \in T : e.family = f.family => e = f
                       /\ \A e \in T, f \in S : f.family = e.family => f.traded <= e.traded
                       /\ \A e \in T, f \in Representatives(Left) : f.change * f.change <= e.change * e.change
                       /\ Left # {} => Cardinality(T) >= limit
  BY Zenon DEF RankingIsFair
<1> DEFINE S == Moves(U, sign)
           T == Rank(U, sign, limit)
           Left == {e \in S : \A f \in T : f.family # e.family}
           r == Representatives(S)
           Sq(e) == e.change * e.change
           Ahead(e) == {f \in r : Sq(f) > Sq(e)}
<1>1. S \subseteq U /\ r \subseteq S /\ T = {e \in r : Cardinality(Ahead(e)) < limit}
  BY DEF Moves, Representatives, Rank
<1>2. ListedEtfs(S) /\ IsFiniteSet(r)
  <2> HIDE DEF S, r
  <2>1. QED BY <1>1, FS_Subset DEF ListedEtfs
<1>3. \A e \in S : Sq(e) \in Int
  BY <1>2 DEF ListedEtfs
<1>4. \A e, f \in r : e.family = f.family => e = f
  BY <1>2 DEF Representatives, Bigger, ListedEtfs
<1>5. \A e \in r, f \in S : f.family = e.family => f.traded <= e.traded
  BY <1>2 DEF Representatives, Bigger, ListedEtfs
<1>6. Representatives(Left) \subseteq r \ T
  <2> SUFFICES ASSUME NEW f \in Representatives(Left) PROVE f \in r /\ f \notin T
    OBVIOUS
  <2>1. f \in S /\ f \notin T /\ \A g \in S : g.family = f.family => g \in Left
    BY DEF Representatives
  <2>2. \A g \in Left : g.family = f.family => ~Bigger(g, f)
    BY Zenon DEF Representatives
  <2>3. QED BY <2>1, <2>2 DEF Representatives
<1>7. \A e \in r : IsFiniteSet(Ahead(e)) /\ Cardinality(Ahead(e)) \in Nat
  <2> HIDE DEF r, Sq
  <2>1. QED BY <1>2, FS_Subset, FS_CardinalityType
<1> HIDE DEF S, r, Sq, T
<1>8. ASSUME NEW e \in T, NEW f \in r \ T PROVE Sq(f) <= Sq(e)
  <2>0. e \in r /\ f \in r /\ \A g \in r : Sq(g) \in Int
    BY <1>1, <1>3
  <2>1. SUFFICES ASSUME Sq(f) > Sq(e) PROVE FALSE
    BY <2>0
  <2>2. Ahead(f) \subseteq Ahead(e)
    <3> SUFFICES ASSUME NEW g \in r, Sq(g) > Sq(f) PROVE Sq(g) > Sq(e)
      OBVIOUS
    <3>1. Sq(g) \in Int /\ Sq(f) \in Int /\ Sq(e) \in Int
      BY <2>0
    <3>2. QED BY <2>1, <3>1
  <2>3. Cardinality(Ahead(f)) <= Cardinality(Ahead(e))
    <3>1. IsFiniteSet(Ahead(e))
      BY <1>1, <1>7
    <3> HIDE DEF Ahead
    <3>2. QED BY <2>2, <3>1, FS_Subset
  <2>4. Cardinality(Ahead(e)) < limit /\ ~(Cardinality(Ahead(f)) < limit)
    BY <1>1
  <2> HIDE DEF Ahead
  <2>5. QED BY <1>1, <1>7, <2>3, <2>4
<1>9. ASSUME Left # {} PROVE Cardinality(T) >= limit
  <2>1. r \ T # {}
    <3>1. PICK x \in Left : TRUE
      BY <1>9
    <3>2. Left \subseteq S
      OBVIOUS
    <3>3. ListedEtfs(Left)
      <4> HIDE DEF Left
      <4>1. QED BY <1>2, <3>2, FS_Subset DEF ListedEtfs
    <3>4. PICK y \in Left : \A z \in Left : ~Bigger(z, y)
      <4> HIDE DEF Left
      <4>1. QED BY <3>1, <3>3, BiggestExists
    <3>5. y \in Representatives(Left)
      <4> HIDE DEF Left
      <4>1. QED BY <3>4 DEF Representatives
    <3> HIDE DEF Left
    <3>6. QED BY <1>6, <3>5
  <2> DEFINE Counts == {Cardinality(Ahead(e)) : e \in r \ T}
  <2>2. Counts \in SUBSET Nat /\ Counts # {}
    <3> HIDE DEF Ahead
    <3>1. QED BY <1>7, <2>1
  <2>3. PICK n \in Counts : \A k \in Counts : n <= k
    <3> HIDE DEF Counts
    <3>1. QED BY <2>2, LeastOf
  <2>4. PICK f \in r \ T : n = Cardinality(Ahead(f))
    BY <2>3
  <2>5. Ahead(f) \subseteq T
    <3> SUFFICES ASSUME NEW g \in Ahead(f), g \notin T PROVE FALSE
      OBVIOUS
    <3>1. g \in r \ T /\ Sq(g) > Sq(f)
      OBVIOUS
    <3>2. Ahead(g) \subseteq Ahead(f) /\ g \notin Ahead(g)
      BY <1>1, <1>3, <3>1
    <3>3. IsFiniteSet(Ahead(f)) /\ Cardinality(Ahead(f)) \in Nat /\ Cardinality(Ahead(g)) \in Nat
      BY <1>7, <3>1
    <3>4. Cardinality(Ahead(f)) <= Cardinality(Ahead(g))
      BY <2>3, <2>4, <3>1
    <3> HIDE DEF Ahead
    <3>5. Cardinality(Ahead(g)) <= Cardinality(Ahead(f)) /\ Cardinality(Ahead(g)) # Cardinality(Ahead(f))
      BY <3>2, <3>3, FS_Subset
    <3>6. QED BY <3>3, <3>4, <3>5
  <2>6. ~(Cardinality(Ahead(f)) < limit)
    BY <1>1, <2>4
  <2> HIDE DEF Ahead
  <2>7. IsFiniteSet(T)
    <3>1. T \subseteq r
      BY <1>1
    <3>2. QED BY <1>2, <3>1, FS_Subset
  <2>8. Cardinality(Ahead(f)) <= Cardinality(T) /\ Cardinality(T) \in Nat
    BY <2>5, <2>7, FS_Subset, FS_CardinalityType
  <2>9. QED BY <1>7, <2>4, <2>6, <2>8
<1>10. /\ T \subseteq S
       /\ \A e, f \in T : e.family = f.family => e = f
       /\ \A e \in T, f \in S : f.family = e.family => f.traded <= e.traded
       /\ \A e \in T, f \in Representatives(Left) : f.change * f.change <= e.change * e.change
       /\ Left # {} => Cardinality(T) >= limit
  <2> HIDE DEF Left
  <2>1. \A e \in T, f \in Representatives(Left) : f.change * f.change <= e.change * e.change
    BY <1>6, <1>8 DEF Sq
  <2> HIDE DEF Ahead
  <2>2. QED BY <1>1, <1>4, <1>5, <1>9, <2>1
<1>11. QED BY <1>10, Zenon DEF S, T

\* The newest session up to a day.
NewestUpTo(n, s) == s \in Int /\ s <= n /\ IsSession(s) /\ \A m \in Int : s < m /\ m <= n => ~IsSession(m)

\* A day with a session behind it has a newest one, and only one.
LEMMA NewestSession ==
  ASSUME NEW n \in Int, NEW j \in Nat, IsSession(n - j)
  PROVE  /\ \E s : NewestUpTo(n, s)
         /\ \A s, t : NewestUpTo(n, s) /\ NewestUpTo(n, t) => s = t
<1> DEFINE K == {k \in Nat : IsSession(n - k)}
<1>1. PICK k \in K : \A i \in K : k <= i
  <2>1. K \in SUBSET Nat /\ j \in K
    OBVIOUS
  <2> HIDE DEF K
  <2>2. QED BY <2>1, LeastOf
<1>2. NewestUpTo(n, n - k)
  <2> SUFFICES ASSUME NEW m \in Int, n - k < m, m <= n, IsSession(m) PROVE FALSE
    BY <1>1 DEF NewestUpTo
  <2>1. n - m \in Nat /\ n - (n - m) = m
    OBVIOUS
  <2>2. n - m \in K
    BY <2>1
  <2>3. k <= n - m
    BY <1>1, <2>2
  <2>4. QED BY <1>1, <2>3
<1>3. \A s, t : NewestUpTo(n, s) /\ NewestUpTo(n, t) => s = t
  <2> SUFFICES ASSUME NEW s, NEW t, NewestUpTo(n, s), NewestUpTo(n, t) PROVE s = t
    OBVIOUS
  <2>1. s \in Int /\ t \in Int /\ ~(s < t) /\ ~(t < s)
    BY DEF NewestUpTo
  <2>2. QED BY <2>1
<1>4. QED BY <1>2, <1>3

\* The recursion over days is defined: the newest session where there is one is a solution.
LEMMA SessionsDefined ==
  SessionAtOrBefore = [n \in Int |-> IF IsSession(n) THEN n ELSE SessionAtOrBefore[n - 1]]
<1> DEFINE Has(n) == \E j \in Nat : IsSession(n - j)
           NewestOne(n) == CHOOSE s : NewestUpTo(n, s)
           g == [n \in Int |-> IF Has(n) THEN NewestOne(n) ELSE 0]
<1>1. ASSUME NEW n \in Int PROVE g[n] = IF IsSession(n) THEN n ELSE g[n - 1]
  <2>1. CASE IsSession(n)
    <3>1. n - 0 = n
      OBVIOUS
    <3>2. Has(n) /\ NewestUpTo(n, n)
      BY <2>1, <3>1 DEF NewestUpTo
    <3>3. NewestUpTo(n, NewestOne(n))
      BY <3>2
    <3> HIDE DEF NewestOne
    <3>4. NewestOne(n) = n
      BY <2>1, <3>1, <3>2, <3>3, NewestSession
    <3> HIDE DEF Has
    <3>5. QED BY <2>1, <3>2, <3>4
  <2>2. CASE ~IsSession(n)
    <3>1. n - 1 \in Int
      OBVIOUS
    <3>2. Has(n) <=> Has(n - 1)
      <4>1. ASSUME NEW j \in Nat, IsSession(n - j) PROVE Has(n - 1)
        <5>1. j # 0
          BY <2>2, <4>1
        <5>2. j - 1 \in Nat /\ (n - 1) - (j - 1) = n - j
          BY <5>1
        <5>3. QED BY <4>1, <5>2
      <4>2. ASSUME NEW j \in Nat, IsSession((n - 1) - j) PROVE Has(n)
        <5>1. j + 1 \in Nat /\ (n - 1) - j = n - (j + 1)
          OBVIOUS
        <5>2. QED BY <4>2, <5>1
      <4>3. QED BY <4>1, <4>2
    <3>3. ASSUME NEW s PROVE NewestUpTo(n, s) <=> NewestUpTo(n - 1, s)
      <4>1. ASSUME NewestUpTo(n, s) PROVE NewestUpTo(n - 1, s)
        <5>1. s # n
          BY <2>2, <4>1 DEF NewestUpTo
        <5>2. QED BY <4>1, <5>1 DEF NewestUpTo
      <4>2. ASSUME NewestUpTo(n - 1, s) PROVE NewestUpTo(n, s)
        <5> SUFFICES ASSUME NEW m \in Int, s < m, m <= n PROVE ~IsSession(m)
          BY <4>2 DEF NewestUpTo
        <5>1. m = n \/ m <= n - 1
          OBVIOUS
        <5>2. QED BY <2>2, <4>2, <5>1 DEF NewestUpTo
      <4>3. QED BY <4>1, <4>2
    <3>4. NewestOne(n) = NewestOne(n - 1)
      BY <3>3
    <3> HIDE DEF Has, NewestOne
    <3>5. QED BY <2>2, <3>1, <3>2, <3>4
  <2>3. QED BY <2>1, <2>2
<1>2. g = [n \in Int |-> IF IsSession(n) THEN n ELSE g[n - 1]]
  <2> DEFINE h == [n \in Int |-> IF IsSession(n) THEN n ELSE g[n - 1]]
  <2>1. g = [n \in Int |-> g[n]] /\ h = [n \in Int |-> h[n]]
    OBVIOUS
  <2>2. \A n \in Int : h[n] = IF IsSession(n) THEN n ELSE g[n - 1]
    OBVIOUS
  <2> HIDE DEF g, h, NewestOne
  <2>3. \A n \in Int : g[n] = h[n]
    BY <1>1, <2>2
  <2>4. g = h
    BY <2>1, <2>3
  <2>5. QED BY <2>4 DEF h
<1> HIDE DEF g
<1>3. QED BY <1>2 DEF SessionAtOrBefore

\* It finds the newest session up to a day.
LEMMA SessionFound ==
  ASSUME NEW n \in Int, NEW j \in Nat, IsSession(n - j)
  PROVE  NewestUpTo(n, SessionAtOrBefore[n])
<1>1. PICK s : NewestUpTo(n, s)
  BY NewestSession
<1>2. s \in Int /\ n - s \in Nat /\ IsSession(s) /\ \A m \in Int : s < m /\ m <= n => ~IsSession(m)
  BY <1>1 DEF NewestUpTo
<1>3. \A m \in Int : SessionAtOrBefore[m] = IF IsSession(m) THEN m ELSE SessionAtOrBefore[m - 1]
  BY SessionsDefined
<1> DEFINE Bad == {k \in Nat : s + k <= n /\ SessionAtOrBefore[s + k] # s}
<1>4. Bad = {}
  <2> SUFFICES ASSUME Bad # {} PROVE FALSE
    OBVIOUS
  <2>1. PICK k \in Bad : \A i \in Bad : k <= i
    <3>1. Bad \in SUBSET Nat
      OBVIOUS
    <3> HIDE DEF Bad
    <3>2. QED BY <3>1, LeastOf
  <2>2. k # 0
    <3>1. s + 0 = s
      BY <1>2
    <3>2. QED BY <1>2, <1>3, <2>1, <3>1
  <2>3. s + k \in Int /\ s < s + k /\ s + k <= n /\ k - 1 \in Nat /\ s + (k - 1) = (s + k) - 1 /\ s + (k - 1) <= n
    BY <1>2, <2>1, <2>2
  <2>4. SessionAtOrBefore[s + k] = SessionAtOrBefore[s + (k - 1)]
    BY <1>2, <1>3, <2>3
  <2>5. k - 1 \in Bad
    BY <2>1, <2>3, <2>4
  <2>6. QED BY <2>1, <2>3, <2>5
<1>5. SessionAtOrBefore[n] = s
  <2>1. n - s \in Nat /\ s + (n - s) = n
    BY <1>2
  <2>2. SessionAtOrBefore[s + (n - s)] = SessionAtOrBefore[n] /\ s + (n - s) <= n
    BY <2>1
  <2>3. n - s \notin Bad
    BY <1>4
  <2>4. QED BY <2>1, <2>2, <2>3
<1>6. QED BY <1>1, <1>5

\* The session named complete is the newest one whose closing prices exist, at every moment
\* that has a session behind it (latest_completed_us_session).
LEMMA SessionContract ==
  ASSUME NEW asOf \in Int, NEW j \in Nat, IsSession(DayOf(asOf) - 1 - j)
  PROVE  LatestSessionIsTheNewestClosed(asOf) /\ LatestCompletedSession(asOf) \in Int
<1> DEFINE now == DayOf(asOf)
           s == LatestCompletedSession(asOf)
           Over(n) == IsSession(n) /\ asOf >= Closed(n) + CloseBuffer
<1>1. now \in Int /\ now * 1440 <= asOf /\ asOf < (now + 1) * 1440
  BY DEF DayOf
<1>2. \A n : CloseMinute(n) \in {780, 960}
  BY DEF CloseMinute, EarlyClose, RegularClose
<1> SUFFICES s \in Int /\ Over(s) /\ \A n \in s + 1 .. now : ~Over(n)
  BY Zenon DEF LatestSessionIsTheNewestClosed
<1> HIDE DEF now
<1>3. ASSUME NEW n \in Int, n < now PROVE asOf >= Closed(n) + CloseBuffer
  BY <1>1, <1>2, <1>3 DEF Closed, CloseBuffer
<1>4. CASE Over(now)
  <2>1. s = SessionAtOrBefore[now]
    BY <1>4 DEF LatestCompletedSession, now
  <2>2. SessionAtOrBefore[now] = now
    BY <1>1, <1>4, SessionsDefined
  <2>3. \A n \in now + 1 .. now : FALSE
    BY <1>1
  <2> HIDE DEF s, Over
  <2>4. QED BY <1>1, <1>4, <2>1, <2>2, <2>3
<1>5. CASE ~Over(now)
  <2>1. s = SessionAtOrBefore[now - 1]
    BY <1>5 DEF LatestCompletedSession, now
  <2>2. now - 1 \in Int /\ IsSession((now - 1) - j)
    BY <1>1 DEF now
  <2>3. NewestUpTo(now - 1, s)
    BY <2>1, <2>2, SessionFound
  <2>4. s \in Int /\ s < now /\ IsSession(s) /\ \A n \in Int : s < n /\ n <= now - 1 => ~IsSession(n)
    BY <1>1, <2>3 DEF NewestUpTo
  <2>5. Over(s)
    BY <1>3, <2>4
  <2>6. ASSUME NEW n \in s + 1 .. now PROVE ~Over(n)
    <3>1. n \in Int /\ s < n /\ (n = now \/ n <= now - 1)
      BY <1>1, <2>4
    <3>2. QED BY <1>5, <2>4, <3>1
  <2> HIDE DEF Over, s
  <2>7. QED BY <2>4, <2>5, <2>6
<1>6. QED BY <1>4, <1>5

\* Tables that are shown are about one close, for every set of listed ETFs and every chart, at
\* every moment that has a session behind it (_build_etf, daily_rankings).
LEMMA TableContract ==
  ASSUME NEW U, ListedEtfs(U), \A e \in U : e.quote \in Int,
         NEW asOf \in Int, NEW j \in Nat, IsSession(DayOf(asOf) - 1 - j),
         NEW beijingDay, NEW strategy, NEW closes
  PROVE  TableIsOfOneClose(U, asOf, beijingDay, strategy, closes)
<1> DEFINE session == LatestCompletedSession(asOf)
           spy == {e \in U : e.sym = Spy}
           one == CHOOSE e \in spy : TRUE
           ref == (CHOOSE e \in U : e.sym = Spy).quote
           rows == DailyAligned(U, session, asOf, ref)
<1> SUFFICES ASSUME MarketPart(U, asOf, beijingDay, strategy, closes) = "rows"
             PROVE  /\ asOf >= Closed(session) + CloseBuffer /\ IsSession(session)
                    /\ rows # {}
                    /\ \A e \in rows : e.quote - Closed(session) \in -QuoteWindow .. QuoteWindow
                    /\ \A s \in strategy : PreviousSession(session) \in DOMAIN closes[s]
  BY Zenon DEF TableIsOfOneClose
<1>1. session \in Int /\ IsSession(session) /\ asOf >= Closed(session) + CloseBuffer
  BY SessionContract, Zenon DEF LatestSessionIsTheNewestClosed
<1>2. /\ spy # {}
      /\ \A s \in strategy : \E e \in U : e.sym = s /\ StrategyRow(e, session, asOf, one.quote, closes[s])
      /\ Rank(DailyAligned(U, session, asOf, one.quote), Up, 10) # {} \/
         Rank(DailyAligned(U, session, asOf, one.quote), Down, 10) # {}
  BY DEF MarketPart
<1>3. one.quote = ref
  <2>1. one \in spy
    BY <1>2
  <2>2. (CHOOSE e \in U : e.sym = Spy) \in spy
    BY <2>1
  <2>3. one = CHOOSE e \in U : e.sym = Spy
    BY <2>1, <2>2 DEF ListedEtfs
  <2>4. QED BY <2>3
<1> HIDE DEF session, spy, one, ref
<1>4. rows # {}
  <2>1. \A sign : Rank(rows, sign, 10) \subseteq rows
    BY DEF Rank, Representatives, Moves
  <2>2. QED BY <1>2, <1>3, <2>1
<1>5. ASSUME NEW e \in rows PROVE e.quote - Closed(session) \in -QuoteWindow .. QuoteWindow
  <2>1. e \in U /\ e.quote >= Closed(session) - QuoteWindow /\ e.quote <= Closed(session) + QuoteWindow
    BY <1>5 DEF DailyAligned, Eligible
  <2>2. CloseMinute(session) \in {780, 960}
    BY DEF CloseMinute, EarlyClose, RegularClose
  <2>3. Closed(session) \in Int /\ e.quote \in Int
    BY <1>1, <2>1, <2>2 DEF Closed
  <2>4. QED BY <2>1, <2>3 DEF QuoteWindow
<1>6. \A s \in strategy : PreviousSession(session) \in DOMAIN closes[s]
  BY <1>2 DEF StrategyRow
<1> HIDE DEF rows
<1>7. QED BY <1>1, <1>4, <1>5, <1>6

\* The smaller of two numbers.
LEMMA MinMaxOfTwo ==
  ASSUME NEW a \in Int, NEW b \in Int, a < b
  PROVE  Min({a, b}) = a /\ Max({a, b}) = b
<1>1. \A x \in {a, b} : a <= x /\ b >= x
  OBVIOUS
<1>2. \A x \in {a, b} : (\A y \in {a, b} : x <= y) => x = a
  OBVIOUS
<1>3. \A x \in {a, b} : (\A y \in {a, b} : x >= y) => x = b
  OBVIOUS
<1>4. QED BY <1>1, <1>2, <1>3 DEF Min, Max

\* A set of two numbers.
LEMMA TwoNumbers ==
  ASSUME NEW S \in SUBSET Int, IsFiniteSet(S), Cardinality(S) = 2
  PROVE  \E a, b \in Int : a < b /\ S = {a, b}
<1>1. S # {}
  BY FS_EmptySet
<1>2. PICK x \in S : TRUE
  BY <1>1
<1>3. IsFiniteSet(S \ {x}) /\ Cardinality(S \ {x}) = 1
  BY FS_RemoveElement
<1>4. PICK y : S \ {x} = {y}
  BY <1>3, FS_Singleton
<1>5. y \in Int /\ x \in Int /\ x # y /\ S = {x, y}
  BY <1>4
<1>6. CASE x < y
  BY <1>5, <1>6
<1>7. CASE y < x
  BY <1>5, <1>7
<1>8. QED BY <1>5, <1>6, <1>7

\* The change shown for an index is between its two newest complete sessions, for every two
\* series of dates and every moment (change_from_rows, latest_complete_market_sessions).
LEMMA ChangeContract ==
  ASSUME NEW dates \in SUBSET Int, IsFiniteSet(dates),
         NEW reference \in SUBSET Int, IsFiniteSet(reference), NEW asOf \in Int
  PROVE  ChangeIsOfOneSession(dates, reference, asOf)
<1> DEFINE e == ChinaExpected(reference, asOf)
           now == DayOf(asOf)
<1> SUFFICES ASSUME Cardinality(e) = 2
             PROVE  /\ Change(dates, Max(e), Min(e)) \in {{}, e}
                    /\ dates \cap (Min(e) .. Max(e)) = e => Change(dates, Max(e), Min(e)) = e
                    /\ now \in e => \/ Weekday(now) >= 5
                                      \/ asOf >= now * 1440 + ChinaClose + ChinaBuffer
  BY Zenon DEF ChangeIsOfOneSession
<1>1. e \subseteq CompleteDates(reference, asOf, ChinaClose, ChinaBuffer)
  BY DEF ChinaExpected, NewestTwo
<1>2. now \in Int
  BY DEF DayOf
<1>3. now \in e => \/ Weekday(now) >= 5
                    \/ asOf >= now * 1440 + ChinaClose + ChinaBuffer
  <2> SUFFICES ASSUME now \in e PROVE Weekday(now) >= 5 \/ asOf >= now * 1440 + ChinaClose + ChinaBuffer
    OBVIOUS
  <2>1. now \in CompleteDates(reference, asOf, ChinaClose, ChinaBuffer)
    BY <1>1
  <2> HIDE DEF e
  <2>2. QED BY <1>2, <2>1 DEF CompleteDates
<1>4. e \in SUBSET Int /\ IsFiniteSet(e)
  <2>1. e \subseteq reference
    BY <1>1 DEF CompleteDates
  <2> HIDE DEF e
  <2>2. QED BY <2>1, FS_Subset
<1> HIDE DEF e, now
<1>5. PICK a \in Int : \E b \in Int : a < b /\ e = {a, b}
  BY <1>4, TwoNumbers
<1>6. PICK b \in Int : a < b /\ e = {a, b}
  BY <1>5
<1>7. Min(e) = a /\ Max(e) = b
  BY <1>6, MinMaxOfTwo
<1> DEFINE known == {d \in dates : d <= b}
           After(d) == {x \in known : x > d}
<1>8. NewestTwo(known) = {d \in known : Cardinality(After(d)) < 2}
  BY DEF NewestTwo
<1>9. Change(dates, b, a) = IF NewestTwo(known) = {a, b} THEN NewestTwo(known) ELSE {}
  BY <1>6 DEF Change
<1>10. ASSUME dates \cap (a .. b) = {a, b} PROVE NewestTwo(known) = {a, b}
  <2>1. a \in known /\ b \in known /\ known \in SUBSET Int /\ \A d \in known : d <= b
    <3>1. a \in dates \cap (a .. b) /\ b \in dates \cap (a .. b)
      BY <1>10
    <3>2. a \in dates /\ b \in dates
      BY <3>1
    <3>3. a \in known /\ b \in known
      BY <1>6, <3>2
    <3>4. known \in SUBSET Int /\ \A d \in known : d <= b
      OBVIOUS
    <3>5. QED BY <3>3, <3>4
  <2>2. \A d \in known : d < a \/ d = a \/ d = b
    BY <1>6, <1>10
  <2>3. IsFiniteSet(known)
    BY FS_Subset
  <2> HIDE DEF known
  <2>4. After(b) = {} /\ After(a) = {b}
    <3>1. \A d \in known : ~(d > b)
      BY <2>1
    <3>2. \A d \in known : d > a <=> d = b
      BY <1>6, <2>1, <2>2
    <3>3. QED BY <2>1, <3>1, <3>2
  <2>5. Cardinality(After(b)) = 0 /\ Cardinality(After(a)) = 1
    <3> HIDE DEF After
    <3>1. QED BY <2>4, FS_EmptySet, FS_Singleton
  <2>6. ASSUME NEW d \in known, d < a PROVE ~(Cardinality(After(d)) < 2)
    <3>1. {a, b} \subseteq After(d) /\ IsFiniteSet(After(d))
      <4>1. a \in After(d) /\ b \in After(d)
        BY <1>6, <2>1, <2>6
      <4>2. IsFiniteSet(After(d))
        BY <2>3, FS_Subset
      <4>3. QED BY <4>1, <4>2
    <3> HIDE DEF After
    <3>2. Cardinality({a, b}) = 2
      <4>1. {a, b} = {a} \cup {b} /\ b \notin {a}
        BY <1>6
      <4>2. IsFiniteSet({a}) /\ Cardinality({a}) = 1
        BY FS_Singleton
      <4>3. Cardinality({a} \cup {b}) = 1 + 1
        BY <4>1, <4>2, FS_AddElement
      <4>4. QED BY <4>1, <4>3
    <3>3. Cardinality({a, b}) <= Cardinality(After(d)) /\ Cardinality(After(d)) \in Nat
      BY <3>1, FS_Subset, FS_CardinalityType
    <3>4. QED BY <3>2, <3>3
  <2> HIDE DEF After
  <2>7. \A d \in known : Cardinality(After(d)) < 2 <=> d = a \/ d = b
    <3>1. Cardinality(After(a)) < 2 /\ Cardinality(After(b)) < 2
      BY <2>5
    <3>2. QED BY <2>2, <2>6, <3>1
  <2>8. QED BY <1>8, <2>1, <2>7
<1> HIDE DEF known, After
<1>11. Change(dates, b, a) \in {{}, e} /\ (dates \cap (a .. b) = e => Change(dates, b, a) = e)
  BY <1>6, <1>9, <1>10
<1>12. QED BY <1>3, <1>7, <1>11

\* A weekly or monthly table compares all its ETFs over the same sessions and is empty rather
\* than about a part of the market, for all charts (period_rankings).
LEMMA PeriodContract ==
  ASSUME NEW charts, IsFiniteSet(DOMAIN charts), NEW expected \in SUBSET Nat, IsFiniteSet(expected),
         NEW aligned, NEW session, NEW bars \in Nat
  PROVE  PeriodIsUniform(charts, expected, aligned, session, bars)
<1> DEFINE t == Period(charts, expected, aligned, session, bars)
           full == PeriodCharts(charts, expected, aligned, session)
           After(d) == {e \in expected : e > d}
           required == {d \in expected : Cardinality(After(d)) <= bars}
           complete == {s \in DOMAIN full : session \in full[s] /\ required \subseteq full[s]}
<1> SUFFICES ASSUME t # {}
             PROVE  /\ Cardinality(required) = bars + 1
                    /\ \A s \in t, d \in required : d \in charts[s] \/ (d = session /\ s \in aligned)
                    /\ Cardinality(DOMAIN charts \ t) * 100 <= Cardinality(DOMAIN charts)
  BY Zenon DEF PeriodIsUniform
<1>1. /\ t = complete
      /\ ~(Cardinality(required) < bars + 1)
      /\ Cardinality(complete) * 100 >= Cardinality(DOMAIN charts) * 99
  <2>1. t = IF Cardinality(required) < bars + 1 THEN {}
            ELSE IF Cardinality(complete) * 100 >= Cardinality(DOMAIN charts) * 99 THEN complete ELSE {}
    BY Zenon DEF Period
  <2> HIDE DEF t, required, complete
  <2>2. QED BY <2>1
<1>2. /\ DOMAIN full = DOMAIN charts
      /\ \A s \in DOMAIN full : \A d \in full[s] : d \in charts[s] \/ (d = session /\ s \in aligned)
  BY DEF PeriodCharts
<1>3. \A s \in t, d \in required : d \in charts[s] \/ (d = session /\ s \in aligned)
  <2> HIDE DEF full, required, t
  <2>1. QED BY <1>1, <1>2
<1>4. Cardinality(required) <= bars + 1 /\ Cardinality(required) \in Nat
  <2>1. IsFiniteSet(required) /\ Cardinality(required) \in Nat /\ required \in SUBSET Nat
    BY FS_Subset, FS_CardinalityType
  <2>2. CASE required = {}
    <3> HIDE DEF required
    <3>1. QED BY <2>1, <2>2, FS_EmptySet
  <2>3. CASE required # {}
    <3>1. PICK m \in required : \A k \in required : m <= k
      <4> HIDE DEF required
      <4>1. QED BY <2>1, <2>3, LeastOf
    <3>2. required \ {m} \subseteq After(m) /\ IsFiniteSet(After(m)) /\ Cardinality(After(m)) \in Nat
      <4>1. required \ {m} \subseteq After(m)
        <5> SUFFICES ASSUME NEW k \in required, k # m PROVE k \in expected /\ k > m
          OBVIOUS
        <5>1. k \in Nat /\ m \in Nat /\ k \in expected /\ m <= k
          BY <2>1, <3>1
        <5>2. QED BY <5>1
      <4>2. IsFiniteSet(After(m)) /\ Cardinality(After(m)) \in Nat
        BY FS_Subset, FS_CardinalityType
      <4>3. QED BY <4>1, <4>2
    <3>3. Cardinality(After(m)) <= bars
      BY <3>1
    <3> HIDE DEF required, After
    <3>4. Cardinality(required \ {m}) <= Cardinality(After(m))
      BY <3>2, FS_Subset
    <3>5. Cardinality(required \ {m}) = Cardinality(required) - 1
      BY <2>1, <3>1, FS_RemoveElement
    <3>6. QED BY <2>1, <3>2, <3>3, <3>4, <3>5
  <2>4. QED BY <2>2, <2>3
<1>5. t \subseteq DOMAIN charts
  <2> HIDE DEF full, required, t
  <2>1. QED BY <1>1, <1>2
<1> HIDE DEF t, full, required, complete
<1>6. /\ Cardinality(DOMAIN charts \ t) = Cardinality(DOMAIN charts) - Cardinality(t)
      /\ Cardinality(DOMAIN charts) \in Nat /\ Cardinality(t) \in Nat
  <2>1. (DOMAIN charts) \cap t = t /\ IsFiniteSet(t)
    BY <1>5, FS_Subset
  <2>2. QED BY <2>1, FS_Difference, FS_CardinalityType
<1>7. QED BY <1>1, <1>3, <1>4, <1>6

\* A universe is every listed ETF or nothing, for every market, limit, page size and answers of
\* the service (fetch_universe).
LEMMA UniverseContract ==
  ASSUME NEW n \in Nat, NEW scan \in Nat \ {0}, NEW size \in Nat \ {0}, NEW tries
  PROVE  UniverseIsWhole(n, scan, size, tries)
<1> DEFINE reads == [p \in DOMAIN tries |-> PageRead(tries[p])]
           end == PagesAsked(scan, size) - 1
           Rows(p) == PageRows(scan, size, p) \cap (0 .. n - 1)
           stops == {p \in 0 .. end : reads[p + 1] # "ok" \/ Rows(p) = {}}
           full == PageRows(scan, size, end) \subseteq 0 .. n - 1
           U == Universe(n, scan, size, reads)
<1> HIDE DEF reads
<1>1. end \in Nat /\ end * size < scan /\ scan <= (end + 1) * size
  <2> DEFINE q == (scan + size - 1) \div size
  <2>1. q \in Int /\ size * q <= scan + size - 1 /\ scan + size - 1 < size * q + size
    OBVIOUS
  <2>2. q >= 1
    <3>1. q <= 0 => size * q <= 0
      BY <2>1
    <3>2. QED BY <2>1, <3>1
  <2> HIDE DEF q
  <2>3. end = q - 1
    BY DEF PagesAsked, q
  <2>4. (q - 1) * size = size * q - size /\ (q - 1 + 1) * size = size * q
    BY <2>1
  <2>5. QED BY <2>1, <2>2, <2>3, <2>4
<1>2. \A j, k \in Nat : j <= k => j * size <= k * size
  <2> TAKE j, k \in Nat
  <2> HAVE j <= k
  <2>1. k - j \in Nat /\ (k - j) * size = k * size - j * size /\ (k - j) * size \in Nat
    OBVIOUS
  <2>2. j * size \in Nat /\ k * size \in Nat
    OBVIOUS
  <2>3. QED BY <2>1, <2>2
<1>3. ASSUME NEW i \in Nat PROVE \E p \in Nat : p * size <= i /\ i < (p + 1) * size
  <2> DEFINE p == i \div size
  <2>1. p \in Nat /\ size * p <= i /\ i < size * p + size
    OBVIOUS
  <2> HIDE DEF p
  <2>2. p * size = size * p /\ (p + 1) * size = size * p + size
    BY <2>1
  <2>3. QED BY <2>1, <2>2
<1>4. ASSUME NEW p \in Nat, NEW i \in Nat
      PROVE  i \in Rows(p) <=> p * size <= i /\ i < (p + 1) * size /\ i < scan /\ i < n
  <2>1. p * size \in Nat /\ (p + 1) * size \in Nat
    OBVIOUS
  <2>2. QED BY <2>1 DEF PageRows
<1>5. \A p : Rows(p) \subseteq 0 .. n - 1
  OBVIOUS
<1>6. ASSUME NEW k \in Nat, n <= k * size, n <= scan
      PROVE  UNION {Rows(p) : p \in 0 .. k - 1} = 0 .. n - 1
  <2>1. ASSUME NEW i \in 0 .. n - 1 PROVE \E p \in 0 .. k - 1 : i \in Rows(p)
    <3>1. i \in Nat /\ i < n /\ i < scan /\ i < k * size
      <4>1. k * size \in Nat
        OBVIOUS
      <4>2. QED BY <1>6, <4>1
    <3>2. PICK p \in Nat : p * size <= i /\ i < (p + 1) * size
      BY <1>3, <3>1
    <3>3. i \in Rows(p)
      BY <1>4, <3>1, <3>2
    <3>4. p < k
      <4>1. k <= p => k * size <= p * size
        BY <1>2
      <4>2. k * size \in Nat /\ p * size \in Nat
        OBVIOUS
      <4>3. QED BY <3>1, <3>2, <4>1, <4>2
    <3> HIDE DEF Rows
    <3>5. QED BY <3>3, <3>4
  <2> HIDE DEF Rows
  <2>2. QED BY <1>5, <2>1
<1>7. ASSUME NEW p \in 0 .. end, Rows(p) = {} PROVE n <= p * size
  <2>1. p \in Nat /\ p * size \in Nat /\ p * size < scan
    <3>1. p \in Nat /\ p * size \in Nat /\ p <= end /\ end * size \in Nat
      BY <1>1
    <3>2. p * size <= end * size
      BY <1>1, <1>2, <3>1
    <3>3. QED BY <1>1, <3>1, <3>2
  <2>2. p * size < (p + 1) * size
    BY <2>1
  <2>3. ~(p * size < n)
    <3>1. p * size \notin Rows(p)
      BY <1>7
    <3> HIDE DEF Rows
    <3>2. QED BY <1>4, <2>1, <2>2, <3>1
  <2>4. QED BY <2>1, <2>3
<1>8. stops # {} => Min(stops) \in stops /\ \A p \in stops : Min(stops) <= p
  <2>1. stops \in SUBSET Nat
    OBVIOUS
  <2> HIDE DEF stops
  <2>2. ASSUME stops # {} PROVE \E m \in stops : \A k \in stops : m <= k
    BY <2>1, <2>2, LeastOf
  <2>3. QED BY <2>2 DEF Min
<1>9. ~full => n < scan /\ n <= (end + 1) * size
  <2> SUFFICES ASSUME NEW i \in PageRows(scan, size, end), i \notin 0 .. n - 1
               PROVE  n < scan /\ n <= (end + 1) * size
    OBVIOUS
  <2>1. end * size \in Nat /\ (end + 1) * size \in Nat
    BY <1>1
  <2>2. i \in Int /\ end * size <= i /\ i < (end + 1) * size /\ i < scan
    BY <2>1 DEF PageRows
  <2>3. QED BY <2>1, <2>2
<1> DEFINE read == IF stops = {} THEN 0 .. end ELSE 0 .. Min(stops) - 1
           stopped == \/ stops # {} /\ reads[Min(stops) + 1] # "ok"
                      \/ stops = {} /\ full
<1>10. U = IF stopped THEN NoUniverse ELSE UNION {Rows(p) : p \in read}
  BY Zenon DEF Universe
<1>11. ASSUME ~stopped PROVE UNION {Rows(p) : p \in read} = 0 .. n - 1
  <2>1. CASE stops = {}
    <3>1. read = 0 .. (end + 1) - 1 /\ end + 1 \in Nat
      BY <1>1, <2>1
    <3>2. n < scan /\ n <= (end + 1) * size
      BY <1>9, <1>11, <2>1
    <3> HIDE DEF read, Rows, end, stops, full
    <3>3. n <= scan
      BY <3>2
    <3>4. UNION {Rows(p) : p \in 0 .. (end + 1) - 1} = 0 .. n - 1
      BY <1>6, <3>1, <3>2, <3>3
    <3>5. QED BY <3>1, <3>4
  <2>2. CASE stops # {}
    <3> DEFINE m == Min(stops)
    <3>1. m \in stops /\ reads[m + 1] = "ok"
      BY <1>8, <1>11, <2>2
    <3>2. m \in 0 .. end /\ Rows(m) = {}
      BY <3>1
    <3>3. read = 0 .. m - 1
      BY <2>2
    <3> HIDE DEF read, Rows, stops, m
    <3>4. m \in Nat /\ n <= m * size
      BY <1>7, <3>2
    <3>5. m * size <= end * size /\ m * size \in Nat /\ end * size \in Nat
      BY <1>1, <1>2, <3>2, <3>4
    <3>6. n <= scan
      BY <1>1, <3>4, <3>5
    <3>7. QED BY <1>6, <3>3, <3>4, <3>6
  <2>3. QED BY <2>1, <2>2
<1>12. ASSUME n < scan, \A p \in 1 .. PagesAsked(scan, size) : reads[p] = "ok"
       PROVE  ~stopped
  <2>1. \A p \in 0 .. end : reads[p + 1] = "ok"
    <3>1. end + 1 = PagesAsked(scan, size)
      <4>1. PagesAsked(scan, size) \in Int
        BY DEF PagesAsked
      <4>2. QED BY <4>1
    <3> HIDE DEF end
    <3>2. QED BY <1>1, <1>12, <3>1
  <2>2. stops # {} => reads[Min(stops) + 1] = "ok"
    <3>1. stops # {} => Min(stops) \in 0 .. end
      BY <1>8
    <3> HIDE DEF stops
    <3>2. QED BY <2>1, <3>1
  <2>3. stops = {} => ~full
    <3> SUFFICES ASSUME stops = {}, full PROVE FALSE
      OBVIOUS
    <3>1. end \in 0 .. end
      BY <1>1
    <3>2. Rows(end) # {}
      BY <3>1
    <3>3. PICK i \in Rows(end) : TRUE
      BY <3>2
    <3>4. i \in Nat /\ end * size <= i /\ end * size \in Nat
      <4>1. i \in Nat
        BY <3>3
      <4> HIDE DEF Rows, end
      <4>2. QED BY <1>1, <1>4, <3>3, <4>1
    <3>5. scan - 1 \in PageRows(scan, size, end)
      <4>1. scan - 1 \in Nat /\ end * size \in Nat /\ (end + 1) * size \in Nat
        BY <1>1
      <4> HIDE DEF end
      <4>2. QED BY <1>1, <4>1 DEF PageRows
    <3>6. QED BY <1>12, <3>5
  <2>4. QED BY <2>2, <2>3
<1> HIDE DEF stopped, read, Rows, U
<1>13. /\ U \in {NoUniverse, 0 .. n - 1}
       /\ n < scan /\ (\A p \in 1 .. PagesAsked(scan, size) : reads[p] = "ok") => U = 0 .. n - 1
  BY <1>10, <1>11, <1>12
<1>14. QED BY <1>13, Zenon DEF UniverseIsWhole, U, reads

-------------------------------------------------------------------------------
(* The calendar of the exchange, for every year from 2000.                       *)

\* The first of January of a year, and the leap day.
NewYear(y) == Day(y, 1, 1)
Extra(y) == IF Leap(y) THEN 1 ELSE 0

\* The first of January counted in days.
LEMMA NewYearIs ==
  ASSUME NEW y \in Int
  PROVE  /\ NewYear(y) = (y - 2000) * 365 + ((y - 1997) \div 4) - ((y - 1901) \div 100) + ((y - 1601) \div 400)
         /\ NewYear(y) \in Int /\ Extra(y) \in 0 .. 1
BY DEF NewYear, Extra, Day, DaysBefore

\* A day of a month, counted from the first of January.
LEMMA DaysOfAYear ==
  ASSUME NEW y \in Int, NEW d \in Int
  PROVE  /\ Day(y, 1, d) = NewYear(y) + d - 1
         /\ Day(y, 2, d) = NewYear(y) + 31 + d - 1
         /\ Day(y, 3, d) = NewYear(y) + 59 + Extra(y) + d - 1
         /\ Day(y, 4, d) = NewYear(y) + 90 + Extra(y) + d - 1
         /\ Day(y, 6, d) = NewYear(y) + 151 + Extra(y) + d - 1
         /\ Day(y, 7, d) = NewYear(y) + 181 + Extra(y) + d - 1
         /\ Day(y, 9, d) = NewYear(y) + 243 + Extra(y) + d - 1
         /\ Day(y, 11, d) = NewYear(y) + 304 + Extra(y) + d - 1
         /\ Day(y, 12, d) = NewYear(y) + 334 + Extra(y) + d - 1
<1>1. \A m \in 1 .. 12 : Day(y, m, d) = NewYear(y) + DaysBefore(y, m) + d - 1
  <2>1. DaysBefore(y, 1) = 0 /\ \A m \in 1 .. 12 : DaysBefore(y, m) \in Int
    BY DEF DaysBefore
  <2>2. ((y - 1997) \div 4) \in Int /\ ((y - 1901) \div 100) \in Int /\ ((y - 1601) \div 400) \in Int
    OBVIOUS
  <2>3. QED BY <2>1, <2>2 DEF Day, NewYear
<1>2. /\ DaysBefore(y, 1) = 0 /\ DaysBefore(y, 2) = 31
      /\ DaysBefore(y, 3) = 59 + Extra(y) /\ DaysBefore(y, 4) = 90 + Extra(y)
      /\ DaysBefore(y, 6) = 151 + Extra(y) /\ DaysBefore(y, 7) = 181 + Extra(y)
      /\ DaysBefore(y, 9) = 243 + Extra(y) /\ DaysBefore(y, 11) = 304 + Extra(y)
      /\ DaysBefore(y, 12) = 334 + Extra(y)
  BY DEF DaysBefore, Extra
<1>3. NewYear(y) \in Int /\ Extra(y) \in Int
  BY NewYearIs
<1>4. QED BY <1>1, <1>2, <1>3

\* A year has 365 days, one more in a leap year.
LEMMA YearLength ==
  ASSUME NEW y \in Int
  PROVE  NewYear(y + 1) = NewYear(y) + 365 + Extra(y)
<1>1. ((y - 1996) \div 4) = ((y - 1997) \div 4) + (IF y % 4 = 0 THEN 1 ELSE 0)
  OBVIOUS
<1>2. ((y - 1900) \div 100) = ((y - 1901) \div 100) + (IF y % 100 = 0 THEN 1 ELSE 0)
  OBVIOUS
<1>3. ((y - 1600) \div 400) = ((y - 1601) \div 400) + (IF y % 400 = 0 THEN 1 ELSE 0)
  OBVIOUS
<1>4. (y % 400 = 0 => y % 100 = 0) /\ (y % 100 = 0 => y % 4 = 0)
  OBVIOUS
<1>5. /\ (y + 1) - 1997 = y - 1996 /\ (y + 1) - 1901 = y - 1900 /\ (y + 1) - 1601 = y - 1600
      /\ ((y + 1) - 2000) * 365 = (y - 2000) * 365 + 365
  OBVIOUS
<1>6. Extra(y) = (IF y % 4 = 0 THEN 1 ELSE 0) - (IF y % 100 = 0 THEN 1 ELSE 0) + (IF y % 400 = 0 THEN 1 ELSE 0)
  BY <1>4 DEF Extra, Leap
<1>7. NewYear(y + 1) = (y - 2000) * 365 + 365 + ((y - 1996) \div 4) - ((y - 1900) \div 100) + ((y - 1600) \div 400)
  BY <1>5, NewYearIs
<1>8. NewYear(y) = (y - 2000) * 365 + ((y - 1997) \div 4) - ((y - 1901) \div 100) + ((y - 1601) \div 400)
  BY NewYearIs
<1> DEFINE a == (y - 1997) \div 4
           b == (y - 1901) \div 100
           c == (y - 1601) \div 400
           t == (y - 2000) * 365
           p == IF y % 4 = 0 THEN 1 ELSE 0
           q == IF y % 100 = 0 THEN 1 ELSE 0
           r == IF y % 400 = 0 THEN 1 ELSE 0
<1>9. {a, b, c, t, p, q, r} \subseteq Int
  OBVIOUS
<1>10. /\ NewYear(y + 1) = t + 365 + (a + p) - (b + q) + (c + r)
       /\ NewYear(y) = t + a - b + c /\ Extra(y) = p - q + r
  BY <1>1, <1>2, <1>3, <1>6, <1>7, <1>8
<1> HIDE DEF a, b, c, t, p, q, r
<1>11. QED BY <1>9, <1>10

\* Years do not overlap, and lie where YearOf looks for them.
LEMMA YearsInOrder ==
  ASSUME NEW y \in Int, NEW z \in Int, y <= z
  PROVE  NewYear(y) + 365 * (z - y) <= NewYear(z)
<1>1. /\ ((y - 1997) \div 4) - ((y - 1901) \div 100) <= ((z - 1997) \div 4) - ((z - 1901) \div 100)
      /\ ((y - 1601) \div 400) <= ((z - 1601) \div 400)
  OBVIOUS
<1>2. QED BY <1>1, NewYearIs

LEMMA YearsAreLocated ==
  ASSUME NEW y \in Int, y >= 2000
  PROVE  365 * (y - 2000) <= NewYear(y) /\ NewYear(y) <= 366 * (y - 2000)
<1>1. NewYear(2000) = 0
  BY DEF NewYear, Day, DaysBefore
<1>2. NewYear(2000) + 365 * (y - 2000) <= NewYear(y)
  BY YearsInOrder
<1>3. ((y - 1997) \div 4) - ((y - 1901) \div 100) + ((y - 1601) \div 400) <= y - 2000
  OBVIOUS
<1>4. QED BY <1>1, <1>2, <1>3, NewYearIs

\* The year of a day: YearOf looks for the only one that holds the day.
InYear(n, z) == Day(z, 1, 1) <= n /\ n < Day(z + 1, 1, 1)
Looked(n) == (2000 + n \div 366) .. (2000 + n \div 365)

LEMMA YearOfIs ==
  ASSUME NEW n, NEW z \in Looked(n), InYear(n, z), \A x \in Looked(n) : InYear(n, x) => x = z
  PROVE  YearOf(n) = z
BY DEF YearOf, InYear, Looked

\* YearOf inverts the first days of the years.
LEMMA YearFound ==
  ASSUME NEW y \in Int, y >= 1999, NEW n \in Int, NewYear(y) <= n, n < NewYear(y + 1)
  PROVE  YearOf(n) = y
<1> DEFINE R == (2000 + n \div 366) .. (2000 + n \div 365)
<1>1. y \in R
  <2>1. CASE y >= 2000
    <3>1. 365 * (y - 2000) <= n /\ n < 366 * (y + 1 - 2000)
      <4>1. 365 * (y - 2000) <= NewYear(y) /\ NewYear(y + 1) <= 366 * (y + 1 - 2000)
        BY <2>1, YearsAreLocated
      <4>2. NewYear(y) \in Int /\ NewYear(y + 1) \in Int
        BY NewYearIs
      <4>3. QED BY <4>1, <4>2
    <3>2. QED BY <3>1
  <2>2. CASE y = 1999
    <3>1. NewYear(1999) = -365 /\ NewYear(1999 + 1) = 0
      BY DEF NewYear, Day, DaysBefore
    <3>2. QED BY <2>2, <3>1
  <2>3. QED BY <2>1, <2>2
<1>2. \A z \in R : NewYear(z) <= n /\ n < NewYear(z + 1) => z = y
  <2> SUFFICES ASSUME NEW z \in Int, NewYear(z) <= n, n < NewYear(z + 1) PROVE z = y
    OBVIOUS
  <2>1. NewYear(y) \in Int /\ NewYear(z) \in Int /\ NewYear(y + 1) \in Int /\ NewYear(z + 1) \in Int
    BY NewYearIs
  <2>2. ~(y + 1 <= z)
    <3>1. y + 1 <= z => NewYear(y + 1) + 365 * (z - (y + 1)) <= NewYear(z)
      BY YearsInOrder
    <3>2. QED BY <2>1, <3>1
  <2>3. ~(z + 1 <= y)
    <3>1. z + 1 <= y => NewYear(z + 1) + 365 * (y - (z + 1)) <= NewYear(y)
      BY YearsInOrder
    <3>2. QED BY <2>1, <3>1
  <2>4. QED BY <2>2, <2>3
<1>3. y \in Looked(n) /\ InYear(n, y) /\ \A z \in Looked(n) : InYear(n, z) => z = y
  BY <1>1, <1>2 DEF InYear, Looked, NewYear
<1>4. QED BY <1>3, YearOfIs

\* Every day from 1999 on is in a year.
LEMMA YearExists ==
  ASSUME NEW n \in Int, n >= -365
  PROVE  \E y \in Nat : y >= 1999 /\ NewYear(y) <= n /\ n < NewYear(y + 1)
<1> DEFINE T == {k \in Nat : n < NewYear(1999 + k + 1)}
<1>0. NewYear(1999) = -365
  BY DEF NewYear, Day, DaysBefore
<1>1. n + 365 \in T
  <2>1. 1999 + (n + 365) + 1 \in Int /\ 1999 <= 1999 + (n + 365) + 1
    OBVIOUS
  <2>2. NewYear(1999) + 365 * ((1999 + (n + 365) + 1) - 1999) <= NewYear(1999 + (n + 365) + 1)
    BY <2>1, YearsInOrder
  <2>3. NewYear(1999 + (n + 365) + 1) \in Int
    BY <2>1, NewYearIs
  <2>4. QED BY <1>0, <2>2, <2>3
<1>2. PICK k \in T : \A j \in T : k <= j
  <2>1. T \in SUBSET Nat
    OBVIOUS
  <2> HIDE DEF T
  <2>2. T # {}
    BY <1>1
  <2>3. QED BY <2>1, <2>2, LeastOf
<1>3. NewYear(1999 + k) <= n
  <2>1. CASE k = 0
    BY <1>0, <2>1
  <2>2. CASE k # 0
    <3>1. k - 1 \in Nat /\ k - 1 \notin T /\ 1999 + (k - 1) + 1 = 1999 + k
      BY <1>2, <2>2
    <3>2. ~(n < NewYear(1999 + k)) /\ NewYear(1999 + k) \in Int
      BY <3>1, NewYearIs
    <3>3. QED BY <3>2
  <2>3. QED BY <2>1, <2>2
<1>4. QED BY <1>2, <1>3

-------------------------------------------------------------------------------
(* Weekdays of the holidays.                                                     *)

\* A holiday on a weekend is observed on the nearest weekday.
LEMMA ObservedIs ==
  ASSUME NEW n \in Int
  PROVE  /\ Observed(n) \in n - 1 .. n + 1 /\ Weekday(Observed(n)) < 5
         /\ Observed(n) < n <=> Weekday(n) = 5
BY DEF Weekday, Observed

\* The k-th Monday to Friday of a month lies in its k-th seven days.
LEMMA NthWeekdayIs ==
  ASSUME NEW y, NEW m, NEW weekday \in 0 .. 4, NEW k \in 1 .. 4, Day(y, m, 1) \in Int
  PROVE  /\ NthWeekday(y, m, weekday, k) \in Day(y, m, 1) + 7 * (k - 1) .. Day(y, m, 1) + 7 * (k - 1) + 6
         /\ Weekday(NthWeekday(y, m, weekday, k)) < 5
BY DEF NthWeekday, Weekday

\* The last Monday of May lies in its last seven days.
LEMMA LastWeekdayIs ==
  ASSUME NEW y, Day(y, 6, 1) \in Int
  PROVE  /\ LastWeekday(y, 5, 0) \in Day(y, 6, 1) - 7 .. Day(y, 6, 1) - 1
         /\ Weekday(LastWeekday(y, 5, 0)) < 5
BY DEF LastWeekday, Weekday

-------------------------------------------------------------------------------
(* Easter.                                                                       *)

\* A year by its cycles of 400, 100, 4 years and single years.
LEMMA YearSplit ==
  ASSUME NEW y \in Nat
  PROVE  LET b == y \div 100
             c == y % 100
             d == b \div 4
             e == b % 4
             i == c \div 4
             k == c % 4
         IN /\ y = 400 * d + 100 * e + 4 * i + k /\ b = 4 * d + e
            /\ d \in Nat /\ e \in 0 .. 3 /\ i \in 0 .. 24 /\ k \in 0 .. 3
            /\ y % 4 = k
OBVIOUS

\* The first day Easter may fall on, March 22, by the cycles.
LEMMA FirstEaster ==
  ASSUME NEW y \in Nat
  PROVE  LET b == y \div 100
             c == y % 100
         IN Day(y, 3, 22) = 146097 * (b \div 4) + 36524 * (b % 4) + 1461 * (c \div 4) + 365 * (c % 4) - 730404
<1> DEFINE b == y \div 100
           c == y % 100
           d == b \div 4
           e == b % 4
           i == c \div 4
           k == c % 4
<1>0. /\ y \in Int /\ y = 400 * d + 100 * e + 4 * i + k
      /\ d \in Nat /\ e \in 0 .. 3 /\ i \in 0 .. 24 /\ k \in 0 .. 3
  BY YearSplit
<1> HIDE DEF d, e, i, k
<1>1. Day(y, 3, 22) = NewYear(y + 1) - 285
  <2>1. Day(y, 3, 22) = NewYear(y) + 59 + Extra(y) + 22 - 1
    BY DaysOfAYear
  <2>2. NewYear(y + 1) = NewYear(y) + 365 + Extra(y)
    BY YearLength
  <2>3. NewYear(y) \in Int /\ Extra(y) \in Int
    BY NewYearIs
  <2>4. QED BY <2>1, <2>2, <2>3
<1>2. NewYear(y + 1) = ((y + 1) - 2000) * 365 + (((y + 1) - 1997) \div 4) - (((y + 1) - 1901) \div 100)
                       + (((y + 1) - 1601) \div 400)
  BY NewYearIs
<1>3. ((y + 1) - 1997) \div 4 = 100 * d + 25 * e + i - 499
  BY <1>0
<1>4. ((y + 1) - 1901) \div 100 = 4 * d + e - 19
  BY <1>0
<1>5. ((y + 1) - 1601) \div 400 = d - 4
  BY <1>0
<1>6. Day(y, 3, 22) = 146097 * d + 36524 * e + 1461 * i + 365 * k - 730404
  BY <1>0, <1>1, <1>2, <1>3, <1>4, <1>5
<1>7. QED BY <1>6 DEF d, e, i, k

\* The correction of the lunar cycle, in both forms.
LEMMA LunarCorrection ==
  ASSUME NEW b \in Nat
  PROVE  (b - (b + 8) \div 25 + 1) \div 3 = (13 + 8 * b) \div 25
<1>1. PICK f \in Nat, r \in 0 .. 24 : b + 8 = 25 * f + r
  <2>1. (b + 8) \div 25 \in Nat /\ (b + 8) % 25 \in 0 .. 24
        /\ b + 8 = 25 * ((b + 8) \div 25) + ((b + 8) % 25)
    OBVIOUS
  <2>2. QED BY <2>1
<1>2. (b + 8) \div 25 = f
  BY <1>1
<1>3. (b - f + 1) \div 3 = 8 * f + (r - 7) \div 3
  BY <1>1
<1>4. (13 + 8 * b) \div 25 = 8 * f + (8 * r - 51) \div 25
  BY <1>1
<1>5. (r - 7) \div 3 = (8 * r - 51) \div 25
  OBVIOUS
<1>6. QED BY <1>2, <1>3, <1>4, <1>5

\* Both ways to find the Sunday after the full moon agree, and it is a Sunday.
LEMMA EasterAgrees ==
  ASSUME NEW y \in Nat
  PROVE  /\ EasterSunday(y) = GaussEaster(y)
         /\ EasterSunday(y) \in Day(y, 3, 22) .. Day(y, 3, 22) + 34
         /\ Weekday(EasterSunday(y)) = 6
<1> DEFINE a == y % 19
           b == y \div 100
           c == y % 100
           d == b \div 4
           e == b % 4
           i == c \div 4
           k == c % 4
           g == (b - (b + 8) \div 25 + 1) \div 3
           G == (13 + 8 * b) \div 25
           h == (19 * a + b - d - g + 15) % 30
           hG == (19 * (y % 19) + ((15 - (13 + 8 * b) \div 25 + b - b \div 4) % 30)) % 30
           n == (4 + b - b \div 4) % 7
           l == (32 + 2 * e + 2 * (c \div 4) - h - (c % 4)) % 7
           lG == (2 * (y % 4) + 4 * (y % 7) + 6 * hG + n) % 7
           m == (a + 11 * h + 22 * l) \div 451
           s == h + l - 7 * m + 114
<1>1. /\ y = 400 * d + 100 * e + 4 * i + k /\ b = 4 * d + e
      /\ d \in Nat /\ e \in 0 .. 3 /\ i \in 0 .. 24 /\ k \in 0 .. 3 /\ y % 4 = k
  BY YearSplit
<1>2. a \in 0 .. 18 /\ b \in Nat
  OBVIOUS
<1>3. g = G /\ G \in Int
  <2> HIDE DEF b
  <2>1. g = G
    BY <1>2, LunarCorrection
  <2>2. QED BY <1>2, <2>1
<1>4. h = hG /\ h \in 0 .. 29
  <2>1. hG = (19 * a + ((15 - G + b - d) % 30)) % 30
    OBVIOUS
  <2> HIDE DEF a, b, d, g, G, hG
  <2>2. QED BY <1>1, <1>2, <1>3, <2>1
<1>5. l = (32 + 2 * e + 2 * i - h - k) % 7 /\ l \in 0 .. 6
  <2> HIDE DEF a, b, d, g, G, e, h
  <2>1. QED BY <1>1, <1>4
<1>6. lG = l
  <2>1. lG = (2 * (y % 4) + 4 * (y % 7) + 6 * hG + ((4 + b - d) % 7)) % 7
    OBVIOUS
  <2> HIDE DEF a, b, c, d, g, G, e, h, hG, i, k, l, lG
  <2>2. lG = (2 * k + 4 * y + 6 * h + 4 + b - d) % 7
    BY <1>1, <1>4, <2>1
  <2>3. 2 * k + 4 * y + 6 * h + 4 + b - d = (32 + 2 * e + 2 * i - h - k) + 7 * (229 * d + 57 * e + 2 * i + k + h - 4)
    BY <1>1, <1>4
  <2>4. QED BY <1>1, <1>4, <1>5, <2>2, <2>3
<1>7. EasterSunday(y) = Day(y, s \div 31, (s % 31) + 1)
  BY Zenon DEF EasterSunday
<1>8. GaussEaster(y) = Day(y, 3, 22) + (IF hG + lG = 35 \/ (hG = 28 /\ lG = 6 /\ y % 19 > 10)
                                        THEN hG + lG - 7 ELSE hG + lG)
  BY Zenon DEF GaussEaster
<1>9. y \in Int /\ m = (a + 11 * h + 22 * l) \div 451 /\ s = h + l - 7 * m + 114
  OBVIOUS
<1> HIDE DEF b, c, d, e, g, G, h, hG, n, l, lG, m, s, i, k
<1> HIDE DEF a
<1>10. Day(y, 3, 22) = 146097 * d + 36524 * e + 1461 * i + 365 * k - 730404
  BY FirstEaster DEF b, c, d, e, i, k
<1>11. /\ m = IF h + l = 35 \/ (h = 28 /\ l = 6 /\ a > 10) THEN 1 ELSE 0
       /\ h + l - 7 * m \in 0 .. 34 /\ m \in 0 .. 1
  <2>1. m = IF h + l = 35 \/ (h = 28 /\ l = 6 /\ a > 10) THEN 1 ELSE 0
    <3>1. a + 11 * h + 22 * l \in 0 .. 469
      BY <1>2, <1>4, <1>5
    <3>2. m = IF a + 11 * h + 22 * l >= 451 THEN 1 ELSE 0
      BY <1>9, <3>1
    <3>3. a + 11 * h + 22 * l >= 451 <=> h + l = 35 \/ (h = 28 /\ l = 6 /\ a > 10)
      BY <1>2, <1>4, <1>5
    <3>4. QED BY <3>2, <3>3
  <2>2. QED BY <1>2, <1>4, <1>5, <2>1
<1>12. EasterSunday(y) = Day(y, 3, 22) + h + l - 7 * m
  <2>0. s \in 114 .. 148
    BY <1>4, <1>5, <1>9, <1>11
  <2>1. s \in 114 .. 148 /\ (s % 31) + 1 \in Int
    BY <2>0
  <2>2. NewYear(y) \in Int /\ Extra(y) \in Int /\ Day(y, 3, 22) = NewYear(y) + 59 + Extra(y) + 22 - 1
    <3>1. NewYear(y) \in Int /\ Extra(y) \in 0 .. 1
      BY <1>9, NewYearIs
    <3>2. Day(y, 3, 22) = NewYear(y) + 59 + Extra(y) + 22 - 1
      BY <1>9, DaysOfAYear
    <3>3. QED BY <3>1, <3>2
  <2>3. Day(y, s \div 31, (s % 31) + 1) = Day(y, 3, 22) + (s - 114)
    <3>1. CASE s < 124
      <4>1. s \div 31 = 3 /\ (s % 31) + 1 = s - 92
        BY <2>1, <3>1
      <4>2. Day(y, 3, (s % 31) + 1) = NewYear(y) + 59 + Extra(y) + ((s % 31) + 1) - 1
        BY <1>9, <2>1, DaysOfAYear
      <4>3. QED BY <2>1, <2>2, <4>1, <4>2
    <3>2. CASE s >= 124
      <4>1. s \div 31 = 4 /\ (s % 31) + 1 = s - 123
        BY <2>1, <3>2
      <4>2. Day(y, 4, (s % 31) + 1) = NewYear(y) + 90 + Extra(y) + ((s % 31) + 1) - 1
        BY <1>9, <2>1, DaysOfAYear
      <4>3. QED BY <2>1, <2>2, <4>1, <4>2
    <3>3. QED BY <2>1, <3>1, <3>2
  <2>4. QED BY <1>4, <1>5, <1>7, <1>9, <1>11, <2>2, <2>3
<1>13. EasterSunday(y) = GaussEaster(y)
  <2>1. y % 19 = a
    BY DEF a
  <2>2. QED BY <1>1, <1>2, <1>4, <1>5, <1>6, <1>8, <1>10, <1>11, <1>12, <2>1
<1>14. PICK q \in Int : 32 + 2 * e + 2 * i - h - k = 7 * q + l
  <2>1. 32 + 2 * e + 2 * i - h - k = 7 * ((32 + 2 * e + 2 * i - h - k) \div 7) + l
        /\ (32 + 2 * e + 2 * i - h - k) \div 7 \in Int
    BY <1>1, <1>4, <1>5
  <2>2. QED BY <2>1
<1>15. Weekday(EasterSunday(y)) = 6
  <2>1. EasterSunday(y) + 5 = 7 * (20871 * d + 5218 * e + 209 * i + 52 * k - q - m - 104339) + 6
    BY <1>1, <1>4, <1>5, <1>10, <1>11, <1>12, <1>14
  <2>2. QED BY <1>1, <1>11, <1>14, <2>1 DEF Weekday
<1>16. EasterSunday(y) \in Day(y, 3, 22) .. Day(y, 3, 22) + 34
  BY <1>1, <1>4, <1>5, <1>10, <1>11, <1>12
<1>17. QED BY <1>13, <1>15, <1>16

-------------------------------------------------------------------------------
(* The holidays of a year, in their order.                                       *)

\* The eleven dates a year's calendar considers; those that fall in the year are its holidays.
Feast(y) ==
  <<Observed(Day(y, 1, 1)), NthWeekday(y, 1, 0, 3), NthWeekday(y, 2, 0, 3), EasterSunday(y) - 2,
    LastWeekday(y, 5, 0), Observed(Day(y, 6, 19)), Observed(Day(y, 7, 4)), NthWeekday(y, 9, 0, 1),
    NthWeekday(y, 11, 3, 4), Observed(Day(y, 12, 25)), Observed(Day(y + 1, 1, 1))>>

LEMMA HolidaysAreFeasts ==
  ASSUME NEW y
  PROVE  Holidays(y) = {h \in {Feast(y)[k] : k \in 1 .. 11} : YearOf(h) = y}
<1>1. {Feast(y)[k] : k \in 1 .. 11} =
        {Observed(Day(y, 1, 1)), NthWeekday(y, 1, 0, 3), NthWeekday(y, 2, 0, 3),
          EasterSunday(y) - 2, LastWeekday(y, 5, 0), Observed(Day(y, 6, 19)),
          Observed(Day(y, 7, 4)), NthWeekday(y, 9, 0, 1), NthWeekday(y, 11, 3, 4),
          Observed(Day(y, 12, 25)), Observed(Day(y + 1, 1, 1))}
  BY DEF Feast
<1>2. QED BY <1>1 DEF Holidays

\* Where each falls, counted from the first of January and the leap day; none on a weekend.
LEMMA FeastDates ==
  ASSUME NEW y \in Nat
  PROVE  LET J == NewYear(y)
             X == Extra(y)
         IN /\ Feast(y)[1] \in J - 1 .. J + 1
            /\ Feast(y)[2] \in J + 14 .. J + 20
            /\ Feast(y)[3] \in J + 45 .. J + 51
            /\ Feast(y)[4] \in J + X + 78 .. J + X + 112
            /\ Feast(y)[5] \in J + X + 144 .. J + X + 150
            /\ Feast(y)[6] \in J + X + 168 .. J + X + 170
            /\ Feast(y)[7] \in J + X + 183 .. J + X + 185
            /\ Feast(y)[8] \in J + X + 243 .. J + X + 249
            /\ Feast(y)[9] \in J + X + 325 .. J + X + 331
            /\ Feast(y)[10] \in J + X + 357 .. J + X + 359
            /\ Feast(y)[11] \in J + X + 364 .. J + X + 366
            /\ Feast(y)[11] < NewYear(y + 1) <=> Weekday(NewYear(y + 1)) = 5
            /\ \A k \in 1 .. 11 : Weekday(Feast(y)[k]) < 5
<1> DEFINE J == NewYear(y)
           X == Extra(y)
<1>1. y \in Int /\ J \in Int /\ X \in 0 .. 1 /\ NewYear(y + 1) = J + 365 + X
  BY NewYearIs, YearLength
<1>2. /\ Day(y, 1, 1) = J /\ Day(y, 2, 1) = J + 31 /\ Day(y, 3, 22) = J + X + 80
      /\ Day(y, 6, 1) = J + X + 151 /\ Day(y, 6, 19) = J + X + 169
      /\ Day(y, 7, 4) = J + X + 184 /\ Day(y, 9, 1) = J + X + 243
      /\ Day(y, 11, 1) = J + X + 304 /\ Day(y, 12, 25) = J + X + 358
      /\ Day(y + 1, 1, 1) = J + X + 365
  <2>1. /\ Day(y, 1, 1) = J + 1 - 1 /\ Day(y, 2, 1) = J + 31 + 1 - 1
        /\ Day(y, 6, 1) = J + 151 + X + 1 - 1 /\ Day(y, 9, 1) = J + 243 + X + 1 - 1
        /\ Day(y, 11, 1) = J + 304 + X + 1 - 1
    BY <1>1, DaysOfAYear
  <2>2. Day(y, 3, 22) = J + 59 + X + 22 - 1
    BY <1>1, DaysOfAYear
  <2>3. Day(y, 6, 19) = J + 151 + X + 19 - 1
    BY <1>1, DaysOfAYear
  <2>4. Day(y, 7, 4) = J + 181 + X + 4 - 1
    BY <1>1, DaysOfAYear
  <2>5. Day(y, 12, 25) = J + 334 + X + 25 - 1
    BY <1>1, DaysOfAYear
  <2>6. Day(y + 1, 1, 1) = NewYear(y + 1)
    BY DEF NewYear
  <2> HIDE DEF J, X
  <2>7. QED BY <1>1, <2>1, <2>2, <2>3, <2>4, <2>5, <2>6
<1> HIDE DEF J, X
<1>3. Observed(Day(y, 1, 1)) \in J - 1 .. J + 1 /\ Weekday(Observed(Day(y, 1, 1))) < 5
  BY <1>1, <1>2, ObservedIs
<1>4. NthWeekday(y, 1, 0, 3) \in J + 14 .. J + 20 /\ Weekday(NthWeekday(y, 1, 0, 3)) < 5
  BY <1>1, <1>2, NthWeekdayIs
<1>5. NthWeekday(y, 2, 0, 3) \in J + 45 .. J + 51 /\ Weekday(NthWeekday(y, 2, 0, 3)) < 5
  BY <1>1, <1>2, NthWeekdayIs
<1>6. EasterSunday(y) - 2 \in J + X + 78 .. J + X + 112 /\ Weekday(EasterSunday(y) - 2) < 5
  <2>1. EasterSunday(y) \in J + X + 80 .. J + X + 114 /\ (EasterSunday(y) + 5) % 7 = 6
    <3>1. EasterSunday(y) \in Day(y, 3, 22) .. Day(y, 3, 22) + 34 /\ Weekday(EasterSunday(y)) = 6
      BY EasterAgrees
    <3>2. QED BY <1>1, <1>2, <3>1 DEF Weekday
  <2>2. QED BY <1>1, <2>1 DEF Weekday
<1>7. LastWeekday(y, 5, 0) \in J + X + 144 .. J + X + 150 /\ Weekday(LastWeekday(y, 5, 0)) < 5
  BY <1>1, <1>2, LastWeekdayIs
<1>8. Observed(Day(y, 6, 19)) \in J + X + 168 .. J + X + 170 /\ Weekday(Observed(Day(y, 6, 19))) < 5
  BY <1>1, <1>2, ObservedIs
<1>9. Observed(Day(y, 7, 4)) \in J + X + 183 .. J + X + 185 /\ Weekday(Observed(Day(y, 7, 4))) < 5
  BY <1>1, <1>2, ObservedIs
<1>10. NthWeekday(y, 9, 0, 1) \in J + X + 243 .. J + X + 249 /\ Weekday(NthWeekday(y, 9, 0, 1)) < 5
  BY <1>1, <1>2, NthWeekdayIs
<1>11. NthWeekday(y, 11, 3, 4) \in J + X + 325 .. J + X + 331 /\ Weekday(NthWeekday(y, 11, 3, 4)) < 5
  BY <1>1, <1>2, NthWeekdayIs
<1>12. Observed(Day(y, 12, 25)) \in J + X + 357 .. J + X + 359 /\ Weekday(Observed(Day(y, 12, 25))) < 5
  BY <1>1, <1>2, ObservedIs
<1>13. /\ Observed(Day(y + 1, 1, 1)) \in J + X + 364 .. J + X + 366
       /\ Weekday(Observed(Day(y + 1, 1, 1))) < 5
       /\ Observed(Day(y + 1, 1, 1)) < NewYear(y + 1) <=> Weekday(NewYear(y + 1)) = 5
  BY <1>1, <1>2, ObservedIs
<1>14. /\ Feast(y)[1] = Observed(Day(y, 1, 1)) /\ Feast(y)[2] = NthWeekday(y, 1, 0, 3)
       /\ Feast(y)[3] = NthWeekday(y, 2, 0, 3) /\ Feast(y)[4] = EasterSunday(y) - 2
       /\ Feast(y)[5] = LastWeekday(y, 5, 0) /\ Feast(y)[6] = Observed(Day(y, 6, 19))
       /\ Feast(y)[7] = Observed(Day(y, 7, 4)) /\ Feast(y)[8] = NthWeekday(y, 9, 0, 1)
       /\ Feast(y)[9] = NthWeekday(y, 11, 3, 4) /\ Feast(y)[10] = Observed(Day(y, 12, 25))
       /\ Feast(y)[11] = Observed(Day(y + 1, 1, 1))
  BY DEF Feast
<1>15. \A k \in 1 .. 11 : Weekday(Feast(y)[k]) < 5
  <2>1. \A k \in 1 .. 11 : \/ k = 1 \/ k = 2 \/ k = 3 \/ k = 4 \/ k = 5 \/ k = 6
                          \/ k = 7 \/ k = 8 \/ k = 9 \/ k = 10 \/ k = 11
    OBVIOUS
  <2>2. QED BY <2>1, <1>3, <1>4, <1>5, <1>6, <1>7, <1>8, <1>9, <1>10, <1>11, <1>12, <1>13, <1>14
<1>16. QED
  BY <1>3, <1>4, <1>5, <1>6, <1>7, <1>8, <1>9, <1>10, <1>11, <1>12, <1>13, <1>14, <1>15 DEF J, X

\* Holidays are never next to each other.
LEMMA FeastsApart ==
  ASSUME NEW y \in Nat
  PROVE  \A j, k \in 1 .. 11 : j < k => Feast(y)[j] + 2 <= Feast(y)[k]
<1> DEFINE f == Feast(y)
<1>1. NewYear(y) \in Int /\ Extra(y) \in Int
  <2>1. Extra(y) \in 0 .. 1 /\ NewYear(y) \in Int
    BY NewYearIs
  <2>2. QED BY <2>1
<1>2. /\ \A k \in 1 .. 10 : f[k] \in Int /\ f[k] + 2 <= f[k + 1]
      /\ f[11] \in Int
  <2>1. \A k \in 1 .. 10 : k = 1 \/ k = 2 \/ k = 3 \/ k = 4 \/ k = 5 \/ k = 6
                           \/ k = 7 \/ k = 8 \/ k = 9 \/ k = 10
    OBVIOUS
  <2>2. Extra(y) \in 0 .. 1
    BY NewYearIs
  <2> HIDE DEF f
  <2>3. QED BY <1>1, <2>1, <2>2, FeastDates DEF f
<1> HIDE DEF f
<1>3. f[1] + 2 <= f[2] /\ f[2] + 2 <= f[3] /\ f[3] + 2 <= f[4] /\ f[4] + 2 <= f[5]
      /\ f[5] + 2 <= f[6] /\ f[6] + 2 <= f[7] /\ f[7] + 2 <= f[8] /\ f[8] + 2 <= f[9]
      /\ f[9] + 2 <= f[10] /\ f[10] + 2 <= f[11]
  BY <1>2
<1>4. {f[1], f[2], f[3], f[4], f[5], f[6], f[7], f[8], f[9], f[10], f[11]} \subseteq Int
  BY <1>2
<1>5. \A j, k \in 1 .. 11 : j < k => f[j] + 2 <= f[k]
  BY <1>3, <1>4
<1>6. QED BY <1>5 DEF f

\* Of two neighbouring weekdays one has a session.
LEMMA OneOfTwoTrades ==
  ASSUME NEW n \in Int, n >= -365, Weekday(n) < 5, Weekday(n + 1) < 5
  PROVE  IsSession(n) \/ IsSession(n + 1)
<1> SUFFICES ASSUME ~IsSession(n), ~IsSession(n + 1) PROVE FALSE
  OBVIOUS
<1>1. n \in Holidays(YearOf(n)) /\ n + 1 \in Holidays(YearOf(n + 1))
  BY DEF IsSession
<1>2. PICK y \in Nat : y >= 1999 /\ NewYear(y) <= n /\ n < NewYear(y + 1)
  BY YearExists
<1>3. YearOf(n) = y
  BY <1>2, YearFound
<1>4. PICK j \in 1 .. 11 : n = Feast(y)[j]
  BY <1>1, <1>3, HolidaysAreFeasts
<1>5. NewYear(y) \in Int /\ Extra(y) \in 0 .. 1 /\ NewYear(y + 1) = NewYear(y) + 365 + Extra(y)
  <2>1. y \in Int
    OBVIOUS
  <2>2. NewYear(y) \in Int /\ Extra(y) \in 0 .. 1
    BY <2>1, NewYearIs
  <2>3. QED BY <2>1, <2>2, YearLength
<1>6. CASE n + 1 < NewYear(y + 1)
  <2>1. YearOf(n + 1) = y
    <3>1. n + 1 \in Int /\ NewYear(y) <= n + 1
      BY <1>2, <1>5
    <3>2. QED BY <1>2, <1>6, <3>1, YearFound
  <2>2. PICK k \in 1 .. 11 : n + 1 = Feast(y)[k]
    BY <1>1, <2>1, HolidaysAreFeasts
  <2>3. j # k /\ (j < k => n + 2 <= n + 1) /\ (k < j => (n + 1) + 2 <= n)
    BY <1>4, <2>2, FeastsApart
  <2>4. QED BY <2>3
<1>7. CASE n + 1 = NewYear(y + 1)
  <2>1. j = 11
    <3>1. CASE j < 11
      <4>1. Feast(y)[j] + 2 <= Feast(y)[11]
        BY <3>1, FeastsApart
      <4>2. Feast(y)[10] \in NewYear(y) + Extra(y) + 357 .. NewYear(y) + Extra(y) + 359
        BY FeastDates
      <4>3. j < 10 => Feast(y)[j] + 2 <= Feast(y)[10]
        BY FeastsApart
      <4>4. j < 10 \/ j = 10
        BY <3>1
      <4>5. n <= NewYear(y) + Extra(y) + 359
        BY <1>4, <1>5, <4>2, <4>3, <4>4
      <4>6. QED BY <1>5, <1>7, <4>5
    <3>2. QED BY <3>1
  <2>2. Feast(y)[11] < NewYear(y + 1)
    BY <1>2, <1>4, <2>1
  <2>3. Weekday(NewYear(y + 1)) = 5
    BY <2>2, FeastDates
  <2>4. QED BY <1>7, <2>3
<1>8. QED BY <1>2, <1>5, <1>6, <1>7

\* No day is more than five days after a session: the five days before any day hold two
\* neighbouring weekdays.
LEMMA SessionsRecur ==
  ASSUME NEW n \in Int, n >= -360
  PROVE  \E j \in 1 .. 5 : IsSession(n - j)
<1>1. \E j \in 2 .. 5 : Weekday(n - j) < 5 /\ Weekday((n - j) + 1) < 5
  <2>1. /\ Weekday(n - 5) \in 0 .. 6 /\ Weekday(n - 4) = (Weekday(n - 5) + 1) % 7
        /\ Weekday(n - 3) = (Weekday(n - 5) + 2) % 7 /\ Weekday(n - 2) = (Weekday(n - 5) + 3) % 7
        /\ Weekday(n - 1) = (Weekday(n - 5) + 4) % 7
    BY DEF Weekday
  <2>2. (n - 5) + 1 = n - 4 /\ (n - 4) + 1 = n - 3 /\ (n - 3) + 1 = n - 2 /\ (n - 2) + 1 = n - 1
    OBVIOUS
  <2>3. \/ Weekday(n - 5) < 5 /\ Weekday((n - 5) + 1) < 5
        \/ Weekday(n - 4) < 5 /\ Weekday((n - 4) + 1) < 5
        \/ Weekday(n - 3) < 5 /\ Weekday((n - 3) + 1) < 5
        \/ Weekday(n - 2) < 5 /\ Weekday((n - 2) + 1) < 5
    BY <2>1, <2>2
  <2>4. QED BY <2>3
<1>2. PICK j \in 2 .. 5 : Weekday(n - j) < 5 /\ Weekday((n - j) + 1) < 5
  BY <1>1
<1>3. n - j \in Int /\ n - j >= -365 /\ (n - j) + 1 = n - (j - 1) /\ j - 1 \in 1 .. 5
  OBVIOUS
<1>4. IsSession(n - j) \/ IsSession((n - j) + 1)
  BY <1>2, <1>3, OneOfTwoTrades
<1>5. QED BY <1>3, <1>4

\* What SessionAtOrBefore finds is at most five days back.
LEMMA FiveDays ==
  ASSUME NEW n \in Int, n >= -360
  PROVE  n - PreviousSession(n) <= 5
<1>1. PICK j \in 1 .. 5 : IsSession(n - j)
  BY SessionsRecur
<1>2. n - 1 \in Int /\ j - 1 \in Nat /\ n - j = (n - 1) - (j - 1) /\ n - j \in Int
  OBVIOUS
<1>3. IsSession((n - 1) - (j - 1))
  BY <1>1, <1>2, Zenon
<1>4. NewestUpTo(n - 1, SessionAtOrBefore[n - 1])
  BY <1>2, <1>3, SessionFound, Zenon
<1>5. ~(PreviousSession(n) < n - j) /\ PreviousSession(n) \in Int
  BY <1>1, <1>2, <1>4 DEF NewestUpTo, PreviousSession
<1>6. QED BY <1>5

\* A chain of numbers has as many members as it has links.
LEMMA ChainCount ==
  ASSUME NEW f, NEW m \in Nat, \A k \in 1 .. m + 1 : f[k] \in Int,
         \A j, k \in 1 .. m + 1 : j < k => f[j] < f[k],
         IsFiniteSet({f[k] : k \in 1 .. m}), Cardinality({f[k] : k \in 1 .. m}) = m
  PROVE  IsFiniteSet({f[k] : k \in 1 .. m + 1}) /\ Cardinality({f[k] : k \in 1 .. m + 1}) = m + 1
<1>1. {f[k] : k \in 1 .. m + 1} = {f[k] : k \in 1 .. m} \cup {f[m + 1]}
  OBVIOUS
<1>2. f[m + 1] \notin {f[k] : k \in 1 .. m}
  OBVIOUS
<1> DEFINE S == {f[k] : k \in 1 .. m}
           x == f[m + 1]
<1>3. IsFiniteSet(S) /\ Cardinality(S) = m /\ x \notin S /\ {f[k] : k \in 1 .. m + 1} = S \cup {x}
  BY <1>1, <1>2
<1> HIDE DEF S, x
<1>4. IsFiniteSet(S \cup {x}) /\ Cardinality(S \cup {x}) = m + 1
  BY <1>3, FS_AddElement
<1>5. QED BY <1>3, <1>4

\* The calendar of the exchange is right in every year from 2000: Good Friday hangs on the Easter
\* that two independent computations agree on, no holiday falls on a weekend, there are nine to
\* eleven of them and never more than five days between sessions (_easter_sunday,
\* us_market_holidays and previous_us_market_session of etf_movers.py).
THEOREM CalendarIsSane ==
  ASSUME NEW y \in Int, y >= 2000
  PROVE  CalendarSane(y)
<1>1. y \in Nat /\ NewYear(y) \in Int /\ Extra(y) \in 0 .. 1 /\ NewYear(y + 1) = NewYear(y) + 365 + Extra(y)
  BY NewYearIs, YearLength
<1>2. EasterSunday(y) = GaussEaster(y)
  BY <1>1, EasterAgrees
<1>3. \A h \in Holidays(y) : Weekday(h) < 5
  <2> TAKE h \in Holidays(y)
  <2>1. PICK k \in 1 .. 11 : h = Feast(y)[k]
    BY HolidaysAreFeasts
  <2>2. \A i \in 1 .. 11 : Weekday(Feast(y)[i]) < 5
    BY <1>1, FeastDates
  <2>3. QED BY <2>1, <2>2
<1>4. \A n \in Day(y, 1, 1) .. Day(y, 12, 31) : n - PreviousSession(n) <= 5
  <2> TAKE n \in Day(y, 1, 1) .. Day(y, 12, 31)
  <2>1. n \in Int /\ n >= 0
    <3>1. Day(y, 1, 1) = NewYear(y) /\ 365 * (y - 2000) <= NewYear(y)
      BY <1>1, YearsAreLocated DEF NewYear
    <3>2. QED BY <1>1, <3>1
  <2>2. QED BY <2>1, FiveDays
<1>5. Cardinality(Holidays(y)) \in 9 .. 11
  <2> DEFINE f == Feast(y)
             g == [k \in 1 .. 9 |-> f[k + 1]]
             Upto(m) == {f[k] : k \in 1 .. m}
             Inner(m) == {g[k] : k \in 1 .. m}
  <2>1. \A k \in 1 .. 11 : f[k] \in Int
    <3>1. \A k \in 1 .. 11 : k = 1 \/ k = 2 \/ k = 3 \/ k = 4 \/ k = 5 \/ k = 6
                             \/ k = 7 \/ k = 8 \/ k = 9 \/ k = 10 \/ k = 11
      OBVIOUS
    <3> HIDE DEF f
    <3>2. QED BY <1>1, <3>1, FeastDates DEF f
  <2>2. \A j, k \in 1 .. 11 : j < k => f[j] < f[k]
    <3>1. \A j, k \in 1 .. 11 : j < k => f[j] + 2 <= f[k]
      BY <1>1, FeastsApart
    <3> HIDE DEF f
    <3>2. QED BY <2>1, <3>1
  <2> HIDE DEF f
  <2>3. \A k \in 1 .. 9 : g[k] \in Int
    BY <2>1
  <2>4. \A j, k \in 1 .. 9 : j < k => g[j] < g[k]
    BY <2>2
  <2>5. IsFiniteSet(Upto(0)) /\ Cardinality(Upto(0)) = 0 /\ IsFiniteSet(Inner(0)) /\ Cardinality(Inner(0)) = 0
    <3>1. Upto(0) = {} /\ Inner(0) = {}
      OBVIOUS
    <3> HIDE DEF Upto, Inner
    <3>2. QED BY <3>1, FS_EmptySet
  <2>6. ASSUME NEW m \in 0 .. 10, IsFiniteSet(Upto(m)) /\ Cardinality(Upto(m)) = m
        PROVE  IsFiniteSet(Upto(m + 1)) /\ Cardinality(Upto(m + 1)) = m + 1
    <3>1. m \in Nat /\ (\A k \in 1 .. m + 1 : f[k] \in Int)
          /\ (\A j, k \in 1 .. m + 1 : j < k => f[j] < f[k])
      BY <2>1, <2>2
    <3>2. QED BY <2>6, <3>1, ChainCount
  <2>7. ASSUME NEW m \in 0 .. 8, IsFiniteSet(Inner(m)) /\ Cardinality(Inner(m)) = m
        PROVE  IsFiniteSet(Inner(m + 1)) /\ Cardinality(Inner(m + 1)) = m + 1
    <3> HIDE DEF g
    <3>1. m \in Nat /\ (\A k \in 1 .. m + 1 : g[k] \in Int)
          /\ (\A j, k \in 1 .. m + 1 : j < k => g[j] < g[k])
      BY <2>3, <2>4
    <3>2. QED BY <2>7, <3>1, ChainCount
  <2>8. IsFiniteSet(Upto(11)) /\ Cardinality(Upto(11)) = 11
    <3> DEFINE Done(m) == IsFiniteSet(Upto(m)) /\ Cardinality(Upto(m)) = m
    <3>1. Done(0) /\ \A m \in 0 .. 10 : Done(m) => Done(m + 1)
      BY <2>5, <2>6
    <3> HIDE DEF Done
    <3>2. Done(0 + 1) /\ \A m \in 1 .. 10 : Done(m) => Done(m + 1)
      BY <3>1
    <3>3. Done(11)
      BY <3>1
    <3>4. QED BY <3>3 DEF Done
  <2>9. IsFiniteSet(Inner(9)) /\ Cardinality(Inner(9)) = 9
    <3> DEFINE Done(m) == IsFiniteSet(Inner(m)) /\ Cardinality(Inner(m)) = m
    <3>1. Done(0) /\ \A m \in 0 .. 8 : Done(m) => Done(m + 1)
      BY <2>5, <2>7
    <3> HIDE DEF Done
    <3>2. Done(9)
      BY <3>1
    <3>3. QED BY <3>2 DEF Done
  <2>10. Holidays(y) \subseteq Upto(11)
    BY HolidaysAreFeasts DEF f
  <2>11. Inner(9) \subseteq Holidays(y)
    <3> SUFFICES ASSUME NEW k \in 2 .. 10 PROVE f[k] \in Holidays(y)
      OBVIOUS
    <3>1. NewYear(y) <= f[k] /\ f[k] < NewYear(y + 1)
      <4>1. f[2] \in NewYear(y) + 14 .. NewYear(y) + 20
        BY <1>1, FeastDates DEF f
      <4>2. f[10] \in NewYear(y) + Extra(y) + 357 .. NewYear(y) + Extra(y) + 359
        BY <1>1, FeastDates DEF f
      <4>3. (k = 2 \/ f[2] < f[k]) /\ (k = 10 \/ f[k] < f[10]) /\ f[k] \in Int
        BY <2>1, <2>2
      <4>4. QED BY <1>1, <4>1, <4>2, <4>3
    <3>2. YearOf(f[k]) = y
      BY <1>1, <2>1, <3>1, YearFound
    <3>3. QED BY <3>2, HolidaysAreFeasts DEF f
  <2>12. IsFiniteSet(Holidays(y)) /\ Cardinality(Holidays(y)) <= 11
    <3> HIDE DEF Upto
    <3>1. QED BY <2>8, <2>10, FS_Subset
  <2>13. 9 <= Cardinality(Holidays(y)) /\ Cardinality(Holidays(y)) \in Nat
    <3> HIDE DEF Inner
    <3>1. QED BY <2>9, <2>11, <2>12, FS_Subset, FS_CardinalityType
  <2>14. QED BY <2>12, <2>13
<1>6. QED BY <1>2, <1>3, <1>4, <1>5 DEF CalendarSane

\* The ETFs of the cases are listed ones.
LEMMA CasesAreListed ==
  ASSUME NEW a, NEW b, NEW d,
         \A e \in {a, b, d} : {e.sym, e.traded, e.assets, e.change} \subseteq Int,
         a.sym # b.sym, a.sym # d.sym, b.sym # d.sym
  PROVE  ListedEtfs({a, b, d})
<1>1. IsFiniteSet({a, b, d})
  <2>1. IsFiniteSet({a}) /\ {a, b} = {a} \cup {b} /\ {a, b, d} = {a, b} \cup {d}
    BY FS_Singleton
  <2>2. IsFiniteSet({a} \cup {b})
    BY <2>1, FS_AddElement
  <2>3. IsFiniteSet({a, b} \cup {d})
    BY <2>1, <2>2, FS_AddElement
  <2>4. QED BY <2>1, <2>3
<1>2. \A e, f \in {a, b, d} : e.sym = f.sym => e = f
  OBVIOUS
<1>3. QED BY <1>1, <1>2 DEF ListedEtfs

LEMMA EtfFields ==
  ASSUME NEW sym, NEW family, NEW traded, NEW change, NEW quote
  PROVE  LET e == Etf(sym, family, traded, change, quote)
         IN e.sym = sym /\ e.traded = traded /\ e.assets = 1 /\ e.change = change /\ e.quote = quote
BY DEF Etf

\* The days of the cases.
LEMMA DaysOfTheCases ==
  /\ Mon \in Nat /\ Wed \in Nat /\ Fri \in Nat
  /\ CalendarDays \subseteq Nat
<1>1. ASSUME NEW y \in 2021 .. 2027
      PROVE  /\ NewYear(y) \in Nat /\ Extra(y) \in 0 .. 1
             /\ Day(y, 1, 1) \in Nat /\ Day(y, 1, 10) \in Nat /\ Day(y, 1, 4) \in Nat
             /\ Day(y, 11, 23) \in Nat /\ Day(y, 11, 25) \in Nat /\ Day(y, 11, 27) \in Nat
             /\ Day(y, 12, 20) \in Nat
  <2>1. 365 * (y - 2000) <= NewYear(y) /\ NewYear(y) \in Int /\ Extra(y) \in 0 .. 1
    <3>1. y \in Int /\ y >= 2000
      OBVIOUS
    <3>2. NewYear(y) \in Int /\ Extra(y) \in 0 .. 1
      BY <3>1, NewYearIs
    <3>3. QED BY <3>1, <3>2, YearsAreLocated
  <2>2. /\ Day(y, 1, 1) = NewYear(y) + 1 - 1 /\ Day(y, 1, 10) = NewYear(y) + 10 - 1
        /\ Day(y, 1, 4) = NewYear(y) + 4 - 1
    BY DaysOfAYear
  <2>3. /\ Day(y, 11, 23) = NewYear(y) + 304 + Extra(y) + 23 - 1
        /\ Day(y, 11, 25) = NewYear(y) + 304 + Extra(y) + 25 - 1
        /\ Day(y, 11, 27) = NewYear(y) + 304 + Extra(y) + 27 - 1
        /\ Day(y, 12, 20) = NewYear(y) + 334 + Extra(y) + 20 - 1
    BY DaysOfAYear
  <2>4. QED BY <2>1, <2>2, <2>3
<1>2. Mon \in Nat /\ Wed \in Nat /\ Fri \in Nat
  BY <1>1 DEF Mon, Wed, Fri
<1>3. /\ Day(2021, 12, 20) \in Nat /\ Day(2022, 1, 10) \in Nat
      /\ Day(2026, 1, 1) \in Nat /\ Day(2027, 1, 4) \in Nat
  BY <1>1
<1>4. CalendarDays \subseteq Nat
  BY <1>3 DEF CalendarDays
<1>5. QED BY <1>2, <1>4

\* Every day has a session behind it.
LEMMA SessionIsBehind ==
  ASSUME NEW day \in Nat
  PROVE  \E j \in Nat : IsSession(day - 1 - j)
<1>1. PICK k \in 1 .. 5 : IsSession(day - k)
  BY SessionsRecur
<1>2. k - 1 \in Nat /\ day - 1 - (k - 1) = day - k
  OBVIOUS
<1>3. QED BY <1>1, <1>2

\* A moment of a case is a number.
LEMMA MomentOfACase ==
  ASSUME NEW t \in Moments
  PROVE  t \in Nat
<1>1. Fri \in Nat /\ Wed \in Nat
  BY DaysOfTheCases
<1>2. QED BY <1>1 DEF Moments, At

\* The session named complete is the newest one whose closing prices exist, at every moment
\* from 2000 on, for the calendar always has a session behind it (latest_completed_us_session).
THEOREM NewestCloseAlways ==
  ASSUME NEW asOf \in Nat
  PROVE  LatestSessionIsTheNewestClosed(asOf)
<1>1. DayOf(asOf) \in Nat
  BY DEF DayOf
<1>2. PICK j \in Nat : IsSession(DayOf(asOf) - 1 - j)
  BY <1>1, SessionIsBehind
<1>3. asOf \in Int
  OBVIOUS
<1>4. QED BY <1>2, <1>3, SessionContract

\* The market tables are sound in every case.
LEMMA MarketCaseIsSound ==
  ASSUME NEW kind, NEW c, MarketCases(kind, c)
  PROVE  /\ kind = "year" => CalendarSane(c[2])
         /\ kind = "moment" => LatestSessionIsTheNewestClosed(c[2])
         /\ kind = "pages" => UniverseIsWhole(c[2], c[3], c[4], c[5])
         /\ kind = "ranking" => RankingIsFair(c[2], c[3])
         /\ kind = "table" => TableIsOfOneClose(c[2], c[3], c[4], c[5], c[6])
         /\ kind = "change" => ChangeIsOfOneSession(c[2], c[3], c[4])
         /\ kind = "period" => PeriodIsUniform(c[2], c[3], c[4], c[5], c[6])
<1>1. ASSUME kind = "moment" PROVE LatestSessionIsTheNewestClosed(c[2])
  <2>1. PICK n \in CalendarDays, m \in {0, 780, 810, 811, 960, 989, 990} : c = <<"moment", At(n, m)>>
    BY <1>1, SMTT(60) DEF MarketCases
  <2>2. n \in Nat /\ m \in 0 .. 1439
    BY DaysOfTheCases
  <2>3. At(n, m) \in Nat
    BY <2>2 DEF At
  <2>4. LatestSessionIsTheNewestClosed(At(n, m))
    BY <2>3, NewestCloseAlways
  <2>5. QED BY <2>1, <2>4
<1>2. ASSUME kind = "pages" PROVE UniverseIsWhole(c[2], c[3], c[4], c[5])
  <2>1. PICK n \in 0 .. 7, told \in 4 .. 6, size \in {2, 3}, a \in [1 .. 3 -> Answers] :
          c = <<"pages", n, told, size, a>>
    BY <1>2, SMTT(60) DEF MarketCases
  <2>2. n \in Nat /\ told \in Nat \ {0} /\ size \in Nat \ {0}
    OBVIOUS
  <2>3. UniverseIsWhole(n, told, size, a)
    BY <2>2, UniverseContract
  <2>4. QED BY <2>1, <2>3
<1>3. ASSUME kind = "ranking" PROVE RankingIsFair(c[2], c[3])
  <2>1. PICK x, y, z \in Traded, limit \in 1 .. 2 :
          c = <<"ranking", {Etf(1, "x", x[1], x[2], 0), Etf(2, "x", y[1], y[2], 0),
                            Etf(3, "y", z[1], z[2], 0)}, limit>>
    BY <1>3, SMTT(60) DEF MarketCases
  <2>2. \A w \in Traded : w[1] \in Int /\ w[2] \in Int
    BY DEF Traded
  <2> DEFINE e1 == Etf(1, "x", x[1], x[2], 0)
             e2 == Etf(2, "x", y[1], y[2], 0)
             e3 == Etf(3, "y", z[1], z[2], 0)
  <2>3. /\ e1.sym = 1 /\ e1.traded \in Int /\ e1.assets = 1 /\ e1.change \in Int
        /\ e2.sym = 2 /\ e2.traded \in Int /\ e2.assets = 1 /\ e2.change \in Int
        /\ e3.sym = 3 /\ e3.traded \in Int /\ e3.assets = 1 /\ e3.change \in Int
    BY <2>2, EtfFields
  <2> HIDE DEF e1, e2, e3
  <2>4. ListedEtfs({e1, e2, e3})
    BY <2>3, CasesAreListed
  <2>5. RankingIsFair({e1, e2, e3}, limit)
    BY <2>4, RankingFair
  <2>6. QED BY <2>1, <2>5 DEF e1, e2, e3
<1>4. ASSUME kind = "table" PROVE TableIsOfOneClose(c[2], c[3], c[4], c[5], c[6])
  <2>1. PICK q1, q2 \in Quotes, q3 \in {0, At(Fri, 780), At(Wed, 960)}, t \in Moments,
             d \in {Fri, Fri + 2}, chart \in Charts :
          c = <<"table", {Etf(0, "x", 1, 1, q1), Etf(1, "z", 2, 0, q3), Etf(2, "x", 2, -1, q2)},
                t, d, {1}, [s \in {1} |-> chart]>>
    BY <1>4, SMTT(60) DEF MarketCases
  <2>2. Fri \in Nat /\ Wed \in Nat
    BY DaysOfTheCases
  <2>3. q1 \in Int /\ q2 \in Int /\ q3 \in Int
    BY <2>2 DEF Quotes, At
  <2> DEFINE e1 == Etf(0, "x", 1, 1, q1)
             e2 == Etf(1, "z", 2, 0, q3)
             e3 == Etf(2, "x", 2, -1, q2)
             closes == [s \in {1} |-> chart]
  <2>4. /\ e1.sym = 0 /\ e1.traded = 1 /\ e1.assets = 1 /\ e1.change = 1 /\ e1.quote = q1
        /\ e2.sym = 1 /\ e2.traded = 2 /\ e2.assets = 1 /\ e2.change = 0 /\ e2.quote = q3
        /\ e3.sym = 2 /\ e3.traded = 2 /\ e3.assets = 1 /\ e3.change = -1 /\ e3.quote = q2
    BY EtfFields
  <2> HIDE DEF e1, e2, e3, closes
  <2>5. ListedEtfs({e1, e2, e3}) /\ \A e \in {e1, e2, e3} : e.quote \in Int
    BY <2>3, <2>4, CasesAreListed
  <2>6. TableIsOfOneClose({e1, e2, e3}, t, d, {1}, closes)
    <3>1. t \in Nat /\ DayOf(t) \in Nat
      BY MomentOfACase DEF DayOf
    <3>2. PICK j \in Nat : IsSession(DayOf(t) - 1 - j)
      BY <3>1, SessionIsBehind
    <3>3. QED BY <2>5, <3>1, <3>2, TableContract
  <2>7. c = <<"table", {e1, e2, e3}, t, d, {1}, closes>>
    BY <2>1 DEF e1, e2, e3, closes
  <2>8. QED BY <2>6, <2>7
<1>5. ASSUME kind = "change" PROVE ChangeIsOfOneSession(c[2], c[3], c[4])
  <2>1. PICK a \in SUBSET (Wed .. Fri + 1), b \in SUBSET (Wed .. Fri),
             t \in {At(Fri, 600), At(Fri, 914), At(Fri, 915), At(Fri + 1, 0)} : c = <<"change", a, b, t>>
    BY <1>5, SMTT(60) DEF MarketCases
  <2>2. Fri \in Nat /\ Wed \in Nat
    BY DaysOfTheCases
  <2>3. t \in Int /\ a \in SUBSET Int /\ b \in SUBSET Int
    BY <2>2 DEF At
  <2>4. IsFiniteSet(a) /\ IsFiniteSet(b)
    <3>1. Wed \in Int /\ Fri \in Int /\ Fri + 1 \in Int
      BY <2>2
    <3>2. IsFiniteSet(Wed .. Fri + 1) /\ IsFiniteSet(Wed .. Fri)
      BY <3>1, FS_Interval
    <3>3. QED BY <3>2, FS_Subset
  <2>5. ChangeIsOfOneSession(a, b, t)
    BY <2>3, <2>4, ChangeContract
  <2>6. QED BY <2>1, <2>5
<1>6. ASSUME kind = "period" PROVE PeriodIsUniform(c[2], c[3], c[4], c[5], c[6])
  <2>1. PICK a, b \in SUBSET (1 .. 4), e \in {1 .. 4, {2, 4}, {1, 3, 4}}, ok \in SUBSET {"A", "B"}, k \in 1 .. 2 :
          c = <<"period", [s \in {"A", "B"} |-> IF s = "A" THEN a ELSE b], e, ok, 4, k>>
    BY <1>6, SMTT(60) DEF MarketCases
  <2> DEFINE charts == [s \in {"A", "B"} |-> IF s = "A" THEN a ELSE b]
  <2>2. IsFiniteSet(DOMAIN charts)
    <3>1. IsFiniteSet({"A"}) /\ DOMAIN charts = {"A"} \cup {"B"}
      BY FS_Singleton
    <3> HIDE DEF charts
    <3>2. QED BY <3>1, FS_AddElement
  <2>3. e \in SUBSET Nat /\ IsFiniteSet(e) /\ k \in Nat
    <3>1. e \subseteq 1 .. 4
      OBVIOUS
    <3>2. IsFiniteSet(1 .. 4)
      <4>1. 1 \in Int /\ 4 \in Int
        OBVIOUS
      <4>2. QED BY <4>1, FS_Interval, Zenon
    <3>3. QED BY <3>1, <3>2, FS_Subset
  <2>4. c = <<"period", charts, e, ok, 4, k>>
    BY <2>1
  <2> HIDE DEF charts
  <2>5. PeriodIsUniform(charts, e, ok, 4, k)
    BY <2>2, <2>3, PeriodContract
  <2>6. QED BY <2>4, <2>5
<1>7. ASSUME kind = "year" PROVE CalendarSane(c[2])
  <2>1. PICK y \in 2000 .. 2099 : c = <<"year", y>>
    BY <1>7, SMTT(60) DEF MarketCases
  <2>2. CalendarSane(y)
    BY CalendarIsSane
  <2>3. QED BY <2>1, <2>2
<1>8. QED BY <1>1, <1>2, <1>3, <1>4, <1>5, <1>6, <1>7

-------------------------------------------------------------------------------
(* The composition.                                                              *)

\* A case that has been chosen is one of its part's.
CaseKnown ==
  Len(case) > 1 =>
    \/ MarketCases(case[1], case) \/ FearCases(case[1], case) \/ IcimCases(case[1], case)
    \/ HandoffCases(case[1], case) \/ MicrocapCases(case[1], case) \/ MonitorCases(case[1], case)

LEMMA MarketNames ==
  ASSUME NEW kind, NEW c, MarketCases(kind, c)
  PROVE  Len(c) > 1 /\ c[1] = kind /\ kind \in {"year", "moment", "pages", "ranking", "table", "change", "period"}
BY DEF MarketCases

LEMMA FearNames ==
  ASSUME NEW kind, NEW c, FearCases(kind, c)
  PROVE  Len(c) > 1 /\ c[1] = kind /\ kind \in {"fear", "partial"}
BY DEF FearCases

LEMMA IcimNames ==
  ASSUME NEW kind, NEW c, IcimCases(kind, c)
  PROVE  Len(c) > 1 /\ c[1] = kind /\ kind \in {"identity", "signal", "sums", "cost", "subject", "month"}
<1>1. \/ kind = "identity" /\ \E x, y : c = <<"identity", x, y>>
      \/ kind = "signal" /\ \E x : c = <<"signal", x>>
      \/ kind = "sums" /\ \E x : c = <<"sums", x>>
      \/ kind = "cost" /\ \E x : c = <<"cost", x>>
      \/ kind = "subject" /\ \E x : c = <<"subject", x>>
      \/ kind = "month" /\ \E x, y : c = <<"month", x, y>>
  BY Zenon DEF IcimCases
<1>2. QED BY <1>1

LEMMA HandoffNames ==
  ASSUME NEW kind, NEW c, HandoffCases(kind, c)
  PROVE  Len(c) > 1 /\ c[1] = kind /\ kind \in {"handoff"}
BY DEF HandoffCases

LEMMA MicrocapNames ==
  ASSUME NEW kind, NEW c, MicrocapCases(kind, c)
  PROVE  Len(c) > 1 /\ c[1] = kind /\ kind \in {"digest", "members", "local"}
<1>1. kind \in {"digest", "members", "local"}
  BY Zenon DEF MicrocapCases
<1>2. CASE kind = "digest"
  <2> DEFINE OneDeviates ==
               \E mode \in {"close", "realtime"}, v \in Versions : \E r \in Deviant(mode, v) :
                 \E t \in [day : {5, 6}, t : {860, 1230}], expected \in {0, 4, 5}, catchup \in {0, 4, 5} :
                   c = <<"digest", Mail(mode, Regular(mode, Versions \ {v}) \cup {r}, t, expected, catchup)>>
             TwoDeviate(v) ==
               \E a \in OtherMembers(CloseRow(v)), b \in OtherDates(CloseRow("v2.3")), e \in {0, 5} :
                 c = <<"digest", Mail("close", {Outcome("close", v, a), Outcome("close", "v2.3", b)},
                                      [day |-> 5, t |-> 1230], e, 0)>>
  <2>1. OneDeviates \/ \E v \in {"v2.0", "v2.5"} : TwoDeviate(v)
    BY <1>2, Zenon DEF MicrocapCases
  <2>2. OneDeviates => Len(c) > 1 /\ c[1] = "digest"
    OBVIOUS
  <2>3. ASSUME NEW v, TwoDeviate(v) PROVE Len(c) > 1 /\ c[1] = "digest"
    <3>1. PICK a \in OtherMembers(CloseRow(v)), b \in OtherDates(CloseRow("v2.3")), e \in {0, 5} :
            c = <<"digest", Mail("close", {Outcome("close", v, a), Outcome("close", "v2.3", b)},
                                 [day |-> 5, t |-> 1230], e, 0)>>
      BY <2>3
    <3>2. QED BY <3>1
  <2> HIDE DEF OneDeviates, TwoDeviate
  <2>4. QED BY <1>2, <2>1, <2>2, <2>3
<1>3. CASE kind = "members"
  <2>1. \E x, y, z : c = <<"members", x, y, z>>
    BY <1>3, Zenon DEF MicrocapCases
  <2>2. QED BY <1>3, <2>1
<1>4. CASE kind = "local"
  <2>1. \E x : c = <<"local", x>>
    BY <1>4 DEF MicrocapCases
  <2>2. QED BY <1>4, <2>1
<1>5. QED BY <1>1, <1>2, <1>3, <1>4

LEMMA MonitorNames ==
  ASSUME NEW kind, NEW c, MonitorCases(kind, c)
  PROVE  Len(c) > 1 /\ c[1] = kind /\ kind \in {"months", "week"}
BY DEF MonitorCases

\* The kind of a case says whose it is.
LEMMA CaseOfItsPart ==
  ASSUME CaseKnown, NEW kind, Case(kind)
  PROVE  /\ kind \in {"year", "moment", "pages", "ranking", "table", "change", "period"} => MarketCases(kind, case)
         /\ kind \in {"fear", "partial"} => FearCases(kind, case)
         /\ kind \in {"identity", "signal", "sums", "cost", "subject", "month"} => IcimCases(kind, case)
         /\ kind = "handoff" => HandoffCases(kind, case)
         /\ kind \in {"digest", "members", "local"} => MicrocapCases(kind, case)
         /\ kind \in {"months", "week"} => MonitorCases(kind, case)
<1>1. \/ MarketCases(kind, case) \/ FearCases(kind, case) \/ IcimCases(kind, case)
      \/ HandoffCases(kind, case) \/ MicrocapCases(kind, case) \/ MonitorCases(kind, case)
  BY DEF CaseKnown, Case
<1>2. /\ MarketCases(kind, case) => kind \in {"year", "moment", "pages", "ranking", "table", "change", "period"}
      /\ FearCases(kind, case) => kind \in {"fear", "partial"}
      /\ IcimCases(kind, case) => kind \in {"identity", "signal", "sums", "cost", "subject", "month"}
      /\ HandoffCases(kind, case) => kind \in {"handoff"}
      /\ MicrocapCases(kind, case) => kind \in {"digest", "members", "local"}
      /\ MonitorCases(kind, case) => kind \in {"months", "week"}
  BY MarketNames, FearNames, IcimNames, HandoffNames, MicrocapNames, MonitorNames
<1>3. QED BY <1>1, <1>2

\* The parts hold together: each step moves one of them.
ReportsInv == CaseKnown /\ RepeatsInv /\ LastBuild /\ EquityInv /\ RecoveryInv /\ AiInv /\ MntInv

LEMMA ReportsStart == Init => ReportsInv
<1> SUFFICES ASSUME Init PROVE ReportsInv
  OBVIOUS
<1>1. EtfInit /\ EquityInit /\ RecoveryInit /\ AiInit /\ MntInit
  BY Zenon DEF Init
<1>2. PICK k : case = <<k>>
  BY Zenon DEF Init
<1>3. CaseKnown
  BY <1>2 DEF CaseKnown
<1>4. QED BY <1>1, <1>3, RepeatsStart, LastStarts, EquityStarts, RecoveryStarts, AiStarts, MntStarts DEF ReportsInv

\* What a step of the composition is to each part.
LEMMA ReportsSteps ==
  ASSUME [Next]_reports
  PROVE  /\ [EtfNext]_vars /\ [EquityNext]_equity /\ [RecoveryNext]_recovery
         /\ [AiNext]_aiVars /\ [MntNext]_mnt
         /\ \/ case' = case
            \/ MarketCases(case[1], case') \/ FearCases(case[1], case') \/ IcimCases(case[1], case')
            \/ HandoffCases(case[1], case') \/ MicrocapCases(case[1], case') \/ MonitorCases(case[1], case')
<1>1. CASE UNCHANGED reports
  BY <1>1 DEF reports
<1>2. CASE MarketCase \/ FearCase \/ IcimCase \/ HandoffCase \/ MicrocapCase \/ MonitorCase
  <2>1. UNCHANGED <<vars, equity, recovery, aiVars, mnt>>
    BY <1>2, Zenon DEF MarketCase, FearCase, IcimCase, HandoffCase, MicrocapCase, MonitorCase, Idling
  <2>2. \/ MarketCases(case[1], case') \/ FearCases(case[1], case') \/ IcimCases(case[1], case')
        \/ HandoffCases(case[1], case') \/ MicrocapCases(case[1], case') \/ MonitorCases(case[1], case')
    BY <1>2, Zenon DEF MarketCase, FearCase, IcimCase, HandoffCase, MicrocapCase, MonitorCase
  <2>3. QED BY <2>1, <2>2
<1>3. CASE EtfStep
  BY <1>3 DEF EtfStep
<1>4. CASE EquityStep
  BY <1>4 DEF EquityStep
<1>5. CASE RecoveryStep
  BY <1>5 DEF RecoveryStep
<1>6. CASE AiStep
  BY <1>6 DEF AiStep
<1>7. CASE MntStep
  BY <1>7 DEF MntStep
<1>8. QED BY <1>1, <1>2, <1>3, <1>4, <1>5, <1>6, <1>7, Zenon DEF Next

LEMMA ReportsMove == ReportsInv /\ [Next]_reports => ReportsInv'
<1> SUFFICES ASSUME ReportsInv, [Next]_reports PROVE ReportsInv'
  OBVIOUS
<1>1. RepeatsInv' /\ LastBuild' /\ EquityInv' /\ RecoveryInv' /\ AiInv' /\ MntInv'
  BY ReportsSteps, EtfMoves, LastMoves, EquityMoves, RecoveryMoves, AiMoves, MntMoves DEF ReportsInv
<1>2. CASE case' = case
  BY <1>1, <1>2 DEF ReportsInv, CaseKnown
<1>3. ASSUME NEW c, c = case',
             \/ MarketCases(case[1], c) \/ FearCases(case[1], c) \/ IcimCases(case[1], c)
             \/ HandoffCases(case[1], c) \/ MicrocapCases(case[1], c) \/ MonitorCases(case[1], c)
      PROVE  CaseKnown'
  <2>1. c[1] = case[1]
    BY <1>3, MarketNames, FearNames, IcimNames, HandoffNames, MicrocapNames, MonitorNames
  <2>2. QED BY <1>3, <2>1 DEF CaseKnown
<1>4. QED BY <1>1, <1>2, <1>3, ReportsSteps DEF ReportsInv

\* The invariant of the reports together: what the ETF digest remembers and what its last
\* build left, the chain of the monitor's mails, the archives of the market state, the day of
\* an AI HOT run and the progress of an MNT run (EtfDigest, EquityMonitor, StateRecovery,
\* AiHot, MntDigest).
THEOREM Invariance == Spec => []ReportsInv
<1>1. Init => ReportsInv
  BY ReportsStart
<1>2. ReportsInv /\ [Next]_reports => ReportsInv'
  BY ReportsMove
<1>3. QED BY <1>1, <1>2, PTL DEF Spec

\* An article comes back only for a cause the history shows, and the history holds what
\* was mailed and nothing else, for every list of articles, windows and number of days
\* (deduplication and persistence of _build_etf).
THEOREM RepeatsExplained == Spec => []RepeatsAreExplained
<1>1. ReportsInv => RepeatsAreExplained
  BY DEF ReportsInv, RepeatsInv, RepeatsAreExplained
<1>2. QED BY <1>1, Invariance, PTL

\* The builder of the ETF digest omits no qualifying article silently, its audit judges by the
\* same windows, a refusal has its cause in the articles, and the later proof accuses no good
\* mail, passes only when nothing is missing and agrees with the builder's explanations, for
\* every set of articles the feeds may list (_build_etf, etf_candidate_audit.py,
\* validate_etf_delivery.py, etf_preflight.py).
THEOREM OmissionsTold == Spec => []OmissionsAreTold
<1>1. ReportsInv => OmissionsAreTold
  BY OmissionsSound DEF ReportsInv, RepeatsInv, OmissionsAreTold
<1>2. QED BY <1>1, Invariance, PTL

\* The weekly monitor never scores a month whose window has a gap, no outage or old month
\* relaxes its advice, every mail is compared with the last mailed report of its method that
\* is still kept; an AI HOT report is of its day, and a success of MNT is of its own run
\* (monitor.py, advisory.py, their workflow, build_ai, run_mnt_hermes_job.py).
THEOREM OthersCurrent == Spec => []OtherMailsAreCurrent
<1>1. ReportsInv => OtherMailsAreCurrent
  <2> SUFFICES ASSUME ReportsInv PROVE OtherMailsAreCurrent
    OBVIOUS
  <2>1. ComparedWithTheLastMail /\ AiHotMailsAreOfTheirDay /\ MntSuccessIsOfThisRun
    BY DEF ReportsInv, EquityInv, MailsKept, AiInv, MntInv
  <2>2. Case("months") \/ Case("week") => MonitorCases(case[1], case)
    BY CaseOfItsPart DEF ReportsInv, Case
  <2>3. ASSUME Case("months") PROVE \A ma, window \in 1 .. 3 : WindowsAreWhole(case[2], case[3], ma, window)
    <3>1. PICK valuation, term \in SUBSET (1 .. 5) :
            case = <<"months", [rows |-> 1 .. 5, present |-> valuation], term>>
      BY <2>2, <2>3 DEF MonitorCases, Case
    <3>2. PICK v : v = [rows |-> 1 .. 5, present |-> valuation]
      OBVIOUS
    <3>3. v.rows \in SUBSET Nat /\ \A r \in v.rows : r <= 5
      BY <3>2
    <3>4. \A ma, window \in 1 .. 3 : WindowsAreWhole(v, term, ma, window)
      BY <3>3, WholeWindows
    <3>5. QED BY <3>1, <3>2, <3>4
  <2>4. ASSUME Case("week")
        PROVE  OutageNeverRelaxes(case[2], case[3]) /\ StaleEvidenceIsInert(Evidence(case[2], case[3]))
    <3>1. PICK w : /\ \E up \in SUBSET Sources : case = <<"week", w, up>>
                   /\ w.m1 \in Int /\ w.m12 \in Int
      BY <2>2, <2>4 DEF MonitorCases, Case
    <3>2. case[2] = w /\ case[3] \in SUBSET Sources
      BY <3>1
    <3>3. QED BY <3>1, <3>2, NeverRelaxed, StaleIsInert
  <2>5. QED BY <2>1, <2>3, <2>4 DEF OtherMailsAreCurrent
<1>2. QED BY <1>1, Invariance, PTL

\* Quotes that stand in one table are comparable: the calendar of the exchange, the newest
\* closed session, the whole list of ETFs, tables of one finished close, changes between the two
\* newest sessions, periods over the same sessions and fair rankings, proved for every year and
\* moment from 2000 on and for every market and chart (etf_movers.py).
THEOREM MarketSound == Spec => []MarketTablesAreSound
<1>1. ReportsInv => MarketTablesAreSound
  <2> SUFFICES ASSUME ReportsInv PROVE MarketTablesAreSound
    OBVIOUS
  <2>1. \A kind \in {"year", "moment", "pages", "ranking", "table", "change", "period"} :
          Case(kind) => MarketCases(kind, case)
    BY CaseOfItsPart DEF ReportsInv
  <2>2. /\ Case("year") => CalendarSane(case[2])
        /\ Case("moment") => LatestSessionIsTheNewestClosed(case[2])
        /\ Case("pages") => UniverseIsWhole(case[2], case[3], case[4], case[5])
        /\ Case("ranking") => RankingIsFair(case[2], case[3])
    BY <2>1, MarketCaseIsSound
  <2>3. /\ Case("table") => TableIsOfOneClose(case[2], case[3], case[4], case[5], case[6])
        /\ Case("change") => ChangeIsOfOneSession(case[2], case[3], case[4])
        /\ Case("period") => PeriodIsUniform(case[2], case[3], case[4], case[5], case[6])
    BY <2>1, MarketCaseIsSound
  <2>4. QED BY <2>2, <2>3, Zenon DEF MarketTablesAreSound
<1>2. QED BY <1>1, Invariance, PTL

\* An IC/IM mail rests on its evidence. The contracts hold for every evidence, payload, plan,
\* cost, month with an open day in any twenty and ledger whose digests name one record each;
\* the cases of the composition are of that shape (the validators of
\* build_ic_im_v1_4_digest.py, its contracts, ic_im_readiness_handoff.py).
THEOREM IcimSupported == Spec => []IcimMailsAreSupported
<1>1. ReportsInv => IcimMailsAreSupported
  <2> SUFFICES ASSUME ReportsInv PROVE IcimMailsAreSupported
    OBVIOUS
  <2>1. CaseKnown
    BY DEF ReportsInv
  <2>2. Case("fear") => NoFresherReadingIsHidden(case[2], Claims)
    BY <2>1, CaseOfItsPart, FearCaseIsSound
  <2>3. Case("signal") => OneOwnerForEveryLeg(case[2])
    BY <2>1, CaseOfItsPart, SignalCaseIsSound
  <2>4. Case("sums") => ChangesAddUp(case[2])
    BY <2>1, CaseOfItsPart, SumsCaseIsSound
  <2>5. /\ Case("identity") => IdentitiesAgree(case[2], case[3])
        /\ Case("cost") => QuietMeansPriced(case[2])
        /\ Case("subject") => WorkIsNeverQuiet(case[2])
        /\ Case("month") => \A day \in 1 .. 31, late \in 0 .. 1 :
                              AnnouncedOnTheDay(case[2], day, case[3], day, day + late)
    BY <2>1, CaseOfItsPart, IcimCaseIsSound
  <2>6. Case("handoff") => HandoffIsOneHistory(case[2], case[3], case[4])
    BY <2>1, CaseOfItsPart, HandoffCaseIsSound
  <2>7. QED BY <2>2, <2>3, <2>4, <2>5, <2>6, PartialContract, Zenon DEF IcimMailsAreSupported
<1>2. QED BY <1>1, Invariance, PTL

\* A microcap mail that asks for nothing was earned by every version it shows, its orders are
\* of its session, a catch-up shows no later data, the member mail hides no gap and the local
\* report is one evidence: for every finite set of results (build_microcap_realtime_digest.py,
\* build_microcap_member_digest.py, build_local_intraday_report.py).
THEOREM MicrocapSupported == Spec => []MicrocapMailsAreSupported
<1>1. ReportsInv => MicrocapMailsAreSupported
  <2> SUFFICES ASSUME ReportsInv PROVE MicrocapMailsAreSupported
    OBVIOUS
  <2>1. CaseKnown
    BY DEF ReportsInv
  <2>2. Case("digest") => QuietMeansNothingDue(case[2]) /\ ActionIsOfTheSession(case[2]) /\ CatchUpIsPast(case[2])
    BY <2>1, CaseOfItsPart, DigestCaseIsSound
  <2>3. /\ Case("members") => MemberMailIsPlain(case[2], case[3], case[4])
        /\ Case("local") => LocalReportIsOneEvidence(case[2])
    BY <2>1, CaseOfItsPart, MicrocapCaseIsSound
  <2>4. QED BY <2>2, <2>3, Zenon DEF MicrocapMailsAreSupported
<1>2. QED BY <1>1, Invariance, PTL

\* Every delivery can be recovered from an archive that bears its name, and a receipt of
\* recovery is issued only while both its runs stand, for every set of runtimes, number of
\* closes, runs, expiries and releases (verify_microcap_recovery_readiness.py).
THEOREM RecoveryProved == Spec => RecoveryIsProved
<1>1. ReportsInv => DeliveriesAreRecoverable /\ ArchiveBearsItsName
  BY RecoverySound DEF ReportsInv
<1>2. ReportsInv /\ [Next]_reports =>
        [\A r \in receipts' \ receipts :
           \E p, c \in DOMAIN tasks :
             /\ p # c /\ GreenRecovery(p) /\ GreenRecovery(c)
             /\ \E k \in UploadsOf(p) : tasks[c].hit = k /\ archive[k].body = r.body
             /\ UploadsOf(c) # {}]_recovery
  BY ReportsSteps, ReceiptStands, Zenon DEF ReportsInv
<1>3. QED BY <1>1, <1>2, Invariance, PTL DEF Spec, RecoveryIsProved, ReceiptsRestOnStandingRuns
=================================================================================
