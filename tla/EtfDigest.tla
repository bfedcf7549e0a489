-------------------------------- MODULE EtfDigest --------------------------------
(* What an ETF digest contains: the selection of research, fixed and forum        *)
(* articles from what the feeds list, the render check, the independent audit,    *)
(* the validation before the send, and the history that later days filter by.     *)
(*   scripts/daily_reports.py, scripts/etf_candidate_audit.py,                    *)
(*   scripts/validate_etf_delivery.py                                             *)
EXTENDS Integers, FiniteSets, FiniteSetsExt

CONSTANTS
  \* Articles: [url, title, kind, source, pub, listed, topic, proof, clear, hot].
  \* kind "research" | "feed" | "page" | "forum" | "reddit" | "missed"; pub 0 is no date.
  \* topic and proof are the gates of the builder, clear is the verdict of the audit,
  \* hot orders what a listing orders by itself (engagement, position).
  Worlds,                            \* sets of articles the feeds will ever list
  Window, Backfill, Dedupe, History, \* 36 hours, 14, 365 and 400 days
  MinResearch, FixedLimit, ForumLimit, MinForum,
  LastDay, MaxBuilds                 \* bounds: days, builds

ASSUME EtfWindows ==
  /\ {Window, Backfill, Dedupe, History, FixedLimit} \subseteq Nat
  /\ 0 < Window /\ Window < Backfill /\ Backfill <= Dedupe /\ Dedupe <= History
\* A feed lists finitely many articles, each of one kind and with a date or none.
ASSUME ArticlesOfKinds ==
  \A w \in Worlds :
    /\ IsFiniteSet(w)
    /\ \A x \in w : /\ x.kind \in {"research", "feed", "page", "forum", "reddit", "missed"}
                   /\ {x.pub, x.hot} \subseteq Nat

VARIABLES
  today, world,
  history,     \* digest_history/etf.json: [day, url, title]
  mails,       \* [day, at, items, pushed]
  last         \* the last build: [result, taken, sent, items, at]

vars == <<today, world, history, mails, last>>

-------------------------------------------------------------------------------
(* Filters of the builder.                                                       *)

Fixed == {"feed", "page"}
Forum == {"forum", "reddit"}
OfKind(S, K) == {x \in S : x.kind \in K}
Urls(S) == {x.url : x \in S}
Titles(S) == {x.title : x \in S}

\* sort_recent, then dedupe_items: of one title the newest stays.
Newer(y, x) == y.pub > x.pub \/ (y.pub = x.pub /\ y.hot > x.hot)
OnePerTitle(S) == {x \in S : ~\E y \in S : y.title = x.title /\ Newer(y, x)}
OnePerUrl(S) == {x \in S : ~\E y \in S : y.url = x.url /\ Newer(y, x)}

Recent(S, age) == {x \in S : x.pub # 0 /\ today - age <= x.pub /\ x.pub <= today}

UnsentByUrl(S, sent) ==   \* mutant: titles are not compared
  {x \in S : \A h \in sent : h.day >= today - Dedupe => h.url # x.url}
Unsent(S, sent) ==
  {x \in S : \A h \in sent : h.day >= today - Dedupe => h.url # x.url /\ h.title # x.title}

Hottest(S, k) == {x \in S : Cardinality({y \in S : y.hot > x.hot}) < k}

-------------------------------------------------------------------------------
(* The four parts of the report.                                                 *)

\* load_etf_confirmed_omissions
Missed(taken, sent) ==
  OnePerUrl({x \in Unsent(OfKind(taken, {"missed"}), sent) : x.pub # 0 /\ x.pub <= today})

\* select_etf_research_items: every qualifying article of the window; older ones only
\* when there are few. The limit is the number of candidates, so it cuts nothing.
ResearchTop(taken, sent) ==   \* mutant: a presentation limit truncates
  LET relevant == OnePerTitle({x \in OfKind(taken, {"research"}) : x.topic})
  IN Hottest({x \in Unsent(Recent(relevant, Window), sent) : x.proof}, MinResearch)
Research(taken, sent) ==
  LET regular  == {x \in OfKind(taken, {"research"}) : x.url \notin Urls(Missed(taken, sent))}
      relevant == OnePerTitle({x \in regular : x.topic})
      Ranked(age) == {x \in Unsent(Recent(relevant, age), sent) : x.proof}
  IN IF Cardinality(Ranked(Window)) >= MinResearch THEN Ranked(Window) ELSE Ranked(Backfill)

\* collect_etf_fixed_monitor_updates_with_audit
FixedOf(kind, taken, sent) ==
  LET raw == OfKind(taken, {kind})
      FromSource(s) == OnePerTitle({x \in raw : x.source = s})
      read == UNION {FromSource(x.source) : x \in raw}
  IN OnePerTitle({x \in Unsent(Recent(read, Window), sent) : x.topic /\ x.proof})
Updates(taken, sent) ==
  LET known == Urls(Research(taken, sent)) \cup Urls(Missed(taken, sent))
      feed == {x \in OnePerUrl(FixedOf("feed", taken, sent)) : x.url \notin known}
      page == {x \in OnePerUrl(FixedOf("page", taken, sent)) : x.url \notin known \cup Urls(feed)}
  IN feed \cup page

\* append_etf_fixed_monitor_section shows the first ones, feeds before pages.
ShownUpdates(U) ==
  {x \in U : Cardinality({y \in U : \/ y.kind = "feed" /\ x.kind = "page"
                                    \/ y.kind = x.kind /\ Newer(y, x)}) < FixedLimit}

\* select_etf_forum_items, then ensure_non_reddit_forum_mix with a minimum of two.
ForumPicked(fresh) ==
  LET relevant == OnePerTitle({x \in fresh : x.topic})
      Good(k) == {x \in Hottest(relevant, k * ForumLimit) : x.proof}
  IN IF Cardinality(Good(2)) >= MinForum THEN Hottest(Good(2), ForumLimit)
     ELSE Good(2) \cup Hottest(Good(3) \ Good(2), ForumLimit - Cardinality(Good(2)))
ForumMix(taken, sent) ==
  LET fresh == Unsent({x \in OfKind(taken, Forum) : x.pub <= today}, sent)
      picked == ForumPicked(fresh)
      outside == {x \in picked : x.kind = "forum"}
      more == IF Cardinality(outside) >= 2 THEN {}
              ELSE Hottest({x \in fresh \ picked : x.kind = "forum" /\ x.proof},
                           2 - Cardinality(outside))
      over == Cardinality(picked \cup more) - ForumLimit
      replaced == {x \in picked \ outside :
                     Cardinality({y \in picked \ outside : y.hot < x.hot}) < over}
  IN (picked \cup more) \ replaced

-------------------------------------------------------------------------------
(* Render check, item list and validation.                                       *)

Part(x) == CASE x.kind = "research" -> 1 [] x.kind = "feed" -> 2 [] x.kind = "page" -> 3
             [] x.kind = "missed" -> 5 [] OTHER -> 4

Chosen(taken, sent) ==
  Research(taken, sent) \cup Updates(taken, sent) \cup ForumMix(taken, sent) \cup Missed(taken, sent)
\* The links of the body, one for each article block.
Displayed(taken, sent) ==
  {x \in Chosen(taken, sent) : x.kind \notin Fixed} \cup ShownUpdates(Updates(taken, sent))
\* rendered_items: of one title the first block, in the order of the parts.
Rendered(taken, sent) ==
  LET c == {x \in Chosen(taken, sent) : x.url \in Urls(Displayed(taken, sent))}
  IN {x \in c : ~\E y \in c : y.title = x.title /\ (Part(y) < Part(x) \/ (Part(y) = Part(x) /\ Newer(y, x)))}

\* required_urls: research, fixed and confirmed omissions must be displayed.
RenderComplete(taken, sent) ==
  \A x \in Chosen(taken, sent) : x.kind \notin Forum => x.url \in Urls(Displayed(taken, sent))

\* validate, the part that can fail after a finished build.
Validates(taken, sent) ==
  LET d == Displayed(taken, sent)
      r == Rendered(taken, sent)
  IN /\ Cardinality(Urls(d)) = Cardinality(d)
     /\ Cardinality(Urls(r)) = Cardinality(r)
     /\ Urls(r) = Urls(d)

-------------------------------------------------------------------------------
(* audit_candidates: a second opinion on every captured article.                 *)

\* items: the rendered ones.
Findings(taken, sent, r) ==
  LET Shown(x) == x.url \in Urls(r)
      Before(x) == \E h \in sent : h.day >= today - Dedupe /\ (h.url = x.url \/ h.title = x.title)
      Primary(x) == x.pub >= today - Window
      \* another capture of a research article that is itself examined
      Twin(x) == x.kind \in Fixed /\ \E y \in r : /\ y.kind = "research"
                   /\ <<y.url, y.title, y.source, y.pub>> = <<x.url, x.title, x.source, x.pub>>
      MayBeOld(x) == \/ x.kind = "missed"
                     \/ x.kind \in Forum \cup {"research"} /\ x.pub >= today - Backfill
      Reason(x) ==
        CASE x.pub = 0 -> IF Shown(x) THEN "undated" ELSE "none"
          [] x.pub # 0 /\ Before(x) -> IF Shown(x) THEN "duplicate" ELSE "none"
          [] x.pub > today /\ ~Before(x) -> IF Shown(x) THEN "after_cutoff" ELSE "none"
          [] OTHER ->
             IF \/ ~Shown(x) /\ x.title \in Titles(r)
                \/ Shown(x) /\ Twin(x)
                \/ ~Shown(x) /\ ~Primary(x)
             THEN "none"
             ELSE IF Shown(x)
                  THEN IF ~Primary(x) /\ ~MayBeOld(x) THEN "stale"
                       ELSE IF x.kind \notin Forum /\ ~x.clear THEN "evidence" ELSE "none"
                  ELSE IF x.kind \notin Forum /\ x.clear THEN "omission" ELSE "none"
  IN {[reason |-> Reason(x), item |-> x] : x \in {y \in taken : Reason(y) # "none"}}

-------------------------------------------------------------------------------
(* The days.                                                                     *)

NoBuild == [result |-> "none", taken |-> {}, sent |-> {}, items |-> {}, at |-> 0]

EtfInit ==
  /\ today = 1
  /\ world \in Worlds
  /\ history = {}
  /\ mails = {}
  /\ last = NoBuild

\* An unreachable source leaves its listing empty, the build goes on.
Listing(down) == {x \in world : x.listed <= today /\ x.kind \notin down}

Outages == {{}, {"research"}, Fixed, Forum}

\* update_digest_history
HistoryWith(items) ==
  LET kept == {h \in history : h.day >= today - History}
  IN kept \cup {[day |-> today, url |-> x.url, title |-> x.title] :
                  x \in {y \in items : ~\E h \in kept : h.url = y.url /\ h.title = y.title}}

Result(taken, sent) ==
  IF ~RenderComplete(taken, sent) THEN "incomplete"
  ELSE IF ~Validates(taken, sent) THEN "invalid" ELSE "sent"

\* A digest whose market tables are not aligned raises before any article is read.
Refusals == IF today % 7 \in {0, 1} THEN {} ELSE {"market"}

Kept(result, items) == IF result = "sent" THEN HistoryWith(items) ELSE history

Build ==
  \E down \in Outages, push \in BOOLEAN :
  LET taken == Listing(down) IN
  /\ last.at < MaxBuilds
  /\ \E result \in {Result(taken, history)} \cup Refusals, items \in {Rendered(taken, history)} :
     /\ last' = [result |-> result, taken |-> taken, sent |-> history, items |-> items, at |-> last.at + 1]
     /\ mails' = IF result = "sent"
                 THEN mails \cup {[day |-> today, at |-> last.at + 1, pushed |-> push, items |-> items]}
                 ELSE mails
     /\ history' = IF push THEN Kept(result, items) ELSE history
  /\ UNCHANGED <<today, world>>

NextDay ==
  /\ today < LastDay
  /\ today' = today + 1
  /\ last' = [NoBuild EXCEPT !.at = last.at]
  /\ UNCHANGED <<world, history, mails>>

EtfNext == Build \/ NextDay
EtfSpec == EtfInit /\ [][EtfNext]_vars

-------------------------------------------------------------------------------
(* Properties.                                                                   *)

\* Within the dedupe window no article comes twice, by link or by title, unless the
\* history of the first mail could not be pushed (daily_reports.py:6328 and :6336, the
\* dedupe lines every report carries).
Common(m, n) == \E x \in m.items, y \in n.items : x.url = y.url \/ x.title = y.title
Repeats(m, n) == m.at < n.at /\ n.day - m.day <= Dedupe /\ m.pushed /\ Common(m, n)
NothingMailedTwice == \A m, n \in mails : ~Repeats(m, n)

\* The one way it does come twice: the first of the two was itself a repetition after
\* the window of an article the history still knows, so that update_digest_history
\* kept the old date and every later selection filters by that one.
RepeatsHaveACause ==
  \A m, n \in mails : Repeats(m, n) =>
    \E k \in mails : k.at < m.at /\ Common(k, m) /\ m.day - k.day > Dedupe

\* "Rank for presentation, not silent truncation of qualifying research"
\* (daily_reports.py:6173): a qualifying article of the window is mailed, or a newer
\* capture of the same title stands in its way; and when no mailed article has its
\* title, the audit in the mail names it.
NoSilentOmission ==
  last.result = "sent" =>
    \A x \in Unsent(Recent(OfKind(last.taken, {"research"}), Window), last.sent) :
      (x.topic /\ x.proof /\ x.url \notin Urls(last.items)) =>
        /\ \E y \in last.taken : y.title = x.title /\ Newer(y, x)
        /\ x.clear /\ x.title \notin Titles(last.items) =>
             \E f \in Findings(last.taken, last.sent, last.items) : f.item = x /\ f.reason = "omission"

\* The independent audit never has to report an article that stands in the mail as a
\* repetition or as published after the cutoff, nor a research or fixed one as undated
\* or too old (etf_candidate_audit.py recomputes the windows of daily_reports.py). It
\* may report another capture of the same link.
AuditAgreesWithTheWindows ==
  last.result = "sent" =>
    \A f \in Findings(last.taken, last.sent, last.items) :
      f.item \in last.items =>
        \/ f.reason \in {"evidence", "omission"}
        \/ f.reason \in {"stale", "undated"} /\ f.item.kind \in Forum

\* A report is held back only for more fixed updates than the section shows, for two
\* blocks with one link, or for two blocks with one title under different links.
RefusalHasACause ==
  last.result \in {"incomplete", "invalid"} =>
    LET c == Chosen(last.taken, last.sent) IN
    \/ Cardinality(Updates(last.taken, last.sent)) > FixedLimit
    \/ \E x, y \in c : x # y /\ (x.url = y.url \/ x.title = y.title)

\* The history holds nothing that was not in a mail of that day: a build that fails
\* its render check or its validation leaves no trace that would hide its articles.
HistoryWasMailed ==
  \A h \in history : \E m \in mails :
    m.day = h.day /\ \E x \in m.items : x.url = h.url /\ x.title = h.title
=================================================================================
