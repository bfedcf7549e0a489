------------------------------ MODULE EtfPreflight ------------------------------
(* The proof of a sent ETF digest: why the builder left an article out, and the   *)
(* audit that is run later over what the build captured, by rules of its own.     *)
(*   scripts/etf_preflight.py, scripts/daily_reports.py                           *)
EXTENDS EtfDigest

\* A build is EtfDigest's last: [taken, sent, items, ..], taken on the day it ran.
\* Of the confirmed omissions only the ones that are due are captured.
Captured(b) == {x \in b.taken : x.kind # "missed"} \cup Missed(b.taken, b.sent)
BodyLinks(b) == Urls(Displayed(b.taken, b.sent))
Seen(x, sent) == \E h \in sent : h.day >= today - Dedupe /\ (h.url = x.url \/ h.title = x.title)

\* finalize_etf_candidate_decisions: what the pipeline says of a captured article.
Filtered(x) ==
  IF x.kind \in Forum THEN "forum"
  ELSE IF ~x.topic THEN "relevance" ELSE IF x.proof THEN "qualified" ELSE "evidence"
Decision(x, b) ==
  IF x.url \in Urls(b.items) THEN "rendered"
  ELSE IF Seen(x, b.sent) THEN "previously_sent"
  ELSE IF x.pub = 0 THEN "undated"
  ELSE IF x.pub > today THEN "after_cutoff"
  ELSE IF x.pub < today - Window THEN "outside" ELSE Filtered(x)

-------------------------------------------------------------------------------
(* audit.                                                                        *)

\* A proof: [manifest, clock, doubts, covered, eligible, unfit, body].  doubts are the
\* claims about the run that do not hold, covered the kinds of source confirmed complete,
\* eligible and unfit the articles somebody has judged.
Promises == {"run", "mailed", "hash", "attachment", "subject", "refetch", "history", "inventory"}
SourceKinds == {"research", "feed", "page", "forum", "reddit", "missed"}

\* What a build leaves: a bounded listing is never a complete source, only the queue of
\* confirmed omissions is, and only its articles are judged.
Written(b) ==
  [manifest |-> TRUE, clock |-> "inside", doubts |-> {}, covered |-> {"missed"},
   eligible |-> OfKind(Captured(b), {"missed"}), unfit |-> {}, body |-> BodyLinks(b)]
\* (The unread children of a link collection are one more gap, left out here.)
\* External: a reviewer settles which kinds were read completely, and judges every article.
Reviewed(b, complete) ==
  [Written(b) EXCEPT !.covered = complete, !.eligible = {x \in Captured(b) : x.clear},
                     !.unfit = {x \in Captured(b) : ~x.clear}]

\* Without a cutoff inside the build step no article can be placed in time.
InTime(p, b) == IF p.clock = "inside" THEN {x \in Captured(b) : x.pub # 0} ELSE {}
InWindow(p, b) == {x \in InTime(p, b) : today - Window <= x.pub /\ x.pub <= today}

\* The history is the one the build began with; that one also holds the mails of its day.
Before(b) == b.sent

Failures(p, b) ==
     {[reason |-> "unrendered", item |-> x] : x \in {y \in b.items : y.url \notin p.body}}
  \cup {[reason |-> "after_cutoff", item |-> x] : x \in {y \in InTime(p, b) : y.pub > today /\ y.url \in p.body}}
  \cup {[reason |-> "duplicate", item |-> x] : x \in {y \in InWindow(p, b) : Seen(y, Before(b)) /\ y.url \in p.body}}
  \cup {[reason |-> "omission", item |-> x] :
          x \in {y \in InWindow(p, b) : ~Seen(y, Before(b)) /\ y \in p.eligible /\ y.url \notin p.body}}

\* The candidate audit joins in when the run is identified and the capture its own.
SecondOpinion(p) == p.clock = "inside" /\ p.doubts \cap {"run", "refetch"} = {}
OpenCandidates(b) ==
  {x \in Captured(b) :
     /\ x.url \notin Urls(b.items)
     /\ \/ x.pub = 0
        \/ /\ ~Seen(x, b.sent) /\ x.title \notin Titles(b.items)
           /\ today - Window <= x.pub /\ x.pub <= today
           /\ x.kind \in Forum \/ ~x.clear}

Uncovered(p) == SourceKinds \ p.covered

Gaps(p, b) ==
  \/ p.doubts # {} \/ p.clock # "inside"
  \/ Uncovered(p) # {}
  \/ p.body \ Urls(b.items) # {}
  \/ p.clock = "inside" /\ \E x \in Captured(b) : x.pub = 0
  \/ \E x \in InWindow(p, b) :
       ~Seen(x, Before(b)) /\ x \notin p.eligible \cup p.unfit /\ x.url \notin p.body
  \/ SecondOpinion(p) /\ OpenCandidates(b) # {}

Status(p, b) ==
  IF ~p.manifest \/ p.clock = "naive" THEN "PARTIAL"
  ELSE IF \/ Failures(p, b) # {}
          \/ SecondOpinion(p) /\ ("history" \in p.doubts \/ Findings(b.taken, b.sent, b.items) # {})
       THEN "FAILED"
  ELSE IF Gaps(p, b) THEN "PARTIAL" ELSE "PASS"

Doubted(p) ==
  {p, [p EXCEPT !.manifest = FALSE], [p EXCEPT !.clock = "naive"], [p EXCEPT !.clock = "outside"]}
  \cup {[p EXCEPT !.doubts = {d}] : d \in Promises}

-------------------------------------------------------------------------------
\* A digest that passed its validation fails the later audit, which shares no gate with the
\* builder, only for what the audit printed in the mail reports too or for another capture of
\* a shown link; and never for its time when the time is not proved (etf_preflight.audit).
ProofsDoNotAccuse ==
  last.result = "sent" =>
    \A p \in Doubted(Written(last)) :
      \A f \in Failures(p, last) :
        /\ f.item \notin last.items \/ f \in Findings(last.taken, last.sent, last.items)
        /\ p.clock = "inside" \/ f.reason = "unrendered"

\* A PASS means that no article any source held within the window is missing: it is shown,
\* or its title is, or an earlier mail had it, or it is not eligible. Also what a source listed
\* that the build could not reach. No proof as the build leaves it can pass.
PassMeansNothingIsMissing ==
  last.result = "sent" =>
    LET reached == {k \in SourceKinds : OfKind(Listing({}), {k}) = OfKind(last.taken, {k})} IN
    /\ \A p \in Doubted(Written(last)) : Status(p, last) # "PASS"
    /\ \A p \in Doubted(Reviewed(last, reached)) :
         Status(p, last) = "PASS" =>
           \A x \in Listing({}) :
             \/ x.pub = 0 \/ x.pub > today \/ x.pub < today - Window
             \/ x.url \in Urls(last.items) \/ x.title \in Titles(last.items)
             \/ Seen(x, last.sent)

\* Of an article the pipeline calls qualified and did not show, the audit says the same: it
\* reports an omission, or asks for a review, or the title is shown under another link.
ExplanationsAgree ==
  last.result = "sent" =>
    \A x \in Captured(last) :
      Decision(x, last) = "qualified" =>
        \/ x.title \in Titles(last.items)
        \/ x \in OpenCandidates(last)
        \/ \E f \in Findings(last.taken, last.sent, last.items) : f.item = x /\ f.reason = "omission"
=================================================================================
