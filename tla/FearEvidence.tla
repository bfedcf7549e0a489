------------------------------- MODULE FearEvidence -------------------------------
(* The reading of the fear index that the IC/IM report may use: which evidence of *)
(* its two sources is accepted, when the reading of the session before may stand  *)
(* in, and what a report without a reading must hide.                             *)
(*   scripts/ic_im_v1_4_delivery_contract.py, scripts/build_ic_im_v1_4_digest.py, *)
(*   scripts/prepare_ic_im_v1_4_marker.py                                         *)
EXTENDS Integers, FiniteSets, FiniteSetsExt

\* Time in quarters of a day: 4 * d is before 15:00 on day d, 4 * d + 1 is 15:00, later
\* is after the close. Days are consecutive sessions.
DateOf(t) == t \div 4
Close(d) == 4 * d + 1
Prior(d) == d - 1

\* Evidence of one fetch: [day, close, started, retrieved, checked, csv, csvDay, page,
\* pageDay, pageAt]; csv and page are functions from days to readings, pageDay its one
\* day, 0 when a source did not answer. A claim of the producer: [value, data, selected,
\* status, reason, timing, replay, generated, quality, warned]; 0 is no value.
None == 0
Available(e) == (IF e.csvDay # None THEN {"csv"} ELSE {}) \cup (IF e.pageDay # None THEN {"page"} ELSE {})
SignalTerm(e) == IF e.close THEN "close_previous_session" ELSE "intraday_previous_session"
CarryTerms == {"close_previous_session", "intraday_previous_session"}
Carried(c) == c.status \in CarryTerms

-------------------------------------------------------------------------------
(* validate_source_evidence.                                                     *)

\* Nothing of the evidence is later than what follows it, and a signal of an earlier
\* day says that it was made later.
ClocksAgree(e, c) ==
  /\ DateOf(e.retrieved) >= e.day
  /\ e.started <= e.retrieved /\ e.retrieved <= e.checked
  /\ e.pageDay # None => e.pageAt <= e.retrieved
  /\ c.generated # None => e.retrieved <= c.generated /\ c.generated <= e.checked
  /\ (DateOf(e.retrieved) > e.day \/ (c.generated # None /\ DateOf(c.generated) > e.day)) =>
       c.generated # None /\ c.replay
  /\ ~e.close => DateOf(e.retrieved) = e.day /\ e.retrieved < Close(e.day)
AfterClose(e) == (e.close /\ DateOf(e.retrieved) = e.day) => e.retrieved > Close(e.day)

SourcesAgree(e) ==
  e.csvDay = e.pageDay /\ e.csv[e.csvDay] = e.page[e.pageDay]
QualityIsTrue(e, c) ==
  c.quality = CASE Available(e) = {} -> "unavailable"
                [] Cardinality(Available(e)) = 1 -> "single_source"
                [] OTHER -> IF SourcesAgree(e) THEN "matched" ELSE "mismatch"

\* The newest session of the file cannot be left out of its observations.
SnapshotIsWhole(e) ==
  e.csvDay # None =>
    /\ e.csvDay <= DateOf(e.retrieved) /\ \A d \in DOMAIN e.csv : d <= e.csvDay
    /\ e.csvDay \in {e.day, Prior(e.day)} => e.csvDay \in DOMAIN e.csv

ReadingSeen(e, c) ==
  \/ c.selected = "csv" /\ c.data \in DOMAIN e.csv /\ e.csv[c.data] = c.value
  \/ c.selected = "page" /\ c.data = e.pageDay /\ e.page[e.pageDay] = c.value

\* The reading of the session before: only when neither source shows the day, or the
\* page shows it as of the open session.
CarryAllowed(e, c) ==
  /\ c.data = Prior(e.day) /\ c.status = SignalTerm(e)
  /\ \/ c.reason = "not_published" /\ e.day \notin DOMAIN e.csv /\ e.csvDay # e.day /\ e.pageDay # e.day
     \/ /\ c.reason = "not_confirmed" /\ e.close
        /\ e.pageDay = e.day /\ e.pageAt <= Close(e.day)
  /\ c.timing = IF DateOf(e.retrieved) > e.day THEN "replay" ELSE IF e.close THEN "post_close" ELSE "intraday"

\* A reading of the day itself, as strong as its status says.
ProofOfDay == {"post_close", "unverified_close", "provisional", "replay"}
OwnReading(e, c) ==
  /\ c.data = e.day /\ c.status \in ProofOfDay /\ c.reason = "none" /\ c.timing = "none"
  /\ CASE c.status = "post_close" -> /\ e.close /\ DateOf(e.retrieved) = e.day
                                     /\ e.pageDay = e.day /\ e.page[e.day] = c.value
                                     /\ e.pageAt > Close(e.day)
       [] c.status = "unverified_close" -> e.close /\ DateOf(e.retrieved) = e.day /\ c.warned
       [] c.status = "provisional" -> ~e.close
       [] OTHER -> DateOf(e.retrieved) > e.day

EvidenceAccepted(e, c) ==
  /\ ClocksAgree(e, c) /\ QualityIsTrue(e, c) /\ SnapshotIsWhole(e)
  /\ \/ c.value = None /\ c.data = None /\ c.status = "unavailable"
     \/ /\ c.value # None /\ c.selected \in Available(e) /\ ReadingSeen(e, c)
        /\ IF Carried(c) THEN CarryAllowed(e, c) ELSE OwnReading(e, c)
        /\ AfterClose(e) /\ (c.quality # "matched" => c.warned)

-------------------------------------------------------------------------------
(* validate_fear_clock and validate_fear_fallback, the rule for reports of the days *)
(* before the sources became exchangeable: the file is read, the page dates it.     *)

FallbackAccepted(e, c) ==
  LET source == IF e.close /\ c.reason = "not_confirmed" THEN e.day ELSE Prior(e.day) IN
  /\ ClocksAgree(e, c) /\ AfterClose(e) /\ Available(e) = {"csv", "page"}
  /\ c.status = SignalTerm(e) /\ c.data = Prior(e.day)
  /\ c.reason \in (IF e.close THEN {"not_published", "not_confirmed"} ELSE {"not_published"})
  /\ e.pageDay = source /\ Max({e.csvDay, e.pageDay}) = source
  /\ c.selected = "csv" /\ c.value # None /\ ReadingSeen(e, c)
  /\ e.pageAt > Close(Prior(e.day))
  /\ (e.close /\ c.reason = "not_confirmed") => DateOf(e.pageAt) = e.day /\ e.pageAt <= Close(e.day)
  /\ c.timing = IF ~e.close THEN "intraday"
                ELSE IF DateOf(e.retrieved) > e.day THEN "replay" ELSE "post_close"

-------------------------------------------------------------------------------
(* A report without a reading: validate_fear_publication, marker_name and the first *)
(* part of validate_success_payload.                                                *)

\* A payload: [status, complete, missing, signals], signals for IC and IM:
\* [fear, action, hidden, complete, kept, flexible]. hidden: no grid or total target;
\* missing: the products the manifest names; kept: the reference grid is the held one.
Products == {"IC", "IM"}
WithoutFear(p) == {x \in Products : p.signals[x].flexible /\ p.signals[x].fear = None}

Publication(p) ==
  /\ \A x \in WithoutFear(p) : p.signals[x].action = "UNCONFIRMED" /\ p.signals[x].hidden
                               /\ ~p.signals[x].complete
  /\ WithoutFear(p) # {} => p.status = "partial" /\ ~p.complete /\ p.missing = WithoutFear(p)

Marked(p) ==
  /\ Publication(p) /\ p.status \in {"ok", "partial"}
  /\ p.status = "partial" => /\ ~p.complete /\ p.missing # {}
                             /\ \E x \in Products : p.signals[x].action = "UNCONFIRMED" /\ p.signals[x].flexible

\* For days from 2026-10-08. Both products share one snapshot; a grid without a confirmed action must be the one
\* that is hidden for want of a reading.
DigestAccepted(p) ==
  /\ Marked(p)
  /\ p.status = "partial" =>
       \A x \in Products : p.signals[x].action = "UNCONFIRMED" =>
         /\ p.signals[x].flexible /\ p.signals[x].fear = None
         /\ p.signals[x].hidden /\ ~p.signals[x].complete /\ p.signals[x].kept
  /\ p.signals["IC"].fear = p.signals["IM"].fear /\ p.signals["IC"].flexible = p.signals["IM"].flexible
  /\ \A x \in Products : p.signals[x].hidden => p.status = "partial" /\ p.signals[x].action = "UNCONFIRMED"
-------------------------------------------------------------------------------
(* Properties.                                                                   *)

\* "qualified T close evidence cannot be discarded for carried Fear"
\* (ic_im_v1_4_delivery_contract.py:207): a reading of the session before is accepted
\* only from evidence that holds no reading of the day itself published after the close,
\* and none of the day at all while the session is open; and what passes for a reading
\* confirmed after the close was shown by the page after the close. The old rule accepts
\* no evidence the new one would not.
NoFresherReadingIsHidden(e, claims) ==
  \A c \in claims :
    /\ EvidenceAccepted(e, c) =>
         /\ c.data \in {None, e.day, Prior(e.day)}
         /\ c.data = Prior(e.day) => ~(e.pageDay = e.day /\ (e.pageAt > Close(e.day) \/ ~e.close))
         /\ c.status = "post_close" => e.retrieved > Close(e.day) /\ e.page[e.pageDay] = c.value
                                       /\ e.pageAt > Close(e.day)
         /\ e.retrieved < 4 * (e.day + 1) \/ c.replay
    /\ (FallbackAccepted(e, c) /\ QualityIsTrue(e, c) /\ SnapshotIsWhole(e) /\ c.warned) =>
         EvidenceAccepted(e, c)

\* A digest is partial exactly when the reading is missing, for both products at once,
\* and then shows no grid and no total of either: neither is a missing reading published
\* as complete nor a complete one withheld ("A missing feed cannot be promoted to a
\* complete publication or marker").
PartialIsExact(p) ==
  DigestAccepted(p) =>
    /\ p.status = "partial" <=> WithoutFear(p) = Products
    /\ WithoutFear(p) \in {{}, Products}
    /\ p.status = "partial" => /\ ~p.complete /\ p.missing = Products
                               /\ \A x \in Products : p.signals[x].hidden
=================================================================================
