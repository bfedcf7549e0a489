------------------------------- MODULE NoticeRefresh -------------------------------
(* Refreshing the shared microcap inputs of a session: whether the static tables may   *)
(* be reused, the bounded retries of the notice archive and of the whole refresh, the   *)
(* evidence a failed refresh leaves, the check that the base state reached the session, *)
(* and the fingerprint the three versions are bound to.                                 *)
(*   scripts/check_microcap_refresh_target.py, refresh_microcap_notice_retry.py,        *)
(*   collect_microcap_notice_failure.py, check_microcap_shared_inputs.py,               *)
(*   microcap_csv_compat/notice_boundary_adapter.py                                     *)
EXTENDS Naturals, FiniteSets

CONSTANTS
  NDays,       \* bound: days are 1 .. NDays
  NSessions,   \* the exchange sessions among them; every run starts after the close
  NRuns,       \* bound: runs
  MaxGenerations

ASSUME RefreshAssumption ==
  /\ NDays \in Nat \ {0} /\ NSessions \subseteq 1 .. NDays /\ 1 \in NSessions
  /\ NRuns \in Nat /\ MaxGenerations \in Nat

VARIABLES
  nday,     \* the Beijing date
  nsaved,   \* the state the next run restores: its proof and the age of its static tables
  nrun,     \* the run
  ngens,    \* notice generations in its tree: [run, number]
  nkept,    \* [gens, complete]: the evidence preserved
  nslips,   \* runs that reused static tables and crossed midnight before their proof
  nruns     \* runs begun

refreshVars == <<nday, nsaved, nrun, ngens, nkept, nslips, nruns>>

NoState == [target |-> 0, verified |-> 0, static |-> 0]
NoEvidence == [gens |-> {}, complete |-> FALSE]
Ready == [pc |-> "idle"]
Completed(day) == CHOOSE s \in NSessions : s <= day /\ \A t \in NSessions : t <= day => t <= s

RefreshInit ==
  /\ nday = 1 /\ nsaved = NoState /\ nrun = Ready /\ ngens = {} /\ nkept = NoEvidence
  /\ nslips = 0 /\ nruns = 0

\* A run lasts less than a day (timeout-minutes).
Midnights ==
  /\ nday < NDays /\ (nrun.pc # "idle" => nday = nrun.began) /\ nday' = nday + 1
  /\ UNCHANGED <<nsaved, nrun, ngens, nkept, nslips, nruns>>

\* can_reuse_static_inputs
CanReuse(proof, expected, today) ==
  /\ expected <= today /\ proof.target = expected /\ proof.verified \in {expected, today}
\* A run restores the saved state, with the generations of earlier runs, and decides.
StartRefresh ==
  /\ nrun.pc = "idle" /\ nruns < NRuns
  /\ LET expected == Completed(nday) IN
     nrun' = [pc |-> "snapshot", expected |-> expected, began |-> nday, reuse |-> CanReuse(nsaved, expected, nday),
              static |-> nsaved.static, verified |-> 0, attempt |-> 1, tries |-> 0, baseline |-> {}, based |-> FALSE,
              inputs |-> 0, seen |-> {}, refused |-> FALSE]
  /\ nruns' = nruns + 1 /\ nkept' = NoEvidence
  /\ UNCHANGED <<nday, nsaved, ngens, nslips>>
Go(pc, more) == nrun' = [more EXCEPT !.pc = pc]

\* snapshot: the names before this refresh; continue-on-error.
Snapshot ==
  /\ nrun.pc = "snapshot"
  /\ \E written \in BOOLEAN : Go("notice", [nrun EXCEPT !.based = written, !.baseline = IF written THEN ngens ELSE {}])
  /\ UNCHANGED <<nday, nsaved, ngens, nkept, nslips, nruns>>

\* retry_notice_refresh: every try leaves its generation; only a changed pagination total is
\* tried again, twice.
NoticeTry == \E result \in {"archived", "pagination", "rejected"} :
  /\ nrun.pc = "notice"
  /\ ngens' = ngens \cup {[run |-> nruns, number |-> Cardinality({g \in ngens : g.run = nruns}) + 1]}
  /\ LET tries == nrun.tries + 1 IN
     nrun' = [nrun EXCEPT
       !.tries = IF result = "pagination" /\ tries < 3 THEN tries ELSE 0,
       !.pc = IF result = "archived" THEN "tail" ELSE IF result = "pagination" /\ tries < 3 THEN "notice" ELSE "retry",
       !.refused = result # "archived" /\ ~(result = "pagination" /\ tries < 3)]
  /\ UNCHANGED <<nday, nsaved, nkept, nslips, nruns>>
\* retry_universe_timeout and the other stages: two provider timeouts, a transport failure in
\* the last line of the log or a rejected lineage before it, or the whole refresh succeeds: the
\* static tables are read again unless they may be reused, and the proof bears the day.
RestOfRefresh ==
  /\ nrun.pc = "tail"
  /\ \/ /\ Go("collect", [nrun EXCEPT !.static = IF nrun.reuse THEN @ ELSE nday, !.verified = nday])
        /\ nslips' = IF nrun.reuse /\ nday # nrun.began THEN nslips + 1 ELSE nslips
     \/ \E refused \in BOOLEAN : Go("retry", [nrun EXCEPT !.refused = refused]) /\ nslips' = nslips
  /\ UNCHANGED <<nday, nsaved, ngens, nkept, nruns>>
\* The workflow: once more, unless the log holds a rejection or an exhausted request.
Again(run) == ~run.refused /\ run.attempt < 2
Retry ==
  /\ nrun.pc = "retry"
  /\ IF Again(nrun) THEN Go("notice", [nrun EXCEPT !.attempt = @ + 1]) ELSE Go("collect", nrun)
  /\ UNCHANGED <<nday, nsaved, ngens, nkept, nslips, nruns>>

\* collect: what is not in the baseline, if it is not too much; copying a file may fail.
Bounded(new) == IF Cardinality(new) > MaxGenerations THEN {} ELSE new
Exceeds(new) == new # {} /\ Bounded(new) = {}
Collect ==
  /\ nrun.pc = "collect"
  /\ LET new == ngens \ nrun.baseline IN
     \E copied \in IF nrun.based THEN {Bounded(new)} \cup {Bounded(new) \ {g} : g \in new} ELSE {{}} :
       nkept' = [gens |-> copied, complete |-> nrun.based /\ ~Exceeds(new) /\ copied = Bounded(new)]
  /\ IF nrun.verified = 0 THEN nrun' = Ready ELSE Go("check", nrun)
  /\ UNCHANGED <<nday, nsaved, ngens, nslips, nruns>>

\* check_report: the anchors reached the session and the proof is of today.
ReportAccepted(run) == run.verified = nday
CheckTarget == \E reached \in BOOLEAN :
  /\ nrun.pc = "check"
  /\ IF reached /\ ReportAccepted(nrun)
     THEN /\ nsaved' = [target |-> nrun.expected, verified |-> nrun.verified, static |-> nrun.static]
          /\ Go("capture", nrun)
     ELSE nrun' = Ready /\ nsaved' = nsaved
  /\ UNCHANGED <<nday, ngens, nkept, nslips, nruns>>

\* check_microcap_shared_inputs capture, the three versions one after the other, check.
CaptureInputs ==
  /\ nrun.pc = "capture" /\ Go("generate", [nrun EXCEPT !.inputs = 1, !.seen = {}])
  /\ UNCHANGED <<nday, nsaved, ngens, nkept, nslips, nruns>>
Generate == \E changed \in 0 .. 1 :
  /\ nrun.pc = "generate" /\ Cardinality(nrun.seen) < 3
  /\ nrun' = [nrun EXCEPT !.inputs = @ + changed,
                          !.seen = @ \cup {[version |-> Cardinality(nrun.seen) + 1, inputs |-> nrun.inputs]}]
  /\ UNCHANGED <<nday, nsaved, ngens, nkept, nslips, nruns>>
InputsCounted(inputs) == inputs > 0   \* mutant: a fingerprint exists
SameInputs(inputs) == inputs = 1
CheckInputs ==
  /\ nrun.pc = "generate" /\ Cardinality(nrun.seen) = 3
  /\ IF SameInputs(nrun.inputs) THEN Go("published", nrun) ELSE nrun' = Ready
  /\ UNCHANGED <<nday, nsaved, ngens, nkept, nslips, nruns>>
EndRefresh ==
  /\ nrun.pc = "published" /\ nrun' = Ready
  /\ UNCHANGED <<nday, nsaved, ngens, nkept, nslips, nruns>>

RefreshNext ==
  \/ Midnights \/ StartRefresh \/ Snapshot \/ NoticeTry \/ RestOfRefresh \/ Retry \/ Collect \/ CheckTarget
  \/ CaptureInputs \/ Generate \/ CheckInputs \/ EndRefresh

-------------------------------------------------------------------------------
(* notice_boundary_adapter.py.  A notice row: [st, cert, late]: whether it is a risk    *)
(* action, whether its content is the certified one, and its time within the second.   *)

\* The strategy's own comparison: the same notices, only the precision of a time differs.
Original(previous, current) ==
  /\ DOMAIN previous = DOMAIN current
  /\ \A k \in DOMAIN previous : [previous[k] EXCEPT !.late = current[k].late] = current[k]
Only(rows, ids) == [k \in ids |-> rows[k]]
\* The one reviewed addition, if nothing was removed, its content and the classifying
\* sources are those of the certificate, and the rest passes the original comparison.
Compare(previous, current, added, sources) ==
  \/ Original(previous, current)
  \/ /\ DOMAIN previous \subseteq DOMAIN current /\ DOMAIN current \ DOMAIN previous = {added}
     /\ current[added].cert /\ sources /\ ~current[added].st
     /\ Original(previous, Only(current, DOMAIN current \ {added}))

-------------------------------------------------------------------------------
(* Properties                                                                     *)

\* The evidence a run preserves is its own, and when the capture calls itself complete it
\* holds every generation of the run (up to six: two refreshes of three tries each).
EvidenceIsThisRuns ==
  /\ \A g \in nkept.gens : g.run = nruns
  /\ nkept.complete => {g \in ngens : g.run = nruns} \subseteq nkept.gens

\* The static tables under a state that is published were read on the day of the session or
\* on the day of the run, or as many days earlier as runs crossed midnight between deciding
\* to reuse them and writing their proof.
StaticTablesAreCurrent ==
  nrun.pc \in {"capture", "generate", "published"} =>
    \/ nrun.static = nrun.expected
    \/ nrun.static + nslips >= nrun.verified

\* The three versions of a publication read one and the same set of inputs.
VersionsShareInputs ==
  nrun.pc = "published" => Cardinality({v.inputs : v \in nrun.seen}) = 1

\* Whatever drift of the boundary day is accepted, the risk actions derived from it stay the same.
DriftKeepsRiskActions(previous, current, added, sources) ==
  Compare(previous, current, added, sources) =>
    {k \in DOMAIN previous : previous[k].st} = {k \in DOMAIN current : current[k].st}
===============================================================================
