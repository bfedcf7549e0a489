---------------------------- MODULE MemberCheckpoint ----------------------------
(* The chain of small member checkpoints.  The daily workflow continues from the  *)
(* newest published checkpoint and publishes the one of its own session; on a     *)
(* rebalance day an independent workflow, in a concurrency group of its own,      *)
(* publishes the checkpoint with the membership of the next period.  Both find    *)
(* their predecessor among the artifacts of completed runs.                       *)
(*   scripts/restore_microcap_member_checkpoint.py                                *)
(*   .github/workflows/microcap-member-daily.yml, microcap-member-maintenance.yml *)
EXTENDS Integers, FiniteSets, FiniteSetsExt

CONSTANTS
  Runs,         \* workflow runs
  LastSession,  \* bound: sessions are 1 .. LastSession
  Rebalances,   \* the sessions at whose close the membership changes
  MaxReruns,    \* bound: runs that are re-run, each once
  Revisions,    \* the versions of a day's market data a source may serve
  Legacy,       \* v1 artifacts published before names carried date and phase
  MaxLegacy     \* MAX_LEGACY_READS

Sessions == 1 .. LastSession
Seed == [day |-> 0, phase |-> "current", members |-> 1, rev |-> 0]
Checkpoint == [day : 0 .. LastSession, phase : {"current", "awaiting_handoff"},
               members : 1 .. LastSession + 1, rev : {0} \cup Revisions]
Artifact == [id : Int, dated : BOOLEAN, readable : BOOLEAN, run : Runs \cup {"legacy"},
             cp : Checkpoint]

\* One change of the membership a session: how many there can have been, the one a
\* state waits for included.
Sized(cp) == cp.members + (IF cp.phase = "current" THEN 0 ELSE 1) <= cp.day + 1

\* The undated artifacts are a chain as well, of sessions up to the first one here.
ASSUME CheckpointAssumption ==
  /\ LastSession \in Nat \ {0} /\ Rebalances \subseteq Sessions
  /\ MaxReruns \in Nat /\ MaxLegacy \in Nat
  /\ "legacy" \notin Runs
  /\ Legacy \subseteq {a \in Artifact : ~a.dated /\ a.run = "legacy" /\ a.id < 0}
  /\ IsFiniteSet(Legacy)
  /\ \A a \in Legacy : a.cp.day <= 1 /\ Sized(a.cp)
  /\ \A a, b \in Legacy : (a.cp.day = b.cp.day /\ a.cp.phase = b.cp.phase) => a.cp = b.cp

VARIABLES
  today,      \* the session the clock is in
  artifacts,  \* published checkpoints: immutable, the id is the order of upload
  run         \* [Runs -> record of the latest attempt]

vars == <<today, artifacts, run>>

Idle == [pc |-> "idle", kind |-> "daily", session |-> 0, attempt |-> 0,
         base |-> Seed, cp |-> Seed, published |-> FALSE]
Kinds == {"daily", "rebalance"}

TypeOK ==
  /\ today \in Sessions
  /\ artifacts \subseteq Artifact /\ IsFiniteSet(artifacts)
  /\ run \in [Runs -> [pc : {"idle", "restore", "compute", "publish", "end", "completed"},
       kind : Kinds, session : 0 .. LastSession, attempt : 0 .. 2,
       base : Checkpoint, cp : Checkpoint, published : BOOLEAN]]

Init ==
  /\ today = 1
  /\ artifacts = Legacy
  /\ run = [r \in Runs |-> Idle]

Set(r, new) == run' = [run EXCEPT ![r] = new]

-------------------------------------------------------------------------------
(* fetch_latest.                                                                *)

\* A completed run of the three workflows in whose latest attempt the step Publish
\* verified member checkpoint succeeded; whatever else failed in it.
Eligible(a) == a.run = "legacy" \/ (run[a.run].pc = "completed" /\ run[a.run].published)

\* Later session first, then the handed-off state before the one that waits for it.
UploadRank(a) == a.id   \* mutant: the newest upload wins
Rank(a) == 2 * a.cp.day + IF a.cp.phase = "current" THEN 1 ELSE 0

Best(arts) == {a \in arts : \A b \in arts : Rank(b) <= Rank(a)}

\* What the restore step ends with: the newest readable candidate, an error when
\* the newest ones disagree or old ones cannot be ordered, the seed when there is
\* none.  Undated artifacts are only considered when no dated one is acceptable.
Fetch(ceiling) ==
  LET within == {a \in artifacts : Eligible(a) /\ (~a.dated => Cardinality(
                   {b \in artifacts : ~b.dated}) <= MaxLegacy)}
      named == {a \in within : a.dated => a.cp.day <= ceiling}
      valid == {a \in named : a.readable /\ a.cp.day <= ceiling}
      dated == {a \in valid : a.dated}
      newest == {a.cp : a \in Best(IF dated # {} THEN dated ELSE valid)}
      unordered == Cardinality({a \in artifacts : ~a.dated}) > MaxLegacy
      modern == \E a \in artifacts : a.dated /\ a.cp.day <= ceiling
  IN
  IF unordered /\ ~modern THEN [result |-> "error"]
  ELSE IF newest # {}
  THEN IF Cardinality(newest) = 1
       THEN [result |-> "found", cp |-> CHOOSE cp \in newest : TRUE]
       ELSE [result |-> "conflict"]
  ELSE IF unordered \/ named # {} THEN [result |-> "error"]
  ELSE [result |-> "found", cp |-> Seed]

-------------------------------------------------------------------------------
(* One run.                                                                     *)

Active(r) == run[r].pc \notin {"idle", "completed"}

\* Each workflow has a concurrency group of its own, one run at a time.
GroupFree(k) == \A r \in Runs : Active(r) => run[r].kind # k

Start(r, k) ==
  /\ run[r].pc = "idle" /\ GroupFree(k)
  /\ k = "rebalance" => today \in Rebalances
  /\ Set(r, [Idle EXCEPT !.pc = "restore", !.kind = k, !.session = today, !.attempt = 1])
  /\ UNCHANGED <<today, artifacts>>

\* A re-run belongs to the day it happens on; the steps of the attempt before are
\* no longer those of the run, its artifacts are.
Rerun(r) ==
  /\ run[r].pc = "completed" /\ run[r].attempt = 1 /\ GroupFree(run[r].kind)
  /\ Cardinality({q \in Runs : run[q].attempt = 2}) < MaxReruns
  /\ run[r].kind = "rebalance" => today \in Rebalances
  /\ Set(r, [run[r] EXCEPT !.pc = "restore", !.session = today, !.attempt = @ + 1,
                           !.published = FALSE])
  /\ UNCHANGED <<today, artifacts>>

Restore(r) ==
  LET f == Fetch(run[r].session) IN
  /\ run[r].pc = "restore"
  /\ Set(r, IF f.result = "found" THEN [run[r] EXCEPT !.pc = "compute", !.base = f.cp]
                                  ELSE [run[r] EXCEPT !.pc = "end"])
  /\ UNCHANGED <<today, artifacts>>

\* External: the strategy's helpers.  The daily signal keeps the membership and
\* waits for the handoff from the close of a rebalance day on; the handoff binds
\* the next membership to the close of its day.  A checkpoint of the same day is
\* rendered as it is, without fetching anything.

Result(r, rev) ==
  LET b == run[r].base
      d == run[r].session
  IN
  IF b.day = d /\ (run[r].kind = "daily" \/ b.phase = "current") THEN b
  ELSE IF run[r].kind = "rebalance"
  THEN [day |-> d, phase |-> "current", members |-> b.members + 1, rev |-> rev]
  ELSE [day |-> d, members |-> b.members, rev |-> rev,
        phase |-> IF d \in Rebalances THEN "awaiting_handoff" ELSE b.phase]

Compute(r) ==
  /\ run[r].pc = "compute"
  /\ \/ \E rev \in Revisions : Set(r, [run[r] EXCEPT !.pc = "publish", !.cp = Result(r, rev)])
     \/ Set(r, [run[r] EXCEPT !.pc = "end"])     \* a source fails: nothing to publish
  /\ UNCHANGED <<today, artifacts>>

\* The upload, which the daily workflow may fail without failing the report.  What
\* arrives may be unreadable.
Publish(r) ==
  /\ run[r].pc = "publish"
  /\ \/ /\ \E readable \in BOOLEAN :
             artifacts' = artifacts \cup {[id |-> Cardinality(artifacts) + 1, dated |-> TRUE,
                readable |-> readable, run |-> r, cp |-> run[r].cp]}
        /\ Set(r, [run[r] EXCEPT !.pc = "end", !.published = TRUE])
     \/ UNCHANGED artifacts /\ Set(r, [run[r] EXCEPT !.pc = "end"])
  /\ UNCHANGED today

\* The run completes, also when the runner dies, is cancelled or a step fails.
Complete(r) ==
  /\ Active(r)
  /\ Set(r, [run[r] EXCEPT !.pc = "completed"])
  /\ UNCHANGED <<today, artifacts>>

NextSession ==
  /\ today < LastSession
  /\ today' = today + 1
  /\ UNCHANGED <<artifacts, run>>

Next ==
  \/ \E r \in Runs : \/ \E k \in Kinds : Start(r, k)
                     \/ Rerun(r) \/ Restore(r) \/ Compute(r) \/ Publish(r) \/ Complete(r)
  \/ NextSession

Spec == Init /\ [][Next]_vars

-------------------------------------------------------------------------------
\* While a run is re-run it is not completed, so its own checkpoint is withdrawn from
\* everybody, itself included: the day is computed again and may disagree with the
\* first attempt.
NoReruns == \A r \in Runs : run[r].attempt <= 1

\* The restore never meets two different states of one session and phase: the
\* second run of a day finds the first one's checkpoint and renders it instead of
\* computing again.  Such a conflict would stop every later run (fetch_latest).
NoConflict ==
  NoReruns => \A d \in Sessions : Fetch(d).result # "conflict"

\* The two workflows of a rebalance day publish in either order, and the state that
\* waits for the handoff may be uploaded last: it never undoes the handoff of the
\* same close (test_member_split_rebalance_audit.py).
HandoffIsKept ==
  [][\A r \in Runs : (run[r].pc = "restore" /\ run'[r].pc = "compute"
                      /\ run'[r].base.phase = "awaiting_handoff") =>
       ~ \E a \in artifacts : /\ Eligible(a) /\ a.readable
                              /\ a.cp.day = run'[r].base.day /\ a.cp.phase = "current"]_vars

\* A readable checkpoint of a completed daily run is never skipped: every run of a
\* later session starts from that session or a later one.
NoSessionIsLost ==
  [][\A r \in Runs : run[r].pc = "restore" /\ run'[r].pc = "compute" =>
       \A a \in artifacts :
         (Eligible(a) /\ a.readable /\ a.cp.day <= run[r].session) =>
            a.cp.day <= run'[r].base.day]_vars

-------------------------------------------------------------------------------
\* What a run starts from is the chain of published checkpoints: states of one session never
\* conflict, no published session is skipped, and a state that waits for the handoff never
\* undoes the handoff of its close (restore_microcap_member_checkpoint.py).
ChainIsContinued == [](TypeOK /\ NoConflict) /\ NoSessionIsLost /\ HandoffIsKept
=================================================================================
