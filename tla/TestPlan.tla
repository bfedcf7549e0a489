---------------------------------- MODULE TestPlan ----------------------------------
(* The evidence of the local test gate: how the core tests are dealt to parallel    *)
(* processes, when a group of tests counts as passed, and when the groups of an     *)
(* earlier gate may be taken over by a repaired one.                                *)
(*   docs/acceptance/local_gate_20261105/daily_microcap_group_worker.py,            *)
(*   docs/acceptance/local_gate_20261106/flow15/realtime_daily_gate.py              *)
EXTENDS Integers, Sequences, FiniteSets, FiniteSetsExt

-------------------------------------------------------------------------------
(* plan_nodes. A test: [file, n, cost]; a job: a set of tests.                     *)

JobCost(job) == MapThenSumSet(LAMBDA t : t.cost, job)
OfFile(tests, f) == {t \in tests : t.file = f}
\* A file heavier than 0.55 of a fair share is dealt test by test.
Heavy(tests, shards, f) == 100 * shards * JobCost(OfFile(tests, f)) > 55 * JobCost(tests)
Jobs(tests, shards) ==
  LET files == {t.file : t \in tests} IN
    {OfFile(tests, f) : f \in {g \in files : ~Heavy(tests, shards, g)}}
      \cup {{t} : t \in {u \in tests : Heavy(tests, shards, u.file)}}

Heaviest(jobs) == CHOOSE j \in jobs : \A k \in jobs : JobCost(k) <= JobCost(j)
LeastLoaded(loads) ==
  CHOOSE i \in DOMAIN loads : \A k \in DOMAIN loads : loads[i] < loads[k] \/ (loads[i] = loads[k] /\ i <= k)
\* The n heaviest jobs dealt, each to the shard with the least load.
Dealt(tests, shards) ==
  LET jobs == Jobs(tests, shards)
      deal[n \in 0 .. Cardinality(jobs)] ==
        IF n = 0
        THEN [left |-> jobs, plan |-> [i \in 1..shards |-> {}], load |-> [i \in 1..shards |-> 0]]
        ELSE LET d == deal[n - 1]  j == Heaviest(d.left)  i == LeastLoaded(d.load) IN
               [left |-> d.left \ {j}, plan |-> [d.plan EXCEPT ![i] = @ \cup {j}],
                load |-> [d.load EXCEPT ![i] = @ + JobCost(j)]]
  IN deal[Cardinality(jobs)]
\* The plan is refused when a shard is empty or a test was lost or dealt twice.
PlanRefused(tests, shards) ==
  LET d == Dealt(tests, shards) IN
    \/ \E i \in 1..shards : d.plan[i] = {}
    \/ UNION {UNION d.plan[i] : i \in 1..shards} # tests
    \/ MapThenSumSet(LAMBDA i : Cardinality(UNION d.plan[i]), 1..shards) # Cardinality(tests)

-------------------------------------------------------------------------------
(* The evidence of a group: [exit, timed, confirmed, collected, selected, dropped,  *)
(* executed, cases, told, guard, files]. The collected, selected and executed tests *)
(* are sequences in order; cases: bags of outcomes [test -> set of outcome ids];    *)
(* told: what the report sums up; files: the files the group stands for.            *)

Distinct(s) == \A i, j \in DOMAIN s : s[i] = s[j] => i = j
Elements(s) == {s[i] : i \in DOMAIN s}
Outcomes(e, kind) == {c \in e.cases : c.outcome = kind}
FilesOf(s) == {t.file : t \in Elements(s)}

\* junit_counts: a case [test, run, outcome]; the sums are recounted, no file may be missing.
CountsSound(e) ==
  /\ e.told.tests = Cardinality(e.cases) /\ e.told.failed = Cardinality(Outcomes(e, "failed"))
  /\ e.told.skipped = Cardinality(Outcomes(e, "skipped"))
  /\ \A f \in e.files : \E c \in e.cases : c.test.file = f
\* validate_collection
CollectionUncounted(e) == e.selected # <<>> /\ e.dropped = {} /\ e.executed = e.selected   \* mutant
CollectionSound(e) ==
  /\ e.selected # <<>> /\ Distinct(e.selected) /\ e.dropped = {}
  /\ e.collected = e.selected /\ e.executed = e.selected
  /\ Len(e.selected) = e.told.tests
\* guard_evidence
GuardSound(e) == e.guard.started /\ ~e.guard.blocked
\* gate, micro_groups
GroupPassed(e) ==
  /\ e.exit = 0 /\ CountsSound(e)
  /\ e.told.tests > 0 /\ e.told.failed = 0 /\ e.told.skipped = 0
  /\ CollectionSound(e) /\ GuardSound(e)
\* icim_supplemental_group: no guard around it, but its five files and their sources are compared.
SupplementPassed(e, sourceKept) ==
  /\ e.exit = 0 /\ CountsSound(e) /\ CollectionSound(e) /\ sourceKept
  /\ FilesOf(e.selected) = e.files
  /\ e.told.tests > 0 /\ e.told.failed = 0 /\ e.told.skipped = 0

\* The IC/IM-only gate: the official tests write a receipt [tests, bad, code, kept] of their
\* own (a receipt with tests |-> -1 stands for none); the five others are a group as above.
OfficialPassed(exit, r) == exit = 0 /\ r.tests >= 0 /\ r.kept /\ r.code = 0 /\ r.bad = 0
IndependentPassed(exit, r, five, sourceKept) == OfficialPassed(exit, r) /\ SupplementPassed(five, sourceKept)
\* verify_group_evidence: what the run that uses the gate reads in it once more.
EvidenceCounted(r, five) ==
  /\ r.tests > 0 /\ r.bad = 0
  /\ five.told.tests > 0 /\ five.told.failed = 0 /\ five.told.skipped = 0
EvidenceAccepted(exit, r, five, sourceKept) ==
  IndependentPassed(exit, r, five, sourceKept) /\ exit = 0 /\ five.exit = 0 /\ EvidenceCounted(r, five)

-------------------------------------------------------------------------------
(* Resuming: a gate that failed in one reviewed group may hand its other groups to  *)
(* a gate that runs that group again. A gate record: [pass, purpose, released,      *)
(* resumed, begin, end, binds, pins, remote, alive, sealed, groups]; a group:       *)
(* [pass, exit, timed, confirmed, same, evidence, begin, end]. Clocks are [day, t]. *)

GateGroups == {"core30", "release6", "share_source2", "icim", "icim5"}
NotAfter(a, b) == a.day < b.day \/ (a.day = b.day /\ a.t <= b.t)
\* _same_day_clock
SameDay(a, b, now) == NotAfter(a, b) /\ NotAfter(b, now) /\ a.day = now.day /\ b.day = now.day
\* _resume_archive: the reviewed record, its archive and the files beside it are unchanged.
ArchiveSound(g) == g.sealed
\* _resume_processes_finished: no recorded process of the earlier gate is alive.
ProcessesGone(g) == ~g.alive
\* _resume_group: complete, successful, of exactly its files and of today. The tests a
\* release manifest deselects by name are not part of the evidence.
GroupStands(x, now) ==
  /\ x.pass /\ x.exit = 0 /\ ~x.timed /\ x.confirmed
  /\ x.same /\ GroupPassed(x.evidence) /\ FilesOf(x.evidence.selected) = x.evidence.files
  /\ SameDay(x.begin, x.end, now)

Replayed(kind) == CASE kind = "core" -> {"core30"} [] kind = "share" -> {"share_source2"}
                    [] kind = "icim" -> {"core30", "release6", "share_source2"}
\* The failure a review was written for: a timeout that killed its processes, or one failed test.
ReviewedFailure(kind, g) ==
  CASE kind = "core" -> LET x == g.groups["core30"] IN ~x.pass /\ x.timed /\ x.confirmed
    [] kind = "share" -> LET x == g.groups["share_source2"] IN ~x.pass /\ x.exit = 1
    [] kind = "icim" -> g.pass
\* What every takeover asks of the earlier gate; now: the new gate's [day, t, binds, pins, remote].
TakenOver(kind, g, now) ==
  /\ ArchiveSound(g) /\ SameDay(g.begin, g.end, now) /\ g.purpose = "maintenance"
  /\ g.binds = now.binds /\ g.pins = now.pins
  /\ ReviewedFailure(kind, g)
  /\ \A x \in GateGroups \ Replayed(kind) : GroupStands(g.groups[x], now)
\* validate_share_resume, validate_core_resume
FailureResumable(kind, g, now) ==
  /\ TakenOver(kind, g, now) /\ (kind = "core" => ProcessesGone(g))
  /\ ~g.pass /\ ~g.released /\ ~g.resumed /\ g.remote = now.remote
\* validate_unchanged_icim_reuse: a green gate's IC/IM groups, after an edit of Microcap.
IcimReusable(g, now) == TakenOver("icim", g, now) /\ ProcessesGone(g) /\ g.pass
Resumable(kind, g, now) ==
  IF kind = "icim" THEN IcimReusable(g, now) ELSE FailureResumable(kind, g, now)
\* gate: what was taken over is read again when the replayed group has ended.
ReadAgain(kind, g, later) ==
  /\ ArchiveSound(g) /\ (kind # "share" => ProcessesGone(g))
  /\ g.binds = later.binds /\ g.pins = later.pins
  /\ IF kind = "icim"
     THEN SameDay(g.begin, g.end, later) /\ \A x \in GateGroups \ Replayed(kind) : GroupStands(g.groups[x], later)
     ELSE g.remote = later.remote /\ SameDay(g.begin, g.end, later)
ReplayComplete(kind, old, new) ==
  GroupPassed(new) /\ (kind # "icim" => new.selected = old.selected)
\* fresh: the evidence of the groups that ran again.
ResumedPass(kind, g, now, later, fresh) ==
  /\ Resumable(kind, g, now) /\ ReadAgain(kind, g, later)
  /\ \A x \in Replayed(kind) : ReplayComplete(kind, g.groups[x].evidence, fresh[x])

-------------------------------------------------------------------------------
(* Properties                                                                      *)

\* Dealing the core tests loses and repeats none, and it is fair: a process is ahead of
\* another by no more than the cost of one of its own jobs (plan_nodes: the heaviest job
\* first, always to the least loaded).
EveryTestOnceAndFair(tests, shards) ==
  LET d == Dealt(tests, shards) IN
    /\ UNION {UNION d.plan[i] : i \in 1..shards} = tests
    /\ \A i, k \in 1..shards :
         /\ i # k => (UNION d.plan[i]) \cap (UNION d.plan[k]) = {}
         /\ d.plan[i] # {} => \E j \in d.plan[i] : d.load[i] - JobCost(j) <= d.load[k]
    /\ PlanRefused(tests, shards) => \E i \in 1..shards : d.plan[i] = {}

\* pytest reports a case only for a test it ran: both records come from the same processes.
\* The gate compares no more than their numbers.
ReportedRan(e) == \A c \in e.cases : c.test \in Elements(e.executed)

\* A group that counts as passed ran every test it stands for exactly once and none of them
\* failed or was skipped, in a process whose network and writes were
\* guarded where the group has a guard.
GreenMeansAllRan(e) ==
  ReportedRan(e) /\ (GroupPassed(e) \/ SupplementPassed(e, TRUE)) =>
    /\ e.files \subseteq FilesOf(e.executed)
    /\ Cardinality(Elements(e.executed)) = Cardinality(e.cases)
    /\ Elements(e.collected) = Elements(e.executed)
    /\ \A c \in e.cases : c.outcome = "passed"
    /\ GroupPassed(e) => ~e.guard.blocked

\* Signals of the IC/IM-only route rest on tests that ran: the official ones at least one of
\* them, the five files completely, and the sources were the same before and after.  The gate
\* itself would pass a receipt that counts no test.
IndependentRunsRestOnTests(exit, r, five, sourceKept) ==
  EvidenceAccepted(exit, r, five, sourceKept) =>
    /\ r.tests > 0 /\ r.bad = 0 /\ r.code = 0 /\ r.kept /\ sourceKept
    /\ GreenMeansAllRan(five) /\ SupplementPassed(five, sourceKept)

\* A resumed gate is worth a full one of today: every group it takes over ran completely and
\* passed earlier the same day for the same sources and tools, no process of the earlier gate
\* still writes, and the group that had failed ran again with the very same tests.
ReuseIsFromToday(kind, g, now, later, fresh) ==
  ResumedPass(kind, g, now, later, fresh) =>
    /\ \A x \in GateGroups \ Replayed(kind) :
         /\ GreenMeansAllRan(g.groups[x].evidence) /\ GroupPassed(g.groups[x].evidence)
         /\ FilesOf(g.groups[x].evidence.executed) = g.groups[x].evidence.files
         /\ g.groups[x].end.day = later.day
    /\ g.begin.day = later.day /\ g.binds = later.binds /\ g.pins = later.pins
    /\ \A x \in Replayed(kind) :
         /\ GroupPassed(fresh[x])
         /\ kind # "icim" => Elements(fresh[x].executed) = Elements(g.groups[x].evidence.selected)
    /\ kind = "core" => ~g.alive
================================================================================
