-------------------------- MODULE StartingPointsProofs --------------------------
(* What a microcap or IC/IM run starts from and is started by is sound for every     *)
(* number of days, sessions, runs, attempts, bundles and page sizes: one inductive   *)
(* invariant per part (the chain of checkpoints, the approved seed, the cron worker, *)
(* the local member run, the earlier digest, the refresh, the search for a state),   *)
(* and their composition.                                                            *)
EXTENDS MCCheckpoint, TLAPS, SequenceTheorems, FiniteSetTheorems, WellFoundedInduction
-------------------------------------------------------------------------------
(* The chain of member checkpoints, for every set of runs, calendar of rebalances    *)
(* and set of undated artifacts.  What a run continues from is the best published     *)
(* state (Continued), and as long as no run is re-run there is at most one state of a  *)
(* session and phase (Agreed).                                                        *)

Job == [pc : {"idle", "restore", "compute", "publish", "end", "completed"},
        kind : Kinds, session : 0 .. LastSession, attempt : 0 .. 2,
        base : Checkpoint, cp : Checkpoint, published : BOOLEAN]

CpRank(cp) == 2 * cp.day + IF cp.phase = "current" THEN 1 ELSE 0
SameKey(c, d) == c.day = d.day /\ c.phase = d.phase

\* What a later run may read, those whose run has not completed included.
Readable(A) == {a \in A : a.readable}
States(A) == {a.cp : a \in Readable(A)}

\* The artifacts of a chain: the undated ones are those from before, the others are of a
\* session, no better undated one exists, and none at all when the undated are too many.
ArtifactsKept(A) ==
  /\ A \subseteq Artifact /\ IsFiniteSet(A)
  /\ {a \in A : ~a.dated} = Legacy
  /\ \A a \in A : Sized(a.cp)
  /\ \A a \in A : a.dated => a.run \in Runs /\ a.cp.day \in Sessions
  /\ Cardinality(Legacy) > MaxLegacy => A = Legacy
  /\ \A l \in Legacy, a \in A : l.readable /\ a.dated => CpRank(l.cp) <= CpRank(a.cp)

\* What a job has read and computed: never older than a readable undated state.
JobKept(j, now) ==
  /\ j.pc = "idle" => j = Idle
  /\ j.session <= now
  /\ j.pc # "idle" => j.session \in Sessions
  /\ j.pc \in {"compute", "publish"} =>
       /\ Cardinality(Legacy) <= MaxLegacy
       /\ Sized(j.base) /\ j.base.day <= j.session
       /\ \A l \in Legacy : l.readable => CpRank(l.cp) <= CpRank(j.base)
  /\ j.pc = "publish" =>
       /\ Sized(j.cp) /\ j.cp.day = j.session
       /\ \A l \in Legacy : l.readable => CpRank(l.cp) <= CpRank(j.cp)

\* One run of a workflow at a time.
OneOfAKind == \A p, q \in Runs : Active(p) /\ Active(q) /\ run[p].kind = run[q].kind => p = q

ChainInv ==
  /\ TypeOK
  /\ ArtifactsKept(artifacts)
  /\ \A r \in Runs : JobKept(run[r], today)
  /\ OneOfAKind

-------------------------------------------------------------------------------
(* Without re-runs.  Rs stands for run.                                           *)

\* The states rebalance runs published, and those from before.
Handed(A, Rs) == {a.cp : a \in {b \in Readable(A) : b.run = "legacy" \/ Rs[b.run].kind = "rebalance"}}
\* The states daily runs published, and those from before.
Daily(A, Rs) == {a.cp : a \in {b \in Readable(A) : b.run = "legacy" \/ Rs[b.run].kind = "daily"}}

\* A published checkpoint is its run's, which does nothing more.
RunsArtifact(a, Rs) ==
  LET j == Rs[a.run] IN
  /\ j.pc \in {"end", "completed"} /\ j.published
  /\ j.kind = "rebalance" => a.cp.day \in Rebalances /\ a.cp.phase = "current"

\* One state of a session and phase; what holds the next membership at the close of a
\* rebalance day is a handed-off state or a copy of one.
StatesAgree(A, Rs) ==
  /\ \A c, d \in States(A) : SameKey(c, d) => c = d
  /\ \A c \in States(A) : c.day \in Rebalances /\ c.phase = "current" => c \in Handed(A, Rs)

\* A run found what its workflow published of the session, and the handoff.
Started(j, A, Rs) ==
  /\ j.base \in {Seed} \cup States(A)
  /\ j.kind = "daily" => \A c \in Daily(A, Rs) : c.day = j.session => j.base.day = j.session
  /\ j.kind = "rebalance" =>
       \A c \in States(A) : c.day = j.session /\ c.phase = "current" => SameKey(c, j.base)

\* What a run is about to publish contradicts nothing.
Pending(j, A, Rs) ==
  /\ \A c \in States(A) : SameKey(c, j.cp) => c = j.cp
  /\ j.kind = "rebalance" => j.cp.phase = "current"
  /\ j.kind = "daily" /\ j.cp.phase = "current" /\ j.cp.day \in Rebalances => j.cp \in Handed(A, Rs)

JobAgrees(j, A, Rs) ==
  /\ j.pc \notin {"idle", "completed"} /\ j.kind = "rebalance" => j.session \in Rebalances
  /\ j.published => j.pc \in {"end", "completed"}
  /\ j.pc = "compute" => Started(j, A, Rs)
  /\ j.pc = "publish" => Pending(j, A, Rs)

Agreed ==
  /\ \A a \in artifacts : a.dated => RunsArtifact(a, run)
  /\ StatesAgree(artifacts, run)
  /\ \A r \in Runs : JobAgrees(run[r], artifacts, run)

AgreedInv == NoReruns => Agreed

-------------------------------------------------------------------------------
(* Constants, types and ranks.                                                   *)

LEMMA Constants ==
  /\ LastSession \in Nat \ {0} /\ Rebalances \subseteq Sessions /\ Sessions \subseteq Nat \ {0}
  /\ MaxReruns \in Nat /\ MaxLegacy \in Nat
  /\ "legacy" \notin Runs
  /\ Legacy \subseteq Artifact
  /\ \A l \in Legacy : ~l.dated /\ l.run = "legacy" /\ l.cp.day <= 1 /\ Sized(l.cp)
  /\ IsFiniteSet(Legacy) /\ Cardinality(Legacy) \in Nat
  /\ \A a, b \in Legacy : SameKey(a.cp, b.cp) => a.cp = b.cp
BY CheckpointAssumption, FS_CardinalityType DEF Sessions, SameKey

LEMMA CheckpointFields ==
  ASSUME NEW c \in Checkpoint
  PROVE  /\ c.day \in 0 .. LastSession /\ c.day \in Nat
         /\ c.phase \in {"current", "awaiting_handoff"}
         /\ c.members \in Nat
         /\ CpRank(c) \in Nat
BY Constants DEF Checkpoint, CpRank

LEMMA ArtifactFields ==
  ASSUME NEW a \in Artifact
  PROVE  /\ a.id \in Int /\ a.dated \in BOOLEAN /\ a.readable \in BOOLEAN
         /\ a.run \in Runs \cup {"legacy"} /\ a.cp \in Checkpoint
         /\ Rank(a) = CpRank(a.cp)
BY DEF Artifact, Rank, CpRank

LEMMA JobFields ==
  ASSUME NEW j \in Job
  PROVE  /\ j.pc \in {"idle", "restore", "compute", "publish", "end", "completed"}
         /\ j.kind \in Kinds /\ j.session \in 0 .. LastSession /\ j.attempt \in 0 .. 2
         /\ j.base \in Checkpoint /\ j.cp \in Checkpoint /\ j.published \in BOOLEAN
BY DEF Job

LEMMA SeedType == Seed \in Checkpoint /\ Sized(Seed) /\ Seed.day = 0 /\ Seed.phase = "current" /\ CpRank(Seed) = 1
BY Constants DEF Seed, Checkpoint, Sized, CpRank

\* The order of ranks is the order of sessions, the handed-off state last.
LEMMA RankOrder ==
  ASSUME NEW c \in Checkpoint, NEW d \in Checkpoint
  PROVE  /\ CpRank(c) <= CpRank(d) => c.day <= d.day
         /\ c.day < d.day => CpRank(c) <= CpRank(d)
         /\ CpRank(c) <= CpRank(d) /\ c.day = d.day /\ c.phase = "current" => d.phase = "current"
         /\ SameKey(c, d) <=> CpRank(c) = CpRank(d)
BY CheckpointFields, SMTT(30) DEF CpRank, SameKey

LEMMA IdleType ==
  /\ Idle \in Job /\ Idle.pc = "idle" /\ Idle.session = 0 /\ Idle.attempt = 0 /\ ~Idle.published
BY SeedType, Constants DEF Idle, Job, Kinds

LEMMA RunType == TypeOK <=> /\ today \in Sessions
                            /\ artifacts \subseteq Artifact /\ IsFiniteSet(artifacts)
                            /\ run \in [Runs -> Job]
BY DEF TypeOK, Job

LEMMA StatesType ==
  ASSUME NEW A \in SUBSET Artifact
  PROVE  States(A) \subseteq Checkpoint
BY ArtifactFields DEF States, Readable

-------------------------------------------------------------------------------
(* What the restore step finds.                                                  *)

\* The parts of Fetch.
Named(d) == {a \in artifacts : /\ Eligible(a) /\ (~a.dated => Cardinality(Legacy) <= MaxLegacy)
                                    /\ (a.dated => a.cp.day <= d)}
Valid(d) == {a \in Named(d) : a.readable /\ a.cp.day <= d}
ValidDated(d) == {a \in Valid(d) : a.dated}
Choice(d) == Best(IF ValidDated(d) # {} THEN ValidDated(d) ELSE Valid(d))
Newest(d) == {a.cp : a \in Choice(d)}
Unordered == Cardinality(Legacy) > MaxLegacy
Modern(d) == \E a \in artifacts : a.dated /\ a.cp.day <= d

LEMMA FetchParts ==
  ASSUME NEW d, ArtifactsKept(artifacts)
  PROVE  Fetch(d) = IF Unordered /\ ~Modern(d) THEN [result |-> "error"]
                    ELSE IF Newest(d) # {}
                    THEN IF Cardinality(Newest(d)) = 1
                         THEN [result |-> "found", cp |-> CHOOSE cp \in Newest(d) : TRUE]
                         ELSE [result |-> "conflict"]
                    ELSE IF Unordered \/ Named(d) # {} THEN [result |-> "error"]
                    ELSE [result |-> "found", cp |-> Seed]
<1>1. {b \in artifacts : ~b.dated} = Legacy
  BY DEF ArtifactsKept
<1> DEFINE within == {a \in artifacts : Eligible(a) /\ (~a.dated => Cardinality(
                         {b \in artifacts : ~b.dated}) <= MaxLegacy)}
           named == {a \in within : a.dated => a.cp.day <= d}
           valid == {a \in named : a.readable /\ a.cp.day <= d}
<1>2. named = Named(d)
  BY <1>1 DEF Named
<1>3. valid = Valid(d)
  BY <1>2 DEF Valid
<1> QED
  BY <1>1, <1>2, <1>3 DEF Fetch, ValidDated, Choice, Newest, Unordered, Modern

\* A found state is the seed or a readable one of a session that has come; and nothing
\* a completed run has published of these sessions is better.
LEMMA FetchFinds ==
  ASSUME TypeOK, ArtifactsKept(artifacts), NEW d \in Sessions, Fetch(d).result = "found"
  PROVE  /\ Cardinality(Legacy) <= MaxLegacy
         /\ Fetch(d).cp \in {Seed} \cup States(artifacts)
         /\ Fetch(d).cp \in Checkpoint /\ Sized(Fetch(d).cp) /\ Fetch(d).cp.day <= d
         /\ \A a \in Readable(artifacts) :
              Eligible(a) /\ a.cp.day <= d => CpRank(a.cp) <= CpRank(Fetch(d).cp)
<1> DEFINE c == Fetch(d).cp
<1> USE Constants
<1>1. ~(Unordered /\ ~Modern(d))
  BY FetchParts
<1>2. Cardinality(Legacy) <= MaxLegacy
  BY <1>1, ArtifactFields DEF Unordered, Modern, ArtifactsKept
<1>3. CASE Newest(d) # {}
  <2>1. c \in Newest(d)
    BY FetchParts, <1>1, <1>3
  <2>2. PICK b \in Choice(d) : c = b.cp
    BY <2>1 DEF Newest
  <2>3. b \in Valid(d) /\ b \in artifacts /\ b \in Artifact /\ b.readable /\ b.cp.day <= d
    BY <2>2 DEF Choice, Best, Valid, ValidDated, Named, ArtifactsKept
  <2>4. c \in States(artifacts) /\ c \in Checkpoint /\ Sized(c) /\ c.day <= d
    BY <2>2, <2>3, ArtifactFields DEF States, Readable, ArtifactsKept
  <2>5. ASSUME NEW a \in Readable(artifacts), Eligible(a), a.cp.day <= d
        PROVE  CpRank(a.cp) <= CpRank(c)
    <3>1. a \in Valid(d) /\ a \in Artifact /\ a \in artifacts /\ a.readable
      BY <2>5, <1>2 DEF Valid, Named, Readable, ArtifactsKept
    <3>2. CASE a.dated \/ ValidDated(d) = {}
      <4>1. Rank(a) <= Rank(b)
        BY <2>2, <3>1, <3>2 DEF Choice, Best, ValidDated
      <4> QED
        BY <4>1, <3>1, <2>2, <2>3, ArtifactFields
    <3>3. CASE ~a.dated /\ ValidDated(d) # {}
      <4>1. b.dated
        BY <2>2, <3>3 DEF Choice, Best, ValidDated
      <4>2. a \in Legacy
        BY <3>1, <3>3 DEF ArtifactsKept
      <4> QED
        BY <4>1, <4>2, <3>1, <2>2, <2>3 DEF ArtifactsKept
    <3> QED
      BY <3>2, <3>3
  <2> QED
    BY <1>2, <2>4, <2>5
<1>4. CASE Newest(d) = {}
  <2>1. Named(d) = {} /\ c = Seed
    BY FetchParts, <1>1, <1>4
  <2>2. c \in Checkpoint /\ Sized(c) /\ c.day <= d
    BY <2>1, SeedType
  <2>3. ASSUME NEW a \in Readable(artifacts), Eligible(a), a.cp.day <= d
        PROVE  FALSE
    BY <2>1, <2>3, <1>2 DEF Named, Readable
  <2> QED
    BY <1>2, <2>1, <2>2, <2>3
<1> QED
  BY <1>3, <1>4

\* Where one state of a session and phase is published, the restore meets no two.
LEMMA FetchAgrees ==
  ASSUME TypeOK, ArtifactsKept(artifacts), Agreed, NEW d \in Sessions
  PROVE  Fetch(d).result # "conflict"
<1>1. SUFFICES ASSUME Newest(d) # {}
               PROVE  Cardinality(Newest(d)) = 1
  BY FetchParts
<1>2. ASSUME NEW c \in Newest(d), NEW e \in Newest(d)
      PROVE  c = e
  <2>1. PICK a \in Choice(d), b \in Choice(d) : c = a.cp /\ e = b.cp
    BY DEF Newest
  <2>2. /\ a \in Readable(artifacts) /\ b \in Readable(artifacts)
        /\ a \in Artifact /\ b \in Artifact
    BY DEF Choice, Best, Valid, ValidDated, Named, ArtifactsKept, Readable
  <2>3. Rank(a) <= Rank(b) /\ Rank(b) <= Rank(a)
    BY DEF Choice, Best
  <2>4. CpRank(c) = CpRank(e) /\ c \in Checkpoint /\ e \in Checkpoint
    BY <2>1, <2>2, <2>3, ArtifactFields, CheckpointFields
  <2>5. c \in States(artifacts) /\ e \in States(artifacts)
    BY <2>1, <2>2 DEF States
  <2> QED
    BY <2>4, <2>5, RankOrder DEF Agreed, StatesAgree
<1>3. PICK c : Newest(d) = {c}
  BY <1>1, <1>2
<1> QED
  BY <1>3, FS_Singleton

-------------------------------------------------------------------------------
(* Steps of one run.                                                             *)

Going(j) == j.pc \notin {"idle", "completed"}

LEMMA Actives == \A r \in Runs : Active(r) <=> Going(run[r])
BY DEF Active, Going

\* The job of r becomes j.  Its workflow was free when it starts or is run again.
LEMMA JobMoves ==
  ASSUME ChainInv, NEW r \in Runs, NEW j \in Job,
         run' = [run EXCEPT ![r] = j], today' = today, ArtifactsKept(artifacts'),
         JobKept(j, today),
         Going(j) => \A q \in Runs \ {r} : Going(run[q]) => run[q].kind # j.kind
  PROVE  ChainInv'
<1>1. TypeOK'
  <2>1. run' \in [Runs -> Job]
    BY RunType DEF ChainInv
  <2>2. artifacts' \subseteq Artifact /\ IsFiniteSet(artifacts')
    BY DEF ArtifactsKept
  <2>3. today' \in Sessions
    BY DEF ChainInv, TypeOK
  <2> QED
    BY <2>1, <2>2, <2>3 DEF TypeOK, Job
<1>2. run'[r] = j /\ \A q \in Runs : q # r => run'[q] = run[q]
  BY RunType DEF ChainInv
<1>3. (\A q \in Runs : JobKept(run[q], today))'
  BY <1>2 DEF ChainInv
<1>4. OneOfAKind'
  <2> SUFFICES ASSUME NEW p \in Runs, NEW q \in Runs,
                      Going(run'[p]), Going(run'[q]), run'[p].kind = run'[q].kind
               PROVE  p = q
    BY DEF OneOfAKind, Active, Going
  <2>1. CASE p # r /\ q # r
    BY <1>2, <2>1, Actives DEF ChainInv, OneOfAKind
  <2>2. CASE p = r \/ q = r
    BY <1>2, <2>2
  <2> QED
    BY <2>1, <2>2
<1> QED
  BY <1>1, <1>3, <1>4 DEF ChainInv

\* While a run is going its workflow is taken.
LEMMA Alone ==
  ASSUME ChainInv, NEW r \in Runs, Going(run[r]), NEW j, j.kind = run[r].kind
  PROVE  \A q \in Runs \ {r} : Going(run[q]) => run[q].kind # j.kind
BY Actives DEF ChainInv, OneOfAKind

\* The job of a run that starts.
Fresh(k) == [Idle EXCEPT !.pc = "restore", !.kind = k, !.session = today, !.attempt = 1]

LEMMA FreshJob ==
  ASSUME today \in Sessions, NEW k \in Kinds
  PROVE  /\ Fresh(k) \in Job /\ Fresh(k).pc = "restore" /\ Fresh(k).kind = k
         /\ Fresh(k).session = today /\ ~Fresh(k).published
<1> DEFINE j1 == [Idle EXCEPT !.pc = "restore", !.kind = k]
           j2 == [j1 EXCEPT !.session = today]
<1>1. today \in 0 .. LastSession
  BY Constants DEF Sessions
<1>2. j1 \in Job /\ j1.pc = "restore" /\ j1.kind = k /\ ~j1.published
  BY IdleType DEF Job
<1>3. Fresh(k) = [[j1 EXCEPT !.session = today] EXCEPT !.attempt = 1]
  BY DEF Fresh
<1> HIDE DEF j1
<1>4. j2 \in Job /\ j2.pc = "restore" /\ j2.kind = k /\ ~j2.published /\ j2.session = today
  BY <1>1, <1>2 DEF Job
<1>5. Fresh(k) = [j2 EXCEPT !.attempt = 1]
  BY <1>3
<1> HIDE DEF j2
<1> QED
  BY <1>4, <1>5 DEF Job

LEMMA StartKeeps ==
  ASSUME ChainInv, NEW r \in Runs, NEW k \in Kinds, Start(r, k)
  PROVE  ChainInv'
<1> DEFINE j == Fresh(k)
<1>1. j \in Job /\ j.pc = "restore" /\ j.kind = k /\ j.session = today
  BY FreshJob DEF ChainInv, TypeOK
<1>2. /\ run' = [run EXCEPT ![r] = j] /\ today' = today /\ artifacts' = artifacts
      /\ \A q \in Runs : Going(run[q]) => run[q].kind # k
  BY Actives DEF Start, Set, GroupFree, Fresh
<1> HIDE DEF j
<1>3. JobKept(j, today)
  BY <1>1, Constants DEF JobKept, ChainInv, TypeOK
<1> QED
  BY <1>1, <1>2, <1>3, JobMoves DEF ChainInv

LEMMA RerunKeeps ==
  ASSUME ChainInv, NEW r \in Runs, Rerun(r)
  PROVE  ChainInv'
<1> DEFINE j == [run[r] EXCEPT !.pc = "restore", !.session = today, !.attempt = @ + 1,
                               !.published = FALSE]
<1>0. run[r] \in Job /\ run[r].attempt = 1 /\ today \in 0 .. LastSession
  BY RunType, Constants DEF ChainInv, Rerun, TypeOK, Sessions
<1>1. /\ j \in Job /\ j.pc = "restore" /\ j.kind = run[r].kind /\ j.session = today
  <2> DEFINE j1 == [run[r] EXCEPT !.pc = "restore", !.session = today]
             j2 == [j1 EXCEPT !.attempt = @ + 1]
  <2>1. /\ j1 \in Job /\ j1.pc = "restore" /\ j1.kind = run[r].kind /\ j1.session = today
        /\ j1.attempt = 1
    BY <1>0 DEF Job
  <2>0. j = [[j1 EXCEPT !.attempt = run[r].attempt + 1] EXCEPT !.published = FALSE]
    OBVIOUS
  <2> HIDE DEF j1
  <2>2. j2 \in Job /\ j2.pc = "restore" /\ j2.kind = run[r].kind /\ j2.session = today
    BY <2>1 DEF Job
  <2>3. j = [j2 EXCEPT !.published = FALSE]
    BY <1>0, <2>0, <2>1
  <2> HIDE DEF j2
  <2> QED
    BY <2>2, <2>3 DEF Job
<1>2. /\ run' = [run EXCEPT ![r] = j] /\ today' = today /\ artifacts' = artifacts
      /\ \A q \in Runs : Going(run[q]) => run[q].kind # run[r].kind
  BY Actives DEF Rerun, Set, GroupFree
<1> HIDE DEF j
<1>3. JobKept(j, today)
  BY <1>1, Constants DEF JobKept, ChainInv, TypeOK
<1> QED
  BY <1>1, <1>2, <1>3, JobMoves DEF ChainInv

LEMMA CompleteKeeps ==
  ASSUME ChainInv, NEW r \in Runs, Complete(r)
  PROVE  ChainInv'
<1> DEFINE j == [run[r] EXCEPT !.pc = "completed"]
<1>0. run[r] \in Job /\ JobKept(run[r], today) /\ run[r].pc # "idle"
  BY RunType DEF ChainInv, Complete, Active
<1>1. j \in Job /\ j.pc = "completed" /\ j.session = run[r].session
  BY <1>0 DEF Job
<1>2. run' = [run EXCEPT ![r] = j] /\ today' = today /\ artifacts' = artifacts
  BY DEF Complete, Set
<1> HIDE DEF j
<1>3. JobKept(j, today)
  BY <1>0, <1>1 DEF JobKept
<1> QED
  BY <1>1, <1>2, <1>3, JobMoves DEF ChainInv, Going

\* A step that ends the job without publishing.
LEMMA EndKeeps ==
  ASSUME ChainInv, NEW r \in Runs, run[r].pc \in {"restore", "compute", "publish"},
         Set(r, [run[r] EXCEPT !.pc = "end"]), UNCHANGED <<today, artifacts>>
  PROVE  ChainInv'
<1> DEFINE j == [run[r] EXCEPT !.pc = "end"]
<1>0. run[r] \in Job /\ JobKept(run[r], today) /\ Going(run[r])
  BY RunType DEF ChainInv, Going
<1>1. j \in Job /\ j.pc = "end" /\ j.session = run[r].session /\ j.kind = run[r].kind
  BY <1>0 DEF Job
<1>2. run' = [run EXCEPT ![r] = j] /\ today' = today /\ artifacts' = artifacts
  BY DEF Set
<1> HIDE DEF j
<1>3. JobKept(j, today)
  BY <1>0, <1>1 DEF JobKept
<1> QED
  BY <1>0, <1>1, <1>2, <1>3, JobMoves, Alone DEF ChainInv

\* The restore is never behind a readable undated state.
LEMMA FoundIsNotOlder ==
  ASSUME ChainInv, NEW d \in Sessions, Fetch(d).result = "found",
         NEW l \in Legacy, l.readable
  PROVE  CpRank(l.cp) <= CpRank(Fetch(d).cp)
<1>1. l \in artifacts /\ l \in Artifact /\ Eligible(l) /\ l.cp.day <= d
  BY Constants, CheckpointFields, ArtifactFields DEF ChainInv, ArtifactsKept, Eligible
<1> QED
  BY <1>1, FetchFinds DEF Readable, ChainInv

LEMMA RestoreKeeps ==
  ASSUME ChainInv, NEW r \in Runs, Restore(r)
  PROVE  ChainInv'
<1> DEFINE s == run[r].session
<1>0. run[r] \in Job /\ JobKept(run[r], today) /\ run[r].pc = "restore" /\ s \in Sessions
  BY RunType DEF ChainInv, Restore, JobKept
<1>1. CASE Fetch(s).result = "found"
  <2> DEFINE j == [run[r] EXCEPT !.pc = "compute", !.base = Fetch(s).cp]
  <2>1. /\ Cardinality(Legacy) <= MaxLegacy
        /\ Fetch(s).cp \in Checkpoint /\ Sized(Fetch(s).cp) /\ Fetch(s).cp.day <= s
    BY <1>0, <1>1, FetchFinds DEF ChainInv
  <2>2. /\ j \in Job /\ j.pc = "compute" /\ j.session = s /\ j.kind = run[r].kind
        /\ j.base = Fetch(s).cp
    BY <1>0, <2>1 DEF Job
  <2>3. run' = [run EXCEPT ![r] = j] /\ today' = today /\ artifacts' = artifacts
    BY <1>1 DEF Restore, Set
  <2> HIDE DEF j
  <2>4. JobKept(j, today)
    BY <1>0, <1>1, <2>1, <2>2, FoundIsNotOlder DEF JobKept
  <2> QED
    BY <1>0, <2>2, <2>3, <2>4, JobMoves, Alone DEF ChainInv, Going
<1>2. CASE Fetch(s).result # "found"
  BY <1>0, <1>2, EndKeeps DEF Restore
<1> QED
  BY <1>1, <1>2

-------------------------------------------------------------------------------
(* Computing and publishing.                                                     *)

\* What a run computes is of its session and not behind what it started from.
LEMMA ResultIsOn ==
  ASSUME NEW r \in Runs, NEW rev \in Revisions, run[r] \in Job, run[r].session \in Sessions,
         Sized(run[r].base), run[r].base.day <= run[r].session
  PROVE  /\ Result(r, rev) \in Checkpoint /\ Sized(Result(r, rev))
         /\ Result(r, rev).day = run[r].session
         /\ CpRank(run[r].base) <= CpRank(Result(r, rev))
<1> DEFINE b == run[r].base
           d == run[r].session
<1> USE Constants
<1>0. /\ b \in Checkpoint /\ d \in Sessions /\ d \in Nat /\ d <= LastSession /\ d >= 1
      /\ b.day \in Nat /\ b.members \in Nat /\ b.members >= 1 /\ b.phase \in {"current", "awaiting_handoff"}
      /\ run[r].kind \in Kinds
  BY JobFields DEF Checkpoint, Sessions
<1>1. CASE b.day = d /\ (run[r].kind = "daily" \/ b.phase = "current")
  BY <1>0, <1>1, CheckpointFields DEF Result
<1>2. CASE ~(b.day = d /\ (run[r].kind = "daily" \/ b.phase = "current")) /\ run[r].kind = "rebalance"
  <2>1. Result(r, rev) = [day |-> d, phase |-> "current", members |-> b.members + 1, rev |-> rev]
    BY <1>2 DEF Result
  <2>2. b.members + 1 <= d + 1
    BY <1>0, <1>2 DEF Sized
  <2>3. Result(r, rev) \in Checkpoint
    BY <1>0, <2>1, <2>2 DEF Checkpoint
  <2> QED
    BY <1>0, <2>1, <2>2, <2>3 DEF CpRank, Sized
<1>3. CASE ~(b.day = d /\ (run[r].kind = "daily" \/ b.phase = "current")) /\ run[r].kind # "rebalance"
  <2> DEFINE p == IF d \in Rebalances THEN "awaiting_handoff" ELSE b.phase
  <2>1. Result(r, rev) = [day |-> d, phase |-> p, members |-> b.members, rev |-> rev]
    BY <1>3 DEF Result
  <2>2. b.day < d /\ b.members + 1 <= d + 1 /\ p \in {"current", "awaiting_handoff"}
    BY <1>0, <1>3 DEF Sized, Kinds
  <2> HIDE DEF p
  <2>3. Result(r, rev) \in Checkpoint
    BY <1>0, <2>1, <2>2 DEF Checkpoint
  <2> QED
    BY <1>0, <2>1, <2>2, <2>3 DEF CpRank, Sized
<1> QED
  BY <1>1, <1>2, <1>3

LEMMA ComputeKeeps ==
  ASSUME ChainInv, NEW r \in Runs, Compute(r)
  PROVE  ChainInv'
<1>0. run[r] \in Job /\ JobKept(run[r], today) /\ run[r].pc = "compute" /\ run[r].session \in Sessions
  BY RunType DEF ChainInv, Compute, JobKept
<1>1. ASSUME NEW rev \in Revisions, Set(r, [run[r] EXCEPT !.pc = "publish", !.cp = Result(r, rev)])
      PROVE  ChainInv'
  <2> DEFINE c == Result(r, rev)
             j == [run[r] EXCEPT !.pc = "publish", !.cp = c]
  <2>1. /\ c \in Checkpoint /\ Sized(c) /\ c.day = run[r].session
        /\ CpRank(run[r].base) <= CpRank(c)
    BY <1>0, ResultIsOn DEF JobKept
  <2> HIDE DEF c
  <2>2. /\ j \in Job /\ j.pc = "publish" /\ j.session = run[r].session /\ j.kind = run[r].kind
        /\ j.base = run[r].base /\ j.cp = c
    BY <1>0, <2>1 DEF Job
  <2>3. run' = [run EXCEPT ![r] = j] /\ today' = today /\ artifacts' = artifacts
    BY <1>1 DEF Compute, Set, c
  <2> HIDE DEF j
  <2>4. \A l \in Legacy : l.readable => CpRank(l.cp) <= CpRank(c)
    BY <1>0, <2>1, JobFields, CheckpointFields, ArtifactFields, Constants DEF JobKept
  <2>5. JobKept(j, today)
    BY <1>0, <2>1, <2>2, <2>4 DEF JobKept
  <2> QED
    BY <1>0, <2>2, <2>3, <2>5, JobMoves, Alone DEF ChainInv, Going
<1>2. CASE Set(r, [run[r] EXCEPT !.pc = "end"])
  BY <1>0, <1>2, EndKeeps DEF Compute
<1> QED
  BY <1>1, <1>2 DEF Compute

\* The artifact a run uploads.
Upload(r, readable) == [id |-> Cardinality(artifacts) + 1, dated |-> TRUE, readable |-> readable,
                        run |-> r, cp |-> run[r].cp]

LEMMA UploadKept ==
  ASSUME ChainInv, NEW r \in Runs, run[r].pc = "publish", NEW readable \in BOOLEAN
  PROVE  /\ Upload(r, readable) \in Artifact /\ Upload(r, readable).run = r
         /\ Upload(r, readable).dated /\ Upload(r, readable).readable = readable
         /\ Upload(r, readable).cp = run[r].cp
         /\ ArtifactsKept(artifacts \cup {Upload(r, readable)})
<1> DEFINE a == Upload(r, readable)
           A == artifacts \cup {a}
<1>0. run[r] \in Job /\ JobKept(run[r], today)
  BY RunType DEF ChainInv
<1>1. a \in Artifact /\ a.run = r /\ a.dated /\ a.readable = readable /\ a.cp = run[r].cp
  BY <1>0, FS_CardinalityType, JobFields DEF Upload, Artifact, ChainInv, TypeOK
<1> HIDE DEF a
<1>2. A \subseteq Artifact /\ IsFiniteSet(A)
  BY <1>1, FS_AddElement DEF ChainInv, TypeOK
<1>3. {b \in A : ~b.dated} = Legacy
  BY <1>1 DEF ChainInv, ArtifactsKept
<1>4. \A b \in A : Sized(b.cp)
  BY <1>0, <1>1 DEF ChainInv, ArtifactsKept, JobKept
<1>5. \A b \in A : b.dated => b.run \in Runs /\ b.cp.day \in Sessions
  BY <1>0, <1>1 DEF ChainInv, ArtifactsKept, JobKept
<1>6. ~(Cardinality(Legacy) > MaxLegacy)
  BY <1>0, Constants DEF JobKept
<1>7. \A l \in Legacy, b \in A : l.readable /\ b.dated => CpRank(l.cp) <= CpRank(b.cp)
  BY <1>0, <1>1 DEF ChainInv, ArtifactsKept, JobKept
<1>8. ArtifactsKept(A)
  BY <1>2, <1>3, <1>4, <1>5, <1>6, <1>7 DEF ArtifactsKept
<1> QED
  BY <1>1, <1>8 DEF a

LEMMA PublishKeeps ==
  ASSUME ChainInv, NEW r \in Runs, Publish(r)
  PROVE  ChainInv'
<1>0. run[r] \in Job /\ JobKept(run[r], today) /\ run[r].pc = "publish" /\ Going(run[r])
  BY RunType DEF ChainInv, Publish, Going
<1>1. ASSUME NEW readable \in BOOLEAN, artifacts' = artifacts \cup {Upload(r, readable)},
             Set(r, [run[r] EXCEPT !.pc = "end", !.published = TRUE])
      PROVE  ChainInv'
  <2> DEFINE j == [run[r] EXCEPT !.pc = "end", !.published = TRUE]
  <2>1. j \in Job /\ j.pc = "end" /\ j.session = run[r].session /\ j.kind = run[r].kind
    BY <1>0 DEF Job
  <2>2. run' = [run EXCEPT ![r] = j] /\ today' = today
    BY <1>1 DEF Publish, Set
  <2> HIDE DEF j
  <2>3. JobKept(j, today)
    BY <1>0, <2>1 DEF JobKept
  <2> QED
    BY <1>0, <1>1, <2>1, <2>2, <2>3, UploadKept, JobMoves, Alone
<1>2. CASE UNCHANGED artifacts /\ Set(r, [run[r] EXCEPT !.pc = "end"])
  BY <1>0, <1>2, EndKeeps DEF Publish
<1> QED
  BY <1>1, <1>2 DEF Publish, Upload

LEMMA ChainInit == Init => ChainInv
<1> SUFFICES ASSUME Init PROVE ChainInv
  OBVIOUS
<1>1. Idle \in Job /\ Idle.pc = "idle" /\ Idle.session = 0
  BY IdleType
<1>2. run \in [Runs -> Job] /\ \A r \in Runs : run[r] = Idle
  BY <1>1 DEF Init
<1>3. ArtifactsKept(artifacts)
  BY Constants DEF Init, ArtifactsKept
<1>4. TypeOK
  BY <1>2, <1>3, RunType, Constants DEF Init, ArtifactsKept, Sessions
<1>5. \A r \in Runs : JobKept(run[r], today)
  BY <1>1, <1>2, Constants DEF Init, JobKept
<1> QED
  BY <1>1, <1>2, <1>3, <1>4, <1>5 DEF ChainInv, OneOfAKind, Active

LEMMA ChainInvStep == ChainInv /\ [Next]_vars => ChainInv'
<1> SUFFICES ASSUME ChainInv, [Next]_vars PROVE ChainInv'
  OBVIOUS
<1>1. CASE UNCHANGED vars
  BY <1>1, RunType DEF vars, ChainInv, TypeOK, OneOfAKind, Active
<1>2. CASE NextSession
  <2>1. today \in Nat /\ today' = today + 1 /\ today' \in Sessions /\ artifacts' = artifacts /\ run' = run
    BY <1>2, Constants DEF NextSession, ChainInv, TypeOK, Sessions
  <2>2. \A r \in Runs : JobKept(run[r], today')
    BY <2>1, RunType, JobFields DEF ChainInv, JobKept
  <2> QED
    BY <2>1, <2>2 DEF ChainInv, TypeOK, OneOfAKind, Active
<1> QED
  BY <1>1, <1>2, StartKeeps, RerunKeeps, RestoreKeeps, ComputeKeeps, PublishKeeps, CompleteKeeps DEF Next

-------------------------------------------------------------------------------
(* Agreement is kept while nobody is run again.                                  *)

\* Which of the published states count as handed off and as daily does not depend on
\* the job of a run that has published nothing or stays with its workflow.
LEMMA SameOrigins ==
  ASSUME NEW A, NEW Rs, NEW S,
         \A b \in A : b.run = "legacy" \/ S[b.run].kind = Rs[b.run].kind
  PROVE  /\ Handed(A, S) = Handed(A, Rs) /\ Daily(A, S) = Daily(A, Rs)
         /\ \A j : JobAgrees(j, A, Rs) => JobAgrees(j, A, S)
         /\ StatesAgree(A, Rs) => StatesAgree(A, S)
<1>1. Handed(A, S) = Handed(A, Rs)
  BY DEF Handed, Readable
<1>2. Daily(A, S) = Daily(A, Rs)
  BY DEF Daily, Readable
<1> QED
  BY <1>1, <1>2 DEF JobAgrees, Started, Pending, StatesAgree

LEMMA Publishers ==
  ASSUME ChainInv, Agreed, NEW a \in artifacts
  PROVE  \/ a.run = "legacy" /\ ~a.dated /\ a \in Legacy
         \/ /\ a.run \in Runs /\ a.dated /\ run[a.run].published
            /\ run[a.run].pc \in {"end", "completed"}
            /\ a.cp.day \in Sessions
BY Constants DEF ChainInv, ArtifactsKept, Agreed, RunsArtifact

\* A step of r that uploads nothing.
LEMMA AgreedMoves ==
  ASSUME ChainInv, Agreed, NEW r \in Runs, NEW j \in Job,
         run' = [run EXCEPT ![r] = j], artifacts' = artifacts,
         run[r].pc = "idle" \/ j.kind = run[r].kind,
         run[r].published => j.published /\ j.pc \in {"end", "completed"},
         JobAgrees(j, artifacts, run)
  PROVE  Agreed'
<1>1. run'[r] = j /\ \A q \in Runs : q # r => run'[q] = run[q]
  BY RunType DEF ChainInv
<1>2. ASSUME NEW a \in artifacts
      PROVE  /\ a.run = "legacy" \/ run'[a.run].kind = run[a.run].kind
             /\ a.dated => RunsArtifact(a, run')
  <2>1. CASE a.run = "legacy" /\ ~a.dated
    BY <2>1
  <2>2. CASE a.run \in Runs /\ a.dated /\ run[a.run].published /\ run[a.run].pc \in {"end", "completed"}
    <3>1. RunsArtifact(a, run)
      BY <2>2 DEF Agreed
    <3>2. CASE a.run = r
      BY <1>1, <2>2, <3>1, <3>2 DEF RunsArtifact
    <3>3. CASE a.run # r
      BY <1>1, <2>2, <3>1, <3>3 DEF RunsArtifact
    <3> QED
      BY <3>2, <3>3
  <2> QED
    BY <2>1, <2>2, Publishers
<1>3. \A b \in artifacts : b.run = "legacy" \/ run'[b.run].kind = run[b.run].kind
  BY <1>2
<1>4. /\ StatesAgree(artifacts, run')
      /\ \A i : JobAgrees(i, artifacts, run) => JobAgrees(i, artifacts, run')
  BY <1>3, SameOrigins DEF Agreed
<1>5. \A q \in Runs : JobAgrees(run'[q], artifacts, run')
  BY <1>1, <1>4 DEF Agreed
<1> QED
  BY <1>2, <1>4, <1>5 DEF Agreed

LEMMA StartAgrees ==
  ASSUME ChainInv, Agreed, NEW r \in Runs, NEW k \in Kinds, Start(r, k)
  PROVE  Agreed'
<1> DEFINE j == Fresh(k)
<1>1. j \in Job /\ j.pc = "restore" /\ j.kind = k /\ j.session = today /\ ~j.published
  BY FreshJob DEF ChainInv, TypeOK
<1>2. run' = [run EXCEPT ![r] = j] /\ artifacts' = artifacts /\ run[r].pc = "idle"
  BY DEF Start, Set, Fresh
<1>3. k = "rebalance" => today \in Rebalances
  BY DEF Start
<1>4. ~run[r].published
  BY <1>2, IdleType DEF ChainInv, JobKept
<1> HIDE DEF j
<1>5. JobAgrees(j, artifacts, run)
  BY <1>1, <1>3 DEF JobAgrees
<1> QED
  BY <1>1, <1>2, <1>4, <1>5, AgreedMoves

\* Steps that keep the workflow, the session and what was published.
LEMMA EndAgrees ==
  ASSUME ChainInv, Agreed, NEW r \in Runs, NEW p \in {"end", "completed"},
         run[r].pc # "idle", p = "end" => run[r].pc # "completed",
         Set(r, [run[r] EXCEPT !.pc = p]), artifacts' = artifacts
  PROVE  Agreed'
<1> DEFINE j == [run[r] EXCEPT !.pc = p]
<1>0. run[r] \in Job /\ JobAgrees(run[r], artifacts, run)
  BY RunType DEF ChainInv, Agreed
<1>1. /\ j \in Job /\ j.pc = p /\ j.kind = run[r].kind /\ j.session = run[r].session
      /\ j.published = run[r].published
  BY <1>0 DEF Job
<1>2. run' = [run EXCEPT ![r] = j]
  BY DEF Set
<1> HIDE DEF j
<1>3. JobAgrees(j, artifacts, run)
  BY <1>0, <1>1 DEF JobAgrees
<1> QED
  BY <1>1, <1>2, <1>3, AgreedMoves

\* What a workflow published before its next run is found by that run: the run that did is
\* not going any more.
LEMMA OwnWorkflowIsFound ==
  ASSUME ChainInv, Agreed, NEW r \in Runs, run[r].pc = "restore",
         NEW a \in Readable(artifacts), a.run = "legacy" \/ run[a.run].kind = run[r].kind
  PROVE  Eligible(a)
<1>1. CASE a.run = "legacy"
  BY <1>1 DEF Eligible
<1>2. CASE /\ a.run \in Runs /\ run[a.run].published /\ run[a.run].pc \in {"end", "completed"}
           /\ a.run # "legacy"
  <2>1. run[a.run].pc # "end"
    BY <1>2, Actives DEF ChainInv, OneOfAKind, Going
  <2> QED
    BY <1>2, <2>1 DEF Eligible
<1> QED
  BY <1>1, <1>2, Publishers, Constants DEF Readable

LEMMA RestoreAgrees ==
  ASSUME ChainInv, Agreed, NEW r \in Runs, Restore(r)
  PROVE  Agreed'
<1> DEFINE s == run[r].session
           f == Fetch(s).cp
<1>0. /\ run[r] \in Job /\ JobKept(run[r], today) /\ run[r].pc = "restore" /\ s \in Sessions
      /\ JobAgrees(run[r], artifacts, run) /\ ~run[r].published
  BY RunType DEF ChainInv, Agreed, Restore, JobKept, JobAgrees
<1>1. CASE Fetch(s).result = "found"
  <2> DEFINE j == [run[r] EXCEPT !.pc = "compute", !.base = Fetch(s).cp]
  <2>1. /\ f \in {Seed} \cup States(artifacts)
        /\ f \in Checkpoint /\ f.day <= s
        /\ \A a \in Readable(artifacts) :
             Eligible(a) /\ a.cp.day <= s => CpRank(a.cp) <= CpRank(f)
    BY <1>0, <1>1, FetchFinds DEF ChainInv
  <2>2. /\ j \in Job /\ j.pc = "compute" /\ j.session = s /\ j.kind = run[r].kind
        /\ j.base = f /\ ~j.published
    BY <1>0, <2>1 DEF Job
  <2>3. run' = [run EXCEPT ![r] = j] /\ artifacts' = artifacts
    BY <1>1 DEF Restore, Set
  <2> HIDE DEF j
  <2>4. ASSUME NEW a \in Readable(artifacts), a.cp.day = s,
               a.run = "legacy" \/ run[a.run].kind = run[r].kind
        PROVE  f.day = s /\ (a.cp.phase = "current" => SameKey(a.cp, f))
    <3>1. Eligible(a)
      BY <1>0, <2>4, OwnWorkflowIsFound
    <3>2. a.cp \in Checkpoint /\ s \in Nat
      BY <1>0, ArtifactFields, Constants DEF Readable, ChainInv, ArtifactsKept
    <3>3. CpRank(a.cp) <= CpRank(f)
      BY <2>1, <2>4, <3>1, <3>2
    <3>4. a.cp.day <= f.day /\ f.day \in Nat
      BY <2>1, <3>2, <3>3, RankOrder, CheckpointFields
    <3>5. f.day = s
      BY <2>1, <2>4, <3>2, <3>4
    <3> QED
      BY <2>1, <2>4, <3>2, <3>3, <3>5, RankOrder DEF SameKey
  <2>5. Started(j, artifacts, run)
    <3>1. ASSUME j.kind = "daily", NEW c \in Daily(artifacts, run), c.day = s
          PROVE  f.day = s
      BY <2>2, <2>4, <3>1 DEF Daily
    <3>2. ASSUME j.kind = "rebalance", NEW c \in States(artifacts), c.day = s, c.phase = "current"
          PROVE  SameKey(c, f)
      <4>1. c \in Handed(artifacts, run)
        BY <1>0, <2>2, <3>2 DEF JobAgrees, Agreed, StatesAgree
      <4> QED
        BY <2>2, <2>4, <3>2, <4>1 DEF Handed
    <3> QED
      BY <2>1, <2>2, <3>1, <3>2 DEF Started
  <2>6. JobAgrees(j, artifacts, run)
    BY <1>0, <2>2, <2>5 DEF JobAgrees
  <2> QED
    BY <1>0, <2>2, <2>3, <2>6, AgreedMoves
<1>2. CASE Fetch(s).result # "found"
  BY <1>0, <1>2, EndAgrees DEF Restore
<1> QED
  BY <1>1, <1>2

\* A run that finds its own session renders it; one that computes it anew is the first.
LEMMA ResultAgrees ==
  ASSUME ChainInv, Agreed, NEW r \in Runs, NEW rev \in Revisions, run[r].pc = "compute",
         NEW j \in Job, j.pc = "publish", j.cp = Result(r, rev),
         j.kind = run[r].kind, j.session = run[r].session
  PROVE  Pending(j, artifacts, run)
<1> DEFINE b == run[r].base
           d == run[r].session
           c == Result(r, rev)
<1>0. /\ run[r] \in Job /\ JobKept(run[r], today) /\ d \in Sessions /\ d \in Nat /\ d # 0
      /\ Started(run[r], artifacts, run)
      /\ run[r].kind = "rebalance" => d \in Rebalances
      /\ StatesAgree(artifacts, run)
  BY RunType, Constants DEF ChainInv, Agreed, JobKept, JobAgrees
<1>1. c \in Checkpoint /\ c.day = d /\ run[r].kind \in {"daily", "rebalance"} /\ b \in Checkpoint
  BY <1>0, ResultIsOn, JobFields DEF JobKept, Kinds
<1>2. CASE b.day = d /\ (run[r].kind = "daily" \/ b.phase = "current")
  <2>1. c = b /\ b \in States(artifacts)
    BY <1>0, <1>2, SeedType DEF Result, Started
  <2> QED
    BY <1>0, <1>1, <1>2, <2>1 DEF Pending, StatesAgree
<1>3. CASE ~(b.day = d /\ (run[r].kind = "daily" \/ b.phase = "current")) /\ run[r].kind = "rebalance"
  <2>1. c.phase = "current"
    BY <1>3 DEF Result
  <2>2. ASSUME NEW e \in States(artifacts), SameKey(e, c)
        PROVE  FALSE
    BY <1>0, <1>1, <1>3, <2>1, <2>2 DEF Started, SameKey
  <2> QED
    BY <1>3, <2>1, <2>2 DEF Pending
<1>4. CASE ~(b.day = d /\ (run[r].kind = "daily" \/ b.phase = "current")) /\ run[r].kind = "daily"
  <2>1. c.phase = IF d \in Rebalances THEN "awaiting_handoff" ELSE b.phase
    BY <1>4 DEF Result
  <2>2. ASSUME NEW e \in States(artifacts), SameKey(e, c)
        PROVE  e \in Daily(artifacts, run)
    <3>1. PICK a \in Readable(artifacts) : e = a.cp
      BY DEF States
    <3>2. CASE a.run = "legacy" \/ run[a.run].kind = "daily"
      BY <3>1, <3>2 DEF Daily
    <3>3. CASE a.run \in Runs /\ a.dated /\ run[a.run].kind # "daily"
      <4>1. run[a.run].kind = "rebalance"
        BY <3>3, RunType, JobFields DEF ChainInv, Kinds
      <4>2. e.day \in Rebalances /\ e.phase = "current"
        BY <3>1, <3>3, <4>1 DEF Agreed, RunsArtifact, Readable
      <4> QED
        BY <1>1, <2>1, <2>2, <4>2 DEF SameKey
    <3> QED
      BY <3>2, <3>3, Publishers DEF Readable
  <2>3. ASSUME NEW e \in States(artifacts), SameKey(e, c)
        PROVE  FALSE
    BY <1>0, <1>1, <1>4, <2>2, <2>3 DEF Started, SameKey
  <2>4. ~(c.phase = "current" /\ c.day \in Rebalances)
    BY <1>1, <2>1
  <2> QED
    BY <1>4, <2>3, <2>4 DEF Pending
<1> QED
  BY <1>1, <1>2, <1>3, <1>4

LEMMA ComputeAgrees ==
  ASSUME ChainInv, Agreed, NEW r \in Runs, Compute(r)
  PROVE  Agreed'
<1>0. /\ run[r] \in Job /\ JobKept(run[r], today) /\ run[r].pc = "compute" /\ run[r].session \in Sessions
      /\ JobAgrees(run[r], artifacts, run) /\ ~run[r].published
  BY RunType DEF ChainInv, Agreed, Compute, JobKept, JobAgrees
<1>1. ASSUME NEW rev \in Revisions, Set(r, [run[r] EXCEPT !.pc = "publish", !.cp = Result(r, rev)])
      PROVE  Agreed'
  <2> DEFINE c == Result(r, rev)
             j == [run[r] EXCEPT !.pc = "publish", !.cp = c]
  <2>1. c \in Checkpoint
    BY <1>0, ResultIsOn DEF JobKept
  <2>3. run' = [run EXCEPT ![r] = j] /\ artifacts' = artifacts
    BY <1>1 DEF Compute, Set
  <2> HIDE DEF c
  <2>2. /\ j \in Job /\ j.pc = "publish" /\ j.session = run[r].session /\ j.kind = run[r].kind
        /\ j.cp = c /\ ~j.published
    BY <1>0, <2>1 DEF Job
  <2> HIDE DEF j
  <2>4. Pending(j, artifacts, run)
    BY <1>0, <2>2, ResultAgrees DEF c
  <2>5. JobAgrees(j, artifacts, run)
    BY <1>0, <2>2, <2>4 DEF JobAgrees
  <2> QED
    BY <1>0, <2>2, <2>3, <2>5, AgreedMoves
<1>2. CASE Set(r, [run[r] EXCEPT !.pc = "end"])
  BY <1>0, <1>2, EndAgrees DEF Compute
<1> QED
  BY <1>1, <1>2 DEF Compute

LEMMA PublishAgrees ==
  ASSUME ChainInv, Agreed, NEW r \in Runs, Publish(r)
  PROVE  Agreed'
<1>0. /\ run[r] \in Job /\ JobKept(run[r], today) /\ run[r].pc = "publish" /\ Going(run[r])
      /\ JobAgrees(run[r], artifacts, run) /\ Pending(run[r], artifacts, run) /\ ~run[r].published
      /\ run[r].cp \in Checkpoint /\ run[r].cp.day = run[r].session
      /\ run[r].kind \in {"daily", "rebalance"}
  BY RunType, JobFields DEF ChainInv, Agreed, Publish, JobKept, JobAgrees, Going, Kinds
<1>1. ASSUME NEW readable \in BOOLEAN, artifacts' = artifacts \cup {Upload(r, readable)},
             Set(r, [run[r] EXCEPT !.pc = "end", !.published = TRUE])
      PROVE  Agreed'
  <2> DEFINE a == Upload(r, readable)
             c == run[r].cp
             j == [run[r] EXCEPT !.pc = "end", !.published = TRUE]
             A == artifacts \cup {a}
             Rs == [run EXCEPT ![r] = j]
  <2>1. a \in Artifact /\ a.run = r /\ a.dated /\ a.readable = readable /\ a.cp = c
    BY <1>0, UploadKept
  <2>2. /\ j \in Job /\ j.pc = "end" /\ j.session = run[r].session /\ j.kind = run[r].kind
        /\ j.published
    BY <1>0 DEF Job
  <2>3. run' = Rs /\ artifacts' = A
    BY <1>1 DEF Set
  <2>4. Rs[r] = j /\ \A q \in Runs : q # r => Rs[q] = run[q]
    BY RunType DEF ChainInv
  <2> HIDE DEF a, j, Rs
  <2>5. \A q \in Runs : Rs[q].kind = run[q].kind
    BY <2>2, <2>4
  <2>6. r # "legacy"
    BY Constants
  \* What the upload adds.
  <2>7. /\ \A e \in States(A) : e \in States(artifacts) \/ (readable /\ e = c)
        /\ States(artifacts) \subseteq States(A) /\ (readable => c \in States(A))
    BY <2>1 DEF States, Readable
  <2>8. \A b \in artifacts : b.run = "legacy" \/ Rs[b.run].kind = run[b.run].kind
    BY <2>5, Publishers
  <2>9. /\ Handed(artifacts, run) \subseteq Handed(A, Rs)
        /\ readable /\ run[r].kind = "rebalance" => c \in Handed(A, Rs)
    BY <2>1, <2>2, <2>4, <2>8 DEF Handed, Readable
  <2>10. run[r].kind = "rebalance" => Daily(A, Rs) \subseteq Daily(artifacts, run)
    BY <2>1, <2>2, <2>4, <2>6, <2>8 DEF Daily, Readable
  <2>11. Handed(artifacts, run) \subseteq States(artifacts)
    BY DEF Handed, States
  <2>12. run[r].kind = "rebalance" => run[r].session \in Rebalances /\ c.phase = "current"
    BY <1>0 DEF JobAgrees, Pending, Going
  <2>13. \A e \in States(artifacts) : SameKey(e, c) => e = c
    BY <1>0 DEF Pending
  <2>14. c.phase = "current" /\ c.day \in Rebalances /\ run[r].kind = "daily" => c \in Handed(artifacts, run)
    BY <1>0 DEF Pending
  <2>15. ASSUME NEW b \in A, b.dated
         PROVE  RunsArtifact(b, Rs)
    <3>1. CASE b = a
      BY <1>0, <2>1, <2>2, <2>4, <2>12, <3>1 DEF RunsArtifact
    <3>2. CASE b \in artifacts /\ b # a
      <4>1. b.run \in Runs /\ run[b.run].published /\ RunsArtifact(b, run)
        BY <2>15, <3>2, Publishers DEF Agreed
      <4>2. b.run # r
        BY <1>0, <4>1
      <4> QED
        BY <2>4, <4>1, <4>2 DEF RunsArtifact
    <3> QED
      BY <3>1, <3>2
  <2>16. StatesAgree(A, Rs)
    <3>1. ASSUME NEW e \in States(A), NEW f \in States(A), SameKey(e, f)
          PROVE  e = f
      BY <2>7, <2>13, <3>1 DEF Agreed, StatesAgree, SameKey
    <3>2. ASSUME NEW e \in States(A), e.day \in Rebalances, e.phase = "current"
          PROVE  e \in Handed(A, Rs)
      <4>1. CASE e \in States(artifacts)
        BY <2>9, <3>2, <4>1 DEF Agreed, StatesAgree
      <4>2. CASE readable /\ e = c
        BY <1>0, <2>9, <2>14, <3>2, <4>2
      <4> QED
        BY <2>7, <4>1, <4>2
    <3> QED
      BY <3>1, <3>2 DEF StatesAgree
  <2>17. ASSUME NEW q \in Runs
         PROVE  JobAgrees(Rs[q], A, Rs)
    <3>1. CASE q = r
      BY <2>2, <2>4, <2>12, <3>1 DEF JobAgrees
    <3>2. CASE q # r
      <4> DEFINE i == run[q]
      <4>1. Rs[q] = i /\ JobAgrees(i, artifacts, run) /\ i \in Job /\ JobKept(i, today)
            /\ i.kind \in {"daily", "rebalance"}
        BY <2>4, <3>2, RunType, JobFields DEF Agreed, ChainInv, Kinds
      <4>2. Going(i) => i.kind # run[r].kind
        BY <1>0, <3>2, Alone
      <4> HIDE DEF i
      <4>3. ASSUME i.pc = "compute"
            PROVE  Started(i, A, Rs)
        <5>1. Started(i, artifacts, run) /\ Going(i)
          BY <4>1, <4>3 DEF JobAgrees, Going
        <5>2. ASSUME i.kind = "daily", NEW e \in Daily(A, Rs), e.day = i.session
              PROVE  i.base.day = i.session
          BY <1>0, <2>10, <4>2, <5>1, <5>2 DEF Started
        <5>3. ASSUME i.kind = "rebalance", NEW e \in States(A), e.day = i.session, e.phase = "current"
              PROVE  SameKey(e, i.base)
          <6>1. i.session \in Rebalances /\ run[r].kind = "daily"
            BY <1>0, <4>1, <4>2, <5>1, <5>3 DEF JobAgrees, Going
          <6>2. e \in States(artifacts)
            BY <2>7, <2>11, <2>14, <5>3, <6>1
          <6> QED
            BY <5>1, <5>3, <6>2 DEF Started
        <5> QED
          BY <2>7, <5>1, <5>2, <5>3 DEF Started
      <4>4. ASSUME i.pc = "publish"
            PROVE  Pending(i, A, Rs)
        <5>1. Pending(i, artifacts, run) /\ Going(i) /\ i.cp.day = i.session
          BY <4>1, <4>4 DEF JobAgrees, JobKept, Going
        <5>2. ASSUME NEW e \in States(A), SameKey(e, i.cp)
              PROVE  e = i.cp
          <6>1. CASE e \in States(artifacts)
            BY <5>1, <5>2, <6>1 DEF Pending
          <6>2. CASE e = c /\ run[r].kind = "daily"
            <7>1. i.kind = "rebalance" /\ i.session \in Rebalances /\ i.cp.phase = "current"
              BY <4>1, <4>2, <5>1, <6>2 DEF JobAgrees, Pending, Going
            <7>2. e \in States(artifacts)
              BY <2>11, <2>14, <5>1, <5>2, <6>2, <7>1 DEF SameKey
            <7> QED
              BY <5>1, <5>2, <7>2 DEF Pending
          <6>3. CASE e = c /\ run[r].kind = "rebalance"
            <7>1. i.kind = "daily" /\ i.cp.phase = "current" /\ i.cp.day \in Rebalances
              BY <1>0, <2>12, <4>1, <4>2, <5>1, <5>2, <6>3 DEF SameKey
            <7>2. i.cp \in States(artifacts)
              BY <2>11, <5>1, <7>1 DEF Pending
            <7> QED
              BY <2>13, <5>2, <6>3, <7>2 DEF SameKey
          <6> QED
            BY <1>0, <2>7, <6>1, <6>2, <6>3
        <5> QED
          BY <2>9, <5>1, <5>2 DEF Pending
      <4> QED
        BY <4>1, <4>3, <4>4 DEF JobAgrees
    <3> QED
      BY <3>1, <3>2
  <2> QED
    BY <2>3, <2>15, <2>16, <2>17 DEF Agreed
<1>2. CASE UNCHANGED artifacts /\ Set(r, [run[r] EXCEPT !.pc = "end"])
  BY <1>0, <1>2, EndAgrees
<1> QED
  BY <1>1, <1>2 DEF Publish, Upload

LEMMA AgreedInit == Init => Agreed
<1> SUFFICES ASSUME Init PROVE Agreed
  OBVIOUS
<1>1. \A r \in Runs : run[r] = Idle
  BY DEF Init
<1>2. \A r \in Runs : JobAgrees(run[r], artifacts, run)
  BY <1>1, IdleType DEF JobAgrees
<1>3. artifacts = Legacy /\ \A a \in artifacts : ~a.dated /\ a.run = "legacy"
  BY Constants DEF Init
<1>4. States(artifacts) = Handed(artifacts, run)
  BY <1>3 DEF States, Handed, Readable
<1>5. \A c, d \in States(artifacts) : SameKey(c, d) => c = d
  BY <1>3, Constants DEF States, Readable
<1> QED
  BY <1>2, <1>3, <1>4, <1>5 DEF Agreed, StatesAgree

\* A run that was run again stays one.
LEMMA RerunsStay ==
  ASSUME ChainInv, [Next]_vars, NoReruns'
  PROVE  NoReruns /\ \A r \in Runs : ~Rerun(r)
<1>0. run \in [Runs -> Job]
  BY RunType DEF ChainInv
<1>1. ASSUME NEW r \in Runs, run[r].attempt > 1
      PROVE  FALSE
  <2>1. run'[r].attempt <= 1
    BY DEF NoReruns
  <2>2. run[r].pc # "idle" /\ run[r].attempt \in 0 .. 2 /\ run[r] \in Job
    BY <1>0, <1>1, IdleType, JobFields DEF ChainInv, JobKept
  <2>3. ASSUME NEW q \in Runs, NEW j, run' = [run EXCEPT ![q] = j], q = r => j.attempt = run[r].attempt
        PROVE  FALSE
    BY <1>0, <1>1, <2>1, <2>2, <2>3
  <2>4. ASSUME NEW q \in Runs, NEW k \in Kinds, Start(q, k)
        PROVE  FALSE
    BY <2>2, <2>3, <2>4 DEF Start, Set
  <2>5. ASSUME NEW q \in Runs, Rerun(q)
        PROVE  FALSE
    <3>1. PICK j : run' = [run EXCEPT ![q] = j]
      BY <2>5 DEF Rerun, Set
    <3>2. q # r
      BY <1>1, <2>5 DEF Rerun
    <3> QED
      BY <2>3, <3>1, <3>2
  <2>6. ASSUME NEW q \in Runs, Restore(q) \/ Compute(q) \/ Publish(q) \/ Complete(q)
        PROVE  FALSE
    <3> DEFINE Rs == run[q]
    <3>1. Rs \in Job
      BY <1>0
    <3> HIDE DEF Rs
    <3>2. \E p, c : \/ run' = [run EXCEPT ![q] = [Rs EXCEPT !.pc = p]]
                     \/ run' = [run EXCEPT ![q] = [Rs EXCEPT !.pc = p, !.base = c]]
                     \/ run' = [run EXCEPT ![q] = [Rs EXCEPT !.pc = p, !.cp = c]]
                     \/ run' = [run EXCEPT ![q] = [Rs EXCEPT !.pc = p, !.published = c]]
      <4>1. CASE Restore(q)
        BY <4>1 DEF Restore, Set, Rs
      <4>2. CASE Compute(q)
        BY <4>2 DEF Compute, Set, Rs
      <4>3. CASE Publish(q)
        BY <4>3 DEF Publish, Set, Rs
      <4>4. CASE Complete(q)
        BY <4>4 DEF Complete, Set, Rs
      <4> QED
        BY <2>6, <4>1, <4>2, <4>3, <4>4
    <3>3. PICK p, c : \/ run' = [run EXCEPT ![q] = [Rs EXCEPT !.pc = p]]
                      \/ run' = [run EXCEPT ![q] = [Rs EXCEPT !.pc = p, !.base = c]]
                      \/ run' = [run EXCEPT ![q] = [Rs EXCEPT !.pc = p, !.cp = c]]
                      \/ run' = [run EXCEPT ![q] = [Rs EXCEPT !.pc = p, !.published = c]]
      BY <3>2
    <3> DEFINE j1 == [Rs EXCEPT !.pc = p]
               j2 == [Rs EXCEPT !.pc = p, !.base = c]
               j3 == [Rs EXCEPT !.pc = p, !.cp = c]
               j4 == [Rs EXCEPT !.pc = p, !.published = c]
    <3>4. /\ j1.attempt = Rs.attempt /\ j2.attempt = Rs.attempt
          /\ j3.attempt = Rs.attempt /\ j4.attempt = Rs.attempt
      BY <3>1 DEF Job
    <3>5. \E j \in {j1, j2, j3, j4} : run' = [run EXCEPT ![q] = j]
      BY <3>3
    <3> HIDE DEF j1, j2, j3, j4
    <3> QED
      BY <2>3, <3>4, <3>5 DEF Rs
  <2>7. run' # run
    BY <1>1, <2>1, <2>2
  <2> QED
    BY <2>4, <2>5, <2>6, <2>7 DEF Next, NextSession, vars
<1>2. ASSUME NEW r \in Runs, Rerun(r)
      PROVE  FALSE
  <2>1. run[r] \in Job /\ run[r].attempt = 1
    BY <1>0, <1>2 DEF Rerun
  <2>2. run'[r].attempt = 2
    BY <1>0, <1>2, <2>1 DEF Rerun, Set, Job
  <2> QED
    BY <2>2 DEF NoReruns
<1>3. NoReruns
  BY <1>0, <1>1, JobFields DEF NoReruns
<1> QED
  BY <1>2, <1>3

LEMMA AgreedStep == ChainInv /\ AgreedInv /\ [Next]_vars => AgreedInv'
<1> SUFFICES ASSUME ChainInv, AgreedInv, [Next]_vars, NoReruns' PROVE Agreed'
  BY DEF AgreedInv
<1>1. Agreed /\ \A r \in Runs : ~Rerun(r)
  BY RerunsStay DEF AgreedInv
<1>2. ASSUME NEW r \in Runs, Complete(r)
      PROVE  Agreed'
  BY <1>1, <1>2, EndAgrees DEF Complete, Active
<1>3. CASE NextSession \/ UNCHANGED vars
  BY <1>1, <1>3 DEF NextSession, vars, Agreed
<1> QED
  BY <1>1, <1>2, <1>3, StartAgrees, RestoreAgrees, ComputeAgrees, PublishAgrees DEF Next

-------------------------------------------------------------------------------
(* The properties.                                                               *)

\* A run starts only by a restore that finds what it starts from.
LEMMA StartsFromFetch ==
  ASSUME ChainInv, [Next]_vars, NEW r \in Runs, run[r].pc = "restore", run'[r].pc = "compute"
  PROVE  /\ run[r].session \in Sessions /\ Fetch(run[r].session).result = "found"
         /\ run'[r].base = Fetch(run[r].session).cp
<1>0. run \in [Runs -> Job] /\ run[r] \in Job /\ JobKept(run[r], today)
  BY RunType DEF ChainInv
<1>1. ASSUME NEW q \in Runs, q # r, NEW j, run' = [run EXCEPT ![q] = j]
      PROVE  FALSE
  BY <1>0, <1>1
<1>2. run' # run
  OBVIOUS
<1>3. Restore(r)
  <2>1. ASSUME NEW q \in Runs, q # r
        PROVE  ~(\/ \E k \in Kinds : Start(q, k)
                 \/ Rerun(q) \/ Restore(q) \/ Compute(q) \/ Publish(q) \/ Complete(q))
    BY <1>1, <2>1 DEF Start, Rerun, Restore, Compute, Publish, Complete, Set
  <2>2. ~(\/ \E k \in Kinds : Start(r, k)
          \/ Rerun(r) \/ Compute(r) \/ Publish(r))
    BY DEF Start, Rerun, Compute, Publish
  <2>3. ~Complete(r)
    BY <1>0 DEF Complete, Set, Job
  <2> QED
    BY <1>2, <2>1, <2>2, <2>3 DEF Next, NextSession, vars
<1>4. run'[r] = IF Fetch(run[r].session).result = "found"
                THEN [run[r] EXCEPT !.pc = "compute", !.base = Fetch(run[r].session).cp]
                ELSE [run[r] EXCEPT !.pc = "end"]
  BY <1>0, <1>3 DEF Restore, Set
<1>5. Fetch(run[r].session).result = "found"
  BY <1>0, <1>4 DEF Job
<1> QED
  BY <1>0, <1>4, <1>5 DEF Job, JobKept

LEMMA Invariance == Spec => [](ChainInv /\ AgreedInv)
<1>1. Init => ChainInv /\ AgreedInv
  BY ChainInit, AgreedInit DEF AgreedInv
<1>2. ChainInv /\ AgreedInv /\ [Next]_vars => (ChainInv /\ AgreedInv)'
  BY ChainInvStep, AgreedStep
<1> QED
  BY <1>1, <1>2, PTL DEF Spec

LEMMA Agreement == ChainInv /\ AgreedInv => TypeOK /\ NoConflict
BY FetchAgrees DEF ChainInv, AgreedInv, NoConflict

\* A readable checkpoint of a completed run is never skipped.
LEMMA SessionsKept == Spec => NoSessionIsLost
<1>1. ASSUME ChainInv, [Next]_vars, NEW r \in Runs, run[r].pc = "restore", run'[r].pc = "compute",
             NEW a \in artifacts, Eligible(a), a.readable, a.cp.day <= run[r].session
      PROVE  a.cp.day <= run'[r].base.day
  <2>1. a \in Readable(artifacts) /\ a.cp \in Checkpoint
    BY <1>1, ArtifactFields DEF Readable, ChainInv, TypeOK
  <2> QED
    BY <1>1, <2>1, StartsFromFetch, FetchFinds, RankOrder DEF ChainInv
<1> DEFINE Kept == \A r \in Runs : run[r].pc = "restore" /\ run'[r].pc = "compute" =>
                     \A a \in artifacts :
                       (Eligible(a) /\ a.readable /\ a.cp.day <= run[r].session) =>
                          a.cp.day <= run'[r].base.day
<1>2. ChainInv /\ [Next]_vars => [Kept]_vars
  BY <1>1
<1> QED
  BY <1>2, Invariance, PTL DEF Spec, NoSessionIsLost

\* A state that waits for the handoff is continued only while no handed-off one is there.
LEMMA HandoffsKept == Spec => HandoffIsKept
<1>1. ASSUME ChainInv, [Next]_vars, NEW r \in Runs, run[r].pc = "restore", run'[r].pc = "compute",
             run'[r].base.phase = "awaiting_handoff",
             NEW a \in artifacts, Eligible(a), a.readable, a.cp.day = run'[r].base.day,
             a.cp.phase = "current"
      PROVE  FALSE
  <2> DEFINE s == run[r].session
             b == run'[r].base
  <2>1. a \in Readable(artifacts) /\ a.cp \in Checkpoint
    BY <1>1, ArtifactFields DEF Readable, ChainInv, TypeOK
  <2>2. s \in Sessions /\ Fetch(s).result = "found" /\ b = Fetch(s).cp
    BY <1>1, StartsFromFetch
  <2>3. /\ b \in Checkpoint /\ b.day <= s
        /\ \A e \in Readable(artifacts) :
             Eligible(e) /\ e.cp.day <= s => CpRank(e.cp) <= CpRank(b)
    BY <1>1, <2>2, FetchFinds DEF ChainInv
  <2>4. CpRank(a.cp) <= CpRank(b)
    BY <1>1, <2>1, <2>3
  <2> QED
    BY <1>1, <2>1, <2>3, <2>4, RankOrder
<1> DEFINE Kept ==
      \A r \in Runs : (run[r].pc = "restore" /\ run'[r].pc = "compute"
                      /\ run'[r].base.phase = "awaiting_handoff") =>
        ~ \E a \in artifacts : /\ Eligible(a) /\ a.readable
                               /\ a.cp.day = run'[r].base.day /\ a.cp.phase = "current"
<1>2. ChainInv /\ [Next]_vars => [Kept]_vars
  BY <1>1
<1> QED
  BY <1>2, Invariance, PTL DEF Spec, HandoffIsKept

\* Every run continues the best published checkpoint: without re-runs the published states of a
\* session agree, no published session is skipped, and no state that waits for the
\* handoff undoes one (fetch_latest).
THEOREM ChainContinues == Spec => ChainIsContinued
<1>1. Spec => [](TypeOK /\ NoConflict)
  BY Invariance, Agreement, PTL
<1> QED
  BY <1>1, SessionsKept, HandoffsKept DEF ChainIsContinued

-------------------------------------------------------------------------------
(* The approved seed.                                                             *)

Files == Bodies \cup {None, Broken, Tampered, Earlier}
SeedSteps == {"start", "fetched", "switched", "restored", "unrestored", "readback", "seeded", "packing",
              "replace", "ended", "failed", "lost", "died"}

SeedTypes ==
  /\ seed \in [pc : SeedSteps, command : Commands, release : Releases, packed : Bodies]
  /\ checkout \in [head : 1 .. 2, manifest : Files]
  /\ bundle \in Files
  /\ reported \in {"restored", "repacked", "unchanged", "nothing"}
\* Restoring an archive of an earlier run never leaves the runtime.
ArchiveSafe == seed.command = "archive" =>
  /\ seed.pc \in {"start", "fetched", "ended", "unrestored", "failed", "died"}
  /\ checkout.head = Runtime
  /\ seed.pc = "fetched" => bundle \in Bodies \cup {Broken}
  /\ seed.pc = "ended" => checkout.manifest \in Bodies /\ checkout.manifest.release = Runtime
\* What lies on the disk, by the step of the run that restores the approved seed.
Packed(b, release) ==
  /\ b \in Bodies /\ AcceptedRepack(b) /\ release.repack \subseteq release.diff
BundleSafe == seed.command = "approved" =>
  /\ seed.pc \in {"fetched", "switched", "restored", "unrestored", "readback", "seeded", "packing", "replace"}
       => bundle = Approved
  /\ \/ bundle \in {None, Earlier, Approved, Tampered}
     \/ seed.pc = "ended" /\ kept = Approved /\ Packed(bundle, R)
  /\ seed.pc \in {"restored", "readback", "seeded", "packing", "replace", "ended"} => checkout.manifest = Approved
\* What its earlier steps have established.
SeedPath ==
  /\ seed.pc \in {"start", "fetched", "readback", "seeded", "packing", "replace", "ended"} => checkout.head = Runtime
  /\ seed.pc = "failed" /\ reported = "nothing" => checkout.head = Runtime
  /\ seed.pc \in {"seeded", "packing", "replace"} => reported # "nothing"
  /\ seed.command = "approved" /\ R.successor /\ seed.pc \in {"seeded", "packing", "replace", "ended"}
       => R.changes \subseteq R.diff
  /\ seed.pc = "packing" => R.repack \subseteq R.diff
  /\ seed.pc = "replace" => Packed(seed.packed, R)
SeedInv == SeedTypes /\ ArchiveSafe /\ BundleSafe /\ SeedPath

LEMMA FilesDiffer ==
  ASSUME NEW b \in Bodies
  PROVE  b # None /\ b # Broken /\ b # Tampered /\ b # Earlier
<1>1. DOMAIN b = {"release", "inputs", "econ"} /\ b.econ \in 1 .. 2
  BY DEF Bodies
<1>2. DOMAIN None = {"file"} /\ DOMAIN Broken = {"file"} /\ DOMAIN Tampered = {"file"}
  BY DEF None, Broken, Tampered
<1>3. Earlier.econ = 3
  BY DEF Earlier
<1>4. "econ" \notin {"file"}
  OBVIOUS
<1>5. QED BY <1>1, <1>2, <1>3, <1>4

LEMMA MarksDiffer == None # Broken /\ Tampered # Broken /\ None # Tampered /\ Earlier # Broken
<1>1. None.file = "none" /\ Broken.file = "broken" /\ Tampered.file = "tampered"
  BY DEF None, Broken, Tampered
<1>2. DOMAIN Broken = {"file"} /\ DOMAIN Earlier = {"release", "inputs", "econ"}
  BY DEF Broken, Earlier
<1>3. "econ" \notin {"file"} /\ "none" # "broken" /\ "tampered" # "broken" /\ "none" # "tampered"
  OBVIOUS
<1>4. QED BY <1>1, <1>2, <1>3

LEMMA SourcesRead ==
  ASSUME NEW c, NEW s \in Sources, SourcesAt(Runtime, c)[s] = 2
  PROVE  s \in c
BY DEF SourcesAt, Runtime

LEMMA SeedStart == SeedInit => SeedInv
<1> SUFFICES ASSUME SeedInit PROVE SeedInv
  OBVIOUS
<1>1. PICK c \in Commands, r \in Releases : seed = [pc |-> "start", command |-> c, release |-> r, packed |-> Approved]
  BY DEF SeedInit
<1>2. SeedTypes
  BY <1>1, SeedAssumption DEF SeedInit, SeedTypes, SeedSteps, Files, Runtime
<1>3. ArchiveSafe /\ BundleSafe /\ SeedPath
  BY <1>1 DEF SeedInit, ArchiveSafe, BundleSafe, SeedPath, Runtime, R
<1>4. QED BY <1>2, <1>3 DEF SeedInv

LEMMA FetchApprovedSafe == SeedInv /\ FetchApproved => SeedInv'
<1> SUFFICES ASSUME SeedInv, FetchApproved PROVE SeedInv'
  OBVIOUS
<1>1. SeedTypes'
  BY SeedAssumption DEF SeedInv, SeedTypes, SeedSteps, Files, FetchApproved, Download, Step, Raise
<1>2. ArchiveSafe'
  BY DEF SeedInv, SeedTypes, ArchiveSafe, SeedPath, Runtime, FetchApproved, Download, Step, Raise
<1>3. BundleSafe'
  BY DEF SeedInv, SeedTypes, BundleSafe, ArchiveSafe, SeedPath, R, FetchApproved, Download, Step, Raise
<1>4. SeedPath'
  BY DEF SeedInv, SeedTypes, SeedPath, ArchiveSafe, R, FetchApproved, Download, Step, Raise
<1>5. QED BY <1>1, <1>2, <1>3, <1>4 DEF SeedInv

LEMMA SwitchBackSafe == SeedInv /\ SwitchBack => SeedInv'
<1> SUFFICES ASSUME SeedInv, SwitchBack PROVE SeedInv'
  OBVIOUS
<1>1. SeedTypes'
  BY DEF SeedInv, SeedTypes, SeedSteps, Files, SwitchBack, Step, Raise
<1>2. ArchiveSafe'
  BY DEF SeedInv, SeedTypes, ArchiveSafe, SeedPath, Runtime, SwitchBack, Step, Raise
<1>3. BundleSafe'
  BY DEF SeedInv, SeedTypes, BundleSafe, ArchiveSafe, SeedPath, R, SwitchBack, Step, Raise
<1>4. SeedPath'
  BY DEF SeedInv, SeedTypes, SeedPath, ArchiveSafe, R, SwitchBack, Step, Raise
<1>5. QED BY <1>1, <1>2, <1>3, <1>4 DEF SeedInv

LEMMA RestoreUnderBootstrapSafe == SeedInv /\ RestoreUnderBootstrap => SeedInv'
<1> SUFFICES ASSUME SeedInv, RestoreUnderBootstrap PROVE SeedInv'
  OBVIOUS
<1>1. SeedTypes'
  BY DEF SeedInv, SeedTypes, SeedSteps, Files, RestoreUnderBootstrap, NativeRestore, Step
<1>2. ArchiveSafe'
  BY DEF SeedInv, SeedTypes, ArchiveSafe, SeedPath, Runtime, RestoreUnderBootstrap, NativeRestore, Step
<1>3. BundleSafe'
  BY DEF SeedInv, SeedTypes, BundleSafe, ArchiveSafe, SeedPath, R, RestoreUnderBootstrap, NativeRestore, Step
<1>4. SeedPath'
  BY DEF SeedInv, SeedTypes, SeedPath, ArchiveSafe, R, RestoreUnderBootstrap, NativeRestore, Step
<1>5. QED BY <1>1, <1>2, <1>3, <1>4 DEF SeedInv

LEMMA SwitchForwardSafe == SeedInv /\ SwitchForward => SeedInv'
<1> SUFFICES ASSUME SeedInv, SwitchForward PROVE SeedInv'
  OBVIOUS
<1>1. SeedTypes'
  BY DEF SeedInv, SeedTypes, SeedSteps, Files, Runtime, SwitchForward, Returns
<1>2. ArchiveSafe'
  BY DEF SeedInv, SeedTypes, ArchiveSafe, SeedPath, Runtime, SwitchForward, Returns
<1>3. BundleSafe'
  BY DEF SeedInv, SeedTypes, BundleSafe, ArchiveSafe, SeedPath, R, SwitchForward, Returns
<1>4. SeedPath'
  BY DEF SeedInv, SeedTypes, SeedPath, ArchiveSafe, R, SwitchForward, Returns
<1>5. QED BY <1>1, <1>2, <1>3, <1>4 DEF SeedInv

LEMMA ReadBackSafe == SeedInv /\ ReadBack => SeedInv'
<1> SUFFICES ASSUME SeedInv, ReadBack PROVE SeedInv'
  OBVIOUS
<1>1. SeedTypes'
  BY DEF SeedInv, SeedTypes, SeedSteps, Files, ReadBack, Step, Raise
<1>2. ArchiveSafe'
  BY DEF SeedInv, SeedTypes, ArchiveSafe, SeedPath, Runtime, ReadBack, Step, Raise
<1>3. BundleSafe'
  BY DEF SeedInv, SeedTypes, BundleSafe, ArchiveSafe, SeedPath, R, ReadBack, Step, Raise
<1>4. SeedPath'
  <2>1. R \in Releases /\ R.changes \subseteq Sources
    BY SeedAssumption DEF SeedInv, SeedTypes, R
  <2>2. (\A s \in R.changes : SourcesAt(checkout.head, R.diff)[s] = 2) => R.changes \subseteq R.diff
    <3> SUFFICES ASSUME \A s \in R.changes : SourcesAt(checkout.head, R.diff)[s] = 2, seed.pc = "readback", NEW s \in R.changes
                 PROVE  s \in R.diff
      BY DEF ReadBack, Step, Raise
    <3>1. SourcesAt(Runtime, R.diff)[s] = 2
      BY DEF SeedInv, SeedPath
    <3>2. QED BY <2>1, <3>1, SourcesRead
  <2>3. QED BY <2>1, <2>2 DEF SeedInv, SeedTypes, SeedPath, ReadBack, Step, Raise, R
<1>5. QED BY <1>1, <1>2, <1>3, <1>4 DEF SeedInv

LEMMA RestoreDirectlySafe == SeedInv /\ RestoreDirectly => SeedInv'
<1> SUFFICES ASSUME SeedInv, RestoreDirectly PROVE SeedInv'
  OBVIOUS
<1>1. SeedTypes'
  BY DEF SeedInv, SeedTypes, SeedSteps, Files, RestoreDirectly, NativeRestore, Step
<1>2. ArchiveSafe'
  BY DEF SeedInv, SeedTypes, ArchiveSafe, SeedPath, Runtime, RestoreDirectly, NativeRestore, Step
<1>3. BundleSafe'
  BY DEF SeedInv, SeedTypes, BundleSafe, ArchiveSafe, SeedPath, R, RestoreDirectly, NativeRestore, Step
<1>4. SeedPath'
  BY DEF SeedInv, SeedTypes, SeedPath, ArchiveSafe, R, RestoreDirectly, NativeRestore, Step
<1>5. QED BY <1>1, <1>2, <1>3, <1>4 DEF SeedInv

LEMMA FetchArchiveSafe == SeedInv /\ FetchArchive => SeedInv'
<1> SUFFICES ASSUME SeedInv, FetchArchive PROVE SeedInv'
  OBVIOUS
<1>1. SeedTypes'
  BY DEF SeedInv, SeedTypes, SeedSteps, Files, FetchArchive, Step
<1>2. ArchiveSafe'
  BY MarksDiffer DEF SeedInv, SeedTypes, ArchiveSafe, SeedPath, Runtime, FetchArchive, Step
<1>3. BundleSafe'
  BY MarksDiffer DEF SeedInv, SeedTypes, BundleSafe, ArchiveSafe, SeedPath, R, FetchArchive, Step
<1>4. SeedPath'
  BY DEF SeedInv, SeedTypes, SeedPath, ArchiveSafe, R, FetchArchive, Step
<1>5. QED BY <1>1, <1>2, <1>3, <1>4 DEF SeedInv

LEMMA RestoreArchiveSafe == SeedInv /\ RestoreArchive => SeedInv'
<1> SUFFICES ASSUME SeedInv, RestoreArchive PROVE SeedInv'
  OBVIOUS
<1>1. SeedTypes'
  BY DEF SeedInv, SeedTypes, SeedSteps, Files, RestoreArchive, NativeRestore, BundleIdentified, Step, Raise
<1>2. ArchiveSafe'
  BY MarksDiffer DEF SeedInv, SeedTypes, ArchiveSafe, SeedPath, Runtime, RestoreArchive, NativeRestore, BundleIdentified, Step, Raise
<1>3. BundleSafe'
  BY MarksDiffer DEF SeedInv, SeedTypes, BundleSafe, ArchiveSafe, SeedPath, R, RestoreArchive, NativeRestore, BundleIdentified, Step, Raise
<1>4. SeedPath'
  BY DEF SeedInv, SeedTypes, SeedPath, ArchiveSafe, R, RestoreArchive, NativeRestore, BundleIdentified, Step, Raise
<1>5. QED BY <1>1, <1>2, <1>3, <1>4 DEF SeedInv

LEMMA StartRepackSafe == SeedInv /\ StartRepack => SeedInv'
<1> SUFFICES ASSUME SeedInv, StartRepack PROVE SeedInv'
  OBVIOUS
<1>1. SeedTypes'
  BY DEF SeedInv, SeedTypes, SeedSteps, Files, StartRepack, Step, Raise
<1>2. ArchiveSafe'
  BY DEF SeedInv, SeedTypes, ArchiveSafe, SeedPath, Runtime, StartRepack, Step, Raise
<1>3. BundleSafe'
  BY DEF SeedInv, SeedTypes, BundleSafe, ArchiveSafe, SeedPath, R, StartRepack, Step, Raise
<1>4. SeedPath'
  <2>1. R \in Releases /\ R.repack \subseteq Sources
    BY SeedAssumption DEF SeedInv, SeedTypes, R
  <2>2. RepackChecks => R.repack \subseteq R.diff
    BY <2>1, SourcesRead DEF RepackChecks, Declared
  <2>3. QED BY <2>1, <2>2 DEF SeedInv, SeedTypes, SeedPath, StartRepack, Step, Raise, R
<1>5. QED BY <1>1, <1>2, <1>3, <1>4 DEF SeedInv

LEMMA PackSafe == SeedInv /\ Pack => SeedInv'
<1> SUFFICES ASSUME SeedInv, Pack PROVE SeedInv'
  OBVIOUS
<1>0. PICK b \in Bodies, touches \in {"nothing", "bundle", "manifest", "head"} :
       /\ checkout' = CASE touches = "manifest" -> [checkout EXCEPT !.manifest = Tampered]
                        [] touches = "head" -> [checkout EXCEPT !.head = 1]
                        [] OTHER -> checkout
       /\ IF AcceptedRepack(b) /\ touches = "nothing"
          THEN seed' = [seed EXCEPT !.pc = "replace", !.packed = b] /\ kept' = bundle /\ bundle' = bundle
          ELSE /\ Raise("packing") /\ kept' = kept
               /\ bundle' = IF touches = "bundle" THEN Tampered ELSE bundle
  BY DEF Pack
<1>1. SeedTypes'
  <2>1. checkout' \in [head : 1 .. 2, manifest : Files] /\ bundle' \in Files
    BY <1>0 DEF SeedInv, SeedTypes, Files
  <2>2. seed' \in [pc : SeedSteps, command : Commands, release : Releases, packed : Bodies]
    BY <1>0 DEF SeedInv, SeedTypes, SeedSteps, Raise
  <2>3. QED BY <2>1, <2>2 DEF SeedInv, SeedTypes, Pack
<1>2. ArchiveSafe'
  BY DEF SeedInv, SeedTypes, ArchiveSafe, SeedPath, Runtime, Pack, Raise
<1>3. BundleSafe'
  BY DEF SeedInv, SeedTypes, BundleSafe, ArchiveSafe, SeedPath, R, Pack, Raise
<1>4. SeedPath'
  <2>1. CASE AcceptedRepack(b) /\ touches = "nothing"
    <3>1. seed' = [seed EXCEPT !.pc = "replace", !.packed = b] /\ checkout' = checkout /\ reported' = reported /\ seed.pc = "packing"
      BY <1>0, <2>1 DEF Pack
    <3>2. seed'.packed = b /\ seed'.release = seed.release /\ seed'.pc = "replace" /\ seed'.command = seed.command
      BY <3>1 DEF SeedInv, SeedTypes
    <3>3. R' = R /\ AcceptedRepack(b)'
      BY <3>2, <2>1 DEF R, AcceptedRepack
    <3>4. QED BY <3>1, <3>2, <3>3 DEF SeedInv, SeedPath, Packed, R
  <2>2. CASE ~(AcceptedRepack(b) /\ touches = "nothing")
    <3>1. seed' = [seed EXCEPT !.pc = "failed"] /\ reported' = reported /\ seed.pc = "packing"
      BY <1>0, <2>2 DEF Pack, Raise
    <3>2. seed'.pc = "failed"
      BY <3>1 DEF SeedInv, SeedTypes
    <3>3. QED BY <3>1, <3>2 DEF SeedInv, SeedPath
  <2>3. QED BY <2>1, <2>2
<1>5. QED BY <1>1, <1>2, <1>3, <1>4 DEF SeedInv

LEMMA ReplaceSafe == SeedInv /\ Replace => SeedInv'
<1> SUFFICES ASSUME SeedInv, Replace PROVE SeedInv'
  OBVIOUS
<1>1. SeedTypes'
  BY DEF SeedInv, SeedTypes, SeedSteps, Files, Replace, Step
<1>2. ArchiveSafe'
  BY DEF SeedInv, SeedTypes, ArchiveSafe, SeedPath, Runtime, Replace, Step
<1>3. BundleSafe'
  BY DEF SeedInv, SeedTypes, BundleSafe, ArchiveSafe, SeedPath, R, Packed, AcceptedRepack, Replace, Step
<1>4. SeedPath'
  BY DEF SeedInv, SeedTypes, SeedPath, ArchiveSafe, R, Packed, AcceptedRepack, Replace, Step
<1>5. QED BY <1>1, <1>2, <1>3, <1>4 DEF SeedInv

LEMMA DieSeedingSafe == SeedInv /\ DieSeeding => SeedInv'
<1> SUFFICES ASSUME SeedInv, DieSeeding PROVE SeedInv'
  OBVIOUS
<1>1. SeedTypes'
  BY DEF SeedInv, SeedTypes, SeedSteps, Files, DieSeeding
<1>2. ArchiveSafe'
  BY DEF SeedInv, SeedTypes, ArchiveSafe, SeedPath, Runtime, DieSeeding
<1>3. BundleSafe'
  BY DEF SeedInv, SeedTypes, BundleSafe, ArchiveSafe, SeedPath, R, DieSeeding
<1>4. SeedPath'
  BY DEF SeedInv, SeedTypes, SeedPath, ArchiveSafe, R, DieSeeding
<1>5. QED BY <1>1, <1>2, <1>3, <1>4 DEF SeedInv

LEMMA SeedMoves == SeedInv /\ [SeedNext]_seedVars => SeedInv'
<1> SUFFICES ASSUME SeedInv, [SeedNext]_seedVars PROVE SeedInv'
  OBVIOUS
<1>1. CASE SeedNext
  BY <1>1, FetchApprovedSafe, SwitchBackSafe, RestoreUnderBootstrapSafe, SwitchForwardSafe, ReadBackSafe, RestoreDirectlySafe, FetchArchiveSafe, RestoreArchiveSafe, StartRepackSafe, PackSafe, ReplaceSafe, DieSeedingSafe DEF SeedNext
<1>2. CASE UNCHANGED seedVars
  BY <1>2 DEF seedVars, SeedInv, SeedTypes, ArchiveSafe, BundleSafe, SeedPath, Packed, AcceptedRepack, R
<1>3. QED BY <1>1, <1>2

LEMMA SeedSound == SeedInv => BundleIsApproved /\ RestoredRunsTheRuntime
<1> SUFFICES ASSUME SeedInv PROVE BundleIsApproved /\ RestoredRunsTheRuntime
  OBVIOUS
<1>0. R \in Releases /\ R.changes \subseteq Sources /\ R.repack \subseteq Sources
  BY SeedAssumption DEF SeedInv, SeedTypes, R
<1>1. BundleIsApproved
  <2> SUFFICES ASSUME seed.command = "approved", bundle \notin {None, Earlier, Approved, Tampered}
               PROVE  /\ bundle # Broken /\ kept = Approved
                      /\ bundle.release = Runtime /\ bundle.econ = Approved.econ
                      /\ \A s \in Sources : bundle.inputs[s] # Approved.inputs[s] => s \in R.repack /\ s \in R.diff
    BY DEF BundleIsApproved
  <2>1. kept = Approved /\ Packed(bundle, R)
    BY DEF SeedInv, BundleSafe
  <2>2. bundle # Broken
    BY <2>1, FilesDiffer DEF Packed
  <2>3. QED BY <2>1, <2>2 DEF Packed, AcceptedRepack
<1>2. RestoredRunsTheRuntime
  <2>1. seed.pc = "failed" /\ reported = "nothing" => checkout.head = Runtime
    BY DEF SeedInv, SeedPath
  <2> SUFFICES ASSUME reported # "nothing", seed.pc \in {"seeded", "ended"}
               PROVE  /\ checkout.head = Runtime /\ checkout.manifest # None
                      /\ seed.command = "approved" => checkout.manifest = Approved
                      /\ seed.command = "archive" => checkout.manifest.release = Runtime
                      /\ (R.successor /\ seed.command = "approved") => \A s \in R.changes : SourcesAt(checkout.head, R.diff)[s] = 2
    BY <2>1 DEF RestoredRunsTheRuntime
  <2>2. checkout.head = Runtime
    BY DEF SeedInv, SeedPath
  <2>3. CASE seed.command = "approved"
    <3>1. checkout.manifest = Approved /\ Approved # None
      BY <2>3, SeedAssumption, FilesDiffer DEF SeedInv, BundleSafe
    <3>2. R.successor => R.changes \subseteq R.diff
      BY <2>3 DEF SeedInv, SeedPath
    <3>3. QED BY <1>0, <2>2, <2>3, <3>1, <3>2 DEF SourcesAt, Runtime
  <2>4. CASE seed.command = "archive"
    <3>1. checkout.manifest \in Bodies /\ checkout.manifest.release = Runtime
      BY <2>4 DEF SeedInv, ArchiveSafe
    <3>2. QED BY <2>2, <2>4, <3>1, FilesDiffer
  <2>5. QED BY <2>3, <2>4 DEF SeedInv, SeedTypes, Commands
<1>3. QED BY <1>1, <1>2

-------------------------------------------------------------------------------
(* The cron worker and the local member run.                                      *)

Names == {"rebalance", "ai_hot", "maintenance", "ic_im", "etf"} \cup CloseRoutes
Call == [day : 1 .. TDays, workflow : Names, attempt : Nat, lost : Nat, runs : Nat,
         outcome : {"open", "accepted", "transient", "refused", "lost"}]
TriggerTypes ==
  /\ slot \in [day : 1 .. TDays, at : 0 .. 5]
  /\ calls \subseteq Call /\ enabled \in BOOLEAN
\* The runs of a call are those whose answers were lost and the accepted one; an open call has
\* an attempt left for each.
CallSafe(c) ==
  /\ c.attempt <= MAX_ATTEMPTS
  /\ IF Open(c) THEN c.runs < c.attempt ELSE c.runs <= c.attempt
  /\ IF c.outcome = "accepted" THEN c.runs <= c.lost + 1 ELSE c.runs <= c.lost
CloseCalls(day) == {c \in calls : c.day = day /\ c.workflow \in CloseRoutes}
\* The close publication of a day belongs to the cron at eight.
CloseSafe ==
  /\ \A c \in calls : c.day <= slot.day
  /\ \A c, d \in calls : c.day = d.day /\ c.workflow \in CloseRoutes /\ d.workflow \in CloseRoutes => c = d
  /\ CloseCalls(slot.day) # {} => slot.at >= AtEight
  /\ slot.at >= AtEight /\ Weekday(slot.day) => CloseCalls(slot.day) # {}
TriggerInv == TriggerTypes /\ (\A c \in calls : CallSafe(c)) /\ CloseSafe

LEMMA TriggerStart == TriggerInit => TriggerInv
BY TriggerAssumption DEF TriggerInit, TriggerInv, TriggerTypes, CallSafe, CloseSafe, CloseCalls, AtEight

\* What a cron adds: its routes, among them the close publication at eight and only then.
LEMMA RouteFacts ==
  ASSUME NEW at \in 1 .. 5, NEW day \in Nat, NEW on \in BOOLEAN
  PROVE  /\ Routes(at, day, on) \subseteq Names
         /\ at # AtEight => Routes(at, day, on) \cap CloseRoutes = {}
         /\ at = AtEight => \E w \in CloseRoutes : Routes(at, day, on) = {w}
<1> USE DEF AtOne, AtSeven, AtEight, AtTwelve, AtNight
<1>1. /\ Routes(1, day, on) = {"ai_hot"} \cup (IF on /\ Weekday(day) THEN {"maintenance"} ELSE {})
      /\ Routes(2, day, on) = IF on THEN {"rebalance"} ELSE {}
      /\ Routes(3, day, on) = IF on THEN {"microcap_member"} ELSE {"microcap_realtime"}
      /\ Routes(4, day, on) = {"ic_im"}
      /\ Routes(5, day, on) = {"etf"}
  BY DEF Routes
<1>2. CASE at = 3
  BY <1>1, <1>2 DEF CloseRoutes, Names
<1>3. CASE at # 3
  <2>1. Routes(at, day, on) \subseteq {"ai_hot", "maintenance", "rebalance", "ic_im", "etf"}
    BY <1>1, <1>3
  <2>2. QED BY <2>1, <1>3 DEF CloseRoutes, Names
<1>4. QED BY <1>2, <1>3

NewCalls(at) == IF Fires(at, slot.day)
                THEN {[day |-> slot.day, workflow |-> w, attempt |-> 1, lost |-> 0, runs |-> 0, outcome |-> "open"] :
                        w \in Routes(at, slot.day, enabled)}
                ELSE {}

LEMMA FireSafe == TriggerInv /\ Fire => TriggerInv'
<1> SUFFICES ASSUME TriggerInv, Fire PROVE TriggerInv'
  OBVIOUS
<1> DEFINE at == slot.at + 1
<1>1. /\ slot' = [slot EXCEPT !.at = at] /\ enabled' = enabled
      /\ calls' = {c \in calls : c.day = slot.day /\ c.workflow \in CloseRoutes} \cup NewCalls(at)
      /\ at \in 1 .. 5 /\ slot'.at = at /\ slot'.day = slot.day /\ slot.day \in 1 .. TDays /\ slot.day \in Nat
  BY TriggerAssumption DEF Fire, TriggerInv, TriggerTypes, NewCalls, AtNight
<1>2. /\ Routes(at, slot.day, enabled) \subseteq Names
      /\ at # AtEight => Routes(at, slot.day, enabled) \cap CloseRoutes = {}
      /\ at = AtEight => \E w \in CloseRoutes : Routes(at, slot.day, enabled) = {w}
  BY <1>1, RouteFacts DEF TriggerInv, TriggerTypes
<1> HIDE DEF at
<1>3. \A c \in NewCalls(at) : /\ c \in Call /\ c.day = slot.day /\ c.attempt = 1 /\ c.lost = 0 /\ c.runs = 0
                              /\ c.outcome = "open" /\ c.workflow \in Routes(at, slot.day, enabled)
  BY <1>1, <1>2 DEF NewCalls, Call
<1>4. TriggerTypes'
  BY <1>1, <1>3 DEF TriggerInv, TriggerTypes
<1>5. ASSUME NEW c \in calls' PROVE CallSafe(c)'
  <2>1. CASE c \in calls
    BY <2>1 DEF TriggerInv, CallSafe, Open
  <2>2. CASE c \in NewCalls(at)
    BY <2>2, <1>3, TriggerAssumption DEF CallSafe, Open
  <2>3. QED BY <1>1, <1>5, <2>1, <2>2
<1>6. CloseSafe'
  <2>1. \A c \in calls' : c.day = slot.day
    BY <1>1, <1>3
  <2>2. ASSUME NEW c \in calls, c.day = slot.day, c.workflow \in CloseRoutes
        PROVE  /\ at # AtEight /\ at > AtEight /\ c \in calls' /\ \A d \in NewCalls(at) : d.workflow \notin CloseRoutes
               /\ \A d \in calls : d.day = slot.day /\ d.workflow \in CloseRoutes => d = c
    <3>1. slot.at >= AtEight
      BY <2>2 DEF TriggerInv, CloseSafe, CloseCalls
    <3>2. at > AtEight /\ at # AtEight
      BY <3>1, <1>1 DEF AtEight, at, TriggerInv, TriggerTypes
    <3>3. QED BY <3>2, <2>2, <1>1, <1>2, <1>3 DEF TriggerInv, CloseSafe
  <2>3. \A c, d \in NewCalls(at) : c.workflow \in CloseRoutes /\ d.workflow \in CloseRoutes => c = d
    <3> SUFFICES ASSUME NEW c \in NewCalls(at), NEW d \in NewCalls(at), c.workflow \in CloseRoutes, d.workflow \in CloseRoutes
                 PROVE  c = d
      OBVIOUS
    <3>1. at = AtEight
      BY <1>2, <1>3
    <3>2. c.workflow = d.workflow
      BY <3>1, <1>2, <1>3
    <3>3. QED BY <3>2, <1>3 DEF Call
  <2>4. \A c, d \in calls' : c.workflow \in CloseRoutes /\ d.workflow \in CloseRoutes => c = d
    BY <1>1, <2>2, <2>3
  <2>5. CloseCalls(slot.day)' # {} => at >= AtEight
    <3> SUFFICES ASSUME NEW c \in calls', c.workflow \in CloseRoutes PROVE at >= AtEight
      BY DEF CloseCalls
    <3>1. CASE c \in calls
      BY <3>1, <1>1, <2>1, <2>2 DEF AtEight
    <3>2. CASE c \in NewCalls(at)
      BY <3>2, <1>1, <1>2, <1>3 DEF AtEight
    <3>3. QED BY <3>1, <3>2, <1>1
  <2>6. at >= AtEight /\ Weekday(slot.day) => CloseCalls(slot.day)' # {}
    <3> SUFFICES ASSUME at >= AtEight, Weekday(slot.day) PROVE \E c \in calls' : c.day = slot.day /\ c.workflow \in CloseRoutes
      BY <1>1 DEF CloseCalls
    <3>1. CASE at = AtEight
      <4>1. PICK w \in CloseRoutes : Routes(at, slot.day, enabled) = {w}
        BY <3>1, <1>2
      <4>2. Fires(at, slot.day)
        BY DEF Fires
      <4>3. [day |-> slot.day, workflow |-> w, attempt |-> 1, lost |-> 0, runs |-> 0, outcome |-> "open"] \in NewCalls(at)
        BY <4>1, <4>2 DEF NewCalls
      <4>4. QED BY <1>1, <4>3
    <3>2. CASE at # AtEight
      <4>1. slot.at >= AtEight
        BY <3>2, <1>1 DEF at, AtEight, TriggerInv, TriggerTypes
      <4>2. PICK c \in calls : c.day = slot.day /\ c.workflow \in CloseRoutes
        BY <4>1 DEF TriggerInv, CloseSafe, CloseCalls
      <4>3. QED BY <4>2, <1>1
    <3>3. QED BY <3>1, <3>2
  <2>7. QED BY <1>1, <2>1, <2>4, <2>5, <2>6 DEF CloseSafe
<1>7. QED BY <1>4, <1>5, <1>6 DEF TriggerInv

LEMMA NextDaySafe == TriggerInv /\ NextDay => TriggerInv'
<1> SUFFICES ASSUME TriggerInv, NextDay PROVE TriggerInv'
  OBVIOUS
<1>1. slot'.day = slot.day + 1 /\ slot'.at = 0 /\ calls' = calls /\ slot.day \in Nat
  BY TriggerAssumption DEF NextDay, TriggerInv, TriggerTypes
<1>2. TriggerTypes'
  BY TriggerAssumption DEF NextDay, TriggerInv, TriggerTypes
<1>3. \A c \in calls : c.day <= slot.day /\ c.day \in Nat
  BY TriggerAssumption DEF TriggerInv, TriggerTypes, CloseSafe, Call
<1>4. CloseCalls(slot.day)' = {}
  BY <1>1, <1>3 DEF CloseCalls
<1>5. CloseSafe'
  BY <1>1, <1>3, <1>4 DEF TriggerInv, CloseSafe, AtEight
<1>6. QED BY <1>1, <1>2, <1>5 DEF TriggerInv, CallSafe, Open

LEMMA DispatchSafe == TriggerInv /\ (\E c \in calls : Dispatch(c)) => TriggerInv'
<1> SUFFICES ASSUME TriggerInv, NEW c \in calls, Dispatch(c) PROVE TriggerInv'
  OBVIOUS
<1>1. PICK answer \in {"accepted", "transient", "refused", "lost"}, created \in BOOLEAN :
        /\ answer = "accepted" => created
        /\ answer \in {"transient", "refused"} => ~created
        /\ calls' = (calls \ {c}) \cup {[c EXCEPT
             !.runs = IF created THEN @ + 1 ELSE @,
             !.lost = IF answer = "lost" /\ created THEN @ + 1 ELSE @,
             !.attempt = IF Retryable(answer) /\ AttemptsLeft(c) THEN @ + 1 ELSE @,
             !.outcome = IF answer = "accepted" THEN "accepted"
                         ELSE IF Retryable(answer) /\ AttemptsLeft(c) THEN "open" ELSE answer]}
  BY DEF Dispatch
<1> DEFINE again == Retryable(answer) /\ AttemptsLeft(c)
           d == [c EXCEPT
             !.runs = IF created THEN @ + 1 ELSE @,
             !.lost = IF answer = "lost" /\ created THEN @ + 1 ELSE @,
             !.attempt = IF Retryable(answer) /\ AttemptsLeft(c) THEN @ + 1 ELSE @,
             !.outcome = IF answer = "accepted" THEN "accepted"
                         ELSE IF Retryable(answer) /\ AttemptsLeft(c) THEN "open" ELSE answer]
<1>2. c \in Call /\ c.outcome = "open" /\ CallSafe(c) /\ slot' = slot /\ enabled' = enabled
  BY DEF Dispatch, Open, TriggerInv, TriggerTypes
<1>3. /\ d \in Call /\ d.day = c.day /\ d.workflow = c.workflow
      /\ d.runs = (IF created THEN c.runs + 1 ELSE c.runs)
      /\ d.lost = (IF answer = "lost" /\ created THEN c.lost + 1 ELSE c.lost)
      /\ d.attempt = (IF again THEN c.attempt + 1 ELSE c.attempt)
      /\ d.outcome = (IF answer = "accepted" THEN "accepted" ELSE IF again THEN "open" ELSE answer)
  <2> DEFINE n == IF created THEN c.runs + 1 ELSE c.runs
             l == IF answer = "lost" /\ created THEN c.lost + 1 ELSE c.lost
             a == IF again THEN c.attempt + 1 ELSE c.attempt
             o == IF answer = "accepted" THEN "accepted" ELSE IF again THEN "open" ELSE answer
  <2>1. n \in Nat /\ l \in Nat /\ a \in Nat /\ o \in {"open", "accepted", "transient", "refused", "lost"}
    BY <1>1, <1>2 DEF Call
  <2>2. d = [c EXCEPT !.runs = n, !.lost = l, !.attempt = a, !.outcome = o]
    OBVIOUS
  <2> HIDE DEF n, l, a, o, d
  <2>3. /\ d \in Call /\ d.day = c.day /\ d.workflow = c.workflow
        /\ d.runs = n /\ d.lost = l /\ d.attempt = a /\ d.outcome = o
    BY <1>2, <2>1, <2>2 DEF Call
  <2>4. QED BY <2>3 DEF n, l, a, o
<1>4. calls' = (calls \ {c}) \cup {d}
  BY <1>1
<1>5. again => c.attempt < MAX_ATTEMPTS /\ answer \in {"transient", "lost"}
  BY DEF Retryable, AttemptsLeft
<1> HIDE DEF d, again
<1>6. CallSafe(d)'
  BY <1>1, <1>2, <1>3, <1>5, TriggerAssumption DEF CallSafe, Open, Call
<1>7. TriggerTypes'
  BY <1>2, <1>3, <1>4 DEF TriggerInv, TriggerTypes
<1>8. CloseSafe'
  BY <1>2, <1>3, <1>4 DEF TriggerInv, CloseSafe, CloseCalls
<1>9. QED BY <1>4, <1>6, <1>7, <1>8 DEF TriggerInv, CallSafe, Open

LEMMA TriggerMoves == TriggerInv /\ [DispatchNext]_triggerVars => TriggerInv'
<1> SUFFICES ASSUME TriggerInv, [DispatchNext]_triggerVars PROVE TriggerInv'
  OBVIOUS
<1>1. CASE Deploy \/ UNCHANGED triggerVars
  BY <1>1 DEF Deploy, triggerVars, TriggerInv, TriggerTypes, CallSafe, Open, CloseSafe, CloseCalls
<1>2. QED BY <1>1, FireSafe, NextDaySafe, DispatchSafe DEF DispatchNext

LEMMA TriggerSound == TriggerInv => RepeatedRunsAreLostAnswers /\ OneCloseRouteADay
<1> SUFFICES ASSUME TriggerInv PROVE RepeatedRunsAreLostAnswers /\ OneCloseRouteADay
  OBVIOUS
<1>1. RepeatedRunsAreLostAnswers
  <2> SUFFICES ASSUME NEW c \in calls
               PROVE  c.runs <= c.lost + 1 /\ c.runs <= MAX_ATTEMPTS /\ (c.outcome = "refused" => c.runs <= c.lost)
    BY DEF RepeatedRunsAreLostAnswers
  <2>1. CallSafe(c) /\ c.runs \in Nat /\ c.lost \in Nat /\ c.attempt \in Nat /\ MAX_ATTEMPTS \in Nat
    BY TriggerAssumption DEF TriggerInv, TriggerTypes, Call
  <2>2. QED BY <2>1 DEF CallSafe
<1>2. OneCloseRouteADay
  BY DEF TriggerInv, CloseSafe, CloseCalls, OneCloseRouteADay
<1>3. QED BY <1>1, <1>2

\* The local member run: what it has read so far, by its step.
LocalSteps == {"restore", "window", "collect", "digest", "ended"}
LocalRun == [pc : LocalSteps, day : 1 .. 2, today : 1 .. 2, hour : Hours, prepare : BOOLEAN,
             cached : {"none", "superseded", "usable"}, source : {"none", "cached", "restored"},
             quoted : Nat, quotedDay : Nat, report : {"none", "prepared", "ready"}]
QuotedSafe == local # LocalIdle =>
  /\ local \in LocalRun
  /\ local.pc # "ended" => local.day = 1 /\ local.report = "none"
  /\ local.pc = "digest" => local.today = 2 \/ (local.quotedDay = 1 /\ local.quoted <= local.hour)
  /\ local.report = "ready" =>
       /\ local.quotedDay = local.day /\ local.quoted < 15 /\ local.hour < 15 /\ local.today = local.day
       /\ local.pc = "ended"

LEMMA LocalStart == TriggerInit => QuotedSafe
BY DEF TriggerInit, QuotedSafe

LEMMA LocalMoves == QuotedSafe /\ [LocalNext]_triggerVars => QuotedSafe'
<1> SUFFICES ASSUME QuotedSafe, [LocalNext]_triggerVars PROVE QuotedSafe'
  OBVIOUS
<1>0. LocalIdle.pc = "idle"
  BY DEF LocalIdle
<1>1. CASE StartLocal
  <2>1. PICK hour \in Hours, prepare \in BOOLEAN, pinned \in BOOLEAN, cached \in {"none", "superseded", "usable"}, day \in 1 .. 2 :
          /\ local = LocalIdle
          /\ LET job == [pc |-> "restore", day |-> day, today |-> 1, hour |-> hour, prepare |-> prepare,
                         cached |-> cached, source |-> "none", quoted |-> 0, quotedDay |-> 0, report |-> "none"] IN
             local' = IF LocalWindow(job, prepare) /\ pinned THEN job ELSE [job EXCEPT !.pc = "ended"]
          /\ UNCHANGED <<slot, enabled, switches, calls>>
    BY <1>1 DEF StartLocal
  <2> DEFINE job == [pc |-> "restore", day |-> day, today |-> 1, hour |-> hour, prepare |-> prepare,
                      cached |-> cached, source |-> "none", quoted |-> 0, quotedDay |-> 0, report |-> "none"]
  <2>2. job \in LocalRun /\ job.pc = "restore" /\ job.report = "none" /\ job.day = day /\ job.today = 1
    BY <2>1 DEF LocalRun, LocalSteps, Hours
  <2> HIDE DEF job
  <2>3. CASE LocalWindow(job, prepare) /\ pinned
    BY <2>1, <2>2, <2>3 DEF job, QuotedSafe, LocalWindow
  <2>4. CASE ~(LocalWindow(job, prepare) /\ pinned)
    <3>1. local' = [job EXCEPT !.pc = "ended"]
      BY <2>1, <2>4 DEF job
    <3>2. local' \in LocalRun /\ local'.pc = "ended" /\ local'.report = "none"
      BY <2>2, <3>1 DEF LocalRun, LocalSteps
    <3>3. QED BY <3>2 DEF QuotedSafe
  <2>5. QED BY <2>3, <2>4
<1>2. ASSUME local # LocalIdle, NEW j \in LocalRun, local' = j,
             j.day = local.day, j.today = local.today, j.hour = local.hour, j.report = local.report,
             local.pc # "ended", j.pc # "digest"
      PROVE  QuotedSafe'
  BY <1>2 DEF QuotedSafe
<1>3. CASE LocalTick
  <2>1. local \in LocalRun /\ local.pc # "ended" /\ local # LocalIdle /\ local.today = 1
    BY <1>0, <1>3 DEF LocalTick, QuotedSafe
  <2>2. CASE local.hour = 16
    <3>1. local' = [local EXCEPT !.hour = 14, !.today = 2]
      BY <1>3, <2>2 DEF LocalTick
    <3>2. 14 \in Hours /\ 2 \in 1 .. 2
      BY DEF Hours
    <3>3. local' \in LocalRun
      BY <2>1, <3>1, <3>2 DEF LocalRun
    <3>4. local'.today = 2 /\ local'.pc = local.pc /\ local'.day = local.day /\ local'.report = local.report
      BY <2>1, <3>1 DEF LocalRun
    <3>5. QED BY <2>1, <3>3, <3>4 DEF QuotedSafe
  <2>3. CASE local.hour # 16
    <3>1. local' = [local EXCEPT !.hour = @ + 1]
      BY <1>3, <2>3 DEF LocalTick
    <3>2. QED BY <2>1, <2>3, <3>1 DEF QuotedSafe, LocalRun, Hours
  <2>4. QED BY <2>2, <2>3
<1>4. CASE LocalCheckpoint \/ LocalReopen \/ LocalCollect \/ LocalReport
  <2>1. local \in LocalRun /\ local # LocalIdle /\ local.pc \in {"restore", "window", "collect", "digest"} /\ local.day = 1 /\ local.report = "none"
    BY <1>0, <1>4 DEF LocalCheckpoint, LocalReopen, LocalCollect, LocalReport, QuotedSafe
  <2>2. CASE LocalCheckpoint
    BY <2>1, <2>2 DEF LocalCheckpoint, QuotedSafe, LocalRun, LocalSteps
  <2>3. CASE LocalReopen
    BY <2>1, <2>3 DEF LocalReopen, QuotedSafe, LocalRun, LocalSteps
  <2>4. CASE LocalCollect
    <3>1. CASE local' = [local EXCEPT !.pc = "digest", !.quoted = local.hour, !.quotedDay = local.today]
      <4>1. local.today \in Nat /\ local.hour \in Nat
        BY <2>1 DEF LocalRun, Hours
      <4>2. local' \in LocalRun
        BY <2>1, <3>1, <4>1 DEF LocalRun, LocalSteps
      <4>3. /\ local'.pc = "digest" /\ local'.report = "none" /\ local'.day = 1
            /\ local'.today = local.today /\ local'.hour = local.hour
            /\ local'.quoted = local.hour /\ local'.quotedDay = local.today
        BY <2>1, <3>1 DEF LocalRun
      <4>4. local.today \in 1 .. 2 /\ local.hour \in Hours
        BY <2>1 DEF LocalRun
      <4>5. QED BY <4>2, <4>3, <4>4 DEF QuotedSafe, Hours
    <3>2. CASE local' = [local EXCEPT !.pc = "ended"]
      BY <2>1, <3>2 DEF QuotedSafe, LocalRun, LocalSteps
    <3>3. QED BY <2>4, <3>1, <3>2 DEF LocalCollect
  <2>5. CASE LocalReport
    <3>1. local.pc = "digest" /\ local' = [local EXCEPT !.pc = "ended", !.report = IF ReadyNow(local) THEN "ready" ELSE @]
      BY <2>5 DEF LocalReport
    <3>2. /\ local' \in LocalRun /\ local'.pc = "ended" /\ local'.day = 1
          /\ local'.today = local.today /\ local'.hour = local.hour
          /\ local'.quoted = local.quoted /\ local'.quotedDay = local.quotedDay
          /\ local'.report = IF ReadyNow(local) THEN "ready" ELSE "none"
      BY <2>1, <3>1 DEF LocalRun, LocalSteps
    <3>3. local.quoted \in Nat /\ local.hour \in Hours
      BY <2>1 DEF LocalRun
    <3>4. ReadyNow(local) => local.today = 1 /\ local.hour < 15
      BY <2>1 DEF ReadyNow, LocalWindow
    <3>5. ReadyNow(local) => local.quotedDay = 1 /\ local.quoted < 15
      BY <2>1, <3>1, <3>3, <3>4 DEF QuotedSafe, Hours
    <3>6. QED BY <3>2, <3>4, <3>5 DEF QuotedSafe
  <2>6. QED BY <1>4, <2>2, <2>3, <2>4, <2>5
<1>5. CASE UNCHANGED triggerVars
  BY <1>5 DEF triggerVars, QuotedSafe
<1>6. QED BY <1>1, <1>3, <1>4, <1>5 DEF LocalNext

LEMMA LocalSound == QuotedSafe => LocalReportsAreIntraday
BY DEF QuotedSafe, LocalReportsAreIntraday, LocalIdle

-------------------------------------------------------------------------------
(* The earlier IC/IM digest.                                                      *)

Run12 == [pc : {"gate", "calendar", "restore", "signal", "build", "keep"}, kind : Kinds12, final : BOOLEAN,
          day : 1 .. EDays, result : Results \cup {"none"}, mailed : BOOLEAN]
Mail12 == [day : 1 .. EDays, kind : Kinds12, ok : BOOLEAN]
Busy == erun # NoRun
History12 == [fired : SUBSET (Nat \X Nat), manual : Nat, spoke : SUBSET Nat, mute : SUBSET Nat]
EarlierTypes ==
  /\ eday \in 1 .. EDays
  /\ Busy => erun \in Run12
  /\ epending \subseteq Kinds12
  /\ emails \in Seq(Mail12)
  /\ ehistory \in History12
\* A mail that says ok has its marker, or a reason to have none, or its run is about to leave one.
Accounted(day) == day \in emarkers \cup ecause \/ (Busy /\ erun.pc = "keep" /\ erun.day = day)
\* What the run has established: it passed the gate, and it mails once.
EarlierPath == Busy =>
  /\ erun.pc \in {"calendar", "restore", "signal", "build"} /\ erun.kind # Correction => erun.day \notin emarkers
  /\ erun.mailed = (erun.pc = "keep")
  /\ erun.pc = "keep" => erun.day \in ehistory.spoke
  /\ erun.final = FinalAttempt(erun.kind)
EarlierInv ==
  /\ EarlierTypes /\ EarlierPath
  /\ \A i \in DOMAIN emails : emails[i].ok => Accounted(emails[i].day)
  /\ RepeatedDigestHasACause

LEMMA EarlierStart == EarlierInit => EarlierInv
BY EarlierAssumption DEF EarlierInit, EarlierInv, EarlierTypes, History12, EarlierPath, Busy, RepeatedDigestHasACause

LEMMA HistoryOfStep ==
  ASSUME ehistory \in History12, eday \in Nat
  PROVE  /\ erun.day \in Nat /\ Mute => ehistory' \in History12 /\ ehistory'.spoke = ehistory.spoke /\ erun.day \in ehistory'.mute
         /\ \A k \in Kinds12 : Arrive(k) => ehistory' \in History12 /\ ehistory'.spoke = ehistory.spoke
         /\ erun.day \in Nat /\ SendDigest => ehistory' \in History12 /\ ehistory'.spoke = ehistory.spoke \cup {erun.day}
<1>1. erun.day \in Nat /\ Mute => ehistory' \in History12 /\ ehistory'.spoke = ehistory.spoke /\ erun.day \in ehistory'.mute
  BY DEF Mute, History12
<1>2. ASSUME NEW k \in Kinds12, Arrive(k)
      PROVE  ehistory' \in History12 /\ ehistory'.spoke = ehistory.spoke
  <2> DEFINE fired == IF k \in Crons THEN ehistory.fired \cup {<<eday, k>>} ELSE ehistory.fired
             manual == IF k \in Crons THEN ehistory.manual ELSE ehistory.manual + 1
  <2>1. fired \in SUBSET (Nat \X Nat) /\ manual \in Nat
    BY <1>2 DEF Kinds12, Crons, Manual, Correction, History12
  <2>2. ehistory' = [ehistory EXCEPT !.fired = fired, !.manual = manual]
    BY <1>2 DEF Arrive
  <2> HIDE DEF fired, manual
  <2>3. QED BY <2>1, <2>2 DEF History12
<1>3. ASSUME erun.day \in Nat, SendDigest
      PROVE  ehistory' \in History12 /\ ehistory'.spoke = ehistory.spoke \cup {erun.day}
  <2>1. ehistory' = [ehistory EXCEPT !.spoke = @ \cup {erun.day}]
    BY <1>3 DEF SendDigest
  <2>2. QED BY <1>3, <2>1 DEF History12
<1>4. QED BY <1>1, <1>2, <1>3

\* A step that mails nothing, takes nothing back and lets no mail lose its run.
LEMMA EarlierQuiet ==
  ASSUME EarlierInv, EarlierTypes', EarlierPath', emails' = emails, ecause \subseteq ecause',
         \A day \in 1 .. EDays : Accounted(day) => Accounted(day)'
  PROVE  EarlierInv'
<1>1. \A i \in DOMAIN emails : emails[i].day \in 1 .. EDays
  <2>1. \A i \in DOMAIN emails : emails[i] \in Mail12
    BY DEF EarlierInv, EarlierTypes
  <2>2. QED BY <2>1 DEF Mail12
<1>2. (\A i \in DOMAIN emails : emails[i].ok => Accounted(emails[i].day))'
  <2> SUFFICES ASSUME NEW i \in DOMAIN emails, emails[i].ok PROVE Accounted(emails[i].day)'
    OBVIOUS
  <2>1. Accounted(emails[i].day)
    BY DEF EarlierInv
  <2>2. PICK day \in 1 .. EDays : day = emails[i].day
    BY <1>1
  <2>3. Accounted(day)'
    BY <2>1, <2>2
  <2>4. QED BY <2>2, <2>3 DEF Accounted
<1>3. RepeatedDigestHasACause'
  BY DEF EarlierInv, RepeatedDigestHasACause
<1>4. QED BY <1>2, <1>3 DEF EarlierInv

\* The run ends; what it mailed has its marker or its reason.
LEMMA EarlierEnds ==
  ASSUME EarlierInv, erun' = NoRun, Busy, UNCHANGED <<eday, epending, emails>>, UNCHANGED ehistory \/ Mute,
         emarkers \subseteq emarkers', ecause \subseteq ecause',
         erun.pc = "keep" => erun.day \in emarkers' \cup ecause'
  PROVE  EarlierInv'
<1>1. ehistory' \in History12
  BY HistoryOfStep DEF EarlierInv, EarlierTypes, Run12
<1>2. EarlierTypes' /\ EarlierPath'
  BY <1>1 DEF EarlierInv, EarlierTypes, EarlierPath, Busy
<1>3. \A day \in 1 .. EDays : Accounted(day) => Accounted(day)'
  BY DEF Accounted
<1>4. QED BY <1>2, <1>3, EarlierQuiet

\* The run goes on to a step before its mail.
LEMMA EarlierGoes ==
  ASSUME EarlierInv, Busy, NEW job \in Run12, erun' = job, job.pc \in {"calendar", "restore", "signal", "build"},
         erun.pc # "keep", UNCHANGED <<eday, epending, emails, emarkers, ecause, ehistory>>,
         job.kind = erun.kind, job.final = erun.final, job.mailed = erun.mailed,
         job.kind = Correction \/ job.day \notin emarkers
  PROVE  EarlierInv'
<1>1. erun \in Run12 /\ EarlierTypes'
  BY DEF EarlierInv, EarlierTypes
<1>2. EarlierPath'
  BY DEF EarlierInv, EarlierPath
<1>3. \A day \in 1 .. EDays : Accounted(day) => Accounted(day)'
  BY DEF Accounted
<1>4. QED BY <1>1, <1>2, <1>3, EarlierQuiet

LEMMA EarlierArrives == EarlierInv /\ (Midnight \/ \E k \in Kinds12 : Arrive(k)) => EarlierInv'
<1> SUFFICES ASSUME EarlierInv, Midnight \/ \E k \in Kinds12 : Arrive(k) PROVE EarlierInv'
  OBVIOUS
<1>1. /\ erun' = erun /\ emails' = emails /\ emarkers' = emarkers /\ ecause' = ecause
      /\ eday' \in 1 .. EDays /\ epending' \subseteq Kinds12
      /\ ehistory' \in History12 /\ ehistory'.spoke = ehistory.spoke
  <2>1. CASE Midnight
    BY <2>1, EarlierAssumption DEF Midnight, EarlierInv, EarlierTypes
  <2>2. CASE \E k \in Kinds12 : Arrive(k)
    <3>1. PICK k \in Kinds12 : Arrive(k)
      BY <2>2
    <3>2. ehistory' \in History12 /\ ehistory'.spoke = ehistory.spoke
      BY <3>1, HistoryOfStep DEF EarlierInv, EarlierTypes
    <3>3. QED BY <3>1, <3>2 DEF Arrive, EarlierInv, EarlierTypes
  <2>3. QED BY <2>1, <2>2
<1>2. EarlierTypes' /\ EarlierPath'
  BY <1>1 DEF EarlierInv, EarlierTypes, EarlierPath, Busy
<1>3. \A day \in 1 .. EDays : Accounted(day) => Accounted(day)'
  BY <1>1 DEF Accounted, Busy
<1>4. QED BY <1>1, <1>2, <1>3, EarlierQuiet

LEMMA EarlierBegins == EarlierInv /\ Begin => EarlierInv'
<1> SUFFICES ASSUME EarlierInv, Begin PROVE EarlierInv'
  OBVIOUS
<1>1. PICK k \in epending : erun' = [pc |-> "gate", kind |-> k, final |-> FinalAttempt(k), day |-> eday,
                                     result |-> "none", mailed |-> FALSE]
  BY DEF Begin
<1>2. erun' \in Run12 /\ erun'.pc = "gate" /\ erun'.mailed = FALSE /\ erun'.final = FinalAttempt(erun'.kind)
  BY <1>1 DEF EarlierInv, EarlierTypes, Run12, Results, FinalAttempt
<1>3. EarlierTypes' /\ EarlierPath'
  BY <1>2 DEF Begin, EarlierInv, EarlierTypes, EarlierPath, Busy
<1>4. \A day \in 1 .. EDays : Accounted(day) => Accounted(day)'
  BY DEF Begin, Accounted, Busy
<1>5. QED BY <1>3, <1>4, EarlierQuiet DEF Begin

\* A step of the run that only changes its place and, in two cases, one more field.
LEMMA EarlierMoves ==
  ASSUME EarlierInv, NEW job \in Run12, NEW pc \in {"calendar", "restore", "signal", "build"}, Move(pc, job), Busy,
         erun.pc # "keep", UNCHANGED <<eday, epending, emails, emarkers, ecause, ehistory>>,
         job.kind = erun.kind, job.final = erun.final, job.mailed = erun.mailed,
         job.kind = Correction \/ job.day \notin emarkers
  PROVE  EarlierInv'
<1> DEFINE next == [job EXCEPT !.pc = pc]
<1>1. /\ next \in Run12 /\ next.pc = pc /\ next.kind = job.kind /\ next.final = job.final
      /\ next.mailed = job.mailed /\ next.day = job.day
  BY DEF Run12
<1>2. erun' = next
  BY DEF Move
<1> HIDE DEF next
<1>3. QED BY <1>1, <1>2, EarlierGoes

LEMMA EarlierSteps ==
  EarlierInv /\ (Gate \/ Calendar12 \/ Restore12 \/ Signal \/ SendFails \/ Silent \/ KeepAndMark \/ Lost) => EarlierInv'
<1> SUFFICES ASSUME EarlierInv, Gate \/ Calendar12 \/ Restore12 \/ Signal \/ SendFails \/ Silent \/ KeepAndMark \/ Lost
             PROVE  EarlierInv'
  OBVIOUS
<1>0. NoRun.pc = "idle"
  BY DEF NoRun
<1>1. Busy /\ erun \in Run12
  BY <1>0 DEF EarlierInv, EarlierTypes, Busy, Gate, Calendar12, Restore12, Signal, SendFails, Silent, KeepAndMark, Lost
<1>2. CASE Gate
  <2>1. CASE ShouldSend(erun.kind, eday)
    <3> DEFINE job == [erun EXCEPT !.day = eday]
    <3>1. job \in Run12 /\ job.kind = erun.kind /\ job.final = erun.final /\ job.mailed = erun.mailed /\ job.day = eday
      BY <1>1 DEF Run12, EarlierInv, EarlierTypes
    <3>2. Move("calendar", job)
      BY <1>2, <2>1 DEF Gate
    <3> HIDE DEF job
    <3>3. QED BY <1>1, <1>2, <2>1, <3>1, <3>2, EarlierMoves DEF Gate, ShouldSend
  <2>2. CASE ~ShouldSend(erun.kind, eday)
    BY <1>1, <1>2, <2>2, EarlierEnds DEF Gate
  <2>3. QED BY <2>1, <2>2
<1>3. CASE Calendar12
  <2>1. erun.kind = Correction \/ erun.day \notin emarkers
    BY <1>1, <1>3 DEF Calendar12, EarlierInv, EarlierPath
  <2>2. Move("restore", erun) \/ erun' = NoRun
    BY <1>3 DEF Calendar12
  <2>3. CASE Move("restore", erun)
    BY <1>1, <1>3, <2>1, <2>3, EarlierMoves DEF Calendar12
  <2>4. CASE erun' = NoRun
    BY <1>1, <1>3, <2>4, EarlierEnds DEF Calendar12
  <2>5. QED BY <2>2, <2>3, <2>4
<1>4. CASE Restore12
  <2>1. erun.kind = Correction \/ erun.day \notin emarkers
    BY <1>1, <1>4 DEF Restore12, EarlierInv, EarlierPath
  <2>2. CASE Move("signal", erun) /\ UNCHANGED ehistory
    BY <1>1, <1>4, <2>1, <2>2, EarlierMoves DEF Restore12
  <2>3. CASE erun' = NoRun
    BY <1>1, <1>4, <2>3, EarlierEnds DEF Restore12
  <2>4. QED BY <1>4, <2>2, <2>3 DEF Restore12
<1>5. CASE Signal
  <2>1. PICK r \in Results : Move("build", [erun EXCEPT !.result = r])
    BY <1>5 DEF Signal
  <2> DEFINE job == [erun EXCEPT !.result = r]
  <2>2. job \in Run12 /\ job.kind = erun.kind /\ job.final = erun.final /\ job.mailed = erun.mailed /\ job.day = erun.day
    BY <1>1 DEF Run12
  <2>3. Move("build", job) /\ erun.pc = "signal" /\ UNCHANGED <<eday, epending, emails, emarkers, ecause, ehistory>>
    BY <1>5, <2>1 DEF Signal
  <2> HIDE DEF job
  <2>4. job.kind = Correction \/ job.day \notin emarkers
    BY <1>1, <2>2, <2>3 DEF EarlierInv, EarlierPath
  <2>5. QED BY <1>1, <2>2, <2>3, <2>4, EarlierMoves
<1>6. CASE SendFails \/ Silent
  BY <1>1, <1>6, EarlierEnds DEF SendFails, Silent
<1>7. CASE KeepAndMark
  BY <1>1, <1>7, EarlierEnds DEF KeepAndMark, Leaves
<1>8. CASE Lost
  <2>1. erun.pc = "keep" => erun.mailed
    BY <1>1 DEF EarlierInv, EarlierPath
  <2>2. QED BY <1>1, <1>8, <2>1, EarlierEnds DEF Lost
<1>9. QED BY <1>2, <1>3, <1>4, <1>5, <1>6, <1>7, <1>8

LEMMA EarlierSends == EarlierInv /\ SendDigest => EarlierInv'
<1> SUFFICES ASSUME EarlierInv, SendDigest PROVE EarlierInv'
  OBVIOUS
<1>0. NoRun.pc = "idle"
  BY DEF NoRun
<1>1. Busy /\ erun \in Run12 /\ erun.pc = "build"
  BY <1>0 DEF EarlierInv, EarlierTypes, Busy, SendDigest
<1> DEFINE mail == [day |-> erun.day, kind |-> erun.kind, ok |-> SaysOk(erun.result)]
<1>2. /\ mail \in Mail12 /\ mail.day = erun.day /\ mail.kind = erun.kind
      /\ mail.ok = (erun.result = "ok" \/ erun.result = "killed")
  BY <1>1 DEF Mail12, Run12, SaysOk
<1>3. emails' = Append(emails, mail) /\ emarkers' = emarkers /\ ecause \subseteq ecause' /\ UNCHANGED <<eday, epending>>
  BY DEF SendDigest
<1>4. ehistory' \in History12 /\ ehistory'.spoke = ehistory.spoke \cup {erun.day}
  BY <1>1, HistoryOfStep DEF EarlierInv, EarlierTypes, Run12
<1> HIDE DEF mail
<1>5. \/ erun.result = "ok" /\ erun' = [[erun EXCEPT !.mailed = TRUE] EXCEPT !.pc = "keep"]
      \/ erun.result # "ok" /\ erun' = NoRun
  BY DEF SendDigest, Move
<1>6. erun.result = "ok" => /\ erun' \in Run12 /\ erun'.pc = "keep" /\ erun'.mailed = TRUE /\ erun'.day = erun.day
                            /\ erun'.kind = erun.kind /\ erun'.final = erun.final
  BY <1>1, <1>5 DEF Run12
<1>7. EarlierTypes'
  BY <1>2, <1>3, <1>4, <1>5, <1>6 DEF EarlierInv, EarlierTypes, Busy
<1>8. EarlierPath'
  BY <1>1, <1>4, <1>5, <1>6 DEF EarlierInv, EarlierPath, Busy
<1>9. \A day \in 1 .. EDays : Accounted(day) => Accounted(day)'
  BY <1>1, <1>3 DEF Accounted
<1>10. PICK here \in 1 .. EDays : here = erun.day
  BY <1>1 DEF Run12
<1>11. mail.ok => Accounted(here)'
  <2>1. CASE erun.result = "ok"
    BY <1>0, <1>5, <1>6, <1>10, <2>1 DEF Accounted, Busy
  <2>2. CASE erun.result = "killed"
    BY <1>10, <2>2 DEF SendDigest, Accounted
  <2>3. QED BY <1>2, <2>1, <2>2
<1>12. Len(emails) \in Nat /\ DOMAIN emails = 1 .. Len(emails) /\ DOMAIN emails' = 1 .. Len(emails) + 1
       /\ emails'[Len(emails) + 1] = mail /\ \A i \in DOMAIN emails : emails'[i] = emails[i] /\ emails[i] \in Mail12
  BY <1>2, <1>3 DEF EarlierInv, EarlierTypes
<1>13. ASSUME NEW i \in DOMAIN emails', emails'[i].ok, NEW day \in 1 .. EDays, day = emails'[i].day
       PROVE  Accounted(day)'
  <2>1. CASE i \in DOMAIN emails
    <3>1. Accounted(day)
      BY <1>12, <1>13, <2>1 DEF EarlierInv
    <3>2. QED BY <1>9, <3>1
  <2>2. CASE i = Len(emails) + 1
    BY <1>2, <1>10, <1>11, <1>12, <1>13, <2>2
  <2>3. QED BY <1>12, <2>1, <2>2
<1>14. (\A i \in DOMAIN emails : emails[i].ok => Accounted(emails[i].day))'
  <2> SUFFICES ASSUME NEW i \in DOMAIN emails', emails'[i].ok PROVE Accounted(emails[i].day)'
    OBVIOUS
  <2>0. emails'[i] \in Mail12
    BY <1>7 DEF EarlierTypes
  <2>1. PICK day \in 1 .. EDays : day = emails'[i].day
    BY <2>0 DEF Mail12
  <2>2. Accounted(day)'
    BY <1>13, <2>1
  <2>3. QED BY <2>1, <2>2 DEF Accounted
<1>15. RepeatedDigestHasACause'
  <2> SUFFICES ASSUME NEW i \in DOMAIN emails', NEW j \in DOMAIN emails', i < j, emails'[i].ok, emails'[j].ok,
                      emails'[i].day = emails'[j].day, emails'[j].kind \in Crons
               PROVE  emails'[j].day \in ecause'
    BY DEF RepeatedDigestHasACause
  <2>1. CASE j \in DOMAIN emails
    BY <1>3, <1>12, <2>1 DEF EarlierInv, RepeatedDigestHasACause
  <2>2. CASE j = Len(emails) + 1
    <3>1. i \in DOMAIN emails /\ emails[i].ok /\ emails[i].day = erun.day
      BY <1>2, <1>12, <2>2
    <3>2. erun.day \in emarkers \cup ecause
      BY <1>1, <3>1 DEF EarlierInv, Accounted
    <3>3. erun.day \notin emarkers
      BY <1>1, <1>2, <1>12, <2>2 DEF EarlierInv, EarlierPath, Crons, Correction
    <3>4. QED BY <1>2, <1>3, <1>12, <2>2, <3>2, <3>3
  <2>3. QED BY <1>12, <2>1, <2>2
<1>16. QED BY <1>7, <1>8, <1>14, <1>15 DEF EarlierInv

LEMMA EarlierNextSafe == EarlierInv /\ [EarlierNext]_earlierVars => EarlierInv'
<1> SUFFICES ASSUME EarlierInv, [EarlierNext]_earlierVars PROVE EarlierInv'
  OBVIOUS
<1>1. CASE UNCHANGED earlierVars
  BY <1>1 DEF earlierVars, EarlierInv, EarlierTypes, EarlierPath, Accounted, Busy, RepeatedDigestHasACause
<1>2. QED BY <1>1, EarlierArrives, EarlierBegins, EarlierSteps, EarlierSends DEF EarlierNext

LEMMA EarlierSpeaks ==
  ASSUME EarlierInv, [EarlierNext]_earlierVars, erun # NoRun, erun.pc \notin {"gate", "calendar"},
         erun.kind \notin {1, 2}, erun' = NoRun
  PROVE  erun.day \in ehistory'.spoke \cup ehistory'.mute
<1>0. NoRun.pc = "idle"
  BY DEF NoRun
<1>1. erun \in Run12 /\ erun.day \in Nat /\ ehistory \in History12 /\ eday \in Nat
  BY DEF EarlierInv, EarlierTypes, Busy, Run12
<1>2. erun.final /\ Sends(erun)
  BY <1>1 DEF EarlierInv, EarlierPath, Busy, FinalAttempt, Sends
<1>3. Restore12 \/ SendDigest \/ SendFails \/ KeepAndMark \/ Lost
  <2>1. ~(Midnight \/ (\E k \in Kinds12 : Arrive(k)) \/ Begin \/ UNCHANGED earlierVars)
    BY DEF Midnight, Arrive, Begin, earlierVars
  <2>2. ~(Gate \/ Calendar12 \/ Silent)
    BY <1>2 DEF Gate, Calendar12, Silent
  <2>3. ~Signal
    <3> SUFFICES ASSUME Signal PROVE FALSE
      OBVIOUS
    <3>1. PICK r \in Results : erun' = [[erun EXCEPT !.result = r] EXCEPT !.pc = "build"]
      BY DEF Signal, Move
    <3>2. erun'.pc = "build"
      BY <1>1, <3>1 DEF Run12
    <3>3. QED BY <1>0, <3>2
  <2>4. QED BY <2>1, <2>2, <2>3 DEF EarlierNext
<1>4. CASE Mute
  BY <1>1, <1>4, HistoryOfStep
<1>5. CASE SendDigest
  BY <1>1, <1>5, HistoryOfStep
<1>6. CASE KeepAndMark
  BY <1>1, <1>6 DEF KeepAndMark, EarlierInv, EarlierPath, Busy
<1>7. CASE Restore12
  <2>1. ~Move("signal", erun)
    <3> SUFFICES ASSUME erun' = [erun EXCEPT !.pc = "signal"] PROVE FALSE
      BY DEF Move
    <3>1. erun'.pc = "signal"
      BY <1>1 DEF Run12
    <3>2. QED BY <1>0, <3>1
  <2>2. QED BY <1>4, <1>7, <2>1 DEF Restore12
<1>8. QED BY <1>3, <1>4, <1>5, <1>6, <1>7 DEF SendFails, Lost

\* Among finitely many artifacts of distinct creation there is a newest one.
LEMMA Newest13Facts ==
  ASSUME NEW arts, NEW name, NEW before,
         \A a \in arts : a.created \in 1 .. 3 /\ a.whole \in BOOLEAN,
         \A a, b \in arts : a.created = b.created => a = b
  PROVE  /\ Newest13(arts, name, before) \subseteq arts
         /\ \A a \in Newest13(arts, name, before) :
              a.name = name /\ a.run = "success" /\ (before => a.created < Cutoff)
         /\ \A a, b \in Newest13(arts, name, before) : a = b
         /\ Newest13(arts, name, before) = {} =>
              ~ \E a \in arts : a.name = name /\ a.run = "success" /\ (before => a.created < Cutoff)
<1> DEFINE fit == {a \in Candidates(arts, name, before) : a.run = "success"}
<1>1. \A a \in fit : a \in arts /\ a.name = name /\ a.run = "success" /\ (before => a.created < Cutoff)
  BY DEF Candidates
<1>2. Newest13(arts, name, before) = {a \in fit : \A b \in fit : b.created <= a.created}
  BY DEF Newest13
<1>3. \A a \in arts : a.name = name /\ a.run = "success" /\ (before => a.created < Cutoff) => a \in fit
  BY DEF Candidates
<1> HIDE DEF fit
<1>4. \A a, b \in Newest13(arts, name, before) : a = b
  BY <1>1, <1>2
<1>5. ASSUME fit # {} PROVE Newest13(arts, name, before) # {}
  <2>1. \A a \in fit : a.created \in 1 .. 3
    BY <1>1
  <2>2. CASE \E a \in fit : a.created = 3
    BY <1>2, <2>1, <2>2
  <2>3. CASE (\A a \in fit : a.created # 3) /\ \E a \in fit : a.created = 2
    BY <1>2, <2>1, <2>3
  <2>4. CASE \A a \in fit : a.created = 1
    BY <1>2, <1>5, <2>4
  <2>5. QED BY <2>1, <2>2, <2>3, <2>4
<1>6. QED BY <1>1, <1>2, <1>3, <1>4, <1>5

LEMMA SeedFromSuccess ==
  ASSUME NEW arts, NEW own \in BOOLEAN,
         \A a \in arts : a.created \in 1 .. 3 /\ a.whole \in BOOLEAN,
         \A a, b \in arts : a.created = b.created => a = b
  PROVE  SeedStandsOnASuccess(arts, own)
<1> DEFINE current == Newest13(arts, "monthly", FALSE)
           older == Newest13(arts, "r7", TRUE)
           From(newest) == UNION {Extracted(a) : a \in newest}
           s == Seed13(own, arts)
<1>1. /\ current \subseteq arts /\ \A a, b \in current : a = b
      /\ \A a \in current : a.name = "monthly" /\ a.run = "success"
      /\ current = {} => ~ \E a \in arts : a.name = "monthly" /\ a.run = "success"
  <2>1. /\ current \subseteq arts
        /\ \A a \in current : a.name = "monthly" /\ a.run = "success"
        /\ \A a, b \in current : a = b
    BY Newest13Facts
  <2>2. current = {} => ~ \E a \in arts : a.name = "monthly" /\ a.run = "success" /\ (FALSE => a.created < Cutoff)
    BY Newest13Facts
  <2>3. QED BY <2>1, <2>2
<1>2. /\ older \subseteq arts /\ \A a, b \in older : a = b
      /\ \A a \in older : a.name = "r7" /\ a.run = "success" /\ a.created < Cutoff
  <2>1. older \subseteq arts
    BY Newest13Facts
  <2>2. \A a, b \in older : a = b
    BY Newest13Facts
  <2>3. \A a \in older : a.name = "r7" /\ a.run = "success" /\ (TRUE => a.created < Cutoff)
    BY Newest13Facts
  <2>4. QED BY <2>1, <2>2, <2>3
<1>3. ASSUME NEW newest, newest # {}, newest \subseteq arts, \A a, b \in newest : a = b
      PROVE  /\ (\A a \in newest : a.whole) <=> From(newest) # {}
             /\ \A a \in From(newest) : a \in newest /\ a.whole
  BY <1>3 DEF Extracted
<1>4. \/ s.source = "own" /\ s.from = {}
      \/ s.source = "failed" /\ s.from = {}
      \/ /\ current # {} /\ s.from = From(current)
         /\ s.source = IF \A a \in current : a.whole THEN "migrated" ELSE "failed"
      \/ /\ current = {} /\ older # {} /\ s.from = From(older)
         /\ s.source = IF \A a \in older : a.whole THEN "migrated" ELSE "failed"
  BY DEF Seed13
<1> HIDE DEF current, older, From, s
<1>5. /\ s.source = "migrated" <=> s.from # {}
      /\ \A a \in s.from : a.whole /\ a.run = "success"
      /\ (\E a \in s.from : a.name = "r7") => ~\E a \in arts : a.name = "monthly" /\ a.run = "success"
      /\ \A a \in s.from : a.name = "r7" => a.created < Cutoff
  <2>1. CASE s.from = {} /\ s.source # "migrated"
    BY <2>1
  <2>2. CASE current # {} /\ s.from = From(current) /\ s.source = IF \A a \in current : a.whole THEN "migrated" ELSE "failed"
    <3>1. (\A a \in current : a.whole) <=> From(current) # {}
      BY <1>1, <1>3, <2>2
    <3>2. \A a \in From(current) : a \in current /\ a.whole
      BY <1>1, <1>3, <2>2
    <3>3. QED BY <1>1, <2>2, <3>1, <3>2
  <2>3. CASE current = {} /\ older # {} /\ s.from = From(older) /\ s.source = IF \A a \in older : a.whole THEN "migrated" ELSE "failed"
    <3>1. (\A a \in older : a.whole) <=> From(older) # {}
      BY <1>2, <1>3, <2>3
    <3>2. \A a \in From(older) : a \in older /\ a.whole
      BY <1>2, <1>3, <2>3
    <3>3. QED BY <1>1, <1>2, <2>3, <3>1, <3>2
  <2>4. QED BY <1>4, <2>1, <2>2, <2>3
<1>6. QED BY <1>5 DEF SeedStandsOnASuccess, s

-------------------------------------------------------------------------------
(* The refresh of the shared inputs.                                              *)

\* A set of naturals has a least element.
LEMMA LeastOf ==
  ASSUME NEW T \in SUBSET Nat, T # {}
  PROVE  \E m \in T : \A k \in T : m <= k
<1>1. PICK m \in T : \A k \in T : ~(<<k, m>> \in OpToRel(<, Nat))
  BY NatLessThanWellFounded, WFMin
<1>2. ASSUME NEW k \in T PROVE m <= k
  <2>1. k \in Nat /\ m \in Nat
    OBVIOUS
  <2>2. ~(k < m)
    BY <1>1, <2>1 DEF OpToRel
  <2>3. QED BY <2>1, <2>2
<1>3. QED BY <1>2

\* Every day has a completed session: the first day is one.
LEMMA CompletedFacts ==
  ASSUME NEW day \in 1 .. NDays
  PROVE  Completed(day) \in NSessions /\ Completed(day) <= day /\ Completed(day) \in Nat
<1> DEFINE T == {k \in Nat : \A t \in NSessions : t <= day => t <= k}
<1>1. day \in T
  BY RefreshAssumption
<1>2. PICK m \in T : \A k \in T : m <= k
  BY <1>1, LeastOf
<1>3. 1 <= m
  BY <1>2, RefreshAssumption
<1>4. m - 1 \notin T /\ m \in Nat /\ m - 1 \in Nat
  BY <1>2, <1>3
<1>5. PICK s \in NSessions : s <= day /\ ~(s <= m - 1)
  BY <1>4
<1>6. s \in Nat /\ s <= m
  BY <1>2, <1>5, RefreshAssumption
<1>7. s = m
  BY <1>4, <1>5, <1>6
<1>8. \E u \in NSessions : u <= day /\ \A t \in NSessions : t <= day => t <= u
  BY <1>2, <1>5, <1>7
<1>9. PICK u \in NSessions : u <= day /\ u = Completed(day)
  BY <1>8 DEF Completed
<1>10. u \in Nat
  BY RefreshAssumption
<1>11. QED BY <1>9, <1>10

Generation == [run : Nat, number : Nat]
Version == [version : Nat, inputs : Nat]
EarlySteps == {"snapshot", "notice", "tail", "retry", "collect"}
LateSteps == {"check", "capture", "generate", "published"}
RefreshRun ==
  [pc : EarlySteps \cup LateSteps, expected : Nat, began : Nat, reuse : BOOLEAN, static : Nat, verified : Nat,
   attempt : Nat, tries : Nat, baseline : SUBSET Generation, based : BOOLEAN, inputs : Nat, seen : SUBSET Version,
   refused : BOOLEAN]
RefreshTypes ==
  /\ nday \in 1 .. NDays
  /\ nsaved \in [target : Nat, verified : Nat, static : Nat]
  /\ nrun = Ready \/ nrun \in RefreshRun
  /\ ngens \subseteq Generation /\ IsFiniteSet(ngens)
  /\ nkept \in [gens : SUBSET Generation, complete : BOOLEAN]
  /\ nslips \in Nat /\ nruns \in Nat
\* Until it collects a run has no evidence; its baseline is what other runs left.
EvidenceSafe ==
  /\ \A g \in ngens : g.run <= nruns
  /\ nrun.pc \in EarlySteps => nkept = NoEvidence
  /\ nrun.pc = "snapshot" => \A g \in ngens : g.run # nruns
  /\ nrun.pc \in EarlySteps \ {"snapshot"} /\ nrun.based =>
       /\ \A g \in nrun.baseline : g.run # nruns
       /\ \A g \in ngens : g.run # nruns => g \in nrun.baseline
  /\ EvidenceIsThisRuns
\* What a proof says of the static tables under it.
Proven(target, verified, static) ==
  /\ target <= verified
  /\ verified = target => static = target
  /\ static = target \/ static + nslips >= verified
TablesSafe ==
  /\ Proven(nsaved.target, nsaved.verified, nsaved.static)
  /\ nrun # Ready => nrun.began <= nday /\ nday <= nrun.began + 1 /\ nrun.expected <= nrun.began
  /\ nrun.pc \in EarlySteps =>
       \/ /\ nrun.verified = 0 /\ nrun.static = nsaved.static
          /\ nrun.reuse => CanReuse(nsaved, nrun.expected, nrun.began)
       \/ nrun.pc = "collect" /\ nrun.verified # 0
  /\ (nrun.pc \in LateSteps \/ (nrun.pc = "collect" /\ nrun.verified # 0)) =>
       Proven(nrun.expected, nrun.verified, nrun.static)
\* The fingerprint counts the changes since it was taken.
InputsSafe ==
  /\ nrun.pc = "generate" => IsFiniteSet(nrun.seen) /\ \A v \in nrun.seen : 1 <= v.inputs /\ v.inputs <= nrun.inputs
  /\ nrun.pc = "generate" => 1 <= nrun.inputs
  /\ VersionsShareInputs
RefreshInv == RefreshTypes /\ EvidenceSafe /\ TablesSafe /\ InputsSafe

LEMMA ReadyFacts == Ready.pc = "idle" /\ (\A job \in RefreshRun : job.pc \in EarlySteps \cup LateSteps /\ job # Ready)
<1>1. Ready.pc = "idle"
  BY DEF Ready
<1>2. \A job \in RefreshRun : job.pc \in EarlySteps \cup LateSteps
  BY DEF RefreshRun
<1>3. "idle" \notin EarlySteps \cup LateSteps
  BY DEF EarlySteps, LateSteps
<1>4. QED BY <1>1, <1>2, <1>3

LEMMA RefreshStart == RefreshInit => RefreshInv
<1> SUFFICES ASSUME RefreshInit PROVE RefreshInv
  OBVIOUS
<1>1. RefreshTypes
  BY RefreshAssumption, FS_EmptySet DEF RefreshInit, RefreshTypes, NoState, NoEvidence
<1>2. nrun.pc \notin EarlySteps \cup LateSteps /\ nrun = Ready
  BY DEF RefreshInit, Ready, EarlySteps, LateSteps
<1>3. EvidenceSafe
  BY <1>2 DEF RefreshInit, EvidenceSafe, EvidenceIsThisRuns, NoEvidence
<1>4. TablesSafe
  BY <1>2 DEF RefreshInit, TablesSafe, Proven, NoState, EarlySteps
<1>5. InputsSafe
  BY <1>2 DEF InputsSafe, VersionsShareInputs, LateSteps
<1>6. QED BY <1>1, <1>3, <1>4, <1>5 DEF RefreshInv

LEMMA MidnightSafe == RefreshInv /\ Midnights => RefreshInv'
<1> SUFFICES ASSUME RefreshInv, Midnights PROVE RefreshInv'
  OBVIOUS
<1>0. nrun # Ready => nrun.pc # "idle" /\ nrun \in RefreshRun
  BY ReadyFacts DEF RefreshInv, RefreshTypes, EarlySteps, LateSteps
<1>1. RefreshTypes'
  BY RefreshAssumption DEF Midnights, RefreshInv, RefreshTypes
<1>2. EvidenceSafe'
  BY DEF Midnights, RefreshInv, EvidenceSafe, EvidenceIsThisRuns
<1>3. TablesSafe'
  <2>1. nrun # Ready => nrun.began \in Nat /\ nday = nrun.began
    BY <1>0 DEF Midnights, RefreshRun
  <2>2. QED BY <2>1 DEF Midnights, RefreshInv, TablesSafe, Proven
<1>4. InputsSafe'
  BY DEF Midnights, RefreshInv, InputsSafe, VersionsShareInputs
<1>5. QED BY <1>1, <1>2, <1>3, <1>4 DEF RefreshInv

LEMMA StartRefreshSafe == RefreshInv /\ StartRefresh => RefreshInv'
<1> SUFFICES ASSUME RefreshInv, StartRefresh PROVE RefreshInv'
  OBVIOUS
<1> DEFINE expected == Completed(nday)
           job == [pc |-> "snapshot", expected |-> expected, began |-> nday, reuse |-> CanReuse(nsaved, expected, nday),
                   static |-> nsaved.static, verified |-> 0, attempt |-> 1, tries |-> 0, baseline |-> {}, based |-> FALSE,
                   inputs |-> 0, seen |-> {}, refused |-> FALSE]
<1>1. /\ nrun' = job /\ nkept' = NoEvidence /\ nruns' = nruns + 1
      /\ UNCHANGED <<nday, nsaved, ngens, nslips>>
  BY DEF StartRefresh
<1>2. expected \in Nat /\ expected <= nday /\ nday \in Nat
  BY CompletedFacts, RefreshAssumption DEF RefreshInv, RefreshTypes
<1>3. CanReuse(nsaved, expected, nday) \in BOOLEAN /\ nsaved.static \in Nat
  BY DEF CanReuse, RefreshInv, RefreshTypes
<1> HIDE DEF expected
<1>4. /\ job \in RefreshRun /\ job.pc = "snapshot" /\ job.began = nday /\ job.expected = expected /\ job.verified = 0
      /\ job.static = nsaved.static /\ job.reuse = CanReuse(nsaved, expected, nday)
  BY <1>2, <1>3 DEF RefreshRun, EarlySteps
<1> HIDE DEF job
<1>5. RefreshTypes'
  BY <1>1, <1>4 DEF RefreshInv, RefreshTypes, NoEvidence
<1>6. EvidenceSafe'
  BY <1>1, <1>4 DEF RefreshInv, RefreshTypes, Generation, EvidenceSafe, EvidenceIsThisRuns, NoEvidence, EarlySteps
<1>7. TablesSafe'
  BY <1>1, <1>2, <1>4 DEF RefreshInv, TablesSafe, Proven, EarlySteps, LateSteps
<1>8. InputsSafe'
  BY <1>1, <1>4 DEF InputsSafe, VersionsShareInputs
<1>9. QED BY <1>5, <1>6, <1>7, <1>8 DEF RefreshInv

\* Going to a step changes nothing else of the run.
SameRun(job, other) ==
  /\ job.expected = other.expected /\ job.began = other.began /\ job.reuse = other.reuse
  /\ job.static = other.static /\ job.verified = other.verified /\ job.baseline = other.baseline
  /\ job.based = other.based /\ job.inputs = other.inputs /\ job.seen = other.seen
LEMMA GoFacts ==
  ASSUME NEW job \in RefreshRun, NEW pc \in EarlySteps \cup LateSteps, Go(pc, job)
  PROVE  nrun' \in RefreshRun /\ nrun'.pc = pc /\ SameRun(nrun', job)
BY DEF Go, RefreshRun, SameRun

LEMMA BusyFacts ==
  ASSUME RefreshInv, nrun.pc # "idle"
  PROVE  nrun \in RefreshRun /\ nrun # Ready
BY ReadyFacts DEF RefreshInv, RefreshTypes

\* A step of the run among the early ones that reads and writes nothing.
LEMMA EarlySame ==
  ASSUME RefreshInv, nrun \in RefreshRun, nrun' \in RefreshRun, nrun.pc \in EarlySteps \ {"snapshot"}, nrun.verified = 0,
         nrun'.pc \in EarlySteps \ {"snapshot"}, SameRun(nrun', nrun),
         UNCHANGED <<nday, nsaved, ngens, nkept, nslips, nruns>>
  PROVE  RefreshInv'
<1>1. RefreshTypes'
  BY DEF RefreshInv, RefreshTypes
<1>2. EvidenceSafe'
  BY DEF RefreshInv, EvidenceSafe, EvidenceIsThisRuns, SameRun
<1>3. nrun # Ready /\ "generate" \notin EarlySteps /\ "published" \notin EarlySteps
  BY ReadyFacts DEF EarlySteps
<1>4. nrun'.pc \notin LateSteps /\ nrun.pc \notin LateSteps
  BY DEF EarlySteps, LateSteps
<1>5. TablesSafe'
  BY <1>3, <1>4 DEF RefreshInv, TablesSafe, Proven, CanReuse, SameRun
<1>6. InputsSafe'
  BY <1>3 DEF InputsSafe, VersionsShareInputs
<1>7. QED BY <1>1, <1>2, <1>5, <1>6 DEF RefreshInv

LEMMA SnapshotSafe == RefreshInv /\ Snapshot => RefreshInv'
<1> SUFFICES ASSUME RefreshInv, Snapshot PROVE RefreshInv'
  OBVIOUS
<1>1. /\ nrun.pc = "snapshot" /\ UNCHANGED <<nday, nsaved, ngens, nkept, nslips, nruns>>
      /\ \E written \in BOOLEAN : Go("notice", [nrun EXCEPT !.based = written, !.baseline = IF written THEN ngens ELSE {}])
  BY DEF Snapshot
<1>2. PICK written \in BOOLEAN : Go("notice", [nrun EXCEPT !.based = written, !.baseline = IF written THEN ngens ELSE {}])
  BY <1>1
<1>3. nrun \in RefreshRun /\ nrun # Ready
  BY <1>1, BusyFacts
<1> DEFINE baseline == IF written THEN ngens ELSE {}
           job == [nrun EXCEPT !.based = written, !.baseline = baseline]
<1>4. /\ job \in RefreshRun /\ job.based = written /\ job.baseline = baseline
      /\ job.expected = nrun.expected /\ job.began = nrun.began /\ job.reuse = nrun.reuse
      /\ job.static = nrun.static /\ job.verified = nrun.verified
  BY <1>3 DEF RefreshInv, RefreshTypes, RefreshRun
<1>5. Go("notice", job) /\ "notice" \in EarlySteps \cup LateSteps
  BY <1>2 DEF EarlySteps
<1> HIDE DEF job
<1>6. nrun' \in RefreshRun /\ nrun'.pc = "notice" /\ SameRun(nrun', job)
  BY <1>4, <1>5, GoFacts
<1>7. RefreshTypes'
  BY <1>1, <1>6 DEF RefreshInv, RefreshTypes
<1>8. EvidenceSafe'
  BY <1>1, <1>4, <1>6 DEF RefreshInv, EvidenceSafe, EvidenceIsThisRuns, SameRun, EarlySteps
<1>9. TablesSafe'
  BY <1>1, <1>3, <1>4, <1>6 DEF RefreshInv, TablesSafe, Proven, CanReuse, SameRun, EarlySteps, LateSteps
<1>10. InputsSafe'
  BY <1>6 DEF InputsSafe, VersionsShareInputs
<1>11. QED BY <1>7, <1>8, <1>9, <1>10 DEF RefreshInv

LEMMA NoticeTrySafe == RefreshInv /\ NoticeTry => RefreshInv'
<1> SUFFICES ASSUME RefreshInv, NoticeTry PROVE RefreshInv'
  OBVIOUS
<1> DEFINE own == {g \in ngens : g.run = nruns}
           new == [run |-> nruns, number |-> Cardinality(own) + 1]
<1>1. /\ nrun.pc = "notice" /\ ngens' = ngens \cup {new}
      /\ UNCHANGED <<nday, nsaved, nkept, nslips, nruns>>
  BY DEF NoticeTry
<1>2. nrun \in RefreshRun /\ nrun # Ready
  BY <1>1, BusyFacts
<1>3. PICK result \in {"archived", "pagination", "rejected"} :
        nrun' = [nrun EXCEPT
          !.tries = IF result = "pagination" /\ nrun.tries + 1 < 3 THEN nrun.tries + 1 ELSE 0,
          !.pc = IF result = "archived" THEN "tail" ELSE IF result = "pagination" /\ nrun.tries + 1 < 3 THEN "notice" ELSE "retry",
          !.refused = result # "archived" /\ ~(result = "pagination" /\ nrun.tries + 1 < 3)]
  BY DEF NoticeTry
<1> DEFINE tries == IF result = "pagination" /\ nrun.tries + 1 < 3 THEN nrun.tries + 1 ELSE 0
           pc == IF result = "archived" THEN "tail" ELSE IF result = "pagination" /\ nrun.tries + 1 < 3 THEN "notice" ELSE "retry"
           refused == result # "archived" /\ ~(result = "pagination" /\ nrun.tries + 1 < 3)
<1>4. tries \in Nat /\ pc \in {"tail", "notice", "retry"} /\ refused \in BOOLEAN
  BY <1>2 DEF RefreshRun
<1>5. nrun' = [nrun EXCEPT !.tries = tries, !.pc = pc, !.refused = refused]
  BY <1>3
<1> HIDE DEF tries, pc, refused
<1>6. nrun' \in RefreshRun
  BY <1>2, <1>4, <1>5 DEF RefreshRun, EarlySteps
<1>7. nrun'.pc = pc /\ SameRun(nrun', nrun)
  BY <1>2, <1>5 DEF RefreshRun, SameRun
<1>8. IsFiniteSet(own) /\ new \in Generation /\ new.run = nruns
  <2>1. IsFiniteSet(own) /\ nruns \in Nat
    BY FS_Subset DEF RefreshInv, RefreshTypes
  <2>2. Cardinality(own) + 1 \in Nat
    BY <2>1, FS_CardinalityType
  <2>3. QED BY <2>1, <2>2 DEF Generation
<1> HIDE DEF new, own
<1>9. RefreshTypes'
  BY <1>1, <1>6, <1>8, FS_AddElement DEF RefreshInv, RefreshTypes
<1>10. EvidenceSafe'
  <2>1. pc \in EarlySteps /\ pc # "snapshot" /\ "notice" \in EarlySteps \ {"snapshot"}
    BY <1>4 DEF EarlySteps
  <2>2. nkept = NoEvidence /\ nruns \in Nat
    BY <1>1, <2>1 DEF RefreshInv, EvidenceSafe, RefreshTypes
  <2>3. EvidenceIsThisRuns'
    BY <1>1, <2>2 DEF EvidenceIsThisRuns, NoEvidence
  <2>4. QED
    BY <1>1, <1>4, <1>7, <1>8, <2>1, <2>2, <2>3 DEF RefreshInv, EvidenceSafe, SameRun
<1>11. TablesSafe'
  BY <1>1, <1>2, <1>4, <1>7 DEF RefreshInv, TablesSafe, Proven, CanReuse, SameRun, EarlySteps, LateSteps
<1>12. InputsSafe'
  BY <1>4, <1>7 DEF InputsSafe, VersionsShareInputs
<1>13. QED BY <1>9, <1>10, <1>11, <1>12 DEF RefreshInv

LEMMA RestOfRefreshSafe == RefreshInv /\ RestOfRefresh => RefreshInv'
<1> SUFFICES ASSUME RefreshInv, RestOfRefresh PROVE RefreshInv'
  OBVIOUS
<1>1. /\ nrun.pc = "tail" /\ UNCHANGED <<nday, nsaved, ngens, nkept, nruns>>
      /\ \/ /\ Go("collect", [nrun EXCEPT !.static = IF nrun.reuse THEN @ ELSE nday, !.verified = nday])
            /\ nslips' = IF nrun.reuse /\ nday # nrun.began THEN nslips + 1 ELSE nslips
         \/ \E refused \in BOOLEAN : Go("retry", [nrun EXCEPT !.refused = refused]) /\ nslips' = nslips
  BY DEF RestOfRefresh
<1>2. nrun \in RefreshRun /\ nrun # Ready /\ nday \in Nat \ {0} /\ nslips \in Nat
  BY <1>1, BusyFacts, RefreshAssumption DEF RefreshInv, RefreshTypes
<1>3. CASE /\ Go("collect", [nrun EXCEPT !.static = IF nrun.reuse THEN @ ELSE nday, !.verified = nday])
           /\ nslips' = IF nrun.reuse /\ nday # nrun.began THEN nslips + 1 ELSE nslips
  <2> DEFINE static == IF nrun.reuse THEN nrun.static ELSE nday
             job == [nrun EXCEPT !.static = static, !.verified = nday]
  <2>1. /\ job \in RefreshRun /\ job.static = static /\ job.verified = nday
        /\ job.expected = nrun.expected /\ job.began = nrun.began /\ job.based = nrun.based /\ job.baseline = nrun.baseline
    BY <1>2 DEF RefreshRun
  <2>2. Go("collect", job) /\ "collect" \in EarlySteps \cup LateSteps
    BY <1>3 DEF EarlySteps
  <2> HIDE DEF job, static
  <2>3. nrun' \in RefreshRun /\ nrun'.pc = "collect" /\ SameRun(nrun', job)
    BY <2>1, <2>2, GoFacts
  <2>4. RefreshTypes'
    BY <1>1, <1>2, <1>3, <2>3 DEF RefreshInv, RefreshTypes
  <2>5. EvidenceSafe'
    BY <1>1, <2>1, <2>3 DEF RefreshInv, EvidenceSafe, EvidenceIsThisRuns, SameRun, EarlySteps
  <2>6. TablesSafe'
    <3>1. /\ nrun.static = nsaved.static /\ nrun.verified = 0
          /\ nrun.reuse => CanReuse(nsaved, nrun.expected, nrun.began)
          /\ nrun.began <= nday /\ nday <= nrun.began + 1 /\ nrun.expected <= nrun.began
          /\ Proven(nsaved.target, nsaved.verified, nsaved.static)
      BY <1>1, <1>2 DEF RefreshInv, TablesSafe, EarlySteps
    <3>2. /\ nrun.expected \in Nat /\ nrun.began \in Nat /\ nsaved.static \in Nat /\ nsaved.verified \in Nat /\ nsaved.target \in Nat
      BY <1>2 DEF RefreshRun, RefreshInv, RefreshTypes
    <3>3. /\ nrun.expected <= nday
          /\ nday = nrun.expected => static = nrun.expected
          /\ static = nrun.expected \/ static + nslips' >= nday
      <4>1. CASE ~nrun.reuse
        BY <1>2, <1>3, <3>1, <3>2, <4>1 DEF static
      <4>2. CASE nrun.reuse /\ nday = nrun.began
        BY <1>2, <1>3, <3>1, <3>2, <4>2 DEF static, CanReuse, Proven
      <4>3. CASE nrun.reuse /\ nday = nrun.began + 1
        BY <1>2, <1>3, <3>1, <3>2, <4>3 DEF static, CanReuse, Proven
      <4>4. QED BY <1>2, <3>1, <3>2, <4>1, <4>2, <4>3
    <3>4. nrun'.expected = nrun.expected /\ nrun'.verified = nday /\ nrun'.static = static /\ nrun'.began = nrun.began
      BY <2>1, <2>3 DEF SameRun
    <3>5. Proven(nrun.expected, nrun.verified, nrun.static)'
      BY <3>3, <3>4 DEF Proven
    <3>6. Proven(nsaved.target, nsaved.verified, nsaved.static)'
      BY <1>1, <1>2, <1>3, <3>1, <3>2 DEF Proven
    <3>7. QED BY <1>1, <1>2, <2>3, <3>1, <3>4, <3>5, <3>6 DEF TablesSafe
  <2>7. InputsSafe'
    BY <2>3 DEF InputsSafe, VersionsShareInputs
  <2>8. QED BY <2>4, <2>5, <2>6, <2>7 DEF RefreshInv
<1>4. CASE \E refused \in BOOLEAN : Go("retry", [nrun EXCEPT !.refused = refused]) /\ nslips' = nslips
  <2>1. PICK refused \in BOOLEAN : Go("retry", [nrun EXCEPT !.refused = refused]) /\ nslips' = nslips
    BY <1>4
  <2> DEFINE job == [nrun EXCEPT !.refused = refused]
  <2>2. job \in RefreshRun /\ SameRun(job, nrun)
    BY <1>2 DEF RefreshRun, SameRun
  <2>3. Go("retry", job) /\ "retry" \in EarlySteps \cup LateSteps
    BY <2>1 DEF EarlySteps
  <2> HIDE DEF job
  <2>4. nrun' \in RefreshRun /\ nrun'.pc = "retry" /\ SameRun(nrun', nrun)
    BY <2>2, <2>3, GoFacts DEF SameRun
  <2>5. nrun.verified = 0 /\ {"tail", "retry"} \subseteq EarlySteps \ {"snapshot"}
    BY <1>1 DEF RefreshInv, TablesSafe, EarlySteps
  <2>6. QED BY <1>1, <1>2, <2>1, <2>4, <2>5, EarlySame
<1>5. QED BY <1>1, <1>3, <1>4

LEMMA RetrySafe == RefreshInv /\ Retry => RefreshInv'
<1> SUFFICES ASSUME RefreshInv, Retry PROVE RefreshInv'
  OBVIOUS
<1>1. /\ nrun.pc = "retry" /\ UNCHANGED <<nday, nsaved, ngens, nkept, nslips, nruns>>
      /\ Go("notice", [nrun EXCEPT !.attempt = @ + 1]) \/ Go("collect", nrun)
  BY DEF Retry
<1>2. nrun \in RefreshRun /\ nrun # Ready
  BY <1>1, BusyFacts
<1> DEFINE job == [nrun EXCEPT !.attempt = nrun.attempt + 1]
<1>3. job \in RefreshRun /\ SameRun(job, nrun) /\ SameRun(nrun, nrun)
  BY <1>2 DEF RefreshRun, SameRun
<1>4. {"notice", "retry", "collect"} \subseteq EarlySteps \ {"snapshot"}
  BY DEF EarlySteps
<1>5. Go("notice", job) \/ Go("collect", nrun)
  BY <1>1
<1> HIDE DEF job
<1>6. nrun' \in RefreshRun /\ nrun'.pc \in {"notice", "collect"} /\ SameRun(nrun', nrun)
  BY <1>2, <1>3, <1>4, <1>5, GoFacts DEF SameRun
<1>7. nrun.verified = 0
  BY <1>1, <1>4 DEF RefreshInv, TablesSafe
<1>8. QED BY <1>1, <1>2, <1>4, <1>6, <1>7, EarlySame

\* The run is over, or it goes to a later step with its evidence collected.
LEMMA LateSame ==
  ASSUME RefreshInv, nrun.pc # "idle", UNCHANGED <<nday, ngens, nslips, nruns>>,
         nkept' \in [gens : SUBSET Generation, complete : BOOLEAN], EvidenceIsThisRuns',
         nrun' = Ready \/ (nrun' \in RefreshRun /\ nrun'.pc \in LateSteps),
         nsaved' \in [target : Nat, verified : Nat, static : Nat], Proven(nsaved.target, nsaved.verified, nsaved.static)',
         nrun' # Ready => /\ nrun'.began = nrun.began /\ nrun'.expected = nrun.expected
                          /\ Proven(nrun.expected, nrun.verified, nrun.static)',
         InputsSafe'
  PROVE  RefreshInv'
<1>1. RefreshTypes'
  BY DEF RefreshInv, RefreshTypes
<1>2. nrun \in RefreshRun /\ nrun # Ready /\ Ready.pc = "idle"
  BY BusyFacts, ReadyFacts
<1>3. nrun'.pc \notin EarlySteps
  BY <1>2 DEF EarlySteps, LateSteps
<1>4. EvidenceSafe'
  <2>1. nrun'.pc # "snapshot" /\ nrun'.pc \notin EarlySteps \ {"snapshot"}
    BY <1>3 DEF EarlySteps
  <2>2. QED BY <1>3, <2>1 DEF RefreshInv, EvidenceSafe
<1>5. TablesSafe'
  <2>1. nrun' = Ready => nrun'.pc \notin LateSteps /\ nrun'.pc # "collect"
    BY <1>2 DEF LateSteps
  <2>2. "collect" \notin LateSteps /\ "collect" \in EarlySteps
    BY DEF LateSteps, EarlySteps
  <2>3. QED BY <1>2, <1>3, <2>1, <2>2 DEF RefreshInv, TablesSafe
<1>6. QED BY <1>1, <1>4, <1>5 DEF RefreshInv

LEMMA CollectSafe == RefreshInv /\ Collect => RefreshInv'
<1> SUFFICES ASSUME RefreshInv, Collect PROVE RefreshInv'
  OBVIOUS
<1> DEFINE new == ngens \ nrun.baseline
<1>1. /\ nrun.pc = "collect" /\ UNCHANGED <<nday, nsaved, ngens, nslips, nruns>>
      /\ IF nrun.verified = 0 THEN nrun' = Ready ELSE Go("check", nrun)
  BY DEF Collect
<1>2. PICK copied \in IF nrun.based THEN {Bounded(new)} \cup {Bounded(new) \ {g} : g \in new} ELSE {{}} :
        nkept' = [gens |-> copied, complete |-> nrun.based /\ ~Exceeds(new) /\ copied = Bounded(new)]
  BY DEF Collect
<1>3. nrun \in RefreshRun /\ nrun # Ready /\ "collect" \in EarlySteps \ {"snapshot"}
  BY <1>1, BusyFacts DEF EarlySteps
<1>4. nrun.based => new = {g \in ngens : g.run = nruns}
  BY <1>1, <1>3 DEF RefreshInv, EvidenceSafe
<1>5. Bounded(new) = {} \/ Bounded(new) = new
  BY DEF Bounded
<1>6. copied \subseteq new /\ (~nrun.based => copied = {}) /\ nrun.based \in BOOLEAN /\ new \subseteq Generation
  <2>1. nrun.based \in BOOLEAN /\ new \subseteq Generation
    BY <1>3 DEF RefreshRun, RefreshInv, RefreshTypes
  <2>2. CASE nrun.based
    <3>1. copied \in {Bounded(new)} \cup {Bounded(new) \ {g} : g \in new}
      BY <1>2, <2>2
    <3>2. copied \subseteq Bounded(new)
      BY <3>1
    <3>3. QED BY <1>5, <2>1, <2>2, <3>2
  <2>3. CASE ~nrun.based
    BY <1>2, <2>1, <2>3
  <2>4. QED BY <2>1, <2>2, <2>3
<1>7. ~Exceeds(new) /\ copied = Bounded(new) => copied = new
  BY <1>5, <1>6 DEF Exceeds
<1> HIDE DEF new
<1>8. nkept'.gens = copied /\ nkept'.complete = (nrun.based /\ ~Exceeds(new) /\ copied = Bounded(new))
  BY <1>2
<1>9. nkept' \in [gens : SUBSET Generation, complete : BOOLEAN]
  <2>1. copied \in SUBSET Generation /\ (nrun.based /\ ~Exceeds(new) /\ copied = Bounded(new)) \in BOOLEAN
    BY <1>6
  <2>2. QED BY <1>2, <2>1
<1>10. EvidenceIsThisRuns'
  BY <1>1, <1>4, <1>6, <1>7, <1>8 DEF EvidenceIsThisRuns
<1>11. nrun.verified # 0 => nrun' \in RefreshRun /\ nrun'.pc = "check" /\ SameRun(nrun', nrun)
  <2>1. "check" \in EarlySteps \cup LateSteps
    BY DEF LateSteps
  <2>2. QED BY <1>1, <1>3, <2>1, GoFacts
<1>12. nrun' # Ready => nrun.verified # 0 /\ "check" \in LateSteps
  BY <1>1 DEF LateSteps
<1>13. Proven(nsaved.target, nsaved.verified, nsaved.static)'
  BY <1>1 DEF RefreshInv, TablesSafe, Proven
<1>14. nrun' # Ready => Proven(nrun.expected, nrun.verified, nrun.static)'
  BY <1>1, <1>11, <1>12 DEF RefreshInv, TablesSafe, Proven, SameRun
<1>15. InputsSafe'
  <2>1. nrun'.pc \notin {"generate", "published"}
    BY <1>1, <1>11, ReadyFacts
  <2>2. QED BY <2>1 DEF InputsSafe, VersionsShareInputs
<1>16. nsaved' \in [target : Nat, verified : Nat, static : Nat]
  BY <1>1 DEF RefreshInv, RefreshTypes
<1>17. QED
  BY <1>1, <1>9, <1>10, <1>11, <1>12, <1>13, <1>14, <1>15, <1>16, LateSame DEF SameRun

LEMMA CheckTargetSafe == RefreshInv /\ CheckTarget => RefreshInv'
<1> SUFFICES ASSUME RefreshInv, CheckTarget PROVE RefreshInv'
  OBVIOUS
<1> DEFINE proof == [target |-> nrun.expected, verified |-> nrun.verified, static |-> nrun.static]
<1>1. /\ nrun.pc = "check" /\ UNCHANGED <<nday, ngens, nkept, nslips, nruns>>
      /\ \/ nsaved' = proof /\ Go("capture", nrun)
         \/ nrun' = Ready /\ nsaved' = nsaved
  BY DEF CheckTarget
<1>2. nrun \in RefreshRun /\ nrun # Ready /\ {"check", "capture"} \subseteq LateSteps
  BY <1>1, BusyFacts DEF LateSteps
<1>3. Proven(nrun.expected, nrun.verified, nrun.static) /\ Proven(nsaved.target, nsaved.verified, nsaved.static)
  BY <1>1, <1>2 DEF RefreshInv, TablesSafe
<1>4. Go("capture", nrun) => nrun' \in RefreshRun /\ nrun'.pc = "capture" /\ SameRun(nrun', nrun)
  BY <1>2, GoFacts
<1>5. nkept' \in [gens : SUBSET Generation, complete : BOOLEAN] /\ EvidenceIsThisRuns'
  BY <1>1 DEF RefreshInv, RefreshTypes, EvidenceSafe, EvidenceIsThisRuns
<1>6. /\ nsaved' \in [target : Nat, verified : Nat, static : Nat]
      /\ Proven(nsaved.target, nsaved.verified, nsaved.static)'
  <2>1. CASE nsaved' = proof
    <3>1. nrun.expected \in Nat /\ nrun.verified \in Nat /\ nrun.static \in Nat
      BY <1>2 DEF RefreshRun
    <3>2. proof \in [target : Nat, verified : Nat, static : Nat]
      BY <3>1
    <3>3. QED BY <1>1, <1>3, <2>1, <3>2 DEF Proven
  <2>2. CASE nsaved' = nsaved
    BY <1>1, <1>3, <2>2 DEF RefreshInv, RefreshTypes, Proven
  <2>3. QED BY <1>1, <2>1, <2>2
<1> HIDE DEF proof
<1>7. nrun' # Ready => nrun' \in RefreshRun /\ nrun'.pc = "capture" /\ SameRun(nrun', nrun)
  BY <1>1, <1>4
<1>8. nrun' # Ready => /\ nrun'.began = nrun.began /\ nrun'.expected = nrun.expected
                       /\ Proven(nrun.expected, nrun.verified, nrun.static)'
  BY <1>1, <1>3, <1>7 DEF SameRun, Proven
<1>9. InputsSafe'
  <2>1. nrun'.pc \notin {"generate", "published"}
    BY <1>7, ReadyFacts
  <2>2. QED BY <2>1 DEF InputsSafe, VersionsShareInputs
<1>10. nrun.pc # "idle" /\ (nrun' = Ready \/ (nrun' \in RefreshRun /\ nrun'.pc \in LateSteps))
  BY <1>1, <1>2, <1>7
<1>11. QED
  BY <1>1, <1>5, <1>6, <1>8, <1>9, <1>10, LateSame

\* A step of the run among the late ones that leaves the tables and their proof alone.
LEMMA LateTables ==
  ASSUME RefreshInv, nrun.pc \in LateSteps, UNCHANGED <<nday, nsaved, ngens, nkept, nslips, nruns>>,
         \/ nrun' = Ready
         \/ /\ nrun' \in RefreshRun /\ nrun'.pc \in LateSteps /\ nrun'.began = nrun.began
            /\ nrun'.expected = nrun.expected /\ nrun'.verified = nrun.verified /\ nrun'.static = nrun.static,
         InputsSafe'
  PROVE  RefreshInv'
<1>1. nrun.pc # "idle" /\ nrun # Ready
  BY ReadyFacts DEF LateSteps
<1>2. Proven(nrun.expected, nrun.verified, nrun.static) /\ Proven(nsaved.target, nsaved.verified, nsaved.static)
  BY DEF RefreshInv, TablesSafe
<1>3. nkept' \in [gens : SUBSET Generation, complete : BOOLEAN] /\ EvidenceIsThisRuns'
  BY DEF RefreshInv, RefreshTypes, EvidenceSafe, EvidenceIsThisRuns
<1>4. nsaved' \in [target : Nat, verified : Nat, static : Nat]
  BY DEF RefreshInv, RefreshTypes
<1>5. Proven(nsaved.target, nsaved.verified, nsaved.static)'
  BY <1>2 DEF Proven
<1>6. nrun' # Ready => Proven(nrun.expected, nrun.verified, nrun.static)'
  BY <1>2 DEF Proven
<1>7. QED BY <1>1, <1>3, <1>4, <1>5, <1>6, LateSame

LEMMA CaptureSafe == RefreshInv /\ CaptureInputs => RefreshInv'
<1> SUFFICES ASSUME RefreshInv, CaptureInputs PROVE RefreshInv'
  OBVIOUS
<1> DEFINE job == [nrun EXCEPT !.inputs = 1, !.seen = {}]
<1>1. /\ nrun.pc = "capture" /\ UNCHANGED <<nday, nsaved, ngens, nkept, nslips, nruns>>
      /\ Go("generate", job)
  BY DEF CaptureInputs
<1>2. nrun \in RefreshRun /\ {"capture", "generate"} \subseteq LateSteps
  BY <1>1, BusyFacts DEF LateSteps
<1>3. /\ job \in RefreshRun /\ job.inputs = 1 /\ job.seen = {} /\ job.began = nrun.began
      /\ job.expected = nrun.expected /\ job.verified = nrun.verified /\ job.static = nrun.static
  BY <1>2 DEF RefreshRun
<1> HIDE DEF job
<1>4. nrun' \in RefreshRun /\ nrun'.pc = "generate" /\ SameRun(nrun', job)
  BY <1>1, <1>2, <1>3, GoFacts
<1>5. InputsSafe'
  BY <1>3, <1>4, FS_EmptySet DEF InputsSafe, VersionsShareInputs, SameRun
<1>6. QED BY <1>1, <1>2, <1>3, <1>4, <1>5, LateTables DEF SameRun

LEMMA GenerateSafe == RefreshInv /\ Generate => RefreshInv'
<1> SUFFICES ASSUME RefreshInv, Generate PROVE RefreshInv'
  OBVIOUS
<1> DEFINE version == [version |-> Cardinality(nrun.seen) + 1, inputs |-> nrun.inputs]
           seen == nrun.seen \cup {version}
<1>1. nrun.pc = "generate" /\ UNCHANGED <<nday, nsaved, ngens, nkept, nslips, nruns>>
  BY DEF Generate
<1>2. PICK changed \in 0 .. 1 : nrun' = [nrun EXCEPT !.inputs = nrun.inputs + changed, !.seen = seen]
  BY DEF Generate
<1> DEFINE inputs == nrun.inputs + changed
<1>3. nrun \in RefreshRun /\ "generate" \in LateSteps
  BY <1>1, BusyFacts DEF LateSteps
<1>4. /\ IsFiniteSet(nrun.seen) /\ nrun.seen \subseteq Version /\ nrun.inputs \in Nat /\ 1 <= nrun.inputs
      /\ \A v \in nrun.seen : 1 <= v.inputs /\ v.inputs <= nrun.inputs
  BY <1>1, <1>3 DEF RefreshInv, InputsSafe, RefreshRun
<1>5. version \in Version /\ version.inputs = nrun.inputs
  BY <1>4, FS_CardinalityType DEF Version
<1> HIDE DEF version
<1>6. seen \subseteq Version /\ IsFiniteSet(seen)
  BY <1>4, <1>5, FS_AddElement
<1>7. inputs \in Nat /\ nrun.inputs <= inputs /\ 1 <= inputs
  BY <1>2, <1>4
<1>8. \A v \in seen : 1 <= v.inputs /\ v.inputs <= inputs
  <2>1. ASSUME NEW v \in seen PROVE 1 <= v.inputs /\ v.inputs <= inputs
    <3>1. v.inputs \in Nat /\ 1 <= v.inputs /\ v.inputs <= nrun.inputs
      BY <1>4, <1>5, <1>6 DEF Version
    <3>2. QED BY <1>4, <1>7, <3>1
  <2>2. QED BY <2>1
<1>9. nrun' = [nrun EXCEPT !.inputs = inputs, !.seen = seen]
  BY <1>2
<1> HIDE DEF inputs, seen
<1>10. /\ nrun' \in RefreshRun /\ nrun'.pc = "generate" /\ nrun'.inputs = inputs /\ nrun'.seen = seen
       /\ nrun'.began = nrun.began /\ nrun'.expected = nrun.expected /\ nrun'.verified = nrun.verified
       /\ nrun'.static = nrun.static
  BY <1>1, <1>3, <1>6, <1>7, <1>9 DEF RefreshRun
<1>11. InputsSafe'
  BY <1>6, <1>7, <1>8, <1>10 DEF InputsSafe, VersionsShareInputs
<1>12. QED BY <1>1, <1>3, <1>10, <1>11, LateTables

LEMMA CheckInputsSafe == RefreshInv /\ CheckInputs => RefreshInv'
<1> SUFFICES ASSUME RefreshInv, CheckInputs PROVE RefreshInv'
  OBVIOUS
<1>1. /\ nrun.pc = "generate" /\ Cardinality(nrun.seen) = 3
      /\ UNCHANGED <<nday, nsaved, ngens, nkept, nslips, nruns>>
      /\ (nrun.inputs = 1 /\ Go("published", nrun)) \/ nrun' = Ready
  BY DEF CheckInputs, SameInputs
<1>2. nrun \in RefreshRun /\ {"generate", "published"} \subseteq LateSteps
  BY <1>1, BusyFacts DEF LateSteps
<1>3. nrun.inputs = 1 /\ Go("published", nrun) => nrun' \in RefreshRun /\ nrun'.pc = "published" /\ SameRun(nrun', nrun)
  BY <1>2, GoFacts
<1>4. nrun.inputs = 1 => {v.inputs : v \in nrun.seen} = {1}
  <2>1. SUFFICES ASSUME nrun.inputs = 1 PROVE {v.inputs : v \in nrun.seen} = {1}
    OBVIOUS
  <2>2. nrun.seen # {}
    BY <1>1, FS_EmptySet
  <2>3. ASSUME NEW v \in nrun.seen PROVE v.inputs = 1
    <3>1. v.inputs \in Nat
      BY <1>2 DEF RefreshRun, Version
    <3>2. QED BY <1>1, <2>1, <3>1 DEF RefreshInv, InputsSafe
  <2>4. QED BY <2>2, <2>3
<1>5. InputsSafe'
  <2>1. CASE nrun' = Ready
    BY <2>1, ReadyFacts DEF InputsSafe, VersionsShareInputs
  <2>2. CASE nrun.inputs = 1 /\ Go("published", nrun)
    <3>1. nrun'.pc = "published" /\ nrun'.seen = nrun.seen
      BY <1>3, <2>2 DEF SameRun
    <3>2. {v.inputs : v \in nrun'.seen} = {1}
      BY <1>4, <2>2, <3>1
    <3>3. Cardinality({v.inputs : v \in nrun'.seen}) = 1
      BY <3>2, FS_Singleton
    <3>4. QED BY <3>1, <3>3 DEF InputsSafe, VersionsShareInputs
  <2>3. QED BY <1>1, <2>1, <2>2
<1>6. QED BY <1>1, <1>2, <1>3, <1>5, LateTables DEF SameRun

LEMMA EndRefreshSafe == RefreshInv /\ EndRefresh => RefreshInv'
<1> SUFFICES ASSUME RefreshInv, EndRefresh PROVE RefreshInv'
  OBVIOUS
<1>1. /\ nrun.pc \in LateSteps /\ nrun' = Ready
      /\ UNCHANGED <<nday, nsaved, ngens, nkept, nslips, nruns>>
  BY DEF EndRefresh, LateSteps
<1>2. InputsSafe'
  BY <1>1, ReadyFacts DEF InputsSafe, VersionsShareInputs
<1>3. QED BY <1>1, <1>2, LateTables

LEMMA RefreshMoves == RefreshInv /\ [RefreshNext]_refreshVars => RefreshInv'
<1> SUFFICES ASSUME RefreshInv, [RefreshNext]_refreshVars PROVE RefreshInv'
  OBVIOUS
<1>1. CASE UNCHANGED refreshVars
  BY <1>1 DEF refreshVars, RefreshInv, RefreshTypes, EvidenceSafe, TablesSafe, InputsSafe, EvidenceIsThisRuns, Proven,
     VersionsShareInputs
<1>2. QED
  BY <1>1, MidnightSafe, StartRefreshSafe, SnapshotSafe, NoticeTrySafe, RestOfRefreshSafe, RetrySafe, CollectSafe,
     CheckTargetSafe, CaptureSafe, GenerateSafe, CheckInputsSafe, EndRefreshSafe DEF RefreshNext

LEMMA RefreshSound == RefreshInv => EvidenceIsThisRuns /\ StaticTablesAreCurrent /\ VersionsShareInputs
<1> SUFFICES ASSUME RefreshInv PROVE EvidenceIsThisRuns /\ StaticTablesAreCurrent /\ VersionsShareInputs
  OBVIOUS
<1>1. EvidenceIsThisRuns /\ VersionsShareInputs
  BY DEF RefreshInv, EvidenceSafe, InputsSafe
<1>2. StaticTablesAreCurrent
  BY DEF RefreshInv, TablesSafe, Proven, StaticTablesAreCurrent, LateSteps
<1>3. QED BY <1>1, <1>2

-------------------------------------------------------------------------------
(* The boundary of the notices.                                                *)

\* What the original comparison lets differ is not the kind of a notice.
LEMMA OriginalKeepsKinds ==
  ASSUME NEW previous, NEW current, Original(previous, current), \A k \in DOMAIN previous : previous[k] \in Notice
  PROVE  /\ DOMAIN previous = DOMAIN current
         /\ \A k \in DOMAIN previous : current[k].st = previous[k].st
<1>1. DOMAIN previous = DOMAIN current
  BY DEF Original
<1>2. ASSUME NEW k \in DOMAIN previous PROVE current[k].st = previous[k].st
  <2>1. [previous[k] EXCEPT !.late = current[k].late] = current[k] /\ previous[k] \in Notice
    BY DEF Original
  <2>2. [previous[k] EXCEPT !.late = current[k].late].st = previous[k].st
    BY <2>1 DEF Notice
  <2>3. QED BY <2>1, <2>2
<1>3. QED BY <1>1, <1>2

LEMMA DriftIsSafe ==
  ASSUME NEW ids, NEW all, NEW previous \in Rows(ids), NEW current \in Rows(all), NEW added, NEW sources
  PROVE  DriftKeepsRiskActions(previous, current, added, sources)
<1> SUFFICES ASSUME Compare(previous, current, added, sources)
             PROVE  {k \in DOMAIN previous : previous[k].st} = {k \in DOMAIN current : current[k].st}
  BY DEF DriftKeepsRiskActions
<1>1. \A k \in DOMAIN previous : previous[k] \in Notice
  BY DEF Rows
<1>2. CASE Original(previous, current)
  BY <1>1, <1>2, OriginalKeepsKinds
<1>3. CASE /\ DOMAIN previous \subseteq DOMAIN current /\ DOMAIN current \ DOMAIN previous = {added}
           /\ ~current[added].st /\ Original(previous, Only(current, DOMAIN current \ {added}))
  <2> DEFINE rest == Only(current, DOMAIN current \ {added})
  <2>1. DOMAIN rest = DOMAIN current \ {added} /\ (\A k \in DOMAIN rest : rest[k] = current[k])
    BY DEF Only
  <2>2. DOMAIN previous = DOMAIN rest /\ (\A k \in DOMAIN previous : rest[k].st = previous[k].st)
    BY <1>1, <1>3, OriginalKeepsKinds
  <2>3. QED BY <1>3, <2>1, <2>2
<1>4. QED BY <1>2, <1>3 DEF Compare

-------------------------------------------------------------------------------
(* The search for a verified state.                                              *)

Bundle == [id : Ids, expired : BOOLEAN]
SearchPhases == {"idle", "list", "ask", "download", "restored", "none", "failed"}
Verdicts == {"running", "success", "cancelled", "failure"}
SearchRun ==
  [pc : SearchPhases, strict : BOOLEAN, page : Nat \ {0}, got : SUBSET Bundle, queue : SUBSET Ids, found : Nat]
SearchTypes ==
  /\ shelf \in Seq(Bundle)
  /\ verdicts \in [Ids -> Verdicts]
  /\ search \in SearchRun
  /\ steady \in [ids : SUBSET Ids, removed : BOOLEAN, changes : Nat]
\* The numbers given out so far are the first ones, each to one bundle.
Known == {i \in Ids : i \in OnShelf \/ verdicts[i] # "running"}
OneOfEach == \A j, k \in DOMAIN shelf : shelf[j].id = shelf[k].id => j = k
ShelfSafe == OneOfEach /\ \E m \in 0 .. MaxBundles : Known = 1 .. m
\* A bundle that is listed after the first n pages.
Behind(i, n) == \E k \in DOMAIN shelf : PageSize * n < k /\ shelf[k].id = i /\ ~shelf[k].expired
\* A bundle that has been usable all the time was read, or is on a page still to be read.
NothingPassed ==
  ~steady.removed =>
    /\ search.pc = "list" => \A i \in steady.ids : i \in Listed(search.got) \/ Behind(i, search.page - 1)
    /\ search.pc = "ask" => steady.ids \subseteq search.queue
    /\ search.pc \in {"download", "restored"} => \A i \in steady.ids : search.found >= i
    /\ search.pc = "none" => steady.ids = {}
SearchInv ==
  /\ SearchTypes /\ ShelfSafe
  /\ search.pc # "idle" => steady.ids \subseteq Usable(search.strict)
  /\ NothingPassed

LEMMA UsableFacts ==
  ASSUME NEW strict, NEW i
  PROVE  i \in Usable(strict) <=> \E k \in DOMAIN shelf : shelf[k].id = i /\ ~shelf[k].expired /\ RunCounts(i, strict)
BY DEF Usable

\* A page that is not full is the last one.
LEMMA LastPage ==
  ASSUME SearchTypes, OneOfEach, NEW n \in Nat \ {0}, Cardinality(BundlePage(n)) < PageSize
  PROVE  \A k \in DOMAIN shelf : k <= PageSize * n
<1> DEFINE a == PageSize * (n - 1)
           b == PageSize * n
           J == {j \in DOMAIN shelf : a < j /\ j <= b}
           f == [j \in J |-> shelf[j]]
<1>1. a \in Nat /\ b = a + PageSize /\ PageSize \in Nat \ {0}
  BY SearchAssumption
<1>2. DOMAIN shelf = 1 .. Len(shelf) /\ Len(shelf) \in Nat /\ BundlePage(n) = {shelf[j] : j \in J}
  BY DEF SearchTypes, BundlePage
<1> HIDE DEF a, b
<1> SUFFICES ASSUME Len(shelf) >= b PROVE FALSE
  BY <1>1, <1>2 DEF b
<1>3. J = (a + 1) .. b
  BY <1>1, <1>2
<1>4. IsFiniteSet(J) /\ Cardinality(J) = PageSize
  <2>1. a + 1 \in Int /\ b \in Int /\ ~(a + 1 > b) /\ b - (a + 1) + 1 = PageSize
    BY <1>1
  <2>2. IsFiniteSet((a + 1) .. b) /\ Cardinality((a + 1) .. b) = PageSize
    BY <2>1, FS_Interval
  <2>3. QED BY <1>3, <2>2
<1>5. f \in Surjection(J, BundlePage(n))
  BY <1>2 DEF Surjection
<1>6. f \in Injection(J, BundlePage(n))
  <2>1. \A j, k \in J : shelf[j] = shelf[k] => j = k
    BY DEF OneOfEach
  <2>2. QED BY <1>2, <2>1 DEF Injection, IsInjective
<1>7. Cardinality(BundlePage(n)) = PageSize
  BY <1>4, <1>5, <1>6, FS_Surjection
<1>8. QED BY <1>1, <1>7

LEMMA SearchStart == SearchInit => SearchInv
<1> SUFFICES ASSUME SearchInit PROVE SearchInv
  OBVIOUS
<1>1. search = NoSearch /\ search.pc = "idle"
  BY DEF SearchInit, NoSearch
<1>2. SearchTypes
  <2>1. NoSearch \in SearchRun
    BY DEF NoSearch, SearchRun, SearchPhases
  <2>2. QED BY <1>1, <2>1 DEF SearchInit, SearchTypes, Verdicts
<1>3. ShelfSafe
  <2>1. Known = {} /\ 0 \in 0 .. MaxBundles /\ 1 .. 0 = {}
    BY SearchAssumption DEF SearchInit, Known, OnShelf
  <2>2. OneOfEach
    BY DEF SearchInit, OneOfEach
  <2>3. QED BY <2>1, <2>2 DEF ShelfSafe
<1>4. NothingPassed
  BY <1>1 DEF NothingPassed
<1>5. QED BY <1>1, <1>2, <1>3, <1>4 DEF SearchInv

\* What the other runs do: a bundle only moves back in the list unless one is deleted.
LEMMA ChangeSafe ==
  ASSUME SearchInv, UNCHANGED search, NEW removed \in BOOLEAN, Changed(removed), shelf' \in Seq(Bundle),
         verdicts' \in [Ids -> Verdicts], ShelfSafe',
         ~removed => \A k \in DOMAIN shelf, j \in DOMAIN shelf' : shelf'[j].id = shelf[k].id => j >= k
  PROVE  SearchInv'
<1>1. SearchTypes'
  BY DEF SearchInv, SearchTypes, Changed
<1>2. CASE search.pc = "idle"
  <2>1. NothingPassed'
    BY <1>2 DEF NothingPassed
  <2>2. QED BY <1>1, <1>2, <2>1 DEF SearchInv
<1>3. CASE search.pc # "idle"
  <2>1. /\ steady'.ids = steady.ids \cap Usable(search.strict)' /\ steady'.removed = (steady.removed \/ removed)
    BY <1>3 DEF Changed
  <2>2. ASSUME ~steady'.removed, NEW i \in steady'.ids, NEW n \in Nat, Behind(i, n) PROVE Behind(i, n)'
    <3>1. PICK k \in DOMAIN shelf : PageSize * n < k /\ shelf[k].id = i
      BY <2>2 DEF Behind
    <3>2. i \in Usable(search.strict)'
      BY <2>1, <2>2
    <3>3. PICK j \in DOMAIN shelf' : shelf'[j].id = i /\ ~shelf'[j].expired
      BY <3>2 DEF Usable
    <3>4. j >= k /\ j \in Nat /\ k \in Nat /\ PageSize * n \in Nat
      BY <2>1, <2>2, <3>1, <3>3, SearchAssumption DEF SearchInv, SearchTypes
    <3>5. QED BY <3>1, <3>3, <3>4 DEF Behind
  <2>3. search.page - 1 \in Nat
    BY DEF SearchInv, SearchTypes, SearchRun
  <2>4. NothingPassed'
    BY <2>1, <2>2, <2>3 DEF SearchInv, NothingPassed
  <2>5. QED BY <1>1, <1>3, <2>1, <2>4 DEF SearchInv
<1>4. QED BY <1>2, <1>3

LEMMA UploadSafe == SearchInv /\ UploadBundle => SearchInv'
<1> SUFFICES ASSUME SearchInv, UploadBundle PROVE SearchInv'
  OBVIOUS
<1> DEFINE new == Cardinality(Known) + 1
           artifact == [id |-> new, expired |-> FALSE]
<1>1. /\ new \in Ids /\ shelf' = <<artifact>> \o shelf
      /\ UNCHANGED <<verdicts, search>> /\ Changed(FALSE)
  BY DEF UploadBundle, Known
<1>2. PICK m \in 0 .. MaxBundles : Known = 1 .. m
  BY DEF SearchInv, ShelfSafe
<1>3. new = m + 1 /\ m \in Nat
  <2>1. Cardinality(1 .. m) = m
    BY <1>2, FS_Interval, SearchAssumption
  <2>2. QED BY <1>2, <2>1, SearchAssumption
<1> HIDE DEF new
<1>4. artifact \in Bundle /\ artifact.id = new /\ new \notin Known
  BY <1>1, <1>2, <1>3 DEF Bundle
<1> HIDE DEF artifact
<1>5. shelf \in Seq(Bundle) /\ <<artifact>> \in Seq(Bundle) /\ Len(<<artifact>>) = 1 /\ <<artifact>>[1] = artifact
  BY <1>4 DEF SearchInv, SearchTypes
<1>6. /\ shelf' \in Seq(Bundle) /\ Len(shelf') = Len(shelf) + 1
      /\ \A j \in 1 .. Len(shelf) + 1 : shelf'[j] = IF j <= 1 THEN artifact ELSE shelf[j - 1]
  <2>1. /\ <<artifact>> \o shelf \in Seq(Bundle) /\ Len(<<artifact>> \o shelf) = Len(<<artifact>>) + Len(shelf)
        /\ \A j \in 1 .. Len(<<artifact>>) + Len(shelf) :
             (<<artifact>> \o shelf)[j] = IF j <= Len(<<artifact>>) THEN <<artifact>>[j] ELSE shelf[j - Len(<<artifact>>)]
    BY <1>5, ConcatProperties
  <2>2. Len(shelf) \in Nat
    BY <1>5
  <2>3. QED BY <1>1, <1>5, <2>1, <2>2
<1>7. DOMAIN shelf = 1 .. Len(shelf) /\ DOMAIN shelf' = 1 .. Len(shelf) + 1 /\ Len(shelf) \in Nat
  BY <1>5, <1>6
<1>8. shelf'[1] = artifact /\ \A j \in DOMAIN shelf' : j = 1 \/ (j - 1 \in DOMAIN shelf /\ shelf'[j] = shelf[j - 1])
  BY <1>6, <1>7
<1>9. \A k \in DOMAIN shelf : shelf[k].id # new /\ k + 1 \in DOMAIN shelf' /\ shelf'[k + 1] = shelf[k]
  <2>1. ASSUME NEW k \in DOMAIN shelf PROVE shelf[k].id # new
    <3>1. shelf[k] \in Bundle
      BY <1>5, <1>7
    <3>2. shelf[k].id \in Known
      BY <3>1 DEF Known, OnShelf, Bundle
    <3>3. QED BY <1>4, <3>2
  <2>2. QED BY <1>6, <1>7, <2>1
<1>10. OneOfEach'
  <2>1. ASSUME NEW i \in DOMAIN shelf', NEW j \in DOMAIN shelf', shelf'[i].id = shelf'[j].id PROVE i = j
    <3>1. CASE i = 1 \/ j = 1
      BY <1>4, <1>7, <1>8, <1>9, <2>1, <3>1
    <3>2. CASE i # 1 /\ j # 1
      <4>1. i - 1 \in DOMAIN shelf /\ j - 1 \in DOMAIN shelf /\ shelf[i - 1].id = shelf[j - 1].id
        BY <1>8, <2>1, <3>2
      <4>2. i - 1 = j - 1
        BY <4>1 DEF SearchInv, ShelfSafe, OneOfEach
      <4>3. QED BY <1>7, <4>2
    <3>3. QED BY <3>1, <3>2
  <2>2. QED BY <2>1 DEF OneOfEach
<1>11. OnShelf' = OnShelf \cup {new}
  <2>1. \A i : i \in OnShelf' <=> \E j \in DOMAIN shelf' : shelf'[j].id = i
    BY DEF OnShelf
  <2>2. \A i : i \in OnShelf <=> \E j \in DOMAIN shelf : shelf[j].id = i
    BY DEF OnShelf
  <2>3. 1 \in DOMAIN shelf'
    BY <1>7
  <2>4. QED BY <1>4, <1>8, <1>9, <2>1, <2>2, <2>3
<1>12. Known' = 1 .. (m + 1) /\ m + 1 \in 0 .. MaxBundles
  <2>1. Known' = Known \cup {new}
    BY <1>1, <1>11 DEF Known
  <2>2. QED BY <1>1, <1>2, <1>3, <2>1, SearchAssumption DEF Ids
<1>13. \A k \in DOMAIN shelf, j \in DOMAIN shelf' : shelf'[j].id = shelf[k].id => j >= k
  <2>1. ASSUME NEW k \in DOMAIN shelf, NEW j \in DOMAIN shelf', shelf'[j].id = shelf[k].id PROVE j >= k
    <3>1. shelf'[j].id = shelf'[k + 1].id /\ k + 1 \in DOMAIN shelf'
      BY <1>9, <2>1
    <3>2. j = k + 1
      BY <1>10, <3>1 DEF OneOfEach
    <3>3. QED BY <1>7, <3>2
  <2>2. QED BY <2>1
<1>14. ShelfSafe' /\ verdicts' \in [Ids -> Verdicts]
  BY <1>1, <1>10, <1>12 DEF SearchInv, SearchTypes, ShelfSafe
<1>15. QED BY <1>1, <1>6, <1>13, <1>14, ChangeSafe

LEMMA ConcludeSafe == SearchInv /\ Conclude => SearchInv'
<1> SUFFICES ASSUME SearchInv, Conclude PROVE SearchInv'
  OBVIOUS
<1>1. PICK i \in OnShelf, result \in Verdicts :
        verdicts' = [verdicts EXCEPT ![i] = result] /\ UNCHANGED <<shelf, search>> /\ Changed(FALSE)
  BY DEF Conclude, Verdicts
<1>2. shelf' \in Seq(Bundle) /\ verdicts' \in [Ids -> Verdicts]
  BY <1>1 DEF SearchInv, SearchTypes
<1>3. Known' = Known
  BY <1>1 DEF SearchInv, SearchTypes, Known, OnShelf
<1>4. ShelfSafe'
  BY <1>1, <1>3 DEF SearchInv, ShelfSafe, OneOfEach
<1>5. \A k \in DOMAIN shelf, j \in DOMAIN shelf' : shelf'[j].id = shelf[k].id => j >= k
  BY <1>1, <1>2 DEF SearchInv, ShelfSafe, OneOfEach
<1>6. QED BY <1>1, <1>2, <1>4, <1>5, ChangeSafe

LEMMA RemoveAtFacts ==
  ASSUME NEW S, NEW s \in Seq(S), NEW k \in 1 .. Len(s)
  PROVE  /\ RemoveAt(s, k) \in Seq(S) /\ Len(RemoveAt(s, k)) = Len(s) - 1
         /\ \A j \in 1 .. Len(s) - 1 : RemoveAt(s, k)[j] = IF j < k THEN s[j] ELSE s[j + 1]
<1> DEFINE before == SubSeq(s, 1, k - 1)
           after == SubSeq(s, k + 1, Len(s))
<1>1. Len(s) \in Nat /\ k \in Nat \ {0} /\ k <= Len(s) /\ \A j \in 1 .. Len(s) : s[j] \in S
  OBVIOUS
<1>2. before \in Seq(S) /\ Len(before) = k - 1 /\ \A j \in 1 .. k - 1 : before[j] = s[j]
  <2>1. 1 \in Int /\ k - 1 \in Int /\ \A j \in 1 .. k - 1 : s[j] \in S
    BY <1>1
  <2>2. /\ before \in Seq(S) /\ Len(before) = (IF 1 <= k - 1 THEN k - 1 - 1 + 1 ELSE 0)
        /\ \A j \in 1 .. k - 1 - 1 + 1 : before[j] = s[1 + j - 1]
    BY <2>1, SubSeqProperties
  <2> HIDE DEF before
  <2>3. Len(before) = k - 1 /\ k - 1 - 1 + 1 = k - 1
    BY <1>1, <2>2
  <2>4. \A j \in 1 .. k - 1 : before[j] = s[j]
    <3>1. ASSUME NEW j \in 1 .. k - 1 PROVE before[j] = s[j]
      <4>1. 1 + j - 1 = j /\ j \in 1 .. k - 1 - 1 + 1
        BY <1>1
      <4>2. QED BY <2>2, <4>1
    <3>2. QED BY <3>1
  <2>5. QED BY <2>2, <2>3, <2>4
<1>3. after \in Seq(S) /\ Len(after) = Len(s) - k /\ \A j \in 1 .. Len(s) - k : after[j] = s[k + j]
  <2>1. k + 1 \in Int /\ Len(s) \in Int /\ \A j \in k + 1 .. Len(s) : s[j] \in S
    BY <1>1
  <2>2. /\ after \in Seq(S) /\ Len(after) = (IF k + 1 <= Len(s) THEN Len(s) - (k + 1) + 1 ELSE 0)
        /\ \A j \in 1 .. Len(s) - (k + 1) + 1 : after[j] = s[k + 1 + j - 1]
    BY <2>1, SubSeqProperties
  <2> HIDE DEF after
  <2>3. QED BY <1>1, <2>2
<1>4. RemoveAt(s, k) = before \o after
  BY DEF RemoveAt
<1> HIDE DEF before, after
<1>5. /\ before \o after \in Seq(S) /\ Len(before \o after) = Len(before) + Len(after)
      /\ \A j \in 1 .. Len(before) + Len(after) :
           (before \o after)[j] = IF j <= Len(before) THEN before[j] ELSE after[j - Len(before)]
  BY <1>2, <1>3, ConcatProperties
<1>6. ASSUME NEW j \in 1 .. Len(s) - 1 PROVE RemoveAt(s, k)[j] = IF j < k THEN s[j] ELSE s[j + 1]
  <2>1. j \in 1 .. Len(before) + Len(after)
    BY <1>1, <1>2, <1>3
  <2>2. CASE j < k
    BY <1>1, <1>2, <1>4, <1>5, <2>1, <2>2
  <2>3. CASE j >= k
    <3>1. j - (k - 1) \in 1 .. Len(s) - k /\ k + (j - (k - 1)) = j + 1
      BY <1>1, <2>3
    <3>2. RemoveAt(s, k)[j] = after[j - (k - 1)]
      BY <1>1, <1>2, <1>4, <1>5, <2>1, <2>3
    <3>3. QED BY <1>1, <1>3, <2>3, <3>1, <3>2
  <2>4. QED BY <1>1, <2>2, <2>3
<1>7. Len(before) + Len(after) = Len(s) - 1
  BY <1>1, <1>2, <1>3
<1>8. RemoveAt(s, k) \in Seq(S) /\ Len(RemoveAt(s, k)) = Len(s) - 1
  BY <1>4, <1>5, <1>7
<1>9. QED BY <1>6, <1>8

LEMMA LoseSafe == SearchInv /\ LoseBundle => SearchInv'
<1> SUFFICES ASSUME SearchInv, LoseBundle PROVE SearchInv'
  OBVIOUS
<1>1. PICK k \in DOMAIN shelf, deleted \in BOOLEAN :
        /\ verdicts[shelf[k].id] # "running"
        /\ shelf' = IF deleted THEN RemoveAt(shelf, k) ELSE [shelf EXCEPT ![k].expired = TRUE]
        /\ UNCHANGED <<verdicts, search>> /\ Changed(deleted)
  BY DEF LoseBundle
<1>2. /\ shelf \in Seq(Bundle) /\ verdicts' \in [Ids -> Verdicts] /\ DOMAIN shelf = 1 .. Len(shelf)
      /\ Len(shelf) \in Nat /\ \A j \in DOMAIN shelf : shelf[j] \in Bundle
  BY <1>1 DEF SearchInv, SearchTypes
<1>3. CASE deleted
  <2>1. /\ shelf' \in Seq(Bundle) /\ Len(shelf') = Len(shelf) - 1
        /\ \A j \in 1 .. Len(shelf) - 1 : shelf'[j] = IF j < k THEN shelf[j] ELSE shelf[j + 1]
    BY <1>1, <1>2, <1>3, RemoveAtFacts
  <2>2. DOMAIN shelf' = 1 .. Len(shelf) - 1
    BY <2>1
  <2>3. OneOfEach'
    <3>1. ASSUME NEW i \in DOMAIN shelf', NEW j \in DOMAIN shelf', shelf'[i].id = shelf'[j].id PROVE i = j
      <4> DEFINE at(x) == IF x < k THEN x ELSE x + 1
      <4>1. at(i) \in DOMAIN shelf /\ at(j) \in DOMAIN shelf /\ shelf'[i] = shelf[at(i)] /\ shelf'[j] = shelf[at(j)]
        BY <1>2, <2>1, <2>2
      <4>2. at(i) = at(j)
        BY <3>1, <4>1 DEF SearchInv, ShelfSafe, OneOfEach
      <4>3. QED BY <1>2, <2>2, <4>2
    <3>2. QED BY <3>1 DEF OneOfEach
  <2>4. Known' = Known
    <3>1. \A i : i \in OnShelf' => i \in OnShelf
      <4>1. \A j \in DOMAIN shelf' : \E x \in DOMAIN shelf : shelf'[j] = shelf[x]
        BY <1>2, <2>1, <2>2
      <4>2. QED BY <4>1 DEF OnShelf
    <3>2. \A i : i \in OnShelf => i \in OnShelf' \/ verdicts[i] # "running"
      <4>1. ASSUME NEW x \in DOMAIN shelf PROVE x = k \/ \E j \in DOMAIN shelf' : shelf'[j] = shelf[x]
        <5>1. CASE x < k
          BY <1>2, <2>1, <2>2, <5>1
        <5>2. CASE x > k
          <6>1. x - 1 \in DOMAIN shelf' /\ ~(x - 1 < k) /\ (x - 1) + 1 = x
            BY <1>2, <2>2, <5>2
          <6>2. QED BY <2>1, <2>2, <6>1
        <5>3. QED BY <1>2, <5>1, <5>2
      <4>2. QED BY <1>1, <4>1 DEF OnShelf
    <3>3. QED BY <1>1, <3>1, <3>2 DEF Known
  <2>5. ShelfSafe'
    BY <2>3, <2>4 DEF SearchInv, ShelfSafe
  <2>6. QED BY <1>1, <1>2, <1>3, <2>1, <2>5, ChangeSafe
<1>4. CASE ~deleted
  <2> DEFINE gone == [shelf[k] EXCEPT !.expired = TRUE]
  <2>1. shelf' = [shelf EXCEPT ![k] = gone]
    BY <1>1, <1>4
  <2>2. gone \in Bundle /\ gone.id = shelf[k].id
    BY <1>2 DEF Bundle
  <2> HIDE DEF gone
  <2>3. shelf' \in Seq(Bundle) /\ DOMAIN shelf' = DOMAIN shelf
    BY <1>2, <2>1, <2>2
  <2>4. \A j \in DOMAIN shelf : shelf'[j].id = shelf[j].id
    BY <1>2, <2>1, <2>2
  <2>5. Known' = Known
    BY <1>1, <2>3, <2>4 DEF Known, OnShelf
  <2>6. ShelfSafe'
    BY <2>3, <2>4, <2>5 DEF SearchInv, ShelfSafe, OneOfEach
  <2>7. \A x \in DOMAIN shelf, j \in DOMAIN shelf' : shelf'[j].id = shelf[x].id => j >= x
    BY <1>2, <2>3, <2>4 DEF SearchInv, ShelfSafe, OneOfEach
  <2>8. QED BY <1>1, <1>2, <1>4, <2>3, <2>6, <2>7, ChangeSafe
<1>5. QED BY <1>3, <1>4

LEMMA StartSearchSafe == SearchInv /\ StartSearch => SearchInv'
<1> SUFFICES ASSUME SearchInv, StartSearch PROVE SearchInv'
  OBVIOUS
<1>1. /\ UNCHANGED <<shelf, verdicts>> /\ shelf # <<>> /\ search.pc = "idle"
      /\ \E strict \in BOOLEAN :
           /\ search' = [NoSearch EXCEPT !.pc = "list", !.strict = strict]
           /\ steady' = [ids |-> Usable(strict), removed |-> FALSE, changes |-> 0]
  BY DEF StartSearch
<1>2. PICK strict \in BOOLEAN :
        /\ search' = [NoSearch EXCEPT !.pc = "list", !.strict = strict]
        /\ steady' = [ids |-> Usable(strict), removed |-> FALSE, changes |-> 0]
  BY <1>1
<1>3. /\ search' = [pc |-> "list", strict |-> strict, page |-> 1, got |-> {}, queue |-> {}, found |-> 0]
  BY <1>2 DEF NoSearch
<1>4. Usable(strict) \in SUBSET Ids
  <2>1. \A k \in DOMAIN shelf : shelf[k].id \in Ids
    <3>1. \A k \in DOMAIN shelf : shelf[k] \in Bundle
      BY DEF SearchInv, SearchTypes
    <3>2. QED BY <3>1 DEF Bundle
  <2>2. QED BY <2>1 DEF Usable
<1>5. SearchTypes'
  <2>1. search' \in SearchRun
    BY <1>2, <1>3 DEF SearchRun, SearchPhases
  <2>2. QED BY <1>1, <1>2, <1>4, <2>1 DEF SearchInv, SearchTypes
<1>6. ShelfSafe'
  BY <1>1 DEF SearchInv, ShelfSafe, OneOfEach, Known, OnShelf
<1>7. search'.pc = "list" /\ search'.strict = strict /\ search'.page = 1 /\ steady'.ids = Usable(strict)
  <2>1. search'.pc = "list" /\ search'.strict = strict /\ search'.page = 1
    BY <1>3
  <2>2. steady'.ids = Usable(strict)
    BY <1>2
  <2>3. QED BY <2>1, <2>2
<1>8. Usable(search.strict)' = Usable(strict)
  BY <1>1, <1>7 DEF Usable, RunCounts
<1>9. NothingPassed'
  <2>1. ASSUME NEW i \in Usable(strict) PROVE Behind(i, search.page - 1)'
    <3>1. PICK k \in DOMAIN shelf : shelf[k].id = i /\ ~shelf[k].expired
      BY <2>1 DEF Usable
    <3>2. PageSize * (search'.page - 1) = 0 /\ 0 < k
      BY <1>7, SearchAssumption DEF SearchInv, SearchTypes
    <3>3. QED BY <1>1, <3>1, <3>2 DEF Behind
  <2>2. QED BY <1>7, <2>1 DEF NothingPassed
<1>10. QED BY <1>5, <1>6, <1>7, <1>8, <1>9 DEF SearchInv

\* A step of the search itself.
LEMMA OwnStep ==
  ASSUME SearchInv, search.pc # "idle", UNCHANGED <<shelf, verdicts, steady>>, search' \in SearchRun,
         search'.strict = search.strict, NothingPassed'
  PROVE  SearchInv'
<1>1. SearchTypes'
  BY DEF SearchInv, SearchTypes
<1>2. ShelfSafe'
  BY DEF SearchInv, ShelfSafe, OneOfEach, Known, OnShelf
<1>3. Usable(search.strict)' = Usable(search.strict)
  BY DEF Usable, RunCounts
<1>4. QED BY <1>1, <1>2, <1>3 DEF SearchInv

LEMMA ReadPageSafe == SearchInv /\ ReadPage => SearchInv'
<1> SUFFICES ASSUME SearchInv, ReadPage PROVE SearchInv'
  OBVIOUS
<1> DEFINE n == search.page
           got == search.got \cup BundlePage(n)
           last == Cardinality(BundlePage(n)) < PageSize
<1>1. /\ search.pc = "list" /\ UNCHANGED <<shelf, verdicts, steady>>
      /\ \/ last /\ search' = [search EXCEPT !.pc = "ask", !.got = got, !.queue = Listed(got)]
         \/ search' = [search EXCEPT !.pc = "failed"]
         \/ ~last /\ search' = [search EXCEPT !.got = got, !.page = n + 1]
  BY DEF ReadPage
<1>2. /\ search \in SearchRun /\ n \in Nat \ {0} /\ shelf \in Seq(Bundle) /\ DOMAIN shelf = 1 .. Len(shelf)
      /\ OneOfEach /\ SearchTypes /\ steady.ids \subseteq Ids /\ search.pc # "idle"
  BY <1>1 DEF SearchInv, SearchTypes, SearchRun, ShelfSafe
<1>3. got \in SUBSET Bundle /\ Listed(got) \in SUBSET Ids
  <2>1. BundlePage(n) \subseteq Bundle
    BY <1>2 DEF BundlePage
  <2>2. got \in SUBSET Bundle
    BY <1>2, <2>1 DEF SearchRun
  <2>3. QED BY <2>2 DEF Listed, Bundle
\* What was behind the pages read is on this one or behind it.
<1>4. ASSUME ~steady.removed, NEW i \in steady.ids PROVE i \in Listed(got) \/ Behind(i, n)
  <2>1. CASE i \in Listed(search.got)
    BY <2>1 DEF Listed
  <2>2. CASE Behind(i, n - 1)
    <3>1. PICK k \in DOMAIN shelf : PageSize * (n - 1) < k /\ shelf[k].id = i /\ ~shelf[k].expired
      BY <2>2 DEF Behind
    <3>2. CASE k <= PageSize * n
      <4>1. shelf[k] \in BundlePage(n)
        BY <3>1, <3>2 DEF BundlePage
      <4>2. QED BY <3>1, <4>1 DEF Listed
    <3>3. CASE ~(k <= PageSize * n)
      <4>1. PageSize * n < k
        BY <1>2, <3>3, SearchAssumption
      <4>2. QED BY <3>1, <4>1 DEF Behind
    <3>4. QED BY <3>2, <3>3
  <2>3. QED BY <1>1, <1>4, <2>1, <2>2 DEF SearchInv, NothingPassed
<1> HIDE DEF got
<1>5. CASE last /\ search' = [search EXCEPT !.pc = "ask", !.got = got, !.queue = Listed(got)]
  <2>1. /\ search' \in SearchRun /\ search'.pc = "ask" /\ search'.strict = search.strict /\ search'.queue = Listed(got)
    BY <1>2, <1>3, <1>5 DEF SearchRun, SearchPhases
  <2>2. \A i \in steady.ids : ~Behind(i, n)
    <3>1. \A k \in DOMAIN shelf : k <= PageSize * n
      BY <1>2, <1>5, LastPage
    <3>2. \A k \in DOMAIN shelf : ~(PageSize * n < k)
      BY <1>2, <3>1, SearchAssumption
    <3>3. QED BY <3>2 DEF Behind
  <2>3. NothingPassed'
    BY <1>1, <1>4, <2>1, <2>2 DEF NothingPassed
  <2>4. QED BY <1>1, <1>2, <2>1, <2>3, OwnStep
<1>6. CASE search' = [search EXCEPT !.pc = "failed"]
  <2>1. search' \in SearchRun /\ search'.pc = "failed" /\ search'.strict = search.strict
    BY <1>2, <1>6 DEF SearchRun, SearchPhases
  <2>2. NothingPassed'
    BY <2>1 DEF NothingPassed
  <2>3. QED BY <1>1, <1>2, <2>1, <2>2, OwnStep
<1>7. CASE search' = [search EXCEPT !.got = got, !.page = n + 1]
  <2>1. n + 1 \in Nat \ {0} /\ n + 1 - 1 = n
    BY <1>2
  <2>2. /\ search' \in SearchRun /\ search'.pc = "list" /\ search'.strict = search.strict
        /\ search'.got = got /\ search'.page = n + 1
    BY <1>1, <1>2, <1>3, <1>7, <2>1 DEF SearchRun
  <2>3. ASSUME NEW i, Behind(i, n) PROVE Behind(i, search.page - 1)'
    <3>1. search'.page - 1 = n
      <4>1. search'.page = n + 1 /\ n \in Nat
        BY <1>2, <2>2
      <4> HIDE DEF n
      <4>2. QED BY <4>1
    <3>2. PICK k \in DOMAIN shelf : PageSize * n < k /\ shelf[k].id = i /\ ~shelf[k].expired
      BY <2>3 DEF Behind
    <3>3. QED BY <1>1, <3>1, <3>2 DEF Behind
  <2>4. NothingPassed'
    BY <1>1, <1>4, <2>2, <2>3 DEF NothingPassed
  <2>5. QED BY <1>1, <1>2, <2>2, <2>4, OwnStep
<1>8. QED BY <1>1, <1>5, <1>6, <1>7

LEMMA AskRunSafe == SearchInv /\ AskRun => SearchInv'
<1> SUFFICES ASSUME SearchInv, AskRun PROVE SearchInv'
  OBVIOUS
<1>1. search.pc = "ask" /\ UNCHANGED <<shelf, verdicts, steady>>
  BY DEF AskRun
<1>2. search \in SearchRun /\ steady.ids \subseteq Ids /\ search.queue \subseteq Ids /\ search.pc # "idle"
  BY <1>1 DEF SearchInv, SearchTypes, SearchRun
<1>3. ~steady.removed => steady.ids \subseteq search.queue
  BY <1>1 DEF SearchInv, NothingPassed
<1>4. CASE search.queue = {} /\ search' = [search EXCEPT !.pc = "none"]
  <2>1. search' \in SearchRun /\ search'.pc = "none" /\ search'.strict = search.strict
    BY <1>2, <1>4 DEF SearchRun, SearchPhases
  <2>2. NothingPassed'
    BY <1>1, <1>3, <1>4, <2>1 DEF NothingPassed
  <2>3. QED BY <1>1, <1>2, <2>1, <2>2, OwnStep
<1>5. ASSUME NEW i \in NewestFirst(search.queue),
             search' = IF RunCounts(i, search.strict) THEN [search EXCEPT !.pc = "download", !.found = i]
                                                      ELSE [search EXCEPT !.queue = search.queue \ {i}]
      PROVE  SearchInv'
  <2>1. i \in search.queue /\ (\A j \in search.queue : j <= i) /\ i \in Ids
    BY <1>2 DEF NewestFirst
  <2>2. i \in Nat /\ \A j \in steady.ids : j \in Nat
    BY <1>2, <2>1, SearchAssumption DEF Ids
  <2>3. CASE RunCounts(i, search.strict)
    <3>1. search' = [search EXCEPT !.pc = "download", !.found = i]
      BY <1>5, <2>3
    <3>2. search' \in SearchRun /\ search'.pc = "download" /\ search'.strict = search.strict /\ search'.found = i
      BY <1>2, <2>2, <3>1 DEF SearchRun, SearchPhases
    <3>3. NothingPassed'
      BY <1>1, <1>3, <2>1, <2>2, <3>2 DEF NothingPassed
    <3>4. QED BY <1>1, <1>2, <3>2, <3>3, OwnStep
  <2>4. CASE ~RunCounts(i, search.strict)
    <3>1. search' = [search EXCEPT !.queue = search.queue \ {i}]
      BY <1>5, <2>4
    <3>2. /\ search' \in SearchRun /\ search'.pc = "ask" /\ search'.strict = search.strict
          /\ search'.queue = search.queue \ {i}
      BY <1>1, <1>2, <3>1 DEF SearchRun
    <3>3. i \notin steady.ids
      BY <1>2, <2>4, UsableFacts DEF SearchInv
    <3>4. NothingPassed'
      BY <1>1, <1>3, <3>2, <3>3 DEF NothingPassed
    <3>5. QED BY <1>1, <1>2, <3>2, <3>4, OwnStep
  <2>5. QED BY <2>3, <2>4
<1>6. QED BY <1>4, <1>5 DEF AskRun

LEMMA DownloadSafe == SearchInv /\ DownloadBundle => SearchInv'
<1> SUFFICES ASSUME SearchInv, DownloadBundle PROVE SearchInv'
  OBVIOUS
<1>1. /\ search.pc = "download" /\ UNCHANGED <<shelf, verdicts, steady>>
      /\ \E pc \in {"restored", "failed"} : search' = [search EXCEPT !.pc = pc]
  BY DEF DownloadBundle
<1>2. PICK pc \in {"restored", "failed"} : search' = [search EXCEPT !.pc = pc]
  BY <1>1
<1>3. search \in SearchRun /\ search.pc # "idle"
  BY <1>1 DEF SearchInv, SearchTypes
<1>4. search' \in SearchRun /\ search'.pc = pc /\ search'.strict = search.strict /\ search'.found = search.found
  BY <1>2, <1>3 DEF SearchRun, SearchPhases
<1>5. NothingPassed'
  BY <1>1, <1>2, <1>4 DEF SearchInv, NothingPassed
<1>6. QED BY <1>1, <1>3, <1>4, <1>5, OwnStep

LEMMA SearchMoves == SearchInv /\ [SearchNext]_searchVars => SearchInv'
<1> SUFFICES ASSUME SearchInv, [SearchNext]_searchVars PROVE SearchInv'
  OBVIOUS
<1>1. CASE UNCHANGED searchVars
  <2>1. Usable(search.strict)' = Usable(search.strict)
    BY <1>1 DEF searchVars, Usable, RunCounts
  <2>2. SearchTypes' /\ ShelfSafe' /\ NothingPassed'
    BY <1>1 DEF searchVars, SearchInv, SearchTypes, ShelfSafe, OneOfEach, Known, OnShelf, NothingPassed, Behind
  <2>3. QED BY <1>1, <2>1, <2>2 DEF searchVars, SearchInv
<1>2. QED
  BY <1>1, UploadSafe, ConcludeSafe, LoseSafe, StartSearchSafe, ReadPageSafe, AskRunSafe, DownloadSafe DEF SearchNext

LEMMA SearchSound == SearchInv => NewestStateIsFound
BY DEF SearchInv, NothingPassed, NewestStateIsFound

-------------------------------------------------------------------------------
(* The parts together.                                                            *)

StateVars == <<vars, seedVars, refreshVars, triggerVars, earlierVars, searchVars, case, sample>>
StateInv ==
  /\ SeedInv /\ RefreshInv /\ TriggerInv /\ QuotedSafe /\ EarlierInv /\ SearchInv
  /\ case = "migration" => sample \in Migrations
  /\ case = "drift" => sample \in Drifts

LEMMA StateStart == StateInit => StateInv
<1> SUFFICES ASSUME StateInit PROVE StateInv
  OBVIOUS
<1>1. SeedInv /\ RefreshInv /\ TriggerInv /\ QuotedSafe /\ EarlierInv /\ SearchInv
  BY SeedStart, RefreshStart, TriggerStart, LocalStart, EarlierStart, SearchStart DEF StateInit
<1>2. (case = "migration" => sample \in Migrations) /\ (case = "drift" => sample \in Drifts)
  BY DEF StateInit
<1>3. QED BY <1>1, <1>2 DEF StateInv

\* Each part takes a step of its own or none.
LEMMA PartsOfAStep ==
  ASSUME [StateNext]_StateVars
  PROVE  /\ [SeedNext]_seedVars /\ [RefreshNext]_refreshVars /\ [EarlierNext]_earlierVars /\ [SearchNext]_searchVars
         /\ \/ [DispatchNext]_triggerVars /\ UNCHANGED local
            \/ [LocalNext]_triggerVars /\ UNCHANGED <<slot, enabled, switches, calls>>
         /\ UNCHANGED <<case, sample>>
<1>1. CASE UNCHANGED StateVars
  BY <1>1 DEF StateVars, triggerVars
<1>2. CASE ChainStep
  BY <1>2 DEF ChainStep, Others, triggerVars
<1>3. CASE SeedStep
  BY <1>3 DEF SeedStep, Others, triggerVars
<1>4. CASE RefreshStep
  BY <1>4 DEF RefreshStep, Others, triggerVars
<1>5. CASE TriggerStep
  <2>1. DispatchNext => UNCHANGED local
    BY DEF DispatchNext, Deploy, Fire, NextDay, Dispatch
  <2>2. QED BY <1>5, <2>1 DEF TriggerStep, Others
<1>6. CASE LocalStep
  <2>1. LocalNext => UNCHANGED <<slot, enabled, switches, calls>>
    BY DEF LocalNext, StartLocal, LocalTick, LocalCheckpoint, LocalReopen, LocalCollect, LocalReport
  <2>2. QED BY <1>6, <2>1 DEF LocalStep, Others
<1>7. CASE EarlierStep
  BY <1>7 DEF EarlierStep, Others, triggerVars
<1>8. CASE SearchStep
  BY <1>8 DEF SearchStep, Others, triggerVars
<1>9. QED BY <1>1, <1>2, <1>3, <1>4, <1>5, <1>6, <1>7, <1>8 DEF StateNext

LEMMA StateMoves == StateInv /\ [StateNext]_StateVars => StateInv'
<1> SUFFICES ASSUME StateInv, [StateNext]_StateVars PROVE StateInv'
  OBVIOUS
<1>1. /\ [SeedNext]_seedVars /\ [RefreshNext]_refreshVars /\ [EarlierNext]_earlierVars /\ [SearchNext]_searchVars
      /\ \/ [DispatchNext]_triggerVars /\ UNCHANGED local
         \/ [LocalNext]_triggerVars /\ UNCHANGED <<slot, enabled, switches, calls>>
      /\ UNCHANGED <<case, sample>>
  BY PartsOfAStep
<1>2. SeedInv' /\ RefreshInv' /\ EarlierInv' /\ SearchInv'
  BY <1>1, SeedMoves, RefreshMoves, EarlierNextSafe, SearchMoves DEF StateInv
<1>3. TriggerInv' /\ QuotedSafe'
  <2>1. CASE [DispatchNext]_triggerVars /\ UNCHANGED local
    <3>1. TriggerInv'
      BY <2>1, TriggerMoves DEF StateInv
    <3>2. QuotedSafe'
      BY <2>1 DEF StateInv, QuotedSafe
    <3>3. QED BY <3>1, <3>2
  <2>2. CASE [LocalNext]_triggerVars /\ UNCHANGED <<slot, enabled, switches, calls>>
    <3>1. QuotedSafe'
      BY <2>2, LocalMoves DEF StateInv
    <3>2. TriggerInv'
      BY <2>2 DEF StateInv, TriggerInv, TriggerTypes, CallSafe, Open, CloseSafe, CloseCalls
    <3>3. QED BY <3>1, <3>2
  <2>3. QED BY <1>1, <2>1, <2>2
<1>4. QED BY <1>1, <1>2, <1>3 DEF StateInv

\* The state a run restores: whatever step of the restore fails, the bundle it leaves is the
\* approved one or a repack that differs in the reviewed inputs only, a report of success means
\* the pinned runtime is checked out over it, and a search that no deletion disturbs ends with
\* the newest bundle that was usable throughout (restore_approved_microcap_state.py,
\* restore_microcap_verified_state.py).
THEOREM RestoresSound == StateSpec => []RestoresAreSound
<1>1. StateInv => RestoresAreSound
  BY SeedSound, SearchSound DEF StateInv, RestoresAreSound
<1>2. QED BY <1>1, StateStart, StateMoves, PTL DEF StateSpec, StateVars

\* The refresh: its evidence is its own and complete when it says so, the static tables under a
\* published state are of the session or of the day but for the midnights counted, the three
\* versions read the same inputs, and an accepted drift of the notices keeps every risk action
\* (refresh_microcap_notice_retry.py, collect_microcap_notice_failure.py,
\* check_microcap_refresh_target.py, check_microcap_shared_inputs.py, notice_boundary_adapter.py).
THEOREM RefreshesSound == StateSpec => []RefreshesAreSound
<1>1. ASSUME StateInv, case = "drift"
      PROVE  \A current \in Rows({1, 2, 3}) : DriftKeepsRiskActions(sample.previous, current, 3, sample.sources)
  <2>1. sample.previous \in Rows({1, 2})
    BY <1>1 DEF StateInv, Drifts
  <2>2. QED BY <2>1, DriftIsSafe
<1>2. StateInv => RefreshesAreSound
  BY <1>1, RefreshSound DEF StateInv, RefreshesAreSound
<1>3. QED BY <1>2, StateStart, StateMoves, PTL DEF StateSpec, StateVars

\* What starts a run: the worker repeats a run only for an answer that was lost, one route
\* publishes the close of a day whatever is deployed, and a local report that says ready was
\* quoted and written before the close of its day (worker.js, run_microcap_member_local.py).
THEOREM StartsSound == StateSpec => []StartsAreOfTheirDay
<1>1. StateInv => StartsAreOfTheirDay
  BY TriggerSound, LocalSound DEF StateInv, StartsAreOfTheirDay
<1>2. QED BY <1>1, StateStart, StateMoves, PTL DEF StateSpec, StateVars

\* The artifacts of a sample have distinct times.
LEMMA SamplesAreOrdered ==
  ASSUME sample \in Migrations
  PROVE  /\ sample.own \in BOOLEAN
         /\ \A a \in sample.arts : a.created \in 1 .. 3 /\ a.whole \in BOOLEAN
         /\ \A a, b \in sample.arts : a.created = b.created => a = b
<1>1. CASE \E o \in BOOLEAN, a, b, c \in Artifact13 :
             /\ a.created = 1 /\ b.created = 2 /\ c.created = 3
             /\ sample = [own |-> o, arts |-> {a, b, c}]
  BY <1>1 DEF Artifact13
<1>2. CASE \E o \in BOOLEAN, a \in Artifact13 : sample = [own |-> o, arts |-> {a}]
  BY <1>2 DEF Artifact13
<1>3. CASE sample = [own |-> FALSE, arts |-> {}]
  BY <1>3
<1>4. QED BY <1>1, <1>2, <1>3 DEF Migrations

\* The earlier digest: a schedule mails a day again only when the mail before it could not
\* leave its marker, a final attempt past the gate and the calendar speaks or is silenced by a
\* recorded failure, and the ledger v1.4 migrates was published by a successful run
\* (ic-im-v1-2-daily-digest.yml, check_ic_im_delivery.py, restore_ic_im_v1_3_ledger.py).
THEOREM EarlierExplained == StateSpec => EarlierDigestIsExplained
<1> DEFINE Told == RepeatedDigestHasACause /\ (case = "migration" => SeedStandsOnASuccess(sample.arts, sample.own))
           Spoken == (erun # NoRun /\ erun.pc \notin {"gate", "calendar"} /\ erun.kind \notin {1, 2} /\ erun' = NoRun) =>
                       erun.day \in ehistory'.spoke \cup ehistory'.mute
<1>1. StateInv => Told
  BY SamplesAreOrdered, SeedFromSuccess DEF StateInv, EarlierInv
<1>2. StateInv /\ [StateNext]_StateVars => [Spoken]_earlierVars
  BY PartsOfAStep, EarlierSpeaks DEF StateInv
<1>3. StateSpec => []Told
  BY <1>1, StateStart, StateMoves, PTL DEF StateSpec, StateVars
<1>4. StateSpec => [][Spoken]_earlierVars
  BY <1>2, StateStart, StateMoves, PTL DEF StateSpec, StateVars
<1>5. QED BY <1>3, <1>4 DEF EarlierDigestIsExplained, FinalAttemptSpeaks
================================================================================
