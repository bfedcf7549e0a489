------------------------------- MODULE MCCheckpoint -------------------------------
(* Small instances of what a microcap or IC/IM run starts from and is started by, for  *)
(* TLC: one family per value of case, the checkpoint chain, restoring the approved      *)
(* seed, refreshing the shared inputs, the cron worker, the local member run, the       *)
(* earlier IC/IM digest, the search for a verified state, and two families of cases.     *)
EXTENDS MemberCheckpoint, SeedRestore, NoticeRefresh, Trigger, EarlierIcim, StateSearch, TLC

VARIABLES case, sample

\* One undated artifact of session 1 from before dated names.
OldArtifact == {[id |-> -1, dated |-> FALSE, readable |-> TRUE, run |-> "legacy",
                 cp |-> [day |-> 1, phase |-> "current", members |-> 1, rev |-> 0]]}
RunSymmetry == Permutations(Runs)

\* The approved archive of the bootstrap, and releases with and without a successor, some of
\* them declaring too much or too little.
BootstrapArchive == [release |-> 1, inputs |-> [s \in Sources |-> 1], econ |-> 1]
SomeReleases == [successor : BOOLEAN, changes : SUBSET Sources, repack : SUBSET Sources, diff : SUBSET Sources]

\* Up to three artifacts of v1.3 in order of creation.
Artifact13 == [name : {"monthly", "r7"}, created : 1 .. 3, run : {"success", "failure"}, whole : BOOLEAN]
Migrations == {[own |-> o, arts |-> {a, b, c}] : o \in BOOLEAN, a \in {x \in Artifact13 : x.created = 1},
                 b \in {x \in Artifact13 : x.created = 2}, c \in {x \in Artifact13 : x.created = 3}}
               \cup {[own |-> o, arts |-> {a}] : o \in BOOLEAN, a \in Artifact13} \cup {[own |-> FALSE, arts |-> {}]}
\* Two notices before, up to three after; the third is the reviewed addition.
Notice == [st : BOOLEAN, cert : BOOLEAN, late : BOOLEAN]
Rows(ids) == UNION {[d -> Notice] : d \in SUBSET ids}
Drifts == [previous : Rows({1, 2}), sources : BOOLEAN]

\* While one family moves the others stay in one of their initial states.
Still == [successor |-> FALSE, changes |-> {}, repack |-> {}, diff |-> {}]
Nothing == [kind |-> "none"]
StateInit ==
  /\ Init /\ SeedInit /\ RefreshInit /\ TriggerInit /\ EarlierInit /\ SearchInit
  /\ \/ case \in {"chain", "seed", "refresh", "trigger", "local", "earlier", "search"} /\ sample = Nothing
     \/ case = "migration" /\ sample \in Migrations
     \/ case = "drift" /\ sample \in Drifts
  /\ case # "seed" => seed.command = "archive" /\ seed.release = Still /\ bundle = None
  /\ case # "trigger" => enabled
Others(v) == UNCHANGED <<v, case, sample>>
ChainStep == case = "chain" /\ Next /\ Others(<<seedVars, refreshVars, triggerVars, earlierVars, searchVars>>)
SeedStep == case = "seed" /\ SeedNext /\ Others(<<vars, refreshVars, triggerVars, earlierVars, searchVars>>)
RefreshStep == case = "refresh" /\ RefreshNext /\ Others(<<vars, seedVars, triggerVars, earlierVars, searchVars>>)
TriggerStep == case = "trigger" /\ DispatchNext /\ Others(<<vars, seedVars, refreshVars, earlierVars, searchVars>>)
LocalStep == case = "local" /\ LocalNext /\ Others(<<vars, seedVars, refreshVars, earlierVars, searchVars>>)
EarlierStep == case = "earlier" /\ EarlierNext /\ Others(<<vars, seedVars, refreshVars, triggerVars, searchVars>>)
SearchStep == case = "search" /\ SearchNext /\ Others(<<vars, seedVars, refreshVars, triggerVars, earlierVars>>)
StateNext == ChainStep \/ SeedStep \/ RefreshStep \/ TriggerStep \/ LocalStep \/ EarlierStep \/ SearchStep
StateSpec == StateInit /\ [][StateNext]_<<vars, seedVars, refreshVars, triggerVars, earlierVars, searchVars, case, sample>>

-------------------------------------------------------------------------------
\* A restored state is the approved one, under the runtime that is pinned, and a search ends
\* with the newest verified bundle (restore_approved_microcap_state.py, fetch_latest).
RestoresAreSound == BundleIsApproved /\ RestoredRunsTheRuntime /\ NewestStateIsFound

\* A refresh keeps the evidence of its own run, reuses tables of its own day only, gives all
\* strategy versions the same inputs, and a reviewed difference of notices hides no other one
\* (refresh_microcap_notice_retry.py, check_microcap_shared_inputs.py, the notice boundary).
RefreshesAreSound ==
  /\ EvidenceIsThisRuns /\ StaticTablesAreCurrent /\ VersionsShareInputs
  /\ case = "drift" =>
       \A current \in Rows({1, 2, 3}) : DriftKeepsRiskActions(sample.previous, current, 3, sample.sources)

\* A dispatch is repeated only for a lost answer, a day's close is started by one route, and
\* a local report is complete before the close (worker.js, run_microcap_member_local.py).
StartsAreOfTheirDay == RepeatedRunsAreLostAnswers /\ OneCloseRouteADay /\ LocalReportsAreIntraday

\* The earlier IC/IM digest repeats a mail for a lost marker only and does not swallow its
\* last failure; the ledger v1.4 migrates from it was published (ic-im-v1-2-daily-digest.yml).
EarlierDigestIsExplained ==
  /\ [](RepeatedDigestHasACause /\ (case = "migration" => SeedStandsOnASuccess(sample.arts, sample.own)))
  /\ FinalAttemptSpeaks
=================================================================================
