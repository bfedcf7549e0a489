------------------------------ MODULE StateRecovery ------------------------------
(* How a microcap run finds a verified state to continue from, how a state is     *)
(* repacked for a new runtime, and how a runtime is accepted: one run saves the   *)
(* archive, a later one restores it, a verifier reads both, a release binds the   *)
(* receipt that every delivery run checks.                                        *)
(*   scripts/microcap_whole_state_recovery.py, restore_microcap_verified_state.py,*)
(*   restore_approved_microcap_state.py, verify_microcap_recovery_readiness.py,   *)
(*   verify_microcap_active_recovery.py, microcap-realtime-digest.yml             *)
EXTENDS Integers, FiniteSets, Sequences, SequencesExt, FiniteSetsExt

CONSTANTS
  Shas,                \* runtimes, numbers from 1
  Successors,          \* reviewed source successors: <<bootstrap, runtime>>
  LastClose, MaxRecoveryRuns, MaxUploads, MaxIncidents   \* bounds

ASSUME RuntimesAreNumbered == Shas \in SUBSET (Nat \ {0}) /\ Shas # {}

VARIABLES
  close,       \* the newest completed session
  archive,     \* uploads in order: [sha, run, body, at, live]
  tasks,       \* runs by number: [kind, sha, release, result, attempt, hit, fallback, repack]
  config,      \* approved release: [sha, from, body, receipt]
  collected,   \* what the verifier holds: [producer, consumer, p, c], or Nothing
  receipts,    \* acceptance receipts: [sha, body]
  proved,      \* history: a run restored this body under this sha from another run's upload
  releases     \* number of edits of config

recovery == <<close, archive, tasks, config, collected, receipts, proved, releases>>

\* A bundle: the runtime it was packed by, its session, and which packing it is.
Body(sha, seed, pack) == [sha |-> sha, seed |-> seed, pack |-> pack]
Nothing == [none |-> TRUE]
Original == Body(Min(Shas), 1, 0)
FirstReceipt == [sha |-> Original.sha, body |-> Original]   \* the release in force

RecoveryInit ==
  /\ close = 1 /\ archive = <<>> /\ tasks = <<>>
  /\ config = [sha |-> Original.sha, from |-> 0, body |-> Original, receipt |-> FirstReceipt]
  /\ collected = Nothing /\ receipts = {FirstReceipt} /\ proved = {FirstReceipt} /\ releases = 0

NextClose ==
  /\ close < LastClose /\ close' = close + 1
  /\ UNCHANGED <<archive, tasks, config, collected, receipts, proved, releases>>

-------------------------------------------------------------------------------
(* Finding a state.                                                              *)

Restorable(k) == archive[k].live /\ tasks[archive[k].run].result = "success"
\* fetch_latest: the newest upload of the name whose run is green; 0 for none.
LatestUpload(sha) == Max({0} \cup {k \in DOMAIN archive : archive[k].sha = sha /\ Restorable(k)})

\* bundle_identity
Identified(body, sha) == body.sha = sha /\ body.seed <= close

\* verify_microcap_active_recovery: the release names a receipt of its own runtime, or
\* of the runtime a reviewed successor replaced, and of its own approved state.
Accepted(c) == IF c.from # 0 THEN c.from ELSE c.sha
ReleaseVerified(c) ==
  /\ c.receipt.sha = Accepted(c) /\ c.receipt.body = c.body
  /\ c.from # 0 => <<c.from, c.sha>> \in Successors

-------------------------------------------------------------------------------
(* Runs of the workflow. Its concurrency group runs one at a time.                *)

GroupFreeForTask == \A i \in DOMAIN tasks : tasks[i].result # "running"
Task(kind, sha, release, attempt) ==
  [kind |-> kind, sha |-> sha, release |-> release, result |-> "running", attempt |-> attempt,
   hit |-> 0, fallback |-> FALSE, repack |-> FALSE]

\* A delivery run uses the released runtime, a recovery run any candidate.
StartTask ==
  /\ GroupFreeForTask /\ Len(tasks) < MaxRecoveryRuns
  /\ \E t \in {Task("close", config.sha, config, 1)}
              \cup {Task(kind, sha, config, 1) : kind \in {"bootstrap", "require_hit"}, sha \in Shas} :
       tasks' = Append(tasks, t)
  /\ UNCHANGED <<close, archive, config, collected, receipts, proved, releases>>
\* Bound: re-runs, expired uploads and edits of the release together.
Incidents == releases + Cardinality({i \in DOMAIN tasks : tasks[i].attempt > 1})
                      + Cardinality({k \in DOMAIN archive : ~archive[k].live})

\* A re-run checks out the same commit, with the release of that day.
RerunTask == \E i \in DOMAIN tasks :
  /\ GroupFreeForTask /\ tasks[i].attempt = 1 /\ Incidents < MaxIncidents
  /\ tasks' = [tasks EXCEPT ![i] = Task(tasks[i].kind, tasks[i].sha, tasks[i].release, 2)]
  /\ UNCHANGED <<close, archive, config, collected, receipts, proved, releases>>

\* A run ends at any step: what it did so far stays, its uploads too. Only a green run
\* counts afterwards, so a cancelled one is a failed one.
Results(done) == {"failure"} \cup (IF done THEN {"success"} ELSE {})
Upload(i, body) ==
  Append(archive, [sha |-> tasks[i].sha, run |-> i, body |-> body, at |-> close, live |-> TRUE])

\* send, close-confirmed: the whole archive first, then the cache or the durable bundle
\* of this runtime (both may be gone), then the approved release; a refresh to today's
\* session and its packing follow, or all was delivered before. The upload comes before
\* the mail.
Deliver == \E i \in DOMAIN tasks :
  /\ tasks[i].result = "running" /\ tasks[i].kind = "close"
  /\ LET t == tasks[i]
         hit == LatestUpload(t.sha)
         restored == hit # 0 /\ Identified(archive[hit].body, t.sha)
     IN \/ /\ tasks' = [tasks EXCEPT ![i].result = "failure"]
           /\ archive' = archive
        \/ /\ ReleaseVerified(t.release)
           /\ tasks' = [tasks EXCEPT ![i].result = "success"]
           /\ archive' = archive
        \/ /\ ReleaseVerified(t.release)
           /\ \E approved \in (IF restored THEN {FALSE} ELSE BOOLEAN), saved \in BOOLEAN :
              \E result \in Results(saved) :
                /\ saved => Len(archive) < MaxUploads
                /\ archive' = IF saved THEN Upload(i, Body(t.sha, close, Len(archive) + 1)) ELSE archive
                /\ tasks' = [tasks EXCEPT ![i] = [t EXCEPT !.fallback = approved, !.result = result]]
  /\ UNCHANGED <<close, config, collected, receipts, proved, releases>>

\* recovery-check: restore, or the approved release and its packing for the candidate;
\* the archive is described before it is saved. Packing needs the close-confirmed mode.
Recover == \E i \in DOMAIN tasks :
  /\ tasks[i].result = "running" /\ tasks[i].kind \in {"bootstrap", "require_hit"}
  /\ LET t == tasks[i]
         hit == LatestUpload(t.sha)
     IN \E packs \in BOOLEAN :
        LET repack == hit = 0 /\ packs
            body == IF hit # 0 THEN archive[hit].body
                    ELSE IF repack /\ t.release.body.sha # t.sha
                    THEN Body(t.sha, t.release.body.seed, Len(archive) + 1) ELSE t.release.body
            done == (hit # 0 \/ t.kind = "bootstrap") /\ Identified(body, t.sha)
        IN \E saved \in BOOLEAN, result \in Results(done) :
             /\ saved => done /\ Len(archive) < MaxUploads
             /\ result = "success" => saved
             /\ archive' = IF saved THEN Upload(i, body) ELSE archive
             /\ tasks' = [tasks EXCEPT ![i] = IF result = "failure" THEN [t EXCEPT !.result = result]
                            ELSE [t EXCEPT !.hit = hit, !.fallback = (hit = 0), !.repack = repack, !.result = result]]
             /\ proved' = IF saved /\ hit # 0 /\ archive[hit].run # i
                          THEN proved \cup {[sha |-> t.sha, body |-> body]} ELSE proved
  /\ UNCHANGED <<close, config, collected, receipts, releases>>

Expire == \E k \in DOMAIN archive :
  /\ archive[k].live /\ Incidents < MaxIncidents
  /\ archive' = [archive EXCEPT ![k].live = FALSE]
  /\ UNCHANGED <<close, tasks, config, collected, receipts, proved, releases>>

-------------------------------------------------------------------------------
(* Acceptance.                                                                   *)

UploadsOf(i) == {k \in DOMAIN archive : archive[k].run = i /\ archive[k].live}

\* collect: two green recovery runs with one upload each, read one after the other.
GreenRecovery(i) == tasks[i].result = "success" /\ tasks[i].kind \in {"bootstrap", "require_hit"}
Collect == \E p, c \in DOMAIN tasks :
  /\ collected = Nothing
  /\ GreenRecovery(p) /\ GreenRecovery(c)
  /\ Cardinality(UploadsOf(p)) = 1 /\ Cardinality(UploadsOf(c)) = 1
  /\ collected' = [producer |-> p, consumer |-> c, p |-> tasks[p], c |-> tasks[c],
                   pu |-> Max(UploadsOf(p)), cu |-> Max(UploadsOf(c))]
  /\ UNCHANGED <<close, archive, tasks, config, receipts, proved, releases>>

\* recheck: neither run was re-run nor an artifact lost while the archives came in.
RecheckSkipped == TRUE   \* mutant
Recheck ==
  /\ tasks[collected.producer] = collected.p /\ tasks[collected.consumer] = collected.c
  /\ archive[collected.pu].live /\ archive[collected.cu].live

\* verify_readiness: the later run restored exactly what the earlier one had saved. The
\* end of the first before the start of the second shows in the order of the uploads.
SamePair(sha) ==
  LET a == archive[collected.pu]
      b == archive[collected.cu]
  IN /\ collected.producer # collected.consumer /\ collected.pu < collected.cu
     /\ collected.p.sha = sha /\ collected.c.sha = sha /\ a.sha = sha /\ b.sha = sha
     /\ ~collected.c.fallback /\ ~collected.c.repack
     /\ collected.p.fallback \/ ~collected.p.repack
     /\ collected.c.hit = collected.pu
     /\ a.body = b.body /\ Identified(a.body, sha)

IssueReceipt ==
  /\ collected # Nothing
  /\ \E sha \in Shas :
       receipts' = IF Recheck /\ SamePair(sha)
                   THEN receipts \cup {[sha |-> sha, body |-> archive[collected.pu].body]} ELSE receipts
  /\ collected' = Nothing
  /\ UNCHANGED <<close, archive, tasks, config, proved, releases>>

\* A release edits the pin, the approved state and the bound receipt, well or badly.
Release ==
  /\ Incidents < MaxIncidents /\ releases' = releases + 1
  /\ \E sha \in Shas : \E from \in {0} \cup (Shas \ {sha}), r \in {config.receipt} \cup receipts,
        body \in {config.body} \cup {archive[k].body : k \in DOMAIN archive} :
       config' = [sha |-> sha, from |-> from, body |-> body, receipt |-> r]
  /\ UNCHANGED <<close, archive, tasks, collected, receipts, proved>>

RecoveryNext ==
  \/ NextClose \/ StartTask \/ RerunTask \/ Deliver \/ Recover \/ Expire
  \/ Collect \/ IssueReceipt \/ Release

-------------------------------------------------------------------------------
(* Properties.                                                                   *)

\* A delivery run that passes its recovery identity check stands on a proof: some run
\* restored exactly its approved state, under its runtime or the one it was reviewed to
\* replace, from what another run had saved (verify_microcap_active_recovery.py: "Bind
\* the active release to an independently accepted recovery pair").
DeliveriesAreRecoverable ==
  \A i \in DOMAIN tasks :
    (tasks[i].kind = "close" /\ tasks[i].fallback) =>
      \E t \in proved : /\ t.body = tasks[i].release.body /\ t.body.sha = t.sha
                        /\ t.sha = tasks[i].sha \/ <<t.sha, tasks[i].sha>> \in Successors

\* Every archive was packed by the runtime its name carries, and for a session that was
\* complete when it was saved: a bootstrap that could not repack saves nothing
\* (bundle_identity, describe).
ArchiveBearsItsName ==
  \A k \in DOMAIN archive : archive[k].body.sha = archive[k].sha /\ archive[k].body.seed <= archive[k].at

\* "A rerun/deletion/expiry while downloading cannot inherit an earlier PASS"
\* (recheck): a receipt is issued only while both runs are green and both archives exist,
\* the second one restored from the first.
ReceiptsRestOnStandingRuns ==
  [][\A r \in receipts' \ receipts :
       \E p, c \in DOMAIN tasks :
         /\ p # c /\ GreenRecovery(p) /\ GreenRecovery(c)
         /\ \E k \in UploadsOf(p) : tasks[c].hit = k /\ archive[k].body = r.body
         /\ UploadsOf(c) # {}]_recovery
=================================================================================
