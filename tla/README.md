# TLA+ verification of the daily report automation

The repository runs daily financial reports out of GitHub Actions: a trigger
dispatches a workflow, the workflow restores state from artifacts of earlier
runs, computes a signal with an external strategy repository, builds a mail,
sends it through SMTP, and leaves artifacts behind that later runs read. There
is no database and no lock service: *artifacts, run conclusions and the
concurrency group are the only shared state*, and every guarantee the reader of
the mailbox relies on (one mail per report, never a mail that nobody recorded,
never a silent gap) is an invariant across runs. That is what this project
models.

## 1. Inventory of the system

| component | state it keeps | operations | hard behaviour | modules |
|---|---|---|---|---|
| IC/IM v1.4 post-close delivery (`ic-im-v1-4-daily-digest.yml`, `check_ic_im_v1_4_delivery.py`, `check_ic_im_v1_4_result_day_delivery.py`, `prepare_ic_im_v1_4_marker.py`, `restore_ic_im_v1_4_ledger.py`, `resolve_ic_im_v1_4_attempt.py`) | send-intent and delivered-marker artifacts, ledger artifacts, run conclusions | classify, two delivery gates, restore, run signal, build, intent, send, ledger, marker | overlapping dispatches, re-runs, uncertain SMTP outcome, midnight between the two gates, artifact expiry | `IcimDelivery` |
| ETF / AI HOT digest delivery (`etf-allocation-digest.yml`, `ai-hot-digest.yml`, `check_daily_digest_delivery.py`) | step outcomes of earlier runs (through the API), intent and report artifacts, `digest_history/` in git | reconcile earlier runs, build, validate, intent, send, persist history | the past is reconstructed from step outcomes; re-runs make a run ambiguous | `DailyDigest` |
| Microcap and member delivery (`microcap-realtime-digest.yml`, `microcap-member-daily.yml`, `check_microcap_delivery.py`, `check_microcap_member_send.py`, `send_report.py`) | markers, legacy markers, SMTP receipts, intents | gate, pending-previous-close recovery, capture inputs, intent, send, receipt, marker | yesterday's undelivered close, receipts without marker, catch-up, corrections, two workflows on one set of markers | `MicrocapDelivery` |
| Member checkpoints (`restore_microcap_member_checkpoint.py`, `microcap-member-maintenance.yml`) | checkpoint artifacts of a session | choose, validate, compute, upload, withdraw | lazy ordering, re-runs, rebalance handoff | `MemberCheckpoint` |
| Microcap maintenance and state recovery (`microcap_whole_state_recovery.py`, `restore_approved_microcap_state.py`, `restore_microcap_verified_state.py`, `verify_microcap_recovery_readiness.py`, `verify_microcap_active_recovery.py`) | whole-state archives, approved release, receipts | pack, restore, repack, search, prove | sources are switched and switched back; artifacts come and go while they are listed | `SeedRestore`, `StateSearch`, `StateRecovery` |
| Refresh retry and shared inputs (`refresh_microcap_notice_retry.py`, `check_microcap_refresh_target.py`, `collect_microcap_notice_failure.py`, `check_microcap_shared_inputs.py`, notice boundary adapter) | generations on disk, refresh log, static tables | reuse, try, retry, collect, compare | two nested retry loops, evidence of several runs side by side | `NoticeRefresh` |
| Local daily gate (`realtime_daily_gate.py` of `local_gate_20261106/flow15`, the group worker) | lock file, certificate, `gate.json`, prepared snapshots | lock, hash, test, certify, release, prepare, resume | several launchers, hanging tests, edits while hashing | `LocalGate`, `TestPlan`, `GatePrepare` |
| Local 14:15 orchestration (`run_local_intraday.py`, `run_icim_local_independent.py`) | claim of a day, receipts, writer lock, ledger hash | claim, authorize, two strategy threads, report | two processes, a cut-off at 15:00, partial exit | `LocalIntraday` |
| Triggers (`worker.js`, `run_microcap_member_local.py`) | none | cron to dispatch with three attempts; local member run | lost answers, deployments between two crons | `Trigger` |
| Earlier IC/IM generations (`ic-im-v1-2-daily-digest.yml`, `restore_ic_im_v1_3_ledger.py`) | their markers and ledgers | gate, signal, send, marker; migration | marker after the mail | `EarlierIcim` |
| ETF digest content (`daily_reports.py`, `etf_candidate_audit.py`, `validate_etf_delivery.py`, `etf_preflight.py`) | `digest_history/`, omission queue | collect, window, dedupe, select, audit, prove | sliding windows over a history that keeps first dates; two audits without shared code | `EtfDigest`, `EtfPreflight` |
| ETF market tables (`etf_movers.py`, `daily_reports.py`) | none | calendar, paged fetch, rank, align | quotes of several closes in one table | `UsMarket`, `EtfMarket` |
| IC/IM report content (`build_ic_im_v1_4_digest.py` and its contracts) | none | validate a payload, subject, headline, maintenance notice; handoff of a ledger | a dozen validators written at different times | `IcimReport`, `FearEvidence`, `IcimHandoff` |
| Microcap report content (`build_microcap_realtime_digest.py`, `build_microcap_member_digest.py`, `build_local_intraday_report.py`) | none | validate rows, reduce to status, date and subject | three strategies with own sessions and clocks | `MicrocapReport` |
| Equity momentum boundary (`monitoring/equity_momentum_boundary/`) | snapshot artifact | compute, compare, send, save | snapshot saved only after the send | `EquityMonitor` |
| AI HOT report, MNT advisory (`daily_reports.build_ai`, `build_mnt_advisory_digest.py`) | none | fetch with retries; three builds, mail, verdict | midnight in the retries; exit codes of skipped steps | `AiHot`, `MntDigest` |
| Mail transport, publication clock (`mail_utils.py`, `send_report.py`, `resolve_cn_publication_mode.py`) | receipt file | send, write receipt; clock to mode | failure after acceptance | in the delivery modules |
| Dormant digests, probes | none | | not started, or read-only | not modelled |

The components interact through (a) artifacts of the same repository, (b) the
conclusion of runs (a ledger is restored only from a *successful* run), (c) the
clock (Beijing day and hour select the key and the mode), (d) files of the local
machine (lock, claim, certificate, writer lock), and (e) the operator (manual
dispatch, correction, ledger-only repair, re-run, edits).

What makes the parts correct: a report identity is mailed at most once by
automation; an intent without a marker is never answered by a second mail; a
marker follows a mail; green means delivered; the state that later runs continue
is the state the mailed report was computed from; what runs in production is what
was tested; and a mail says nothing that its evidence does not support. The
hazards each property is about are listed in `PROJECT.json`.

## 2. Modules

`AtMostOnceSend` is the abstract specification of a delivery: intent before SMTP,
one acceptance, marker after it, corrections outside the budget. `IcimDelivery`,
`DailyDigest` and `MicrocapDelivery` are each checked to implement it
(`KeepsPromise`, in the runs `icim`, `digest_aihot` and `microcap_reruns`). `LocalIntraday` extends `LocalGate`: an orchestration is composed
with the gates it asks for authority. `EtfPreflight` extends `EtfDigest`: the later
proof judges what the digest really built. The other modules stand alone.

| module | models | checked in |
|---|---|---|
| `IcimDelivery` | the send job of IC/IM v1.4 with dispatch, concurrency group, re-runs, cancellation, crashes, clock | `MCIcim` |
| `DailyDigest` | the send job of the ETF and AI HOT digests and `reconcile` | `MCDigest` |
| `MicrocapDelivery` | the send jobs of the Microcap digest and the member report in their shared group | `MCMicrocap` |
| `LocalGate`, `LocalIntraday` | coordinator lock, groups, certificate, release; the claim of a day, threads, writer lock, receipt | `MCGate`, `MCLocal` |
| `TestPlan`, `GatePrepare` | shards, counts and resumed groups; preparing, sealing and binding a snapshot | `MCLocal` |
| `MemberCheckpoint`, `StateSearch`, `SeedRestore`, `NoticeRefresh`, `Trigger`, `EarlierIcim` | what a run starts from and is started by | `MCCheckpoint` |
| `UsMarket`, `EtfMarket`, `EtfDigest`, `EtfPreflight` | the ETF digest: tables, articles, audits, history | `MCEtf`, `MCReports` |
| `IcimReport`, `FearEvidence`, `IcimHandoff`, `MicrocapReport` | what the strategy mails may say | `MCMail`, `MCReports` |
| `EquityMonitor`, `StateRecovery`, `AiHot`, `MntDigest` | the weekly monitor, the archives of a delivery and their proofs, the AI HOT report, the MNT job | `MCReports` |
| `IcimDeliveryProofs`, `DailyDigestProofs`, `MicrocapDeliveryProofs`, `LocalGateProofs`, `LocalIntradayProofs`, `LocalDayProofs`, `StartingPointsProofs`, `ReportsProofs` | inductive invariants and theorems | |

`MCLocal`, `MCCheckpoint` and `MCReports` host several parts that share no state.
The initial state picks one (`case`); the others stay still. A part that is a pure
function is checked by choosing one of its inputs in one step (`...Case`) and
comparing its result with a definition of what it should be.

### IcimDelivery and the code

`phase[r]` is the place of run `r` in the concurrency group and afterwards its
conclusion; `job[r]` holds the outcomes and outputs of the steps the way the
runner's `steps` context does; `intents`, `markers`, `ledgers` are artifacts;
`mails` is what the SMTP server accepted (the ground truth no script can read).
One operator `...If` per step is the step's `if:`; a step without a status
function runs only while the job is healthy; `Skip` passes a step whose
condition is false, `Break` is the step failing (checkout, installation,
identity assertions, API errors and refused uploads included), `Raise` the
scripts refusing on purpose. Uploads and the send have a third outcome: the
effect happened and the step reports failure.

Abstractions, each on purpose:

* The key of a report is its signal day and mode. The identity tag in
  `marker_prefix` is a function of the day and adds nothing.
* The ledger chain is a set of records `<<day, run that derived it>>`: that is
  what tells two derivations of one session apart. The strategy runner is an
  external program; `Extend` is what the workflow's arguments ask of it (append
  the missing sessions up to the expected market date; realtime mode leaves the
  ledger alone), and any other behaviour of it is `exit = "nonzero"` or `Break`.
* `CompletedDay` stands for the strategy's `_latest_completed_exchange_day`.
* A signal step that is interrupted leaves no `exit_code` output. The runner
  coerces the missing output (null) and `'0'` to the same number, so neither
  branch of the send condition holds; the model lets such a run send nothing.
* A ledger artifact is kept 90 days, beyond the horizon of every instance.
* Re-runs keep the run id and the inputs; the new attempt starts a fresh job.
* A runner that has written an `ok` result and is then killed by `timeout 65m`
  would have its normal content mailed through the failure branch without an
  intent. It needs the external runner to fail after its last write and is not
  modelled (listed as a hazard).

### DailyDigest and the code

The two daily digests keep no marker. What an earlier run did is *reconciled*
from what GitHub says of it: the `Send Gmail` steps its jobs started, and the
intent and report artifacts it left. `tries` holds every started send step with
the conclusion GitHub shows, together with the ground truth (`accepted`) that
`reconcile` cannot read; `intents` and `reports` are the two artifacts. The
operators from `Window` to `DeliveryUnknown` are the loop of
`check_daily_digest_delivery.reconcile`, one per idea: which runs are listed,
which of their artifacts count, when a send is confirmed, uncertain, or about
another day. `Gate` goes on when the delivery is confirmed or there was none,
`Refuse` is the step raising `BLOCKED`.

* Time is counted in slots of eight hours from a UTC midnight, so that a Beijing
  day (UTC+8) is a whole number of slots and starts one slot before the UTC day:
  the mismatch between `created>=` (a UTC date) and the report day (a Beijing
  date) is in the model.
* Neither job has a `timeout-minutes`, so each is limited to GitHub's six hours;
  a run waits for at most the one before it. Together less than two slots:
  `MaxLag = 2`.
* `created` and `base` (the commit whose `digest_history` the build filters by)
  belong to the run: a re-run keeps both. `RerunHorizon` bounds how long after
  its creation an operator re-runs a run (the attempt starts within the same
  number of slots).
* The receipt is written after the acceptance, atomically (`write_receipt`), so
  `receipt => accepted`; a step that reports success has written it.
* An AI HOT report is about its requested day, which the source must have
  published: `BuiltDay(r) <= BeijingDay(now)`. An ETF report is about the day of
  its build.
* Missing identity fields, refused pages and oversized archives make the gate
  fail: they are `Break`. An artifact directory without `metadata.json` can only
  come from an attempt that never reached its gate, hence never started a send,
  and `reconcile` passes over such runs.
* Production runs are dispatched on `main`; the refusal of other branches has no
  counterpart.

### MicrocapDelivery and the code

Two workflows share one concurrency group and one set of artifacts. Their steps
are one sequence (`After`); `StepIf(r)` is the `if:` of the step a run is at, and
a step the workflow of `r` does not have is skipped. Delivery leaves an intent, a
receipt and a marker per key, in this order. `GateRaises` and `Gate` are
`check_microcap_delivery.main`; `Verified` is what `verify_smtp_receipt` asks of a
receipt, of which `BoundedSend` is the interval that admits a mail accepted after
midnight; `Choose` is `check_microcap_member_send`, the separate transaction of a
partial report. `shown` is what GitHub's API shows of a run's latest attempt: a
re-run hides the steps of the attempt that left a receipt.

* A key is a day and a mode, or the partial report of it (`series = "partial"`),
  or one delivery test id (`series = "test"`, which has no day: the id suppresses
  the same mail on any day).
* `Legacy` are the keys proved delivered by a marker of the former naming; which
  they are is decided by `legacy_marker_mode` from artifacts no run writes any more.
* The steps from the checkout of the strategy to the captured shared inputs, and
  in the member job from the checkpoint to the computed result, are the one step
  `Prepare` with its outcomes: the state is there, it is not there and the job is
  healthy (a refresh that exhausted its attempts), or the job has failed (`Break`).
  Which state was restored is not told apart here; that is `MemberCheckpoint`,
  `StateSearch` and `SeedRestore`. `Whole` stands for the three signals, the
  comparison of the shared inputs, and the packing of one delivery.
* The checked fields and hashes of a receipt hold of what `write_receipt` writes;
  a receipt with others can only make the gate refuse, which is `Break`.
* Artifacts are kept 30 days, beyond the horizon of every instance.
* An `instant` is a Beijing day and hour. `MaxRunHours` is 3 for the digest (limit
  180 minutes) and 1 for the member job (30 minutes): how far the hour hand can
  move. The calendar and regression jobs before the digest's send job get the same
  3 hours. `TimeOut` is a job at its limit, which GitHub then shows as longer than
  180 minutes.
* A re-run repeats all jobs; the inputs `recovery_check`, `recovery_strategy_sha`
  and `approved_state_*` select another job or another source of the state and are
  left out.

### LocalGate, LocalIntraday, TestPlan, GatePrepare and the code

A launcher is a process with one mode; `lock`, `active` (the certificate of the daily
mode) and `gate[l]` (its `gate.json`) are files that outlive it. `changed` says which
classes of files were edited since the review, `seen` what a launcher hashed of them,
so that every comparison of hashes is a comparison of readings at two moments.
`child[l] = "lost"` is a test process whose end could not be confirmed. In
`LocalIntraday` a run holds the gate it was started with, and `Authorized` compares it
again before each command of either thread; the window, the writer lock and the ledger
are read where `run_local_intraday.py` reads them.

* The newest coordinator (`flow15`) is modelled; the snapshots of earlier ones under
  `docs/acceptance/` are copies of the same program.
* The daily mode compares its certificate before it hashes under the lock. The native
  gate does not read the production sources a second time. The IC/IM-only gate takes no
  lock: when the snapshot or the sources differ at its end it raises and writes nothing,
  when only the bindings differ it writes a red gate. The model follows each of them.
* The official group of the IC/IM-only gate would pass a receipt of zero tests; only
  `verify_group_evidence` of the run that uses it refuses (`EvidenceCounted`).
* The announcement of a partial IC/IM run is overwritten by the final one; looking for
  a child and starting it is one step; the canonical ledger only grows.
* `TestPlan`: costs 1, 4 and 9 stand for the weights of tests; a core resume admits one
  reviewed change of the scheduling worker, which is left out of what binds. A shard may
  be left without tests: the gate raises and stays red. The supplemental group runs
  without the network guard. Except for the supplemental group and a takeover, which
  compare the files, the gate compares only the *numbers* of reported cases and of
  executed tests: that a passed group ran a test of each of its files rests on pytest
  reporting a case only for a test it ran (`ReportedRan`, the hypothesis of
  `GreenMeansAllRan`).
* `GatePrepare`: a preparation may die at every step and be resumed until the IC/IM
  checkout has begun. Some things it does not look at are in the model because the code
  does not: a new file that shadows an imported name, the scripts a string names
  (for `consumer_bindings`), files no release manifest lists, the extra fixtures taken
  unbound from the working copy, and a tool directory an earlier attempt of another
  commit left behind (the property excepts that attempt).

### The modules of MCCheckpoint and the code

* `MemberCheckpoint`: a checkpoint is its session, phase, number of members and revision;
  `Fetch` is the lazy read of candidates in the order of `Rank`, `Result` what a run
  publishes. A re-run withdraws its own checkpoint while it is running, because only
  artifacts of completed runs count. `Legacy` are the undated checkpoints from before the
  naming by session: of a session no later than the first, and sized as a state of it
  (`CheckpointAssumption`).
* `StateSearch`: the listing is read page by page (`PageSize` 1 and 3 pages for 100 and
  100), then one run after the other is asked, while other runs conclude, upload, are
  run again, expire or are deleted. A deletion between two pages can hide the bundle at
  the page boundary; a broken newest bundle fails the step and no older one is tried; a
  cancelled run's bundle counts unless `--require-success` is given.
* `SeedRestore`: the checkout is switched to the bootstrap release and back in `finally`.
  The restore command replaces the bundle before it identifies it; what the packer leaves
  when it fails is a free choice; the native restore is external.
* `NoticeRefresh`: two whole refreshes of three notice tries leave up to six generations,
  but the collector refuses more than four and then keeps none. A change of the shared
  inputs that is undone between two readings is unseen. A run that reuses the static
  tables and crosses midnight dates them anew. The third pagination failure is not
  retried. The retry of the universe timeout is part of `RestOfRefresh`. A run lasts less
  than a day.
* `Trigger`: a request that timed out may have started its run; the delivery modules
  take such duplicates. `Routes` are the routes by cron, weekday and deployment.
* `EarlierIcim`: the v1.2 marker follows the mail and the ledger upload. The model shows
  what follows: a failing upload after the mail repeats it, a failing ledger restore
  silences even the final attempt, the 65 minute kill after an ok result mails it on the
  final attempt without a marker, a missing result file is silent, one marker serves both
  modes, the newest ledger is taken whatever its run's conclusion, and gate and calendar
  read the clock separately. `RepeatedDigestHasACause` and `FinalAttemptSpeaks` name
  exactly these causes and exclude every other.

### The modules of MCReports and the code

Articles, payloads, rows and quotes are records of the fields the code decides by; the
inputs are the ones the program can have, enumerated around what its validators accept.

* `UsMarket`, `EtfMarket`: dates are day numbers; the run computes the calendar of a century, the proofs of every
  year from 2000.
  31 December counts as a holiday when 1 January is a Saturday, as in the code. `_rank`
  filters by the sign of the change before it chooses a family's representative, although
  its text says that the change plays no part. A page that is shorter than its size
  without being the last would skip ETFs silently; the listing service does not do that, so a
  page is the part of the listing it asks for, and "as long as requested" is "all of it".
* `EtfDigest`: a day has at most one build; `taken` is what the feeds list of a `world`
  of articles. More than `FixedLimit` fixed updates, one title under two links or one
  link in two blocks refuse the mail; a newer capture dated in the future hides an article
  of the window, which the audit discloses. The fallback feeds of the forums are not
  recorded.
* `EtfPreflight`: production records no coverage as complete except the omission queue,
  so a proof can be PASS only after an external review. Another capture of a shown link
  under a title that was sent before makes a good mail FAIL. Children of aggregators and
  the capacity excuse, which production never writes, are left out.
* `IcimReport`, `FearEvidence`: each validator is an operator, a payload must pass all.
  The badge of the card omits the ordinary Put plan, pending settlements are in no subject,
  and the old position of a pending 3x plan is compared only when an ordinary plan is
  scheduled. One branch of `partial_calendar_notices` is unreachable.
* `IcimHandoff`: the journal, the migration record and the report that leave together.
* `MicrocapReport`: the path from CSV rows to subject. The member mail may say OK while a
  row is unconfirmed; required but not actionable is shown as no operation; one adjustment
  label is unreachable. 15:00:00 is realtime for the clock and refused by the contract.
* `EquityMonitor`: months, evidence, advice, and the chain of snapshots. A re-run mails
  again, a failed save is only a warning. Losing the dividend window can relax the advice,
  and the headline is relaxed when the volatility is missing although the suggestion is
  not; the property is about the suggestion with its windows.
* `StateRecovery`: archives, receipts and the proof that reads two runs. The workflow
  says that the state is saved independently of SMTP, but only bundles of successful runs
  are found later; `MaxIncidents` admits one failure per behaviour.
* `AiHot`: sections without items are mailed; an unreadable answer is not retried.
* `MntDigest`: the exit code of the group of four scripts is the last one's, so a success
  may rest on older intermediate results, and a failure mail shows the committed summary
  of an earlier day under today's date.

## 3. Runs

| run | instance | what it shows |
|---|---|---|
| `icim` | 2 runs of any dispatch; Friday (a session) and Saturday, hours 0, 20, 23 | markers only after acceptance, an uncertain intent is never retried, green means delivered, the restorable chain grows and keeps what was mailed, and the job implements `AtMostOnceSend` |
| `icim_live` | 2 scheduled runs, each with a re-run, fairness | every dispatched run gets a conclusion; no signal day is mailed twice, re-runs included |
| `digest_etf` | 2 ETF runs over two days, each re-run once in the slot it was created in | one SMTP contact per day although attempts mix; a refusal is about this very day or a re-run; a green run was accepted and its articles are in the history of every later run |
| `digest_aihot` | 2 AI HOT runs, one may back-fill day 1; evidence expires after 3 slots | the job implements `AtMostOnceSend` |
| `microcap` | digest, catch-up, correction and member runs of both workflows around one midnight and at the next close | at most one automatic mail per key; the receipt of a late close is never refused later; green means delivered; an uncertain intent is never retried |
| `microcap_reruns` | 1 run, 3 attempts, every kind of input, a legacy marker, fairness | every attempt concludes; an uncertain intent is never retried although the re-run hides its steps; the job implements `AtMostOnceSend` |
| `microcap_member` | member runs around midnight | **violated**: session and marker are read from the clock at two moments; over midnight the report of one day takes the marker of the next (finding) |
| `local_gate` | a gate or the IC/IM-only gate beside a daily run or an activation, two days, one edit | one suite at a time, green is tested, every launcher concludes |
| `local_day` | 1 launcher, 2 orchestrations, two days; cases of tests, resumptions, bindings, releases; 3 commits to prepare | one orchestration and one writer a day; receipts say what happened and signals rest on a standing gate; green results mean tests; production is what was tested |
| `starting_points` | 3 checkpoint runs over 3 sessions; the seed; 2 refreshes in 4 days; a week-end of crons; 2 days of v1.2; a search over 3 bundles | the chain is continued, restores are approved and newest, refreshes keep to their run, dispatches and local reports to their day, the earlier digest repeats and is silent only for the named causes |
| `reports` | 6 days of digests, 7 weeks of the monitor, 3 runs over one close's archives, 2 AI HOT runs, 1 MNT run, every case of the pure parts | tables are comparable, repeats and omissions are told, strategy mails are supported by their evidence, the other mails are current, recovery is proved |
| `etf_repeats` | one forum thread without a date | **violated**: the history keeps the first date, so what returns after the dedupe window is mailed every day (finding) |

A property of a run that hosts several parts is a conjunction, one conjunct per part or
promise, each with its own definition and comment. A mutation of the code is recorded
for each property; while the model was written each conjunct was broken by one of its own.

Three disagreements that are not runs of their own: the guard of the 20:00 schedule
compares `08` and `09` as octal numbers, so it lets those hours pass
(`HourBelowTwenty` models it, `ic-im-v1-4-daily-digest.yml:93`); the listing window of
`reconcile` is taken from `created_at`, so a run re-run more than two slots later is
outside the window of the day it sends on (`check_daily_digest_delivery.py:139`, the
assumption of the proof below); and a catch-up of Friday that is dispatched on Saturday
is skipped by the calendar job and ends green without a mail
(`microcap-realtime-digest.yml:144`).

Bounds. Two runs are enough for every interleaving a concurrency group allows (one
running, one pending, a newcomer replacing the pending one); a second attempt is a
second run that keeps its identity. Two days with a non-session second day contain the
case the second gate exists for (the Saturday run whose signal is Friday's); hour 23 and
hour 0 with `MaxRunHours = 2` contain the midnight between the gates. `Retention = 3` is
the smallest value the assumption allows with these days. `CHECK_DEADLOCK FALSE`: when
every run is concluded and the horizon is reached the system really stops.

`LedgerIsKept` is checked with single attempts: an operator who re-runs an old failed
run turns its *old* ledger artifact eligible again, and while any run is re-run its
artifacts are not eligible.

For the digests: horizon 6 to 8 slots from a start in slot 3..5 contains three report
days, the Beijing midnight inside a UTC day and a run that waits over it; retention of 3
slots in `digest_aihot` lets evidence expire between two runs of one day's report, 90
keeps it throughout. `RefusalIsAboutThisDay` excepts a send of a re-run: `reconcile`
refuses it before it compares days, on purpose (lines 155-159 of the script).

For Microcap: days 1 to 3 are sessions, day 4 is not; the hours of an instance are the
ones its question needs. `MarkerNamesItsReport` is checked without corrections: a
correction in the morning of a session writes that day's marker for a report about the
session before. `CloseReceiptSettles` excepts three receipts, each of which makes it
false when it is admitted: of a job that reached its limit after storing it, of a job that
waited in the queue past midnight (`queued < began`), and of a re-run, whose attempt hides
the one before it.

For the local machine: the windows are before and after 15:00 of day 1 and before it of
day 2, the moments at which authority, window and ledger can differ; one edit lies before
or after any reading. Test sets have up to three files of up to three tests with costs 1,
4 and 9, so that a file is above and below 0.55 of a fair share. Three commits contain a
promotion of the test source and a repin.

For the starting points: three sessions with a rebalance in the middle, three runs and a
re-run give a predecessor, a withdrawn one and a run between them; two changes while a
search goes on are one before and one after a page. Two refreshes contain the reuse of
tables of another day. A Friday to a Sunday has every kind of weekday of the crons, two
deployments lie on either side of any cron.

For the reports: the windows of the ETF digest (36 hours, 14, 365 and 400 days) are scaled to
1, 2, 3 and 4 days and its limits to 1 and 2, which keeps their order; six days are
longer than the dedupe window. Four AI HOT tries over three days contain the midnight and
the next issue between any two tries.

Fairness. `FairSpec` of the delivery modules assumes weak fairness of the steps of a
started job (the runner executes a job to its end) and of the group admitting its pending
run (GitHub starts a pending run when the group is free). `GateFairness` assumes that the
operating system keeps scheduling a live launcher; a test process may hang for ever and
an operator may never clear a lock. Nothing is assumed of operators, crashes,
cancellations or the clock.

## 4. Proofs

Each theorem holds for every value of the constants its module declares, under the named
assumptions of that module, which TLC evaluates on the instances. The pattern is the same
throughout: an inductive invariant, one lemma per action (steps that only move a job share
a lemma on the fields the invariant reads), and the temporal theorem from the three facts.
An action property is proved as `IInv /\ [Next]_vars => A`, a refinement as "the abstract
initial state, and every step is a step of the abstract sender or a stutter".

| module | proved |
|---|---|
| `IcimDeliveryProofs` | `TypeOK`, `AtMostOneNormalMail`, `MarkerMeansAccepted`, `UncertainNeverRetried`, `GreenMeansDelivered`, `KeepsPromise`; `LedgerIsKept` when no run is re-run; `LedgerOnlyIsSilent` (a ledger-only repair leaves no intent, marker or mail; no property of a run) |
| `DailyDigestProofs` | `TypeOK`, `OneSmtpContactPerDay`, `GreenIsKept`, `KeepsPromise`; `RefusalIsAboutThisDay` when evidence lasts |
| `MicrocapDeliveryProofs` | `TypeOK`, `AtMostOneAutomaticMail`, `CloseReceiptSettles`, `UncertainNeverRetried`, `GreenMeansDelivered`, `KeepsPromise`; `MarkerMeansAccepted` (no property of a run) |
| `LocalGateProofs` | `GateTypeOK`, `OneSuiteAtATime`, `GreenIsTested` |
| `LocalIntradayProofs` | `OneDayOneWriter`, `ReportedIsConfirmed` |
| `LocalDayProofs` | `TestsCount`, `ProductionIsWhatWasTested`, and both of the line above for the specification of the run; of every tree, evidence and set of tests: `EveryTestOnceAndFair`, `GreenMeansAllRan`, `ReuseIsFromToday`, `RemoteRunsWhatWasTested`, `ProductionRunsWhatWasTested`; of the preparation alone: `SealedIsOfOneCommit` |
| `StartingPointsProofs` | `ChainIsContinued`, `RestoresAreSound`, `RefreshesAreSound`, `StartsAreOfTheirDay`, `EarlierDigestIsExplained` |
| `ReportsProofs` | `RepeatsAreExplained`, `OmissionsAreTold`, `IcimMailsAreSupported`, `MicrocapMailsAreSupported`, `OtherMailsAreCurrent`, `RecoveryIsProved`, `MarketTablesAreSound`; `CalendarSane` of every year from 2000, `LatestSessionIsTheNewestClosed` of every moment since, `RankingIsFair` of every list of ETFs |

**IC/IM.** The assumptions: a completed session lies at most `MaxGap` days back, and evidence
is retained longer than `MaxGap + 1` days. `AtMostOneNormalMail` is not inductive. What makes
it so is `IInv`: one running job at a time; every automatic mail has an intent of its key; an
intent is never older than the day it is about; and for the running job (`JobSafe`) what its
earlier steps established. The centre is `IntentsAreLive`: the day a job targets
is at most `MaxGap` days before the day it read, and the job cannot outlive the
next day, so an intent of its key cannot have expired when the second gate looks
for it; hence after the gate said "send" there is *no* intent of the key, and
since only the running job writes intents and mails, none appears before it
sends. `GreenMeansDelivered` and `KeepsPromise` need `PathInv` besides: what a healthy job
has achieved once it is past a step (`Reached`), and that intents are of reports that may be
promised. `LedgerIsKept` rests on `LedgerInv`: the chain in the running job extends the newest
restorable one, and a run has one ledger, which is the job's chain. It is false with re-runs
(section 3), so the theorem has `MaxAttempts <= 1` as its hypothesis, which is what the run
that checks it has.

**Daily digests.** Everything is under `RerunHorizon + MaxLag <= 2`:
an attempt sends at most two slots after its run was created. That is the
condition a later re-run violates (section 3), and the proof shows it is the only one: a send
about day *d* happens when the Beijing day is at least *d* (`Build`), its run was
created at most two slots earlier, hence not before UTC day *d* - 1, hence it is
in `Window(d)`. A listed run whose send is about *d* is never overlooked: either
its evidence says *d*, or it left none, or attempts are mixed, and each of these
keeps `Sendable(d)` false (lemma `SendableMeansUntried`). So when the gate says
"send" nothing was tried for the day, and since only the running job adds tries
(`JobSafe`) nothing is tried until it sends. `GreenIsKept` and the refinement add `KeptInv`: a
receipt and a successful step are backed by an acceptance, every started send has the intent
of its attempt, and the articles of a green attempt are in the history.
`RefusalIsAboutThisDay` needs evidence to outlive the question (`EvidenceLasts`: for the ETF
digest a retention of more than the lag and four slots). With less, an expired intent makes a
run look as if its day were unknown, and the gate refuses another day for it.

**Microcap.** `IInv` of both workflows in their shared group: one running job; the records
(a mail has an intent of its kind, no automatic mail twice, receipts and markers only of what
was mailed); the first receipt of a scheduled close is inside the interval the gate admits; and
of the running job what has not happened yet (`Ordered`), what a healthy job has done (`Done`),
under which identity it mails (`Identified`), what the evidence says of its key (`Evident`) and
where the clock can be (`Timed`). Unlike IC/IM no artifact expires within the model, so after
the gate said "send" there is no intent of the key whatever the calendar is. The calendar need
only have a completed session for every instant, and a job a limit of at most 24 hours.

**Local machine.** `GateInv`: a launcher with a test process of a coordinated mode owns the
lock, also when the process could not be confirmed dead (`ChildKnown`, `OwnsLock`); its clock
was read earlier (`Started`); `gate.json` says what its launcher knows (`GateHonest`).
`ClockAssumption`: instants do not go back in days, nor from after the close to before it.
`LocalInv` adds for each orchestration that it owns the claim of its day while it has threads,
that the IC/IM thread's ledger version is the one its child read (the ledger only grows, so an
unchanged digest means an unchanged ledger), and that the Microcap thread owns the writer lock
from its first version to its report.

**The gate's answers.** `DayInv` of `MCLocal` joins three invariants of parts that share no
variable: `LocalInv`; `PrepareInv`, that what a running preparation has passed, and what a
receipt names, is installed (`Installed`, one line per part); and `CaseSound`, that every
case the gate is asked about is well formed: finite trees with known texts (`ReadableTree`),
finite evidence (`Evidence`), finitely many tests with costs (`Dealable`). The theorems about
the pure parts are stated for everything that is well formed in this sense; the run asks
them of the cases of its instance. Two recursive functions are proved about. `Reach` and
`Dealt` are rounds up to a cardinality: that the function exists is an induction over the
bound (`ReachRounds`, `DealtRounds`), carried by `Induction`, a least counterexample from
the well-foundedness of the numbers. Reach is closed after as many rounds as there are names, because a
round that adds nothing is the last one and any other adds a name (`ReachFacts`), and no
smaller set is closed, so bound files that agree make the closures of two trees agree
(`SameClosure`). The dealing keeps that no process is ahead of another by more than one of
its own jobs (`DealKeeps`), and the sums the refusal compares are those of disjoint parts
(`SizesSum`). The attempt showed one thing that only the bounds of the instance had
hidden: see `ReportedRan` in section 2.

**Checkpoints.** `ChainInv`: published artifacts are of a session and no worse than an undated
one, and a job's base is never older than what it could read; with the order of `Rank` this
gives `NoSessionIsLost` and `HandoffIsKept`, re-runs included. `NoConflict` is a promise without
re-runs only: `Agreed` says that then there is one state of a session and phase, and that what
holds the next membership at the close of a rebalance day is a handed-off state or a copy.

**Starting points.** `StateInv` is the conjunction of the invariants of the parts, which share
no variable (`PartsOfAStep`). The seed: a command that succeeded left the approved bytes under
the pinned runtime (`BundleSafe`). The refresh: complete evidence is of one run and
numbered in order, tables are as old as the midnights crossed allow (`Proven`). The trigger: a
call has runs beyond its first only for lost answers, and one route closes a day. The earlier
digest: a day that was mailed twice is accounted for by a marker or a cause. The search: ids
on the shelf are unique and given out in order, and a bundle that has been usable throughout is
on a page still to be read, in the queue, or found, unless a deletion moved it (`NothingPassed`).

**Reports.** `ReportsInv` joins the invariants of the parts, which share no variable, and
`CaseKnown`, that a case is one the instance enumerates. The promises about cases are lemmas
for *every* evidence, payload, row set or chart of a stated shape (`...Contract`); the last
step only shows that the cases have that shape.

* *Repetitions* (`RepeatsInv`): as long as the history reaches back to a pushed mail it knows
  each of its articles by the day of the mail, unless that mail repeated one itself
  (`Remembered`, `HasCause`). So what a digest shows although it was mailed within the window
  was in a mail that was never pushed, or had been forgotten for the named cause. Assumed is
  the order of the windows (`EtfWindows`).
* *Omissions* (`LastBuild`: what the last build took, showed and passed): the builder and the
  audit compute their windows in different ways and agree; a newest capture exists because
  worlds are finite (`ArticlesOfKinds`); a refusal for too many entries is a fact about
  cardinalities of disjoint parts.
* *Recovery* (`RecoveryInv`): a green check that used the archive of another run has proved
  that pair (`TaskSound`), an archive bears the name of its content (`UploadSound`), and what the
  verifier holds is of two green runs and an upload of each while archives come and go
  (`CollectedSound`). That receipts rest on standing runs is an action property.
* *The monitor* (`EquityInv`): one job, every cache key used by one attempt (`RunsApart`,
  `KeysKnown`); the snapshots are of mails, oldest first, and the report of every mail is in the
  cache, lost, or about to be saved (`MailsKept`); so what a job has restored is the newest
  mailed report still kept (`NewestKept`), through re-runs, lost saves and evictions. The rows of a
  calendar without a gap are consecutive months (`RowsOfAnInterval`), hence a scored window is
  whole (`ScoredIsWhole`).
* *Strategy mails*: the fear reading, the identity, the Put legs, sums, costs, subjects, notices
  and the handoff of IC/IM; quiet mails, actions, catch-ups, member and local reports of
  Microcap. A maintenance notice needs an open day in any twenty of the month, a handoff a
  ledger whose digests name one record each; both are shown of the cases.
* *Market tables*: `SessionAtOrBefore` is a recursion over the days without a lower bound. That
  it is defined is shown by giving a solution (`SessionsDefined`), and wherever a session lies
  behind a day, any solution is the newest one (`SessionFound`). That one does, five days back
  at most, is `SessionsRecur`, a fact about the calendar and no assumption. From it follow the
  newest closed session, at every moment from 2000 on, and tables of one close. A ranking leaves
  out a family only when `limit` others are ahead of it (a family with the fewest ahead exists,
  `LeastOf`); a universe is counted page by page, for every page size and limit.
* *The calendar*, for every year from 2000. `YearOf` is a choice among the years a day may lie in;
  years have their length (`YearLength`), do not overlap and lie where it looks, so it inverts the
  first of January (`YearFound`). Easter: a year is split into its cycles of 400, 100, 4 years and
  single ones, the two corrections of the lunar cycle agree (`LunarCorrection`), and by
  congruences modulo 30 and 7 so do the two computations, which land on a Sunday in the five weeks
  from 22 March (`EasterAgrees`). The eleven dates considered for a year then lie in disjoint
  intervals at least two days apart (`FeastDates`, `FeastsApart`): nine are always in the year,
  the first and the last only when New Year's Day is observed in it. Two weekdays in a row are
  therefore never both holidays, across New Year because 31 December is one only before a
  Saturday (`OneOfTwoTrades`), and any five days hold two weekdays in a row.

Only model-checked: liveness (`EveryRunConcludes` of IC/IM and of Microcap,
`EveryLauncherConcludes`), which is out of the prover's reach. Every invariant and every other
action property that a passing run checks is a theorem; those that need a hypothesis say so in
the table.

## 5. The hypotheses of the theorems

What the theorems assume beyond types, and why it cannot be dropped. `LedgerKept` has no re-runs
and the theorems of the digests have `RerunHorizon + MaxLag <= 2`: the runs of section 3 show what
happens without. A completed session at most `MaxGap` days back, evidence that is kept longer than
the gap, and instants that do not go back are facts about the exchange, the artifact service and the
clock, which the code takes for granted. Readings, charts and rows have the shape their validators
accept, and lists of articles, ETFs, rows and tests are finite.

## 6. Not modelled

* Layout, wording, translation, scoring and the numeric rules of the strategies: pure
  computation or formatting of one run. The table of trading hours of
  `resolve_cn_publication_mode.py` is an input of the delivery modules.
* Data sources, the strategy repositories and the exchange calendar: external; modelled
  from how the code uses them and marked so in `PROJECT.json`.
* Restoring a reviewed saved report for a send-only recovery of the member job, and the
  sending job chosen by `recovery_check`: they compare hashes of one archive.
* The life, fat-fire and travel digests, the v1.3 gate, marker and builder: no workflow
  starts them. Probes and diagnostics only read.
* Acceptance snapshots under `docs/acceptance/` other than the newest coordinator and the
  group worker: earlier copies of the same programs; test fixtures.
