------------------------------ MODULE LocalIntraday ------------------------------
(* The intraday orchestration that uses a gate: it claims the day, runs the       *)
(* strategies as child processes from one thread each, and announces their        *)
(* reports.  A run is bound to one gate.json and to the installed scripts, and    *)
(* asks for its authority again before every step that produces signals.          *)
(*   scripts/run_local_intraday.py, scripts/run_icim_local_independent.py         *)
EXTENDS LocalGate

CONSTANTS
  Runs,        \* orchestration processes
  Kinds,       \* the kinds that are started: a subset of AllKinds
  Versions,    \* number of live Microcap versions (3 in the code)
  MaxTouches   \* bound: writes to the canonical ledger while the model runs

AllKinds == {"both", "icim", "microcap", "independent"}   \* --strategy, or IndependentRun
Threads == {"icim", "micro"}
Other == "other"   \* external: another Microcap delivery process of the machine

ASSUME IntradayAssumption ==
  /\ Kinds \subseteq AllKinds
  /\ Versions \in Nat \ {0} /\ MaxTouches \in Nat
  /\ NoOne \notin Runs /\ Other \notin Runs /\ Other # NoOne

VARIABLES
  run,         \* [Runs -> what the main thread of the process knows]
  thread,      \* [Runs -> [Threads -> where the strategy is]]
  claim,       \* runtime/local_intraday_claims/<day>.json
  ready,       \* [Runs -> [Threads -> <strategy>_ready.json]]
  ledger,      \* version of runtime/ic_im_v1_4_r1: the ledger only grows
  writer       \* outputs/top100_delivery.lock: its owner

runVars == <<run, thread, claim, ready, ledger, writer>>
vars == <<gateVars, runVars>>

\* The commands of the two strategies, in order.
MicroPlan ==
  <<"intraday", "owner">> \o [i \in 1 .. Versions |-> "version"] \o <<"render", "shutdown">>
Plan == [icim |-> <<"dry_run", "realtime", "render">>, micro |-> MicroPlan]
Days == {Instants[t][1] : t \in DOMAIN Instants}
Selected(k) == CASE k = "both" -> Threads [] k = "microcap" -> {"micro"} [] OTHER -> {"icim"}

Free == <<"free", NoOne>>
IdleRun == [pc |-> "idle", kind |-> "both", by |-> NoOne, gate |-> NoGate, bundle |-> FALSE]
IdleThread == [step |-> 0, at |-> "idle", digest |-> 0, read |-> 0, partial |-> FALSE]

RunState == [pc : {"idle", "claim", "threads", "ended", "crashed"}, kind : AllKinds,
             by : Launchers \cup {NoOne}, gate : {NoGate} \cup GateFile, bundle : BOOLEAN]
ThreadState == [step : 0 .. Len(MicroPlan), digest : 0 .. MaxTouches,
                at : {"idle", "next", "running", "read", "lost", "done", "failed"},
                read : 0 .. MaxTouches, partial : BOOLEAN]

LocalTypeOK ==
  /\ GateTypeOK
  /\ run \in [Runs -> RunState]
  /\ thread \in [Runs -> [Threads -> ThreadState]]
  /\ claim \in [Days -> {Free} \cup ({"running", "ok", "failed"} \X Runs)]
  /\ ready \in [Runs -> [Threads -> {"none", "ready", "partial"}]]
  /\ ledger \in 0 .. MaxTouches
  /\ writer \in Runs \cup {NoOne, Other}

Init ==
  /\ GateInit
  /\ run = [r \in Runs |-> IdleRun]
  /\ thread = [r \in Runs |-> [t \in Threads |-> IdleThread]]
  /\ claim = [d \in Days |-> Free]
  /\ ready = [r \in Runs |-> [t \in Threads |-> "none"]]
  /\ ledger = 0
  /\ writer = NoOne

InWindow(d) == Day(now) = d /\ Phase(now) = "window"

-------------------------------------------------------------------------------
(* Authority.                                                                   *)

\* External: authorize_intraday of microcap_readiness.py, which is not part of the
\* repository, accepts the released gate of the launcher whose files it finds.
NativeAuthority(g) == g.release /\ g.pass /\ g.mode = "daily" /\ g.seen["deps"] = changed["deps"]

\* IndependentRun.authorize: the gate of the IC/IM-only schema, both groups green,
\* started in the window, and no bound byte, evidence or pin differs from it.
IndependentAuthority(g) ==
  /\ g.mode = "independent" /\ g.pass /\ g.release
  /\ g.phase # "early"
  /\ changed["deps"] = g.seen["deps"] /\ changed["bundle"] = g.seen["bundle"]
  /\ ~changed["tree"] /\ ~changed["source"]

Authority(k, g) ==
  IF k = "independent" THEN IndependentAuthority(g) ELSE NativeAuthority(g)

\* authorize(): the window, the installation and gate.json as they were.
AuthorizedByClock(r) == InWindow(run[r].gate.day)   \* mutant: trusts the first check
Authorized(r) ==
  /\ InWindow(run[r].gate.day)
  /\ gate[run[r].by] = run[r].gate
  /\ run[r].kind # "independent" => changed["bundle"] = run[r].bundle
  /\ Authority(run[r].kind, run[r].gate)

-------------------------------------------------------------------------------
(* The main thread.                                                             *)

Bind(r, k, l) ==
  /\ run[r].pc = "idle"
  /\ run' = [run EXCEPT ![r] = [pc |-> "claim", kind |-> k, by |-> l, gate |-> gate[l],
                                bundle |-> changed["bundle"]]]
  /\ UNCHANGED <<gateVars, thread, claim, ready, ledger, writer>>

\* Run.__init__ up to the claim.  A maintenance gate carries no calendar and cannot be
\* bound; verify_installation refuses scripts that differ from the deployed ones.
Begin(r, k, l) ==
  /\ k # "independent" /\ gate[l].written /\ gate[l].mode # "gate"
  /\ InWindow(gate[l].day) /\ NativeAuthority(gate[l]) /\ ~changed["bundle"]
  /\ Bind(r, k, l)

\* IndependentRun.__init__ and its first authorize.
BeginIndependent(r, l) ==
  /\ "independent" \in Kinds /\ gate[l].written
  /\ InWindow(gate[l].day) /\ IndependentAuthority(gate[l])
  /\ Bind(r, "independent", l)

ClaimAnyway(r) ==   \* mutant: the file is opened for writing, not for creation
  /\ run[r].pc = "claim"
  /\ claim' = [claim EXCEPT ![run[r].gate.day] = <<"running", r>>]
  /\ run' = [run EXCEPT ![r].pc = "threads"]
  /\ thread' = [thread EXCEPT ![r] = [t \in Threads |->
       [IdleThread EXCEPT !.at = IF t \in Selected(run[r].kind) THEN "next" ELSE "done"]]]
  /\ UNCHANGED <<gateVars, ready, ledger, writer>>

\* claim_day: exclusive creation of the day's file, by both kinds of run.
ClaimDay(r) ==
  /\ run[r].pc = "claim"
  /\ IF claim[run[r].gate.day] = Free
     THEN /\ claim' = [claim EXCEPT ![run[r].gate.day] = <<"running", r>>]
          /\ run' = [run EXCEPT ![r].pc = "threads"]
          /\ thread' = [thread EXCEPT ![r] = [t \in Threads |->
               [IdleThread EXCEPT !.at = IF t \in Selected(run[r].kind) THEN "next" ELSE "done"]]]
     ELSE run' = [run EXCEPT ![r].pc = "ended"] /\ UNCHANGED <<claim, thread>>
  /\ UNCHANGED <<gateVars, ready, ledger, writer>>

Succeeded(r, t) == thread[r][t].at = "done"

\* execute(): both futures are done; the receipt replaces the claim.
Finish(r) ==
  /\ run[r].pc = "threads"
  /\ \A t \in Threads : thread[r][t].at \in {"done", "failed"}
  /\ claim' = [claim EXCEPT ![run[r].gate.day] =
       <<IF \A t \in Selected(run[r].kind) : Succeeded(r, t) THEN "ok" ELSE "failed", r>>]
  /\ run' = [run EXCEPT ![r].pc = "ended"]
  /\ UNCHANGED <<gateVars, thread, ready, ledger, writer>>

\* The process dies.  Its children live on, the claim and the lock file stay.
CrashRun(r) ==
  /\ run[r].pc \in {"claim", "threads"}
  /\ run' = [run EXCEPT ![r].pc = "crashed"]
  /\ thread' = [thread EXCEPT ![r] = [t \in Threads |->
       IF @[t].at \in {"running", "read"} THEN [@[t] EXCEPT !.at = "lost"] ELSE @[t]]]
  /\ UNCHANGED <<gateVars, claim, ready, ledger, writer>>

-------------------------------------------------------------------------------
(* The strategy threads.                                                        *)

\* The command that runs, or ran last.
Running(r, t) == Plan[t][thread[r][t].step]
Upcoming(r, t) == Plan[t][thread[r][t].step + 1]
Set(r, t, new) == thread' = [thread EXCEPT ![r][t] = new]
Unlock(r, t) == writer' = IF t = "micro" /\ writer = r THEN NoOne ELSE writer

\* What must hold when a command starts: the authority again before the commands
\* that produce signals, the clock for the others; nothing for the cleanup and for
\* the rendering of an IC/IM report whose inputs are complete.
MayStart(r, t) ==
  LET c == Upcoming(r, t) IN
  CASE c \in {"dry_run", "realtime", "intraday", "version"} -> Authorized(r)
    [] c = "shutdown" \/ (c = "render" /\ t = "icim") -> TRUE
    [] OTHER -> InWindow(run[r].gate.day)

\* run_icim: the ledger before the signals is the one the official dry run checked.
LedgerAsChecked(r) == thread[r]["icim"].digest = ledger

\* microcap_writer_lock is created before the first version and never waited for.
StartCommand(r, t) ==
  LET me == thread[r][t]
      first == Upcoming(r, t) = "version" /\ writer # r
      ok == /\ MayStart(r, t)
            /\ Upcoming(r, t) = "realtime" => LedgerAsChecked(r)
            /\ first => writer = NoOne
  IN
  /\ run[r].pc = "threads" /\ me.at = "next" /\ me.step < Len(Plan[t])
  /\ IF ok
     THEN /\ Set(r, t, [me EXCEPT !.step = @ + 1, !.at = "running"])
          /\ writer' = IF first THEN r ELSE writer
     ELSE Set(r, t, [me EXCEPT !.at = "failed"]) /\ Unlock(r, t)
  /\ UNCHANGED <<gateVars, run, claim, ready, ledger>>

\* External: the child reads the canonical ledger at some moment of its life.
ReadLedger(r) ==
  LET me == thread[r]["icim"]
      c == Running(r, "icim")
  IN
  /\ me.at = "running" /\ c \in {"dry_run", "realtime"}
  /\ Set(r, "icim", [me EXCEPT !.at = "read",
                              !.digest = IF c = "dry_run" THEN ledger ELSE me.digest,
                              !.read = IF c = "realtime" THEN ledger ELSE me.read])
  /\ UNCHANGED <<gateVars, run, claim, ready, ledger, writer>>

Waiting(r, t) ==
  IF t = "icim" /\ Running(r, t) # "render" THEN thread[r][t].at = "read"
  ELSE thread[r][t].at = "running"

\* What the thread checks when a child has ended with code 0, and the report that
\* is announced after the last command: Microcap reads the clock once more.
Confirmed(r, t) ==
  /\ t = "icim" /\ Running(r, t) = "realtime" => LedgerAsChecked(r)
  /\ t = "micro" /\ Running(r, t) = "render" => InWindow(run[r].gate.day)

\* The with block of the lock ends after the report, or with an exception.
LeavesLock(r, t) == Running(r, t) = "render" \/ ~Confirmed(r, t)

\* A child ends with code 0.
Done(r, t) ==
  LET me == thread[r][t]
      last == me.step = Len(Plan[t])
  IN
  /\ run[r].pc = "threads" /\ me.step > 0 /\ Waiting(r, t)
  /\ IF Confirmed(r, t)
     THEN /\ Set(r, t, [me EXCEPT !.at = IF last /\ ~me.partial THEN "done" ELSE "next"])
          /\ ready' = IF Running(r, t) = "render" THEN [ready EXCEPT ![r][t] = "ready"] ELSE ready
     ELSE Set(r, t, [me EXCEPT !.at = "failed"]) /\ UNCHANGED ready
  /\ IF LeavesLock(r, t) THEN Unlock(r, t) ELSE UNCHANGED writer
  /\ UNCHANGED <<gateVars, run, claim, ledger>>

\* A child ends with another code: no retry.  A failed cleanup is only noted.  The
\* IC/IM-only run goes on when the realtime runner left a result or a diagnostic,
\* and replaces a renderer that fails by a diagnostic report.
Fails(r, t) ==
  LET me == thread[r][t]
      c == Running(r, t)
      stop == [me EXCEPT !.at = "failed"]
  IN
  /\ run[r].pc = "threads" /\ me.step > 0 /\ Waiting(r, t)
  /\ IF c = "shutdown" THEN Set(r, t, [me EXCEPT !.at = "done"]) /\ UNCHANGED ready
     ELSE IF me.partial /\ c = "render"
     THEN /\ Set(r, t, [me EXCEPT !.at = "done"])
          /\ ready' = [ready EXCEPT ![r][t] = "partial"]
     ELSE /\ \/ Set(r, t, stop)
             \/ /\ run[r].kind = "independent" /\ c = "realtime" /\ LedgerAsChecked(r)
                /\ Set(r, t, [me EXCEPT !.at = "next", !.partial = TRUE])
          /\ UNCHANGED ready
  /\ Unlock(r, t)
  /\ UNCHANGED <<gateVars, run, claim, ledger>>

\* The announced report of a partial run is announced again, as partial.
MarkPartial(r) ==
  LET me == thread[r]["icim"] IN
  /\ run[r].pc = "threads" /\ me.at = "next" /\ me.step = Len(Plan["icim"])
  /\ ready' = [ready EXCEPT ![r]["icim"] = "partial"]
  /\ Set(r, "icim", [me EXCEPT !.at = "done"])
  /\ UNCHANGED <<gateVars, run, claim, ledger, writer>>

-------------------------------------------------------------------------------
(* External: other processes of the machine.                                    *)

\* The canonical ledger gets another record, from the official adoption or from a
\* realtime runner that writes although it must not.
TouchLedger ==
  /\ ledger < MaxTouches
  /\ ledger' = ledger + 1
  /\ UNCHANGED <<gateVars, run, thread, claim, ready, writer>>

OtherDelivery ==
  /\ \/ writer = NoOne /\ writer' = Other
     \/ writer = Other /\ writer' = NoOne
  /\ UNCHANGED <<gateVars, run, thread, claim, ready, ledger>>

OrphanEnds(r, t) ==
  /\ thread[r][t].at = "lost"
  /\ Set(r, t, [thread[r][t] EXCEPT !.at = "failed"])
  /\ UNCHANGED <<gateVars, run, claim, ready, ledger, writer>>

RunNext(r) ==
  \/ \E k \in Kinds, l \in Launchers : Begin(r, k, l)
  \/ \E l \in Launchers : BeginIndependent(r, l)
  \/ ClaimDay(r) \/ Finish(r) \/ CrashRun(r) \/ MarkPartial(r) \/ ReadLedger(r)
  \/ \E t \in Threads : StartCommand(r, t) \/ Done(r, t) \/ Fails(r, t) \/ OrphanEnds(r, t)

\* To a run, a launcher that crashes, hangs or is interrupted looks like one that
\* stands still or has failed, so those steps are left to the runs of LocalGate.
GateProgress ==
  \/ Tick
  \/ \E f \in Editable : Edit(f)
  \/ \E l \in Launchers :
       \/ \E m \in Modes[l] : Start(l, m)
       \/ TakeLock(l) \/ HashInputs(l) \/ Authenticate(l) \/ VerifyIcim(l) \/ StartGroup(l) \/ ChildEnds(l)
       \/ EndTests(l) \/ WriteGate(l) \/ WriteIndependent(l) \/ Release(l) \/ Exit(l)

Next ==
  \/ GateProgress /\ UNCHANGED runVars
  \/ \E r \in Runs : RunNext(r)
  \/ TouchLedger \/ OtherDelivery

Spec == Init /\ [][Next]_vars

-------------------------------------------------------------------------------
\* A day has one orchestration, of whatever kind, for ever: also after a crash
\* (claim_day; "a durable per-day claim prevents unknown or successful runs being
\* repeated").
Orchestrates(r) == \E t \in Threads : thread[r][t].at # "idle"
OneOrchestrationPerDay ==
  \A r, s \in Runs :
    r # s /\ Orchestrates(r) /\ Orchestrates(s) => run[r].gate.day # run[s].gate.day

\* Two Microcap children that write the live outputs never run at the same time, not
\* even when one is the orphan of an orchestration of the day before
\* (microcap_writer_lock leaves the file of a dead owner alone).
Writing(r) ==
  /\ thread[r]["micro"].at \in {"running", "lost"} /\ thread[r]["micro"].step > 0
  /\ Running(r, "micro") \in {"version", "render"}
OneMicrocapWriter ==
  \A r \in Runs : Writing(r) => writer # Other /\ \A s \in Runs \ {r} : ~Writing(s)

\* An IC/IM report that is announced was computed from the ledger the official dry
\* run checked, although the ledger is read by two children and compared between
\* them by the orchestration (run_icim).
ReportedLedgerWasChecked ==
  \A r \in Runs : ready[r]["icim"] # "none" => thread[r]["icim"].read = thread[r]["icim"].digest

\* The terminal receipt says what was announced: a run that ends with code 0 has a
\* report of every selected strategy, and a partial IC/IM run is marked so.
ReceiptIsTrue ==
  \A d \in Days, r \in Runs : claim[d] = <<"ok", r>> =>
    \A t \in Selected(run[r].kind) :
      ready[r][t] = IF thread[r][t].partial THEN "partial" ELSE "ready"

\* Signals are produced inside the window of a day whose gate was green for the
\* launcher files of this very moment, and for the IC/IM-only run for every bound
\* file (authorize before each producing command).
Producing(r, t) == thread'[r][t].at = "running" /\ thread[r][t].at # "running"
                   /\ Plan[t][thread'[r][t].step] \in {"realtime", "version"}
SignalsRestOnTheGate ==
  [][\A r \in Runs, t \in Threads : Producing(r, t) =>
       /\ Phase(now) = "window"
       /\ \E l \in Launchers : /\ gate[l].written /\ gate[l].release /\ gate[l].day = Day(now)
                               /\ gate[l].seen["deps"] = changed["deps"]
       /\ run[r].kind = "independent" => changed = [AsReviewed EXCEPT
             !["deps"] = run[r].gate.seen["deps"], !["bundle"] = run[r].gate.seen["bundle"]]]_vars

\* One day is orchestrated once and one process at a time writes the Microcap state, whoever
\* claims the day, over a dead owner's claim or not (claim, acquire in run_local_intraday.py).
OneDayOneWriter == LocalTypeOK /\ OneOrchestrationPerDay /\ OneMicrocapWriter

\* What a receipt or a report says happened: the ledger was compared, the strategies succeeded,
\* and every signal was produced under a standing gate, inside the window (authorize).
ReportedIsConfirmed == [](ReportedLedgerWasChecked /\ ReceiptIsTrue) /\ SignalsRestOnTheGate
=================================================================================
