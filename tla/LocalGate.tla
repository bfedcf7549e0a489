------------------------------- MODULE LocalGate -------------------------------
(* The daily software gate of the local machine: launcher processes that take   *)
(* one coordinator lock, run the test groups of a frozen snapshot as child      *)
(* processes with hard timeouts, and write gate.json; the activation that       *)
(* certifies a snapshot for the daily mode; and the IC/IM-only gate, which runs *)
(* two groups of the same snapshot without the lock.                            *)
(*   docs/acceptance/local_gate_20261106/flow15/realtime_daily_gate.py          *)
(*   scripts/run_icim_local_independent.py (gate)                               *)
EXTENDS Naturals, Sequences, FiniteSets

CONSTANTS
  Launchers,   \* operating-system processes started with one mode each
  Modes,       \* the modes each launcher may be started in: subsets of AllModes
  Groups,      \* number of test groups of a gate, per mode
  Instants,    \* the clock: <<session day, phase of the day>> at each instant
  Editable,    \* bound: the files somebody may edit while the model runs
  MaxEdits,    \* bound: how often somebody edits files while the model runs
  NoOne        \* no owner of the lock

AllModes == {"daily", "gate", "activate", "independent"}
Phases == {"early", "window", "late"}   \* < 14:15, 14:15 <= t < 15:00, >= 15:00
Files == {"deps", "tree", "source", "bundle"}
  \* launcher, workers, config, guard | prepared snapshot | production sources and
  \* remote pins | installed intraday scripts.  FALSE: as reviewed, TRUE: changed.

ASSUME GateAssumption ==
  /\ Modes \in [Launchers -> SUBSET AllModes]
  /\ Groups \in [AllModes -> Nat \ {0}]
  /\ Instants \in Seq(Nat \X Phases) /\ Instants # <<>>
  /\ Editable \subseteq Files /\ MaxEdits \in Nat
  /\ NoOne \notin Launchers

VARIABLES
  now,      \* index into Instants
  changed,  \* changed[f]: the bytes of f differ from the reviewed ones
  edits,    \* edits made so far
  active,   \* scripts/realtime_daily_active.json: NoCertificate or the certified deps
  lock,     \* runtime/local_daily_gate.lock: the process that created it
  proc,     \* what each launcher process is doing
  child,    \* its test process: "none", "running" or "lost" (alive, nobody waits)
  gate      \* gate.json in the output directory of each launcher

gateVars == <<now, changed, edits, active, lock, proc, child, gate>>

NoGate == [written |-> FALSE]
Day(t) == Instants[t][1]
Phase(t) == Instants[t][2]
Coordinated == {"daily", "gate", "activate"}   \* modes that take the coordinator lock

\* Instants are in the order of the clock.
ASSUME ClockAssumption ==
  \A s, t \in DOMAIN Instants : s < t =>
    /\ Day(s) <= Day(t)
    /\ Day(s) = Day(t) /\ Phase(s) = "late" => Phase(t) = "late"

AsReviewed == [f \in Files |-> FALSE]
Idle == [pc |-> "idle", mode |-> "gate", day |-> 0, phase |-> "early", seen |-> AsReviewed,
         group |-> 0, passed |-> TRUE, unconfirmed |-> FALSE]
PCs == {"idle", "start", "hash", "verify", "tests", "verdict", "release", "exit", "ended", "crashed"}

Process == [pc : PCs, mode : AllModes, day : Nat, phase : Phases, seen : [Files -> BOOLEAN],
            group : Nat, passed : BOOLEAN, unconfirmed : BOOLEAN]
GateFile == [written : {TRUE}, mode : AllModes, pass : BOOLEAN, release : BOOLEAN,
             day : Nat, phase : Phases, seen : [Files -> BOOLEAN]]

GateTypeOK ==
  /\ now \in DOMAIN Instants
  /\ changed \in [Files -> BOOLEAN]
  /\ edits \in 0 .. MaxEdits
  /\ active \in {"none", "reviewed", "edited"}
  /\ lock \in Launchers \cup {NoOne}
  /\ child \in [Launchers -> {"none", "running", "lost"}]
  /\ proc \in [Launchers -> Process]
  /\ gate \in [Launchers -> {NoGate} \cup GateFile]

GateInit ==
  /\ now = 1
  /\ changed = AsReviewed
  /\ edits = 0
  /\ active \in {"none", "reviewed"}
  /\ lock = NoOne
  /\ proc = [l \in Launchers |-> Idle]
  /\ child = [l \in Launchers |-> "none"]
  /\ gate = [l \in Launchers |-> NoGate]

At(l, pc) == proc[l].pc = pc
Goto(l, pc) == proc' = [proc EXCEPT ![l].pc = pc]
Certificate(deps) == IF deps THEN "edited" ELSE "reviewed"

-------------------------------------------------------------------------------
(* The environment: time passes, somebody edits or restores files.              *)

Tick ==
  /\ now + 1 \in DOMAIN Instants
  /\ now' = now + 1
  /\ UNCHANGED <<changed, edits, active, lock, proc, child, gate>>

Edit(f) ==
  /\ edits < MaxEdits
  /\ edits' = edits + 1
  /\ changed' = [changed EXCEPT ![f] = ~@]
  /\ UNCHANGED <<now, active, lock, proc, child, gate>>

-------------------------------------------------------------------------------
(* One launcher process.                                                        *)

\* main() up to the lock.  The daily mode reads the calendar and compares the
\* active certificate with the files here, BEFORE it owns the lock.
Start(l, m) ==
  /\ At(l, "idle")
  /\ m = "daily" => /\ Phase(now) # "late"
                    /\ active = Certificate(changed["deps"])
  /\ proc' = [proc EXCEPT ![l] = [Idle EXCEPT !.pc = "start", !.mode = m, !.day = Day(now),
                                              !.phase = Phase(now)]]
  /\ UNCHANGED <<now, changed, edits, active, lock, child, gate>>

\* Slips: a launcher that waits for the lock, a lock that is always removed, a release
\* that trusts the clock of the start.
TakeLockWaits(l) ==
  /\ At(l, "start") /\ lock = NoOne /\ lock' = l
  /\ Goto(l, IF proc[l].mode = "activate" THEN "verdict" ELSE "hash")
  /\ UNCHANGED <<now, changed, edits, active, child, gate>>
ExitUnlocks(l) ==
  /\ At(l, "exit")
  /\ lock' = IF lock = l THEN NoOne ELSE lock
  /\ Goto(l, "ended")
  /\ UNCHANGED <<now, changed, edits, active, child, gate>>

ReleaseGreen(l) ==
  /\ At(l, "release")
  /\ gate' = [gate EXCEPT ![l].release = gate[l].pass]
  /\ Goto(l, "exit")
  /\ UNCHANGED <<now, changed, edits, active, lock, child>>

\* coordinator_lock: exclusive creation; a competitor fails and never waits.
TakeLock(l) ==
  /\ At(l, "start")
  /\ IF proc[l].mode \notin Coordinated
     THEN Goto(l, "hash") /\ UNCHANGED lock
     ELSE IF lock = NoOne
          THEN Goto(l, IF proc[l].mode = "activate" THEN "verdict" ELSE "hash") /\ lock' = l
          ELSE Goto(l, "ended") /\ UNCHANGED lock
  /\ UNCHANGED <<now, changed, edits, active, child, gate>>

\* The files whose bytes a gate reads at its start and once more at its end: bindings of the
\* IC/IM-only gate also hold the installed intraday scripts.
Bindings(mode) == IF mode = "independent" THEN {"deps", "bundle"} ELSE {"deps"}

\* gate() hashes its helpers first.
HashInputs(l) ==
  /\ At(l, "hash")
  /\ proc' = [proc EXCEPT ![l].seen = [f \in Files |-> f \in Bindings(proc[l].mode) /\ changed[f]], ![l].pc = "verify"]
  /\ UNCHANGED <<now, changed, edits, active, lock, child, gate>>

\* validate_prepared and the remote pins of the native gate; a failure raises and nothing is
\* written.
Authentic == ~changed["tree"] /\ ~changed["source"]
Authenticate(l) ==
  /\ At(l, "verify") /\ proc[l].mode # "independent"
  /\ Goto(l, IF Authentic THEN "tests" ELSE "exit")
  /\ UNCHANGED <<now, changed, edits, active, lock, child, gate>>

\* verify_icim: the IC/IM part of the snapshot is that of the pin production runs, and the
\* working copy holds its text.
VerifyIcim(l) ==
  /\ At(l, "verify") /\ proc[l].mode = "independent"
  /\ Goto(l, IF Authentic THEN "tests" ELSE "exit")
  /\ UNCHANGED <<now, changed, edits, active, lock, child, gate>>

\* subprocess_gate starts the next group, unless an unconfirmed child is left: then
\* the remaining groups are recorded as not started and the gate has failed.
StartGroup(l) ==
  /\ At(l, "tests") /\ child[l] = "none"
  /\ ~proc[l].unconfirmed
  /\ proc[l].group < Groups[proc[l].mode]
  /\ proc' = [proc EXCEPT ![l].group = @ + 1]
  /\ child' = [child EXCEPT ![l] = "running"]
  /\ UNCHANGED <<now, changed, edits, active, lock, gate>>

\* The test process ends by itself; the evidence is complete and green, or not.
\* A failed group does not stop the groups after it.
ChildEnds(l) ==
  /\ child[l] # "none"
  /\ child' = [child EXCEPT ![l] = "none"]
  /\ \E ok \in BOOLEAN :
       proc' = IF child[l] = "running" /\ ~ok THEN [proc EXCEPT ![l].passed = FALSE] ELSE proc
  /\ UNCHANGED <<now, changed, edits, active, lock, gate>>

\* The hard timeout: taskkill, and the group has failed.  When the end of the
\* child tree is not confirmed, the process remembers it.
Timeout(l) ==
  /\ At(l, "tests") /\ child[l] = "running"
  /\ \E confirmed \in BOOLEAN :
       /\ child' = [child EXCEPT ![l] = IF confirmed THEN "none" ELSE "lost"]
       /\ proc' = [proc EXCEPT ![l].passed = FALSE, ![l].unconfirmed = ~confirmed]
  /\ UNCHANGED <<now, changed, edits, active, lock, gate>>

\* An interrupt, or an error of a helper, ends the process through its finally; a
\* child it waits for is killed first, as after a timeout.
Interrupt(l) ==
  /\ proc[l].pc \in {"hash", "verify", "tests", "verdict", "release"}
  /\ \E confirmed \in BOOLEAN :
       /\ child[l] # "running" => confirmed
       /\ child' = [child EXCEPT ![l] = CASE @ # "running" -> @
                                          [] confirmed -> "none"
                                          [] OTHER -> "lost"]
       /\ proc' = [proc EXCEPT ![l].pc = "exit", ![l].passed = FALSE,
                               ![l].unconfirmed = @ \/ ~confirmed]
  /\ UNCHANGED <<now, changed, edits, active, lock, gate>>

EndTests(l) ==
  /\ At(l, "tests") /\ child[l] # "running"
  /\ proc[l].group = Groups[proc[l].mode] \/ proc[l].unconfirmed
  /\ Goto(l, "verdict")
  /\ UNCHANGED <<now, changed, edits, active, lock, child, gate>>

\* The second reading of the bytes.
SameBindings(l) == \A f \in Bindings(proc[l].mode) : changed[f] = proc[l].seen[f]
AllPassed(l) == proc[l].passed /\ proc[l].group = Groups[proc[l].mode]
Written(l, pass, release) ==
  gate' = [gate EXCEPT ![l] = [written |-> TRUE, mode |-> proc[l].mode, pass |-> pass, release |-> release,
                               day |-> proc[l].day, phase |-> proc[l].phase, seen |-> proc[l].seen]]

\* gate.json of the native gate, with release_for_intraday still false; it does not read the
\* production sources again.
WriteGate(l) ==
  /\ At(l, "verdict") /\ proc[l].mode \in {"daily", "gate"}
  /\ IF ~changed["tree"] /\ SameBindings(l)
     THEN Written(l, AllPassed(l), FALSE) /\ Goto(l, IF proc[l].mode = "daily" THEN "release" ELSE "exit")
     ELSE Goto(l, "exit") /\ UNCHANGED gate
  /\ UNCHANGED <<now, changed, edits, active, lock, child>>

\* The IC/IM-only gate verifies snapshot and sources again, or raises; other bindings than at
\* its start make the gate red; it decides about the release in the same write.
WriteIndependent(l) ==
  /\ At(l, "verdict") /\ proc[l].mode = "independent"
  /\ IF Authentic
     THEN LET pass == AllPassed(l) /\ SameBindings(l)
          IN Written(l, pass, pass /\ Day(now) = proc[l].day /\ Phase(now) = "window")
     ELSE UNCHANGED gate
  /\ Goto(l, "exit")
  /\ UNCHANGED <<now, changed, edits, active, lock, child>>

\* The daily mode reads the clock once more and writes gate.json again.
Release(l) ==
  /\ At(l, "release")
  /\ gate' = [gate EXCEPT ![l].release =
                gate[l].pass /\ Day(now) = proc[l].day /\ Phase(now) # "late"]
  /\ Goto(l, "exit")
  /\ UNCHANGED <<now, changed, edits, active, lock, child>>

\* activate: a complete successful gate of the unchanged launcher, any day.
Activate(l) ==
  /\ At(l, "verdict") /\ proc[l].mode = "activate"
  /\ \/ /\ ~changed["tree"]
        /\ \E a \in Launchers :
             /\ gate[a].written /\ gate[a].mode # "independent"
             /\ gate[a].pass /\ gate[a].seen["deps"] = changed["deps"]
        /\ active' = Certificate(changed["deps"])
     \/ active' = active     \* the gate named by --out is not acceptable: raise
  /\ Goto(l, "exit")
  /\ UNCHANGED <<now, changed, edits, lock, child, gate>>

\* The finally of coordinator_lock: an unconfirmed child keeps the lock.
Exit(l) ==
  /\ At(l, "exit")
  /\ lock' = IF lock = l /\ ~proc[l].unconfirmed THEN NoOne ELSE lock
  /\ Goto(l, "ended")
  /\ UNCHANGED <<now, changed, edits, active, child, gate>>

\* The launcher dies (power, logoff, kill): its child lives on, its lock stays.
Crash(l) ==
  /\ proc[l].pc \notin {"idle", "ended", "crashed"}
  /\ Goto(l, "crashed")
  /\ child' = [child EXCEPT ![l] = IF @ = "running" THEN "lost" ELSE @]
  /\ UNCHANGED <<now, changed, edits, active, lock, gate>>

\* External: an operator removes a lock after looking at its owner: the process has
\* ended and no test process of it is left.
ClearLock ==
  /\ lock # NoOne
  /\ proc[lock].pc \in {"ended", "crashed"} /\ child[lock] = "none"
  /\ lock' = NoOne
  /\ UNCHANGED <<now, changed, edits, active, proc, child, gate>>

Continue(l) ==
  \/ TakeLock(l) \/ HashInputs(l) \/ Authenticate(l) \/ VerifyIcim(l) \/ StartGroup(l) \/ Timeout(l)
  \/ EndTests(l) \/ WriteGate(l) \/ WriteIndependent(l) \/ Release(l) \/ Activate(l) \/ Exit(l)

GateNext ==
  \/ Tick
  \/ \E f \in Editable : Edit(f)
  \/ \E l \in Launchers :
       \/ \E m \in Modes[l] : Start(l, m)
       \/ Continue(l) \/ ChildEnds(l) \/ Interrupt(l) \/ Crash(l)
  \/ ClearLock

GateSpec == GateInit /\ [][GateNext]_gateVars

\* The operating system keeps scheduling a launcher that is alive; a test process
\* may hang for ever, an operator may never look at a lock.
GateFairness == \A l \in Launchers : WF_gateVars(Continue(l))
FairGateSpec == GateSpec /\ GateFairness

-------------------------------------------------------------------------------
\* The launcher that started tests under the coordinator lock is the only one with
\* a test process, also after a kill that was not confirmed and after a crash of
\* the launcher: the lock file outlives its process (coordinator_lock).
OneSuiteAtATime ==
  \A l, m \in Launchers :
    (/\ child[l] # "none" /\ proc[l].mode \in Coordinated
     /\ child[m] # "none" /\ proc[m].mode \in Coordinated) => l = m

\* A day is released only by a process that began before 15:00 of that day, of
\* which every group was started, ended by itself and was green, and that reads the
\* clock before 15:00 once more; no test process of it is left (gate, main).
ReleaseMeansGreenToday ==
  [][\A l \in Launchers :
       gate'[l] # gate[l] /\ gate'[l].release =>
         /\ gate'[l].pass /\ proc[l].passed /\ proc[l].group = Groups[proc[l].mode]
         /\ child[l] = "none" /\ ~proc[l].unconfirmed
         /\ gate'[l].day = Day(now) /\ "late" \notin {gate'[l].phase, Phase(now)}]_gateVars

\* A certificate for the daily mode always names bytes for which some gate was
\* green, or the certificate was there before (activate, :1239-:1257).
CertifiedMeansTested ==
  active = "edited" => \E l \in Launchers :
    gate[l].written /\ gate[l].pass /\ gate[l].seen["deps"]

\* A day that is released and a launcher that is certified were tested: nobody reaches
\* either by another mode, an edit between hash and release, or the clock.
GreenIsTested == []CertifiedMeansTested /\ ReleaseMeansGreenToday

\* Every started launcher ends, whatever its test processes do: each wait has a
\* hard timeout, a lock that is taken is not waited for, an unconfirmed kill ends
\* the gate instead of blocking it.
EveryLauncherConcludes ==
  \A l \in Launchers : At(l, "start") ~> proc[l].pc \in {"ended", "crashed"}
=================================================================================
