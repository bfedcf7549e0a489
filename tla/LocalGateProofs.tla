----------------------------- MODULE LocalGateProofs -----------------------------
(***************************************************************************)
(* Proofs about the coordinator of the local daily gate, for every set of  *)
(* launchers, modes, groups, instants and edits.                           *)
(***************************************************************************)
EXTENDS LocalGate, TLAPS

-----------------------------------------------------------------------------
(* The inductive invariant *)

\* Between taking the lock and giving it back.
Inside == {"hash", "verify", "tests", "verdict", "release", "exit"}

\* A test process belongs to a launcher that is past its start; one that nobody
\* waits for is remembered by its launcher, or the launcher is dead.
ChildKnown(l) ==
  /\ child[l] = "running" => At(l, "tests")
  /\ child[l] = "lost" =>
       \/ At(l, "crashed")
       \/ proc[l].unconfirmed /\ proc[l].pc \in {"tests", "verdict", "release", "exit", "ended"}

\* A launcher of a coordinated mode owns the lock while it is inside, and as long
\* as it has a test process.
OwnsLock(l) ==
  (proc[l].mode \in Coordinated /\ (child[l] # "none" \/ proc[l].pc \in Inside)) => lock = l

\* The clock of the start was read at some earlier instant.
Started(l) ==
  /\ proc[l].pc # "idle" =>
       \E t \in DOMAIN Instants : t <= now /\ proc[l].day = Day(t) /\ proc[l].phase = Phase(t)
  /\ proc[l].mode = "daily" => proc[l].phase # "late"

\* What gate.json says is what its launcher knows, until the launcher ends.
GateHonest(l) ==
  /\ proc[l].unconfirmed => ~proc[l].passed
  /\ gate[l].written => proc[l].pc \in {"release", "exit", "ended", "crashed"}
  /\ At(l, "release") =>
       /\ gate[l].written /\ proc[l].mode = "daily"
       /\ gate[l].day = proc[l].day /\ gate[l].phase = proc[l].phase
       /\ gate[l].pass => AllPassed(l)

LauncherSafe(l) == ChildKnown(l) /\ OwnsLock(l) /\ Started(l) /\ GateHonest(l)

GateInv ==
  /\ GateTypeOK
  /\ \A l \in Launchers : LauncherSafe(l)
  /\ CertifiedMeansTested

-----------------------------------------------------------------------------
(* Types *)

LEMMA InstantType ==
  ASSUME NEW t \in DOMAIN Instants
  PROVE  Day(t) \in Nat /\ Phase(t) \in Phases /\ t \in Nat
  BY GateAssumption DEF Day, Phase

\* A field keeps its type.
LEMMA FieldType ==
  ASSUME NEW p \in Process
  PROVE  /\ \A v \in PCs : [p EXCEPT !.pc = v] \in Process
         /\ \A v \in [Files -> BOOLEAN] : [p EXCEPT !.seen = v] \in Process
         /\ \A v \in Nat : [p EXCEPT !.group = v] \in Process
         /\ \A v \in BOOLEAN : [p EXCEPT !.passed = v] \in Process
         /\ \A v \in BOOLEAN : [p EXCEPT !.unconfirmed = v] \in Process
  <1>1. \A v \in PCs : [p EXCEPT !.pc = v] \in Process
    BY DEF Process
  <1>2. \A v \in [Files -> BOOLEAN] : [p EXCEPT !.seen = v] \in Process
    BY DEF Process
  <1>3. \A v \in Nat : [p EXCEPT !.group = v] \in Process
    BY DEF Process
  <1>4. \A v \in BOOLEAN : [p EXCEPT !.passed = v] \in Process
    BY DEF Process
  <1>5. \A v \in BOOLEAN : [p EXCEPT !.unconfirmed = v] \in Process
    BY DEF Process
  <1> QED
    BY <1>1, <1>2, <1>3, <1>4, <1>5

LEMMA IdleType == Idle \in Process /\ Idle.pc = "idle" /\ Idle.mode = "gate"
  BY DEF Idle, Process, PCs, AllModes, Phases, AsReviewed

\* A step of one launcher that leaves clock, files and certificate alone.
LEMMA LauncherTypes ==
  ASSUME GateTypeOK, NEW l \in Launchers, UNCHANGED <<now, changed, edits>>,
         NEW p \in Process, proc' = [proc EXCEPT ![l] = p],
         active' \in {"none", "reviewed", "edited"},
         lock' \in Launchers \cup {NoOne},
         child' \in [Launchers -> {"none", "running", "lost"}],
         gate' \in [Launchers -> {NoGate} \cup GateFile]
  PROVE  GateTypeOK' /\ proc'[l] = p /\ \A m \in Launchers \ {l} : proc'[m] = proc[m]
  BY DEF GateTypeOK

LEMMA Bools ==
  ASSUME GateTypeOK, NEW l \in Launchers
  PROVE  /\ proc[l] \in Process
         /\ AllPassed(l) \in BOOLEAN /\ SameBindings(l) \in BOOLEAN
  BY DEF GateTypeOK, AllPassed, SameBindings

LEMMA WrittenType ==
  ASSUME GateTypeOK, NEW l \in Launchers, NEW pass \in BOOLEAN, NEW release \in BOOLEAN,
         Written(l, pass, release)
  PROVE  gate' \in [Launchers -> {NoGate} \cup GateFile]
  <1> DEFINE g == [written |-> TRUE, mode |-> proc[l].mode, pass |-> pass, release |-> release,
                   day |-> proc[l].day, phase |-> proc[l].phase, seen |-> proc[l].seen]
  <1>1. g \in GateFile
    BY DEF GateTypeOK, Process, GateFile
  <1> HIDE DEF g
  <1>2. gate' = [gate EXCEPT ![l] = g]
    BY DEF Written, g
  <1> QED
    BY <1>1, <1>2 DEF GateTypeOK

\* What one launcher may do to the shared files, and that it touches no other launcher.
Own(l) ==
  /\ UNCHANGED <<now, changed, edits>>
  /\ \A m \in Launchers \ {l} :
       /\ proc'[m] = proc[m] /\ child'[m] = child[m] /\ gate'[m] = gate[m]
       /\ lock = m => lock' = m

LEMMA StartTypes ==
  ASSUME GateTypeOK, NEW l \in Launchers, NEW m \in Modes[l], Start(l, m)
  PROVE  GateTypeOK' /\ Own(l)
  <1> DEFINE p == [Idle EXCEPT !.pc = "start", !.mode = m, !.day = Day(now), !.phase = Phase(now)]
  <1>1. m \in AllModes
    BY GateAssumption
  <1>2. Day(now) \in Nat /\ Phase(now) \in Phases
    BY InstantType DEF GateTypeOK
  <1>3. p \in Process
    BY <1>1, <1>2, IdleType DEF Process, PCs
  <1>4. proc' = [proc EXCEPT ![l] = p] /\ UNCHANGED <<now, changed, edits, active, lock, child, gate>>
    BY DEF Start
  <1> HIDE DEF p
  <1> QED
    BY <1>3, <1>4, LauncherTypes DEF GateTypeOK, Own

\* The steps that only move the launcher, and perhaps write its gate or certify it.
LEMMA GotoTypes ==
  ASSUME GateTypeOK, NEW l \in Launchers, NEW v \in PCs, Goto(l, v),
         UNCHANGED <<now, changed, edits>>,
         active' \in {"none", "reviewed", "edited"},
         lock' \in Launchers \cup {NoOne},
         child' \in [Launchers -> {"none", "running", "lost"}],
         gate' \in [Launchers -> {NoGate} \cup GateFile]
  PROVE  GateTypeOK' /\ proc'[l] = [proc[l] EXCEPT !.pc = v] /\ \A m \in Launchers \ {l} : proc'[m] = proc[m]
  <1> DEFINE p == [proc[l] EXCEPT !.pc = v]
  <1>1. p \in Process
    BY FieldType DEF GateTypeOK
  <1>2. proc' = [proc EXCEPT ![l] = p]
    BY DEF Goto
  <1> HIDE DEF p
  <1>3. GateTypeOK' /\ proc'[l] = p /\ \A m \in Launchers \ {l} : proc'[m] = proc[m]
    BY <1>1, <1>2, LauncherTypes
  <1> QED
    BY <1>3 DEF p

LEMMA MoveTypes ==
  ASSUME GateTypeOK, NEW l \in Launchers,
         TakeLock(l) \/ Authenticate(l) \/ VerifyIcim(l) \/ EndTests(l) \/ WriteGate(l)
         \/ WriteIndependent(l) \/ Release(l) \/ Activate(l) \/ Exit(l) \/ Crash(l)
  PROVE  GateTypeOK' /\ Own(l)
  <1>1. CASE TakeLock(l) \/ Authenticate(l) \/ VerifyIcim(l) \/ EndTests(l)
    <2>1. PICK v \in PCs : Goto(l, v)
      BY <1>1 DEF TakeLock, Authenticate, VerifyIcim, EndTests, PCs
    <2>2. UNCHANGED <<now, changed, edits, active, child, gate>> /\ lock' \in {lock, l}
          /\ (lock' # lock => lock = NoOne)
      BY <1>1 DEF TakeLock, Authenticate, VerifyIcim, EndTests
    <2> QED
      BY <2>1, <2>2, GotoTypes, GateAssumption DEF GateTypeOK, Own
  <1>2. CASE WriteGate(l) \/ WriteIndependent(l) \/ Release(l)
    <2>1. PICK v \in PCs : Goto(l, v)
      BY <1>2 DEF WriteGate, WriteIndependent, Release, PCs
    <2>2. UNCHANGED <<now, changed, edits, active, lock, child>>
      BY <1>2 DEF WriteGate, WriteIndependent, Release
    <2>3. gate' \in [Launchers -> {NoGate} \cup GateFile]
      <3>1. CASE WriteGate(l)
        BY <3>1, Bools, WrittenType DEF WriteGate, GateTypeOK
      <3>2. CASE WriteIndependent(l)
        BY <3>2, Bools, WrittenType DEF WriteIndependent, GateTypeOK
      <3>3. CASE Release(l)
        <4> DEFINE rel == gate[l].pass /\ Day(now) = proc[l].day /\ Phase(now) # "late"
                   g == [gate[l] EXCEPT !.release = rel]
        <4>1. gate' = [gate EXCEPT ![l] = g] /\ gate[l] \in {NoGate} \cup GateFile
          BY <3>3 DEF Release, GateTypeOK
        <4>2. rel \in BOOLEAN
          OBVIOUS
        <4>3. g \in {NoGate} \cup GateFile
          <5> HIDE DEF rel
          <5>1. CASE gate[l] = NoGate
            BY <5>1 DEF NoGate
          <5>2. CASE gate[l] \in GateFile
            BY <4>2, <5>2 DEF GateFile
          <5> QED
            BY <4>1, <5>1, <5>2
        <4> HIDE DEF g
        <4> QED
          BY <4>1, <4>3 DEF GateTypeOK
      <3> QED
        BY <1>2, <3>1, <3>2, <3>3
    <2>4. \A m \in Launchers \ {l} : gate'[m] = gate[m]
      BY <1>2 DEF WriteGate, WriteIndependent, Release, Written, GateTypeOK
    <2> QED
      BY <2>1, <2>2, <2>3, <2>4, GotoTypes DEF GateTypeOK, Own
  <1>3. CASE Activate(l)
    <2>1. Goto(l, "exit") /\ UNCHANGED <<now, changed, edits, lock, child, gate>>
          /\ active' \in {"none", "reviewed", "edited"}
      BY <1>3 DEF Activate, Certificate, GateTypeOK
    <2> QED
      BY <2>1, GotoTypes DEF GateTypeOK, Own, PCs
  <1>4. CASE Exit(l)
    <2>1. Goto(l, "ended") /\ UNCHANGED <<now, changed, edits, active, child, gate>>
          /\ lock' \in {lock, NoOne} /\ (lock' # lock => lock = l)
      BY <1>4 DEF Exit
    <2> QED
      BY <2>1, GotoTypes DEF GateTypeOK, Own, PCs
  <1>5. CASE Crash(l)
    <2>1. Goto(l, "crashed") /\ UNCHANGED <<now, changed, edits, active, lock, gate>>
      BY <1>5 DEF Crash
    <2>2. child' \in [Launchers -> {"none", "running", "lost"}]
          /\ \A m \in Launchers \ {l} : child'[m] = child[m]
      BY <1>5 DEF Crash, GateTypeOK
    <2> QED
      BY <2>1, <2>2, GotoTypes DEF GateTypeOK, Own, PCs
  <1> QED
    BY <1>1, <1>2, <1>3, <1>4, <1>5

\* The steps that change the launcher by more than its place, and its test process.
LEMMA WorkTypes ==
  ASSUME GateTypeOK, NEW l \in Launchers,
         HashInputs(l) \/ StartGroup(l) \/ Timeout(l) \/ Interrupt(l) \/ ChildEnds(l)
  PROVE  GateTypeOK' /\ Own(l)
  <1> USE DEF At
  <1>0. proc[l] \in Process /\ proc[l].group \in Nat /\ proc[l].unconfirmed \in BOOLEAN
    BY DEF GateTypeOK, Process
  <1>1. CASE HashInputs(l)
    <2> DEFINE h == [f \in Files |-> f \in Bindings(proc[l].mode) /\ changed[f]]
               p == [proc[l] EXCEPT !.seen = h, !.pc = "verify"]
    <2>1. h \in [Files -> BOOLEAN]
      OBVIOUS
    <2>2. proc' = [proc EXCEPT ![l] = p] /\ UNCHANGED <<now, changed, edits, active, lock, child, gate>>
      BY <1>1 DEF HashInputs
    <2>3. p \in Process
      <3> HIDE DEF h
      <3> QED
        BY <1>0, <2>1, FieldType DEF PCs
    <2> HIDE DEF p
    <2> QED
      BY <2>2, <2>3, LauncherTypes DEF GateTypeOK, Own
  <1>2. CASE StartGroup(l)
    <2> DEFINE g == proc[l].group + 1
               p == [proc[l] EXCEPT !.group = g]
    <2>1. proc' = [proc EXCEPT ![l] = p] /\ UNCHANGED <<now, changed, edits, active, lock, gate>>
          /\ child' = [child EXCEPT ![l] = "running"]
      BY <1>2 DEF StartGroup
    <2>2. p \in Process
      <3>1. g \in Nat
        BY <1>0
      <3> HIDE DEF g
      <3> QED
        BY <1>0, <3>1, FieldType
    <2> HIDE DEF p
    <2> QED
      BY <2>1, <2>2, LauncherTypes DEF GateTypeOK, Own
  <1>3. CASE Timeout(l)
    <2>1. PICK c \in BOOLEAN :
            /\ child' = [child EXCEPT ![l] = IF c THEN "none" ELSE "lost"]
            /\ proc' = [proc EXCEPT ![l].passed = FALSE, ![l].unconfirmed = ~c]
      BY <1>3 DEF Timeout
    <2> DEFINE p == [proc[l] EXCEPT !.passed = FALSE, !.unconfirmed = ~c]
    <2>2. proc' = [proc EXCEPT ![l] = p] /\ UNCHANGED <<now, changed, edits, active, lock, gate>>
      BY <1>3, <2>1 DEF Timeout
    <2>3. p \in Process
      BY <1>0, FieldType
    <2> HIDE DEF p
    <2> QED
      BY <2>1, <2>2, <2>3, LauncherTypes DEF GateTypeOK, Own
  <1>4. CASE Interrupt(l)
    <2>1. PICK c \in BOOLEAN :
            /\ child' = [child EXCEPT ![l] = CASE @ # "running" -> @
                                               [] c -> "none"
                                               [] OTHER -> "lost"]
            /\ proc' = [proc EXCEPT ![l].pc = "exit", ![l].passed = FALSE,
                                    ![l].unconfirmed = @ \/ ~c]
      BY <1>4 DEF Interrupt
    <2> DEFINE u == proc[l].unconfirmed \/ ~c
               p == [proc[l] EXCEPT !.pc = "exit", !.passed = FALSE, !.unconfirmed = u]
    <2>2. proc' = [proc EXCEPT ![l] = p] /\ UNCHANGED <<now, changed, edits, active, lock, gate>>
      BY <1>4, <2>1 DEF Interrupt
    <2>3. p \in Process
      <3>1. u \in BOOLEAN
        OBVIOUS
      <3> HIDE DEF u
      <3> QED
        BY <1>0, <3>1, FieldType DEF PCs
    <2>4. child' \in [Launchers -> {"none", "running", "lost"}]
          /\ \A m \in Launchers \ {l} : child'[m] = child[m]
      BY <2>1 DEF GateTypeOK
    <2> HIDE DEF p
    <2> QED
      BY <2>2, <2>3, <2>4, LauncherTypes DEF GateTypeOK, Own
  <1>5. CASE ChildEnds(l)
    <2>1. PICK ok \in BOOLEAN :
            proc' = IF child[l] = "running" /\ ~ok THEN [proc EXCEPT ![l].passed = FALSE] ELSE proc
      BY <1>5 DEF ChildEnds
    <2> DEFINE p == IF child[l] = "running" /\ ~ok THEN [proc[l] EXCEPT !.passed = FALSE] ELSE proc[l]
    <2>2. proc' = [proc EXCEPT ![l] = p] /\ UNCHANGED <<now, changed, edits, active, lock, gate>>
          /\ child' = [child EXCEPT ![l] = "none"]
      BY <1>5, <2>1 DEF ChildEnds, GateTypeOK
    <2>3. p \in Process
      BY <1>0, FieldType
    <2> HIDE DEF p
    <2> QED
      BY <2>2, <2>3, LauncherTypes DEF GateTypeOK, Own
  <1> QED
    BY <1>1, <1>2, <1>3, <1>4, <1>5

-----------------------------------------------------------------------------
(* Each launcher keeps the invariant *)

\* What the other launchers are is left alone, so they stay as they were.
LEMMA OthersSafe ==
  ASSUME GateTypeOK, NEW l \in Launchers, Own(l),
         NEW m \in Launchers \ {l}, LauncherSafe(m)
  PROVE  LauncherSafe(m)'
  <1>1. /\ proc'[m] = proc[m] /\ child'[m] = child[m] /\ gate'[m] = gate[m] /\ now' = now
        /\ lock = m => lock' = m
    BY DEF Own
  <1>2. ChildKnown(m)' /\ OwnsLock(m)'
    BY <1>1 DEF LauncherSafe, ChildKnown, OwnsLock, At
  <1>3. Started(m)'
    BY <1>1 DEF LauncherSafe, Started, Day, Phase
  <1>4. GateHonest(m)'
    BY <1>1 DEF LauncherSafe, GateHonest, At, AllPassed
  <1> QED
    BY <1>2, <1>3, <1>4 DEF LauncherSafe

\* Names of the places.
LEMMA PlacesDiffer ==
  ASSUME GateTypeOK, NEW l \in Launchers
  PROVE  proc[l].pc \in PCs /\ child[l] \in {"none", "running", "lost"} /\ proc[l].mode \in AllModes
         /\ proc[l].passed \in BOOLEAN /\ proc[l].unconfirmed \in BOOLEAN
  BY DEF GateTypeOK, Process

LEMMA GotoPlace ==
  ASSUME GateTypeOK, NEW l \in Launchers, NEW v, Goto(l, v)
  PROVE  proc'[l].pc = v
  BY DEF GateTypeOK, Process, Goto

LEMMA MoveSafe ==
  ASSUME GateTypeOK, NEW l \in Launchers, LauncherSafe(l),
         TakeLock(l) \/ Authenticate(l) \/ VerifyIcim(l) \/ EndTests(l)
         \/ Activate(l) \/ Exit(l) \/ Crash(l)
  PROVE  LauncherSafe(l)'
  <1> USE DEF At
  <1>1. proc[l] \in Process /\ proc' \in [Launchers -> Process] /\ Own(l)
    BY MoveTypes DEF GateTypeOK
  <1>2. PICK v \in PCs : proc' = [proc EXCEPT ![l] = [proc[l] EXCEPT !.pc = v]]
    BY DEF TakeLock, Authenticate, VerifyIcim, EndTests, Activate, Exit, Crash, PCs, Goto
  <1>3. /\ proc'[l].pc = v
        /\ proc'[l].mode = proc[l].mode /\ proc'[l].day = proc[l].day /\ proc'[l].phase = proc[l].phase
        /\ proc'[l].group = proc[l].group /\ proc'[l].passed = proc[l].passed
        /\ proc'[l].unconfirmed = proc[l].unconfirmed
    BY <1>1, <1>2 DEF Process, GateTypeOK
  <1>4. UNCHANGED <<now, gate>>
    BY DEF TakeLock, Authenticate, VerifyIcim, EndTests, Activate, Exit, Crash
  <1>5. Started(l)'
    BY <1>1, <1>3, <1>4, PlacesDiffer DEF TakeLock, Authenticate, VerifyIcim, EndTests, Activate, Exit, Crash, Started, LauncherSafe
  <1>6. GateHonest(l)' /\ ChildKnown(l)' /\ OwnsLock(l)'
    <2> USE DEF LauncherSafe, ChildKnown, OwnsLock, GateHonest, AllPassed, Inside
    <2>1. CASE TakeLock(l)
      <3>1. child' = child /\ proc[l].pc = "start"
        BY <2>1 DEF TakeLock
      <3>2. \/ v \in {"hash", "verdict"} /\ lock' = l
            \/ v = "hash" /\ proc[l].mode \notin Coordinated /\ lock' = lock
            \/ v = "ended" /\ lock' = lock
        BY <1>3, <2>1, GotoPlace DEF TakeLock
      <3> QED
        BY <1>3, <1>4, <3>1, <3>2, PlacesDiffer
    <2>2. CASE Authenticate(l) \/ VerifyIcim(l)
      <3>1. child' = child /\ lock' = lock /\ proc[l].pc = "verify"
        BY <2>2 DEF Authenticate, VerifyIcim
      <3>2. v \in {"tests", "exit"}
        BY <1>3, <2>2, GotoPlace DEF Authenticate, VerifyIcim
      <3> QED
        BY <1>3, <1>4, <3>1, <3>2, PlacesDiffer
    <2>3. CASE EndTests(l)
      <3>1. child' = child /\ lock' = lock /\ proc[l].pc = "tests" /\ v = "verdict" /\ child[l] # "running"
        BY <1>3, <2>3, GotoPlace DEF EndTests
      <3> QED
        BY <1>3, <1>4, <3>1, PlacesDiffer
    <2>4. CASE Activate(l)
      <3>1. child' = child /\ lock' = lock /\ proc[l].pc = "verdict" /\ v = "exit"
        BY <1>3, <2>4, GotoPlace DEF Activate
      <3> QED
        BY <1>3, <1>4, <3>1, PlacesDiffer
    <2>5. CASE Exit(l)
      <3>1. /\ child' = child /\ proc[l].pc = "exit" /\ v = "ended"
            /\ proc[l].unconfirmed => lock' = lock
        BY <1>3, <2>5, GotoPlace DEF Exit
      <3> QED
        BY <1>3, <1>4, <3>1, PlacesDiffer
    <2>6. CASE Crash(l)
      <3>1. lock' = lock /\ v = "crashed" /\ proc[l].pc \notin {"idle", "ended", "crashed"}
        BY <1>3, <2>6, GotoPlace DEF Crash
      <3>2. child'[l] = IF child[l] = "running" THEN "lost" ELSE child[l]
        BY <2>6 DEF Crash, GateTypeOK
      <3> QED
        BY <1>3, <1>4, <3>1, <3>2, PlacesDiffer
    <2> QED
      BY <2>1, <2>2, <2>3, <2>4, <2>5, <2>6
  <1> QED
    BY <1>5, <1>6 DEF LauncherSafe

LEMMA StartSafe ==
  ASSUME GateTypeOK, NEW l \in Launchers, LauncherSafe(l), NEW m \in Modes[l], Start(l, m)
  PROVE  LauncherSafe(l)'
  <1> USE DEF At
  <1>1. /\ proc'[l].pc = "start" /\ proc'[l].mode = m /\ proc'[l].day = Day(now)
        /\ proc'[l].phase = Phase(now) /\ proc'[l].unconfirmed = FALSE
    BY DEF Start, Idle, GateTypeOK
  <1>2. proc[l].pc = "idle" /\ (m = "daily" => Phase(now) # "late")
        /\ UNCHANGED <<now, child, gate, lock>>
    BY DEF Start
  <1>3. child[l] = "none" /\ ~gate[l].written
    BY <1>2, PlacesDiffer DEF LauncherSafe, ChildKnown, GateHonest
  <1>4. Started(l)'
    <2>1. now \in DOMAIN Instants /\ now <= now
      BY InstantType DEF GateTypeOK
    <2> QED
      BY <1>1, <1>2, <2>1 DEF Started, Day, Phase
  <1>5. ChildKnown(l)' /\ OwnsLock(l)' /\ GateHonest(l)'
    BY <1>1, <1>2, <1>3 DEF ChildKnown, OwnsLock, GateHonest, Inside
  <1> QED
    BY <1>4, <1>5 DEF LauncherSafe

LEMMA WorkSafe ==
  ASSUME GateTypeOK, NEW l \in Launchers, LauncherSafe(l),
         HashInputs(l) \/ StartGroup(l) \/ Timeout(l) \/ Interrupt(l) \/ ChildEnds(l)
  PROVE  LauncherSafe(l)'
  <1> USE DEF At
  <1>1. UNCHANGED <<now, lock, gate>>
    BY DEF HashInputs, StartGroup, Timeout, Interrupt, ChildEnds
  <1>2. proc'[l].mode = proc[l].mode /\ proc'[l].day = proc[l].day /\ proc'[l].phase = proc[l].phase
    BY DEF HashInputs, StartGroup, Timeout, Interrupt, ChildEnds, GateTypeOK, Process
  <1>3. Started(l)'
    <2>1. proc[l].pc # "idle"
      BY PlacesDiffer DEF HashInputs, StartGroup, Timeout, Interrupt, ChildEnds, LauncherSafe, ChildKnown
    <2> QED
      BY <1>1, <1>2, <2>1 DEF Started, LauncherSafe, Day, Phase
  <1>4. ChildKnown(l)' /\ OwnsLock(l)' /\ GateHonest(l)'
    <2> USE DEF LauncherSafe, ChildKnown, OwnsLock, GateHonest, AllPassed, Inside
    <2>1. CASE HashInputs(l)
      <3>1. /\ proc[l].pc = "hash" /\ proc'[l].pc = "verify" /\ child' = child
            /\ proc'[l].passed = proc[l].passed /\ proc'[l].unconfirmed = proc[l].unconfirmed
        BY <2>1 DEF HashInputs, GateTypeOK, Process
      <3> QED
        BY <1>1, <1>2, <3>1, PlacesDiffer
    <2>2. CASE StartGroup(l)
      <3>1. /\ proc[l].pc = "tests" /\ proc'[l].pc = "tests" /\ child'[l] = "running"
            /\ proc'[l].passed = proc[l].passed /\ proc'[l].unconfirmed = proc[l].unconfirmed
        BY <2>2 DEF StartGroup, GateTypeOK, Process
      <3> QED
        BY <1>1, <1>2, <3>1, PlacesDiffer
    <2>3. CASE Timeout(l)
      <3>1. PICK c \in BOOLEAN :
              /\ child' = [child EXCEPT ![l] = IF c THEN "none" ELSE "lost"]
              /\ proc' = [proc EXCEPT ![l].passed = FALSE, ![l].unconfirmed = ~c]
        BY <2>3 DEF Timeout
      <3> DEFINE u == ~c
                 p == [proc[l] EXCEPT !.passed = FALSE, !.unconfirmed = u]
      <3>2. proc[l].pc = "tests" /\ (~u => child'[l] = "none")
        BY <2>3, <3>1 DEF Timeout, GateTypeOK
      <3>3. proc' = [proc EXCEPT ![l] = p]
        BY <3>1
      <3> HIDE DEF u
      <3>4. proc'[l].pc = "tests" /\ proc'[l].passed = FALSE /\ proc'[l].unconfirmed = u
        BY <3>2, <3>3 DEF GateTypeOK, Process
      <3>5. child'[l] \in {"none", "lost"}
        BY <3>1 DEF GateTypeOK
      <3> QED
        BY <1>1, <1>2, <3>2, <3>4, <3>5, PlacesDiffer
    <2>4. CASE Interrupt(l)
      <3>1. PICK c \in BOOLEAN :
              /\ child' = [child EXCEPT ![l] = CASE @ # "running" -> @
                                                 [] c -> "none"
                                                 [] OTHER -> "lost"]
              /\ proc' = [proc EXCEPT ![l].pc = "exit", ![l].passed = FALSE,
                                      ![l].unconfirmed = @ \/ ~c]
        BY <2>4 DEF Interrupt
      <3> DEFINE u == proc[l].unconfirmed \/ ~c
                 p == [proc[l] EXCEPT !.pc = "exit", !.passed = FALSE, !.unconfirmed = u]
                 k == CASE child[l] # "running" -> child[l]
                        [] c -> "none"
                        [] OTHER -> "lost"
      <3>2. proc[l].pc \in {"hash", "verify", "tests", "verdict", "release"}
        BY <2>4 DEF Interrupt
      <3>3. proc' = [proc EXCEPT ![l] = p] /\ child' = [child EXCEPT ![l] = k]
        BY <3>1
      <3>4. (child[l] = "lost" /\ proc[l].unconfirmed) \/ child[l] = "running" \/ child[l] = "none"
        BY <3>2, PlacesDiffer
      <3>5. k = "none" \/ (k = "lost" /\ u)
        BY <3>4
      <3> HIDE DEF u, k
      <3>6. /\ proc'[l].pc = "exit" /\ proc'[l].passed = FALSE /\ proc'[l].unconfirmed = u
            /\ child'[l] = k
        BY <3>3 DEF GateTypeOK, Process
      <3>7. lock = l \/ proc[l].mode \notin Coordinated
        BY <3>2
      <3> QED
        BY <1>1, <1>2, <3>2, <3>5, <3>6, <3>7, PlacesDiffer
    <2>5. CASE ChildEnds(l)
      <3>1. PICK ok \in BOOLEAN :
              proc' = IF child[l] = "running" /\ ~ok THEN [proc EXCEPT ![l].passed = FALSE] ELSE proc
        BY <2>5 DEF ChildEnds
      <3>2. /\ proc'[l].pc = proc[l].pc /\ proc'[l].group = proc[l].group
            /\ proc'[l].unconfirmed = proc[l].unconfirmed
            /\ proc'[l].passed = proc[l].passed \/ (child[l] = "running" /\ ~proc'[l].passed)
            /\ child'[l] = "none"
        BY <2>5, <3>1 DEF ChildEnds, GateTypeOK, Process
      <3> QED
        BY <1>1, <1>2, <3>2, PlacesDiffer
    <2> QED
      BY <2>1, <2>2, <2>3, <2>4, <2>5
  <1> QED
    BY <1>3, <1>4 DEF LauncherSafe

\* gate.json is written once, and then once more by the daily mode to release it.
LEMMA WriteSafe ==
  ASSUME GateTypeOK, NEW l \in Launchers, LauncherSafe(l),
         WriteGate(l) \/ WriteIndependent(l) \/ Release(l)
  PROVE  /\ LauncherSafe(l)'
         /\ gate[l].written =>
              gate'[l].written /\ gate'[l].pass = gate[l].pass /\ gate'[l].seen = gate[l].seen
  <1> USE DEF At
  <1>1. PICK v \in PCs : proc' = [proc EXCEPT ![l] = [proc[l] EXCEPT !.pc = v]]
    BY DEF WriteGate, WriteIndependent, Release, PCs, Goto
  <1>2. /\ proc'[l].pc = v
        /\ proc'[l].mode = proc[l].mode /\ proc'[l].day = proc[l].day /\ proc'[l].phase = proc[l].phase
        /\ proc'[l].group = proc[l].group /\ proc'[l].passed = proc[l].passed
        /\ proc'[l].unconfirmed = proc[l].unconfirmed
    BY <1>1 DEF Process, GateTypeOK
  <1>3. UNCHANGED <<now, lock, child>> /\ proc[l].pc \in {"verdict", "release"}
    BY DEF WriteGate, WriteIndependent, Release
  <1>4. /\ v = "release" => gate'[l].written /\ proc[l].mode = "daily" /\ gate'[l].day = proc[l].day
                            /\ gate'[l].phase = proc[l].phase /\ gate'[l].pass = AllPassed(l)
        /\ v \in {"release", "exit"}
        /\ v = "release" => proc[l].pc = "verdict"
    <2>1. CASE WriteGate(l)
      <3>1. \/ Written(l, AllPassed(l), FALSE)
               /\ v = (IF proc[l].mode = "daily" THEN "release" ELSE "exit")
            \/ v = "exit"
        BY <1>2, <2>1, GotoPlace DEF WriteGate
      <3> QED
        BY <2>1, <3>1 DEF WriteGate, Written, GateTypeOK
    <2>2. CASE WriteIndependent(l) \/ Release(l)
      BY <1>2, <2>2, GotoPlace DEF WriteIndependent, Release
    <2> QED
      BY <2>1, <2>2
  <1>5. gate[l].written =>
              gate'[l].written /\ gate'[l].pass = gate[l].pass /\ gate'[l].seen = gate[l].seen
    <2>1. CASE Release(l)
      <3> DEFINE r == gate[l].pass /\ Day(now) = proc[l].day /\ Phase(now) # "late"
      <3>1. gate[l].written => gate[l] \in GateFile
        BY DEF GateTypeOK, NoGate
      <3>2. gate'[l] = [gate[l] EXCEPT !.release = r]
        BY <2>1 DEF Release, GateTypeOK
      <3> HIDE DEF r
      <3> QED
        BY <3>1, <3>2 DEF GateFile
    <2>2. CASE WriteGate(l) \/ WriteIndependent(l)
      BY <2>2 DEF WriteGate, WriteIndependent, LauncherSafe, GateHonest
    <2> QED
      BY <2>1, <2>2
  <1>6. Started(l)'
    BY <1>2, <1>3, PlacesDiffer DEF Started, LauncherSafe, Day, Phase
  <1>7. ChildKnown(l)' /\ OwnsLock(l)' /\ GateHonest(l)'
    BY <1>2, <1>3, <1>4, PlacesDiffer DEF LauncherSafe, ChildKnown, OwnsLock, GateHonest, AllPassed, Inside
  <1> QED
    BY <1>5, <1>6, <1>7 DEF LauncherSafe

-----------------------------------------------------------------------------
(* The steps of the environment *)

LEMMA TickSafe ==
  ASSUME GateTypeOK, NEW l \in Launchers, LauncherSafe(l), Tick
  PROVE  LauncherSafe(l)'
  <1>1. now' = now + 1 /\ UNCHANGED <<lock, proc, child, gate>>
    BY DEF Tick
  <1>2. Started(l)'
    <2>1. \A t \in DOMAIN Instants : t <= now => t <= now'
      BY <1>1, InstantType DEF GateTypeOK
    <2> QED
      BY <1>1, <2>1 DEF LauncherSafe, Started, Day, Phase
  <1> QED
    BY <1>1, <1>2 DEF LauncherSafe, ChildKnown, OwnsLock, GateHonest, At, AllPassed

LEMMA EditSafe ==
  ASSUME GateTypeOK, NEW l \in Launchers, LauncherSafe(l), NEW f \in Editable, Edit(f)
  PROVE  LauncherSafe(l)'
  <1>1. UNCHANGED <<now, lock, proc, child, gate>>
    BY DEF Edit
  <1> QED
    BY <1>1 DEF LauncherSafe, ChildKnown, OwnsLock, GateHonest, Started, At, AllPassed, Day, Phase

\* The operator removes the lock only of a launcher that neither runs nor tests.
LEMMA ClearLockSafe ==
  ASSUME GateTypeOK, NEW l \in Launchers, LauncherSafe(l), ClearLock
  PROVE  LauncherSafe(l)'
  <1>1. UNCHANGED <<now, proc, child, gate>> /\ lock # NoOne
        /\ proc[lock].pc \in {"ended", "crashed"} /\ child[lock] = "none"
    BY DEF ClearLock
  <1> QED
    BY <1>1 DEF LauncherSafe, ChildKnown, OwnsLock, GateHonest, Started, At, AllPassed, Day, Phase, Inside

-----------------------------------------------------------------------------
(* Certificates *)

\* The gates that were green stay there.
LEMMA CertificateStays ==
  ASSUME CertifiedMeansTested, active' = active,
         \A m \in Launchers : gate[m].written =>
           gate'[m].written /\ gate'[m].pass = gate[m].pass /\ gate'[m].seen = gate[m].seen
  PROVE  CertifiedMeansTested'
  BY DEF CertifiedMeansTested

LEMMA ActivateCertifies ==
  ASSUME GateTypeOK, CertifiedMeansTested, NEW l \in Launchers, Activate(l)
  PROVE  CertifiedMeansTested'
  <1>1. gate' = gate
    BY DEF Activate
  <1>2. CASE active' = active
    BY <1>1, <1>2, CertificateStays
  <1>3. CASE active' # active
    <2>1. PICK a \in Launchers : gate[a].written /\ gate[a].pass /\ gate[a].seen["deps"] = changed["deps"]
      BY <1>3 DEF Activate
    <2>2. active' = Certificate(changed["deps"])
      BY <1>3 DEF Activate
    <2> QED
      BY <1>1, <2>1, <2>2 DEF CertifiedMeansTested, Certificate
  <1> QED
    BY <1>2, <1>3

-----------------------------------------------------------------------------
(* The invariant is inductive *)

LEMMA GateInitSafe == GateInit => GateInv
  <1> SUFFICES ASSUME GateInit PROVE GateInv
    OBVIOUS
  <1>1. GateTypeOK
    <2>1. 1 \in DOMAIN Instants
      BY GateAssumption
    <2>2. changed \in [Files -> BOOLEAN] /\ edits \in 0 .. MaxEdits
      BY GateAssumption DEF GateInit, AsReviewed
    <2> QED
      BY <2>1, <2>2, IdleType DEF GateInit, GateTypeOK
  <1>2. ASSUME NEW l \in Launchers
        PROVE  LauncherSafe(l)
    <2>1. proc[l] = Idle /\ child[l] = "none" /\ gate[l] = NoGate
      BY DEF GateInit
    <2>2. Idle.pc = "idle" /\ Idle.mode = "gate" /\ Idle.unconfirmed = FALSE /\ NoGate.written = FALSE
      BY DEF Idle, NoGate
    <2> QED
      BY <2>1, <2>2 DEF LauncherSafe, ChildKnown, OwnsLock, Started, GateHonest, At, Inside
  <1> QED
    BY <1>1, <1>2 DEF GateInv, GateInit, CertifiedMeansTested

\* A step of a launcher.
LEMMA LauncherStep ==
  ASSUME GateInv, NEW l \in Launchers,
         (\E m \in Modes[l] : Start(l, m)) \/ Continue(l) \/ ChildEnds(l) \/ Interrupt(l) \/ Crash(l)
  PROVE  GateInv'
  <1> USE DEF GateInv
  <1>1. GateTypeOK' /\ Own(l) /\ LauncherSafe(l)' /\ CertifiedMeansTested'
    <2>1. CASE \E m \in Modes[l] : Start(l, m)
      <3>1. UNCHANGED <<active, gate>>
        BY <2>1 DEF Start
      <3> QED
        BY <2>1, <3>1, StartTypes, StartSafe, CertificateStays
    <2>2. CASE TakeLock(l) \/ Authenticate(l) \/ VerifyIcim(l) \/ EndTests(l) \/ Exit(l) \/ Crash(l)
      <3>1. UNCHANGED <<active, gate>>
        BY <2>2 DEF TakeLock, Authenticate, VerifyIcim, EndTests, Exit, Crash
      <3> QED
        BY <2>2, <3>1, MoveTypes, MoveSafe, CertificateStays
    <2>3. CASE Activate(l)
      BY <2>3, MoveTypes, MoveSafe, ActivateCertifies
    <2>4. CASE HashInputs(l) \/ StartGroup(l) \/ Timeout(l) \/ Interrupt(l) \/ ChildEnds(l)
      <3>1. UNCHANGED <<active, gate>>
        BY <2>4 DEF HashInputs, StartGroup, Timeout, Interrupt, ChildEnds
      <3> QED
        BY <2>4, <3>1, WorkTypes, WorkSafe, CertificateStays
    <2>5. CASE WriteGate(l) \/ WriteIndependent(l) \/ Release(l)
      <3>1. active' = active
        BY <2>5 DEF WriteGate, WriteIndependent, Release
      <3>2. GateTypeOK' /\ Own(l)
        BY <2>5, MoveTypes
      <3>3. /\ LauncherSafe(l)'
            /\ gate[l].written =>
                 gate'[l].written /\ gate'[l].pass = gate[l].pass /\ gate'[l].seen = gate[l].seen
        BY <2>5, WriteSafe
      <3>4. \A m \in Launchers : gate[m].written =>
              gate'[m].written /\ gate'[m].pass = gate[m].pass /\ gate'[m].seen = gate[m].seen
        BY <3>2, <3>3 DEF Own
      <3> QED
        BY <3>1, <3>2, <3>3, <3>4, CertificateStays
    <2> QED
      BY <2>1, <2>2, <2>3, <2>4, <2>5 DEF Continue
  <1>2. \A m \in Launchers \ {l} : LauncherSafe(m)'
    BY <1>1, OthersSafe
  <1> QED
    BY <1>1, <1>2

LEMMA GateNextSafe == GateInv /\ [GateNext]_gateVars => GateInv'
  <1> SUFFICES ASSUME GateInv, [GateNext]_gateVars PROVE GateInv'
    OBVIOUS
  <1> USE DEF GateInv
  <1>1. CASE Tick
    <2>1. GateTypeOK'
      BY <1>1 DEF Tick, GateTypeOK
    <2>2. UNCHANGED <<active, gate>>
      BY <1>1 DEF Tick
    <2> QED
      BY <1>1, <2>1, <2>2, TickSafe, CertificateStays
  <1>2. CASE \E f \in Editable : Edit(f)
    <2>1. PICK f \in Editable : Edit(f)
      BY <1>2
    <2>2. edits' \in 0 .. MaxEdits
      BY <2>1, GateAssumption DEF Edit, GateTypeOK
    <2>3. changed' \in [Files -> BOOLEAN]
      <3> DEFINE b == ~changed[f]
      <3>1. changed' = [changed EXCEPT ![f] = b]
        BY <2>1 DEF Edit
      <3>2. b \in BOOLEAN
        OBVIOUS
      <3> HIDE DEF b
      <3> QED
        BY <3>1, <3>2 DEF GateTypeOK
    <2>4. GateTypeOK' /\ UNCHANGED <<active, gate>>
      BY <2>1, <2>2, <2>3 DEF Edit, GateTypeOK
    <2> QED
      BY <2>1, <2>4, EditSafe, CertificateStays
  <1>3. CASE ClearLock
    <2>1. GateTypeOK' /\ UNCHANGED <<active, gate>>
      BY <1>3 DEF ClearLock, GateTypeOK
    <2> QED
      BY <1>3, <2>1, ClearLockSafe, CertificateStays
  <1>4. CASE UNCHANGED gateVars
    <2>1. UNCHANGED <<now, changed, edits, active, lock, proc, child, gate>>
      BY <1>4 DEF gateVars
    <2>2. GateTypeOK'
      BY <2>1 DEF GateTypeOK
    <2>3. \A l \in Launchers : LauncherSafe(l)'
      BY <2>1 DEF LauncherSafe, ChildKnown, OwnsLock, GateHonest, Started, At, AllPassed, Day, Phase
    <2> QED
      BY <2>1, <2>2, <2>3, CertificateStays
  <1> QED
    BY <1>1, <1>2, <1>3, <1>4, LauncherStep DEF GateNext

LEMMA GateInvariant == GateSpec => []GateInv
  BY GateInitSafe, GateNextSafe, PTL DEF GateSpec

-----------------------------------------------------------------------------
(* What the local gate promises *)

\* Every variable of the local gate keeps its type: among others, a gate.json is absent or
\* complete, and the lock names a launcher or nobody.
THEOREM GateTypes == GateSpec => []GateTypeOK
  BY GateInvariant, PTL DEF GateInv

\* However many launchers are started, killed or interrupted, and whatever becomes of their
\* test processes, two coordinated suites never run at the same time: the lock file outlives
\* the process that created it for as long as one of its tests may be alive
\* (coordinator_lock, subprocess_gate).
THEOREM OneSuite == GateSpec => []OneSuiteAtATime
  <1>1. GateInv => OneSuiteAtATime
    BY DEF GateInv, LauncherSafe, OwnsLock, OneSuiteAtATime
  <1> QED
    BY <1>1, GateInvariant, PTL

\* The clock does not go back: a launcher that began late is never released on its day.
LEMMA LateStaysLate ==
  ASSUME GateTypeOK, NEW l \in Launchers, Started(l), proc[l].pc # "idle",
         proc[l].day = Day(now), Phase(now) # "late"
  PROVE  proc[l].phase # "late"
  <1>1. PICK t \in DOMAIN Instants : t <= now /\ proc[l].day = Day(t) /\ proc[l].phase = Phase(t)
    BY DEF Started
  <1>2. CASE t = now
    BY <1>1, <1>2
  <1>3. CASE t < now
    BY <1>1, <1>3, ClockAssumption DEF GateTypeOK
  <1> QED
    BY <1>1, <1>2, <1>3, InstantType DEF GateTypeOK

\* A launcher that knows of no failure has no test process when its tests are over.
LEMMA GreenIsAlone ==
  ASSUME GateTypeOK, NEW l \in Launchers, LauncherSafe(l), proc[l].passed,
         proc[l].pc \in {"verdict", "release"}
  PROVE  child[l] = "none" /\ ~proc[l].unconfirmed
  BY PlacesDiffer DEF LauncherSafe, ChildKnown, GateHonest, At

\* What the release of one launcher needs.
ReleasedGreen(l) ==
  gate'[l] # gate[l] /\ gate'[l].release =>
    /\ gate'[l].pass /\ proc[l].passed /\ proc[l].group = Groups[proc[l].mode]
    /\ child[l] = "none" /\ ~proc[l].unconfirmed
    /\ gate'[l].day = Day(now) /\ "late" \notin {gate'[l].phase, Phase(now)}

LEMMA ReleaseIsGreen ==
  ASSUME GateInv, NEW l \in Launchers, WriteGate(l) \/ WriteIndependent(l) \/ Release(l)
  PROVE  ReleasedGreen(l)
  <1> USE DEF GateInv, At
  <1>1. CASE WriteGate(l)
    BY <1>1 DEF WriteGate, Written, ReleasedGreen, GateTypeOK
  <1>2. CASE WriteIndependent(l)
    <2> DEFINE pass == AllPassed(l) /\ SameBindings(l)
               r == pass /\ Day(now) = proc[l].day /\ Phase(now) = "window"
    <2>1. CASE gate' # gate
      <3>1. Written(l, pass, r)
        BY <1>2, <2>1 DEF WriteIndependent
      <3>2. proc[l].pc = "verdict"
        BY <1>2 DEF WriteIndependent
      <3>3. r => LauncherSafe(l) /\ proc[l].passed /\ proc[l].group = Groups[proc[l].mode]
                 /\ proc[l].day = Day(now) /\ Phase(now) # "late" /\ pass
        BY DEF AllPassed
      <3>4. r => child[l] = "none" /\ ~proc[l].unconfirmed /\ proc[l].phase # "late"
        BY <3>2, <3>3, GreenIsAlone, LateStaysLate DEF LauncherSafe
      <3> HIDE DEF pass, r
      <3>5. gate'[l].pass = pass /\ gate'[l].release = r /\ gate'[l].day = proc[l].day
            /\ gate'[l].phase = proc[l].phase
        BY <3>1 DEF Written, GateTypeOK
      <3> QED
        BY <3>3, <3>4, <3>5 DEF ReleasedGreen
    <2> QED
      BY <2>1 DEF ReleasedGreen
  <1>3. CASE Release(l)
    <2> DEFINE r == gate[l].pass /\ Day(now) = proc[l].day /\ Phase(now) # "late"
    <2>1. gate' = [gate EXCEPT ![l] = [gate[l] EXCEPT !.release = r]] /\ proc[l].pc = "release"
      BY <1>3 DEF Release
    <2>2. /\ gate[l].written /\ proc[l].mode = "daily"
          /\ gate[l].day = proc[l].day /\ gate[l].phase = proc[l].phase
          /\ gate[l].pass => AllPassed(l)
          /\ proc[l].phase # "late"
      BY <2>1 DEF LauncherSafe, GateHonest, Started
    <2>3. gate[l] \in GateFile
      BY <2>2 DEF GateTypeOK, NoGate
    <2>4. r => proc[l].passed /\ proc[l].group = Groups[proc[l].mode] /\ gate[l].pass
               /\ gate[l].day = Day(now) /\ Phase(now) # "late"
      BY <2>2 DEF AllPassed
    <2>5. r => child[l] = "none" /\ ~proc[l].unconfirmed
      BY <2>1, <2>4, GreenIsAlone
    <2> HIDE DEF r
    <2>6. gate'[l].pass = gate[l].pass /\ gate'[l].release = r /\ gate'[l].day = gate[l].day
          /\ gate'[l].phase = gate[l].phase
      BY <2>1, <2>3 DEF GateFile, GateTypeOK
    <2> QED
      BY <2>2, <2>4, <2>5, <2>6 DEF ReleasedGreen
  <1> QED
    BY <1>1, <1>2, <1>3

\* Nobody gets a released day or a certificate that was not tested green: neither by an edit
\* between the hash and the release, nor by midnight, nor by an interrupt, a lost test process
\* or a gate of another mode (gate, main, activate).
THEOREM Green == GateSpec => GreenIsTested
  <1>1. GateInv => CertifiedMeansTested
    BY DEF GateInv
  <1>2. ASSUME GateInv, [GateNext]_gateVars
        PROVE  (\A l \in Launchers : ReleasedGreen(l)) \/ UNCHANGED gateVars
    <2>1. ASSUME NEW k \in Launchers, WriteGate(k) \/ WriteIndependent(k) \/ Release(k)
          PROVE  \A l \in Launchers : ReleasedGreen(l)
      <3>1. ReleasedGreen(k)
        BY <1>2, <2>1, ReleaseIsGreen
      <3>2. \A l \in Launchers \ {k} : gate'[l] = gate[l]
        BY <1>2, <2>1, MoveTypes DEF Own, GateInv
      <3> QED
        BY <3>1, <3>2 DEF ReleasedGreen
    <2>2. (\E k \in Launchers : WriteGate(k) \/ WriteIndependent(k) \/ Release(k))
          \/ gate' = gate \/ UNCHANGED gateVars
      BY <1>2 DEF GateNext, Continue, Tick, Edit, ClearLock, Start, TakeLock, Authenticate, VerifyIcim,
                  EndTests, Exit, Crash, Activate, HashInputs, StartGroup, Timeout, Interrupt, ChildEnds
    <2> QED
      BY <2>1, <2>2 DEF ReleasedGreen
  <1>3. GateSpec => ReleaseMeansGreenToday
    BY <1>2, GateInvariant, PTL DEF GateSpec, ReleaseMeansGreenToday, ReleasedGreen
  <1> QED
    BY <1>1, <1>3, GateInvariant, PTL DEF GreenIsTested
=============================================================================
