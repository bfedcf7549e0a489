--------------------------- MODULE LocalIntradayProofs ---------------------------
(***************************************************************************)
(* Proofs about the intraday orchestration, for every set of runs, number  *)
(* of Microcap versions and number of writes to the ledger.                *)
(***************************************************************************)
EXTENDS LocalIntraday, LocalGateProofs, SequenceTheorems

-----------------------------------------------------------------------------
(* The inductive invariant *)

\* A run that has begun is bound to a gate.json and to a day of the calendar.
RunBound(r) ==
  run[r].pc # "idle" =>
    run[r].gate \in GateFile /\ run[r].gate.day \in Days /\ run[r].by \in Launchers

\* Before the claim a run has neither threads nor reports, and owns no claim.
NotBegun(r) ==
  run[r].pc \in {"idle", "claim"} =>
    /\ \A t \in Threads : thread[r][t] = IdleThread /\ ready[r][t] = "none"
    /\ \A d \in Days : claim[d][2] # r

\* A run that has threads owns the claim of its day.
ClaimOwned(r) ==
  (run[r].pc = "threads" \/ Orchestrates(r)) => claim[run[r].gate.day][2] = r

\* A successful receipt is written when the strategies are done.
ReceiptRests(r) ==
  \A d \in Days : claim[d] = <<"ok", r>> =>
    \A t \in Selected(run[r].kind) : thread[r][t].at = "done"

\* The ledger only grows, so a digest that is still that of the ledger after the
\* realtime child is the version the child read.
IcimHonest(r) ==
  LET me == thread[r]["icim"] IN
  /\ me.step <= 3 /\ me.digest <= ledger /\ me.read <= ledger
  /\ me.at = "running" => me.step # 0
  /\ me.step = 2 /\ me.at = "read" => me.digest <= me.read
  /\ (me.step = 2 /\ me.at = "next") \/ me.step = 3 => me.read = me.digest
  /\ me.step = 3 /\ me.at = "next" => me.partial
  /\ ready[r]["icim"] # "none" => me.step = 3
  /\ me.at = "done" /\ "icim" \in Selected(run[r].kind) =>
       ready[r]["icim"] = IF me.partial THEN "partial" ELSE "ready"

\* The Microcap thread owns the writer lock from its first version to its report.
MicroHonest(r) ==
  LET me == thread[r]["micro"] IN
  /\ ~me.partial /\ me.at # "read"
  /\ (me.step = Versions + 3 /\ me.at = "next") \/ me.step = Versions + 4 => ready[r]["micro"] = "ready"
  /\ me.at = "done" /\ "micro" \in Selected(run[r].kind) => me.step = Versions + 4
  /\ \/ me.step \in 3 .. Versions + 3 /\ me.at \in {"running", "lost"}
     \/ me.step \in 3 .. Versions + 2 /\ me.at = "next"
     => writer = r

ThreadHonest(r, t) == IF t = "icim" THEN IcimHonest(r) ELSE MicroHonest(r)

RunSafe(r) ==
  /\ RunBound(r) /\ NotBegun(r) /\ ClaimOwned(r) /\ ReceiptRests(r)
  /\ \A t \in Threads : ThreadHonest(r, t)

LocalInv == LocalTypeOK /\ GateInv /\ \A r \in Runs : RunSafe(r)

-----------------------------------------------------------------------------
(* The plans *)

LEMMA MicroShape ==
  /\ Len(MicroPlan) = Versions + 4
  /\ MicroPlan[1] = "intraday" /\ MicroPlan[2] = "owner"
  /\ \A i \in 3 .. Versions + 2 : MicroPlan[i] = "version"
  /\ MicroPlan[Versions + 3] = "render" /\ MicroPlan[Versions + 4] = "shutdown"
  <1> DEFINE S == {"intraday", "owner", "version", "render", "shutdown"}
             first == <<"intraday", "owner">>
             middle == [i \in 1 .. Versions |-> "version"]
             last == <<"render", "shutdown">>
  <1>1. Versions \in Nat \ {0}
    BY IntradayAssumption
  <1>2. /\ first \in Seq(S) /\ Len(first) = 2 /\ first[1] = "intraday" /\ first[2] = "owner"
        /\ last \in Seq(S) /\ Len(last) = 2 /\ last[1] = "render" /\ last[2] = "shutdown"
    <2>1. first \in Seq(S) /\ last \in Seq(S)
      OBVIOUS
    <2>2. Len(first) = 2 /\ Len(last) = 2
      OBVIOUS
    <2>3. first[1] = "intraday" /\ first[2] = "owner" /\ last[1] = "render" /\ last[2] = "shutdown"
      OBVIOUS
    <2> QED
      BY <2>1, <2>2, <2>3
  <1>3. middle \in Seq(S) /\ Len(middle) = Versions /\ \A i \in 1 .. Versions : middle[i] = "version"
    <2>1. middle \in [1 .. Versions -> S]
      OBVIOUS
    <2>2. middle \in Seq(S)
      BY <1>1, <2>1, SeqDef
    <2>3. Len(middle) = Versions
      BY <1>1, <2>1, <2>2, LenProperties
    <2> QED
      BY <2>2, <2>3
  <1>4. MicroPlan = (first \o middle) \o last
    BY DEF MicroPlan
  <1> HIDE DEF first, middle, last
  <1>5. /\ first \o middle \in Seq(S) /\ Len(first \o middle) = Versions + 2
        /\ \A i \in 1 .. Versions + 2 :
             (first \o middle)[i] = IF i <= 2 THEN first[i] ELSE middle[i - 2]
    <2>1. /\ first \o middle \in Seq(S) /\ Len(first \o middle) = Len(first) + Len(middle)
          /\ \A i \in 1 .. Len(first) + Len(middle) :
               (first \o middle)[i] = IF i <= Len(first) THEN first[i] ELSE middle[i - Len(first)]
      <3> HIDE DEF S
      <3> QED
        BY <1>2, <1>3, ConcatProperties, Zenon
    <2> QED
      BY <1>1, <1>2, <1>3, <2>1
  <1>6. /\ Len(MicroPlan) = Versions + 4
        /\ \A i \in 1 .. Versions + 4 :
             MicroPlan[i] = IF i <= Versions + 2 THEN (first \o middle)[i] ELSE last[i - (Versions + 2)]
    <2> DEFINE front == first \o middle
    <2>1. front \in Seq(S) /\ Len(front) = Versions + 2
      BY <1>5
    <2> HIDE DEF front
    <2>2. /\ Len(front \o last) = Len(front) + Len(last)
          /\ \A i \in 1 .. Len(front) + Len(last) :
               (front \o last)[i] = IF i <= Len(front) THEN front[i] ELSE last[i - Len(front)]
      <3> HIDE DEF S
      <3> QED
        BY <1>2, <2>1, ConcatProperties, Zenon
    <2>3. /\ Len(MicroPlan) = Versions + 4
          /\ \A i \in 1 .. Versions + 4 :
               MicroPlan[i] = IF i <= Versions + 2 THEN front[i] ELSE last[i - (Versions + 2)]
      BY <1>1, <1>2, <1>4, <2>1, <2>2 DEF front
    <2> QED
      BY <2>3 DEF front
  <1>7. ASSUME NEW i \in 1 .. Versions + 2
        PROVE  MicroPlan[i] = IF i <= 2 THEN first[i] ELSE middle[i - 2]
    <2>1. i \in 1 .. Versions + 4 /\ i <= Versions + 2
      BY <1>1
    <2> HIDE DEF first, middle, last
    <2>2. MicroPlan[i] = (first \o middle)[i]
      BY <1>6, <2>1
    <2> QED
      BY <1>5, <2>2
  <1>8. \A i \in 3 .. Versions + 2 : middle[i - 2] = "version"
    BY <1>1, <1>3
  <1>9. MicroPlan[1] = "intraday" /\ MicroPlan[2] = "owner"
    BY <1>1, <1>2, <1>7
  <1>10. \A i \in 3 .. Versions + 2 : MicroPlan[i] = "version"
    BY <1>1, <1>7, <1>8
  <1>11. MicroPlan[Versions + 3] = "render" /\ MicroPlan[Versions + 4] = "shutdown"
    BY <1>1, <1>2, <1>6
  <1> QED
    BY <1>6, <1>9, <1>10, <1>11

LEMMA PlanShape ==
  /\ Plan["micro"] = MicroPlan
  /\ Len(Plan["icim"]) = 3 /\ Plan["icim"][1] = "dry_run" /\ Plan["icim"][2] = "realtime"
  /\ Plan["icim"][3] = "render"
  BY DEF Plan

-----------------------------------------------------------------------------
(* What a step of one run leaves alone *)

LEMMA SetThread ==
  ASSUME LocalTypeOK, NEW r \in Runs, NEW t \in Threads, NEW new \in ThreadState, Set(r, t, new)
  PROVE  /\ thread' \in [Runs -> [Threads -> ThreadState]] /\ thread'[r][t] = new
         /\ \A u \in Threads \ {t} : thread'[r][u] = thread[r][u]
         /\ \A s \in Runs \ {r} : thread'[s] = thread[s]
  BY DEF LocalTypeOK, Set

LEMMA OtherRunSafe ==
  ASSUME LocalTypeOK, NEW r \in Runs, NEW s \in Runs \ {r}, RunSafe(s),
         run'[s] = run[s], thread'[s] = thread[s], ready'[s] = ready[s], ledger' = ledger,
         \A d \in Days : claim'[d] = claim[d] \/ (claim'[d][2] = r /\ claim[d][2] # s),
         writer = s => writer' = s
  PROVE  RunSafe(s)'
  <1>1. RunBound(s)'
    BY DEF RunSafe, RunBound, Days
  <1>2. NotBegun(s)'
    BY DEF RunSafe, NotBegun, Days
  <1>3. ClaimOwned(s)'
    <2>1. ASSUME Orchestrates(s) \/ run[s].pc = "threads" PROVE run[s].gate.day \in Days
      BY <2>1 DEF RunSafe, RunBound, NotBegun, Orchestrates, IdleThread
    <2> QED
      BY <2>1 DEF RunSafe, ClaimOwned, Orchestrates
  <1>4. ReceiptRests(s)'
    BY DEF RunSafe, ReceiptRests, Days
  <1>5. ASSUME NEW t \in Threads PROVE ThreadHonest(s, t)'
    <2>1. IcimHonest(s) /\ MicroHonest(s)
      BY DEF RunSafe, ThreadHonest, Threads
    <2> QED
      BY <2>1 DEF ThreadHonest, IcimHonest, MicroHonest
  <1> QED
    BY <1>1, <1>2, <1>3, <1>4, <1>5 DEF RunSafe

\* A thread that works takes its own step.
LEMMA ThreadStepSafe ==
  ASSUME LocalTypeOK, NEW r \in Runs, \A s \in Runs : RunSafe(s), NEW t \in Threads,
         NEW new \in ThreadState, Set(r, t, new), UNCHANGED <<run, claim, ledger>>,
         thread[r][t].at \notin {"idle", "done"},
         \A s \in Runs \ {r} : ready'[s] = ready[s] /\ (writer = s => writer' = s),
         \A u \in Threads \ {t} : ready'[r][u] = ready[r][u],
         t = "icim" => writer' = writer,
         ThreadHonest(r, t)'
  PROVE  \A s \in Runs : RunSafe(s)'
  <1>1. \A s \in Runs \ {r} : RunSafe(s)'
    BY SetThread, OtherRunSafe
  <1>2. /\ thread'[r][t] = new
        /\ \A u \in Threads \ {t} : thread'[r][u] = thread[r][u]
    BY SetThread
  <1>3. RunSafe(r)
    OBVIOUS
  <1>4. RunBound(r)'
    BY <1>3 DEF RunSafe, RunBound, Days
  <1>5. run[r].pc \notin {"idle", "claim"} /\ Orchestrates(r)
    BY <1>3 DEF RunSafe, NotBegun, IdleThread, Orchestrates
  <1>6. NotBegun(r)' /\ ClaimOwned(r)'
    BY <1>3, <1>5 DEF RunSafe, NotBegun, ClaimOwned
  <1>7. ReceiptRests(r)'
    BY <1>2, <1>3 DEF RunSafe, ReceiptRests, Days, Selected, Threads
  <1>8. ASSUME NEW u \in Threads \ {t} PROVE ThreadHonest(r, u)'
    <2>1. ThreadHonest(r, u) /\ thread'[r][u] = thread[r][u] /\ ready'[r][u] = ready[r][u]
      BY <1>2, <1>3 DEF RunSafe
    <2> QED
      BY <2>1 DEF ThreadHonest, IcimHonest, MicroHonest, Threads
  <1> QED
    BY <1>1, <1>3, <1>4, <1>6, <1>7, <1>8 DEF RunSafe

\* The fields of a thread.
LEMMA ThreadFields ==
  ASSUME LocalTypeOK, NEW r \in Runs, NEW t \in Threads
  PROVE  /\ thread[r][t] \in ThreadState
         /\ thread[r][t].step \in Nat /\ thread[r][t].digest \in Nat /\ thread[r][t].read \in Nat
         /\ thread[r][t].partial \in BOOLEAN
         /\ thread[r][t].at \in {"idle", "next", "running", "read", "lost", "done", "failed"}
         /\ Len(MicroPlan) = Versions + 4 /\ Versions \in Nat \ {0} /\ MaxTouches \in Nat /\ ledger \in Nat
  <1>1. thread[r][t] \in ThreadState
    BY DEF LocalTypeOK
  <1>2. Len(MicroPlan) = Versions + 4 /\ Versions \in Nat \ {0} /\ MaxTouches \in Nat
    BY MicroShape, IntradayAssumption
  <1> QED
    BY <1>1, <1>2 DEF ThreadState, LocalTypeOK

LEMMA StateField ==
  ASSUME NEW me \in ThreadState
  PROVE  /\ \A a \in {"idle", "next", "running", "read", "lost", "done", "failed"} : [me EXCEPT !.at = a] \in ThreadState
         /\ \A n \in 0 .. Len(MicroPlan) : [me EXCEPT !.step = n] \in ThreadState
         /\ \A n \in 0 .. MaxTouches : [me EXCEPT !.digest = n] \in ThreadState
         /\ \A n \in 0 .. MaxTouches : [me EXCEPT !.read = n] \in ThreadState
         /\ \A b \in BOOLEAN : [me EXCEPT !.partial = b] \in ThreadState
  <1>1. \A a \in {"idle", "next", "running", "read", "lost", "done", "failed"} : [me EXCEPT !.at = a] \in ThreadState
    BY DEF ThreadState
  <1>2. \A n \in 0 .. Len(MicroPlan) : [me EXCEPT !.step = n] \in ThreadState
    BY DEF ThreadState
  <1>3. \A n \in 0 .. MaxTouches : [me EXCEPT !.digest = n] \in ThreadState
    BY DEF ThreadState
  <1>4. \A n \in 0 .. MaxTouches : [me EXCEPT !.read = n] \in ThreadState
    BY DEF ThreadState
  <1>5. \A b \in BOOLEAN : [me EXCEPT !.partial = b] \in ThreadState
    BY DEF ThreadState
  <1> QED
    BY <1>1, <1>2, <1>3, <1>4, <1>5

-----------------------------------------------------------------------------
(* The threads *)

LEMMA GateSame ==
  ASSUME LocalInv, UNCHANGED gateVars
  PROVE  GateInv' /\ GateTypeOK'
  <1>1. GateInv'
    BY GateNextSafe DEF LocalInv
  <1> QED
    BY <1>1 DEF GateInv

\* A step of one thread, once its own promise and the owner of the lock are known.
LEMMA ThreadStep ==
  ASSUME LocalInv, NEW r \in Runs, NEW t \in Threads, NEW new \in ThreadState, Set(r, t, new),
         UNCHANGED <<gateVars, run, claim, ledger>>, thread[r][t].at \notin {"idle", "done"},
         ready' = ready \/ \E v \in {"ready", "partial"} : ready' = [ready EXCEPT ![r][t] = v],
         writer' \in Runs \cup {NoOne, Other},
         \A s \in Runs \ {r} : writer = s => writer' = s,
         t = "icim" => writer' = writer,
         ThreadHonest(r, t)'
  PROVE  LocalInv'
  <1> USE DEF LocalInv
  <1>1. GateInv' /\ GateTypeOK'
    BY GateSame
  <1>2. ready' \in [Runs -> [Threads -> {"none", "ready", "partial"}]]
        /\ (\A s \in Runs \ {r} : ready'[s] = ready[s])
        /\ (\A u \in Threads \ {t} : ready'[r][u] = ready[r][u])
    <2>1. CASE ready' = ready
      BY <2>1 DEF LocalTypeOK
    <2>2. CASE \E v \in {"ready", "partial"} : ready' = [ready EXCEPT ![r][t] = v]
      <3>1. PICK v \in {"ready", "partial"} : ready' = [ready EXCEPT ![r][t] = v]
        BY <2>2
      <3> QED
        BY <3>1 DEF LocalTypeOK
    <2> QED
      BY <2>1, <2>2
  <1>3. LocalTypeOK'
    BY <1>1, <1>2, SetThread DEF LocalTypeOK, Days
  <1>4. \A s \in Runs : RunSafe(s)'
    BY <1>2, ThreadStepSafe
  <1> QED
    BY <1>1, <1>3, <1>4

LEMMA UnlockKeeps ==
  ASSUME LocalInv, NEW r \in Runs, NEW t \in Threads, Unlock(r, t)
  PROVE  /\ writer' \in Runs \cup {NoOne, Other} /\ (t = "icim" => writer' = writer)
         /\ \A s \in Runs \ {r} : writer = s => writer' = s
  BY DEF Unlock, LocalInv, LocalTypeOK

LEMMA StartIcim ==
  ASSUME LocalInv, NEW r \in Runs, StartCommand(r, "icim")
  PROVE  LocalInv'
  <1> DEFINE t == "icim"
             me == thread[r][t]
             n == me.step + 1
             run1 == [me EXCEPT !.step = n, !.at = "running"]
             stop == [me EXCEPT !.at = "failed"]
  <1>1. me.at = "next" /\ n \in 1 .. 3 /\ n \in 0 .. Len(MicroPlan) /\ me.step = n - 1
    <2>1. me.at = "next" /\ me.step < Len(Plan[t])
      BY DEF StartCommand
    <2>2. me.step \in Nat /\ Len(MicroPlan) = Versions + 4 /\ Versions \in Nat \ {0}
      BY ThreadFields DEF Threads, LocalInv
    <2> QED
      BY <2>1, <2>2, PlanShape
  <1>2. /\ UNCHANGED <<gateVars, run, claim, ready, ledger>> /\ writer' = writer
        /\ Set(r, t, run1) \/ Set(r, t, stop)
    <2>1. Upcoming(r, t) # "version"
      BY <1>1, PlanShape DEF Upcoming
    <2> QED
      BY <2>1 DEF StartCommand, Unlock
  <1>3. me \in ThreadState /\ IcimHonest(r) /\ t \in Threads
    BY ThreadFields DEF LocalInv, RunSafe, ThreadHonest, Threads
  <1>4. run1 \in ThreadState /\ stop \in ThreadState
    <2> HIDE DEF n
    <2> QED
      BY <1>1, <1>3, StateField
  <1>5. ThreadHonest(r, t)'
    <2>1. CASE Set(r, t, run1)
      <3>1. thread'[r][t] = run1
        BY <1>3, <1>4, <2>1, SetThread DEF LocalInv
      <3>2. /\ run1.step = n /\ run1.at = "running" /\ run1.digest = me.digest
            /\ run1.read = me.read /\ run1.partial = me.partial
        BY <1>3 DEF ThreadState
      <3> QED
        <4> HIDE DEF run1, n
        <4> QED
          BY <1>1, <1>2, <1>3, <3>1, <3>2 DEF ThreadHonest, IcimHonest
    <2>2. CASE Set(r, t, stop)
      <3>1. thread'[r][t] = stop
        BY <1>3, <1>4, <2>2, SetThread DEF LocalInv
      <3>2. /\ stop.step = me.step /\ stop.at = "failed" /\ stop.digest = me.digest
            /\ stop.read = me.read /\ stop.partial = me.partial
        BY <1>3 DEF ThreadState
      <3> QED
        BY <1>1, <1>2, <1>3, <3>1, <3>2 DEF ThreadHonest, IcimHonest
    <2> QED
      BY <1>2, <2>1, <2>2
  <1> HIDE DEF t, me, run1, stop
  <1>6. thread[r][t].at = "next"
    BY <1>1 DEF me
  <1>7. writer' \in Runs \cup {NoOne, Other}
    BY <1>2 DEF LocalInv, LocalTypeOK
  <1> QED
    BY <1>2, <1>3, <1>4, <1>5, <1>6, <1>7, ThreadStep

LEMMA StartMicro ==
  ASSUME LocalInv, NEW r \in Runs, StartCommand(r, "micro")
  PROVE  LocalInv'
  <1> DEFINE t == "micro"
             me == thread[r][t]
             n == me.step + 1
             first == Upcoming(r, t) = "version" /\ writer # r
             run1 == [me EXCEPT !.step = n, !.at = "running"]
             stop == [me EXCEPT !.at = "failed"]
  <1>1. /\ me.at = "next" /\ me.step \in Nat /\ n \in 1 .. Versions + 4 /\ n \in 0 .. Len(MicroPlan)
        /\ me.step = n - 1 /\ Versions \in Nat \ {0}
    <2>1. me.at = "next" /\ me.step < Len(Plan[t])
      BY DEF StartCommand
    <2>2. me.step \in Nat /\ Len(MicroPlan) = Versions + 4 /\ Versions \in Nat \ {0}
      BY ThreadFields DEF Threads, LocalInv
    <2> QED
      BY <2>1, <2>2, PlanShape
  <1>2. UNCHANGED <<gateVars, run, claim, ready, ledger>>
    BY DEF StartCommand
  <1>3. \/ Set(r, t, run1) /\ writer' = (IF first THEN r ELSE writer) /\ (first => writer = NoOne)
        \/ Set(r, t, stop) /\ Unlock(r, t)
    BY DEF StartCommand
  <1>4. n \in 3 .. Versions + 2 => Upcoming(r, t) = "version"
    BY PlanShape, MicroShape DEF Upcoming
  <1>5. me \in ThreadState /\ MicroHonest(r) /\ t \in Threads
    BY ThreadFields DEF LocalInv, RunSafe, ThreadHonest, Threads
  <1>6. run1 \in ThreadState /\ stop \in ThreadState
    <2> HIDE DEF n
    <2> QED
      BY <1>1, <1>5, StateField
  <1>7. ThreadHonest(r, t)'
    <2>1. CASE Set(r, t, run1) /\ writer' = (IF first THEN r ELSE writer)
      <3>1. thread'[r][t] = run1
        BY <1>5, <1>6, <2>1, SetThread DEF LocalInv
      <3>2. /\ run1.step = n /\ run1.at = "running" /\ run1.partial = me.partial
        BY <1>5 DEF ThreadState
      <3>3. n \in 3 .. Versions + 3 => writer' = r
        <4>1. n \in 3 .. Versions + 2 => writer' = r
          BY <1>4, <2>1
        <4>2. n = Versions + 3 => writer = r
          BY <1>1, <1>5 DEF MicroHonest
        <4> HIDE DEF n, me
        <4> QED
          BY <1>1, <2>1, <4>1, <4>2
      <3>4. n = Versions + 4 => ready[r][t] = "ready"
        BY <1>1, <1>5 DEF MicroHonest
      <3> QED
        BY <1>1, <1>2, <1>5, <3>1, <3>2, <3>3, <3>4 DEF ThreadHonest, MicroHonest
    <2>2. CASE Set(r, t, stop)
      <3>1. thread'[r][t] = stop
        BY <1>5, <1>6, <2>2, SetThread DEF LocalInv
      <3>2. stop.step = me.step /\ stop.at = "failed" /\ stop.partial = me.partial
        BY <1>5 DEF ThreadState
      <3> QED
        BY <1>1, <1>2, <1>5, <3>1, <3>2 DEF ThreadHonest, MicroHonest
    <2> QED
      BY <1>3, <2>1, <2>2
  <1>8. writer' \in Runs \cup {NoOne, Other} /\ \A s \in Runs \ {r} : writer = s => writer' = s
    <2>1. CASE Unlock(r, t)
      BY <1>5, <2>1, UnlockKeeps
    <2>2. CASE writer' = (IF first THEN r ELSE writer) /\ (first => writer = NoOne)
      BY <2>2, IntradayAssumption DEF LocalInv, LocalTypeOK
    <2> QED
      BY <1>3, <2>1, <2>2
  <1>9. Set(r, t, run1) \/ Set(r, t, stop)
    BY <1>3
  <1>10. t # "icim" /\ thread[r][t].at = "next"
    BY <1>1
  <1> HIDE DEF t, me, run1, stop
  <1> QED
    BY <1>2, <1>5, <1>6, <1>7, <1>8, <1>9, <1>10, ThreadStep

\* A child of the IC/IM strategy that runs, and what its end is waited for with.
LEMMA IcimWaits ==
  ASSUME LocalInv, NEW r \in Runs, thread[r]["icim"].step > 0, Waiting(r, "icim")
  PROVE  /\ thread[r]["icim"].step \in 1 .. 3
         /\ thread[r]["icim"].step # 3 => thread[r]["icim"].at = "read"
         /\ thread[r]["icim"].step = 3 => thread[r]["icim"].at = "running"
         /\ Running(r, "icim") = CASE thread[r]["icim"].step = 1 -> "dry_run"
                                   [] thread[r]["icim"].step = 2 -> "realtime"
                                   [] OTHER -> "render"
  <1>1. "icim" \in Threads /\ IcimHonest(r)
    BY DEF Threads, LocalInv, RunSafe, ThreadHonest
  <1>2. thread[r]["icim"].step \in Nat
    BY <1>1, ThreadFields DEF LocalInv
  <1>3. thread[r]["icim"].step \in 1 .. 3
    BY <1>1, <1>2 DEF IcimHonest
  <1> QED
    BY <1>3, PlanShape DEF Waiting, Running

LEMMA MicroWaits ==
  ASSUME LocalInv, NEW r \in Runs, thread[r]["micro"].step > 0, Waiting(r, "micro")
  PROVE  /\ thread[r]["micro"].step \in 1 .. Versions + 4 /\ thread[r]["micro"].at = "running"
         /\ Running(r, "micro") = "render" <=> thread[r]["micro"].step = Versions + 3
         /\ Running(r, "micro") = "shutdown" <=> thread[r]["micro"].step = Versions + 4
         /\ Running(r, "micro") # "realtime"
  <1>1. "micro" \in Threads
    BY DEF Threads
  <1>2. thread[r]["micro"].step \in 0 .. Len(MicroPlan) /\ Len(MicroPlan) = Versions + 4 /\ Versions \in Nat \ {0}
    BY <1>1, ThreadFields DEF LocalInv, ThreadState
  <1>3. thread[r]["micro"].step \in 1 .. Versions + 4
    BY <1>2
  <1> DEFINE k == thread[r]["micro"].step
  <1>4. k \in {1, 2, Versions + 3, Versions + 4} \/ k \in 3 .. Versions + 2
    BY <1>2, <1>3
  <1>5. Running(r, "micro") = MicroPlan[k]
    BY PlanShape DEF Running
  <1> HIDE DEF k
  <1>6. /\ k \in 1 .. 2 => MicroPlan[k] \in {"intraday", "owner"}
        /\ k \in 3 .. Versions + 2 => MicroPlan[k] = "version"
        /\ k = Versions + 3 => MicroPlan[k] = "render"
        /\ k = Versions + 4 => MicroPlan[k] = "shutdown"
    BY MicroShape
  <1>7. /\ MicroPlan[k] = "render" <=> k = Versions + 3
        /\ MicroPlan[k] = "shutdown" <=> k = Versions + 4
        /\ MicroPlan[k] # "realtime"
    BY <1>2, <1>4, <1>6
  <1>8. thread[r]["micro"].at = "running"
    BY DEF Waiting
  <1> QED
    BY <1>3, <1>5, <1>7, <1>8 DEF k

\* The thread of one strategy moves to another state of the same command.
LEMMA AtStep ==
  ASSUME LocalInv, NEW r \in Runs, NEW t \in Threads, NEW a \in {"next", "done", "failed"},
         Set(r, t, [thread[r][t] EXCEPT !.at = a])
  PROVE  /\ [thread[r][t] EXCEPT !.at = a] \in ThreadState
         /\ thread'[r][t].at = a /\ thread'[r][t].partial = thread[r][t].partial
         /\ thread'[r][t].step = thread[r][t].step
         /\ thread'[r][t].digest = thread[r][t].digest /\ thread'[r][t].read = thread[r][t].read
  <1> DEFINE me == thread[r][t]
             new == [me EXCEPT !.at = a]
  <1>1. me \in ThreadState
    BY ThreadFields DEF LocalInv
  <1>2. new \in ThreadState
    BY <1>1, StateField
  <1>3. new.at = a /\ new.partial = me.partial /\ new.step = me.step
        /\ new.digest = me.digest /\ new.read = me.read
    BY <1>1 DEF ThreadState
  <1> HIDE DEF new
  <1>4. thread'[r][t] = new
    BY <1>2, SetThread DEF LocalInv, new
  <1> QED
    BY <1>2, <1>3, <1>4 DEF new

LEMMA PartialStep ==
  ASSUME LocalInv, NEW r \in Runs, NEW t \in Threads,
         Set(r, t, [thread[r][t] EXCEPT !.at = "next", !.partial = TRUE])
  PROVE  /\ [thread[r][t] EXCEPT !.at = "next", !.partial = TRUE] \in ThreadState
         /\ thread'[r][t].at = "next" /\ thread'[r][t].partial = TRUE
         /\ thread'[r][t].step = thread[r][t].step
         /\ thread'[r][t].digest = thread[r][t].digest /\ thread'[r][t].read = thread[r][t].read
  <1> DEFINE me == thread[r][t]
             new == [me EXCEPT !.at = "next", !.partial = TRUE]
  <1>1. me \in ThreadState
    BY ThreadFields DEF LocalInv
  <1>2. new \in ThreadState
    BY <1>1 DEF ThreadState
  <1>3. new.at = "next" /\ new.partial = TRUE /\ new.step = me.step
        /\ new.digest = me.digest /\ new.read = me.read
    BY <1>1 DEF ThreadState
  <1> HIDE DEF new
  <1>4. thread'[r][t] = new
    BY <1>2, SetThread DEF LocalInv, new
  <1> QED
    BY <1>2, <1>3, <1>4 DEF new

LEMMA DoneIcim ==
  ASSUME LocalInv, NEW r \in Runs, Done(r, "icim")
  PROVE  LocalInv'
  <1> DEFINE t == "icim"
             me == thread[r][t]
             new(a) == [me EXCEPT !.at = a]
             Ends(a) ==
               \/ a = "failed" /\ ready' = ready
               \/ /\ a = "next" /\ ready' = ready
                  /\ me.step = 1 \/ (me.step = 2 /\ me.at = "read" /\ me.digest = ledger)
               \/ /\ a = (IF me.partial THEN "next" ELSE "done")
                  /\ me.step = 3 /\ ready' = [ready EXCEPT ![r][t] = "ready"]
  <1>1. me.step > 0 /\ Waiting(r, t) /\ UNCHANGED <<gateVars, run, claim, ledger>> /\ t \in Threads
    BY DEF Done, Threads
  <1>2. writer' = writer
    BY DEF Done, Unlock
  <1>3. IcimHonest(r) /\ me.at \in {"read", "running"} /\ me.step \in 1 .. 3
    BY <1>1, IcimWaits DEF LocalInv, RunSafe, ThreadHonest
  <1>4. PICK a \in {"next", "done", "failed"} : Set(r, t, new(a)) /\ Ends(a)
    <2>1. CASE ~Confirmed(r, t)
      BY <2>1 DEF Done
    <2>2. CASE Confirmed(r, t)
      <3> DEFINE b == IF me.step = Len(Plan[t]) /\ ~me.partial THEN "done" ELSE "next"
      <3>1. /\ Set(r, t, new(b))
            /\ ready' = IF Running(r, t) = "render" THEN [ready EXCEPT ![r][t] = "ready"] ELSE ready
        BY <2>2 DEF Done
      <3>2. me.step = 2 => me.at = "read" /\ me.digest = ledger
        BY <1>1, <2>2, IcimWaits DEF Confirmed, LedgerAsChecked
      <3>3. me.step \in 1 .. 3 /\ (me.step = 3 <=> Running(r, t) = "render")
        BY <1>1, IcimWaits
      <3>4. b = (IF me.step = 3 /\ ~me.partial THEN "done" ELSE "next") /\ b \in {"next", "done"}
        BY PlanShape
      <3> HIDE DEF me, t, b, new
      <3>5. Ends(b)
        BY <3>1, <3>2, <3>3, <3>4
      <3> QED
        BY <3>1, <3>4, <3>5
    <2> QED
      BY <2>1, <2>2
  <1>5. /\ new(a) \in ThreadState
        /\ thread'[r][t].digest = me.digest /\ thread'[r][t].read = me.read /\ thread'[r][t].step = me.step
        /\ thread'[r][t].partial = me.partial /\ thread'[r][t].at = a
    BY <1>1, <1>4, AtStep
  <1>6. ThreadHonest(r, t)'
    <2>1. me.step = 3 /\ a # "failed" => ready'[r][t] = "ready"
      BY <1>1, <1>4 DEF LocalInv, LocalTypeOK
    <2>2. me.step \in Nat /\ me.digest \in Nat /\ me.read \in Nat /\ ledger \in Nat
      BY <1>1, ThreadFields DEF LocalInv
    <2>3. IcimHonest(r)'
      <3> HIDE DEF new
      <3> QED
        BY <1>1, <1>3, <1>4, <1>5, <2>1, <2>2 DEF IcimHonest
    <2> QED
      BY <2>3 DEF ThreadHonest
  <1>7. ready' = ready \/ \E v \in {"ready", "partial"} : ready' = [ready EXCEPT ![r][t] = v]
    BY <1>4
  <1>8. me.at \notin {"idle", "done"} /\ writer' \in Runs \cup {NoOne, Other}
    BY <1>2, <1>3 DEF LocalInv, LocalTypeOK
  <1> HIDE DEF t, new
  <1> QED
    BY <1>1, <1>2, <1>4, <1>5, <1>6, <1>7, <1>8, ThreadStep

LEMMA DoneMicro ==
  ASSUME LocalInv, NEW r \in Runs, Done(r, "micro")
  PROVE  LocalInv'
  <1> DEFINE t == "micro"
             me == thread[r][t]
             new(a) == [me EXCEPT !.at = a]
             Ends(a) ==
               \/ a = "failed" /\ ready' = ready
               \/ a = "next" /\ me.step < Versions + 3 /\ ready' = ready /\ writer' = writer
               \/ a = "next" /\ me.step = Versions + 3 /\ ready' = [ready EXCEPT ![r][t] = "ready"]
               \/ a = "done" /\ me.step = Versions + 4 /\ ready' = ready
  <1>1. me.step > 0 /\ Waiting(r, t) /\ UNCHANGED <<gateVars, run, claim, ledger>> /\ t \in Threads
    BY DEF Done, Threads
  <1>2. Unlock(r, t) \/ writer' = writer
    BY DEF Done
  <1>3. /\ MicroHonest(r) /\ me.at = "running" /\ ~me.partial
        /\ me.step \in 1 .. Versions + 4 /\ Versions \in Nat
    BY <1>1, MicroWaits, IntradayAssumption DEF LocalInv, RunSafe, ThreadHonest, MicroHonest
  <1>4. PICK a \in {"next", "done", "failed"} : Set(r, t, new(a)) /\ Ends(a)
    <2>1. CASE ~Confirmed(r, t)
      BY <2>1 DEF Done
    <2>2. CASE Confirmed(r, t)
      <3> DEFINE b == IF me.step = Len(Plan[t]) /\ ~me.partial THEN "done" ELSE "next"
      <3>1. /\ Set(r, t, new(b))
            /\ ready' = IF Running(r, t) = "render" THEN [ready EXCEPT ![r][t] = "ready"] ELSE ready
            /\ Running(r, t) # "render" => writer' = writer
        BY <2>2 DEF Done, LeavesLock
      <3>2. Running(r, t) = "render" <=> me.step = Versions + 3
        BY <1>1, MicroWaits
      <3>3. b = (IF me.step = Versions + 4 THEN "done" ELSE "next") /\ b \in {"next", "done"}
        BY <1>3, PlanShape, MicroShape
      <3> HIDE DEF me, t, b, new
      <3>4. Ends(b)
        BY <1>3, <3>1, <3>2, <3>3
      <3> QED
        BY <3>1, <3>3, <3>4
    <2> QED
      BY <2>1, <2>2
  <1>5. /\ new(a) \in ThreadState
        /\ thread'[r][t].step = me.step /\ thread'[r][t].partial = me.partial /\ thread'[r][t].at = a
    BY <1>1, <1>4, AtStep
  <1>6. ThreadHonest(r, t)'
    <2>1. ready'[r][t] = IF me.step = Versions + 3 /\ a # "failed" THEN "ready" ELSE ready[r][t]
      BY <1>1, <1>3, <1>4 DEF LocalInv, LocalTypeOK
    <2>2. MicroHonest(r)'
      <3> HIDE DEF new
      <3> QED
        BY <1>1, <1>3, <1>4, <1>5, <2>1 DEF MicroHonest
    <2> QED
      BY <2>2 DEF ThreadHonest
  <1>7. ready' = ready \/ \E v \in {"ready", "partial"} : ready' = [ready EXCEPT ![r][t] = v]
    BY <1>4
  <1>8. /\ me.at \notin {"idle", "done"} /\ writer' \in Runs \cup {NoOne, Other} /\ t # "icim"
        /\ \A s \in Runs \ {r} : writer = s => writer' = s
    BY <1>1, <1>2, <1>3, UnlockKeeps DEF LocalInv, LocalTypeOK
  <1> HIDE DEF t, new
  <1> QED
    BY <1>1, <1>4, <1>5, <1>6, <1>7, <1>8, ThreadStep

LEMMA FailsIcim ==
  ASSUME LocalInv, NEW r \in Runs, Fails(r, "icim")
  PROVE  LocalInv'
  <1> DEFINE t == "icim"
             me == thread[r][t]
             stop == [me EXCEPT !.at = "failed"]
             over == [me EXCEPT !.at = "done"]
             part == [me EXCEPT !.at = "next", !.partial = TRUE]
  <1>1. me.step > 0 /\ Waiting(r, t) /\ UNCHANGED <<gateVars, run, claim, ledger>> /\ t \in Threads
    BY DEF Fails, Threads
  <1>2. writer' = writer
    BY DEF Fails, Unlock
  <1>3. IcimHonest(r) /\ me.at \in {"read", "running"} /\ me.step \in 1 .. 3
    BY <1>1, IcimWaits DEF LocalInv, RunSafe, ThreadHonest
  <1>4. \/ Set(r, t, stop) /\ ready' = ready
        \/ Set(r, t, over) /\ me.step = 3 /\ me.partial /\ ready' = [ready EXCEPT ![r][t] = "partial"]
        \/ Set(r, t, part) /\ me.step = 2 /\ me.at = "read" /\ me.digest = ledger /\ ready' = ready
    <2>1. /\ Running(r, t) # "shutdown"
          /\ Running(r, t) = "render" => me.step = 3
          /\ Running(r, t) = "realtime" => me.step = 2 /\ me.at = "read"
      BY <1>1, IcimWaits
    <2> QED
      BY <2>1 DEF Fails, LedgerAsChecked
  <1>5. me.step \in Nat /\ me.digest \in Nat /\ me.read \in Nat /\ ledger \in Nat
    BY <1>1, ThreadFields DEF LocalInv
  <1>6. ready' = ready \/ \E v \in {"ready", "partial"} : ready' = [ready EXCEPT ![r][t] = v]
    BY <1>4
  <1>7. me.at \notin {"idle", "done"} /\ writer' \in Runs \cup {NoOne, Other}
    BY <1>2, <1>3 DEF LocalInv, LocalTypeOK
  <1>8. CASE Set(r, t, stop) /\ ready' = ready
    <2>1. /\ stop \in ThreadState
          /\ thread'[r][t].digest = me.digest /\ thread'[r][t].read = me.read /\ thread'[r][t].step = me.step
          /\ thread'[r][t].partial = me.partial /\ thread'[r][t].at = "failed"
      BY <1>1, <1>8, AtStep
    <2> HIDE DEF stop
    <2>2. ThreadHonest(r, t)'
      BY <1>1, <1>3, <1>5, <1>8, <2>1 DEF IcimHonest, ThreadHonest
    <2> HIDE DEF t
    <2> QED
      BY <1>1, <1>2, <1>6, <1>7, <1>8, <2>1, <2>2, ThreadStep
  <1>9. CASE Set(r, t, over) /\ me.step = 3 /\ me.partial /\ ready' = [ready EXCEPT ![r][t] = "partial"]
    <2>1. /\ over \in ThreadState
          /\ thread'[r][t].digest = me.digest /\ thread'[r][t].read = me.read /\ thread'[r][t].step = me.step
          /\ thread'[r][t].partial = me.partial /\ thread'[r][t].at = "done"
      BY <1>1, <1>9, AtStep
    <2> HIDE DEF over
    <2>2. ready'[r][t] = "partial"
      BY <1>1, <1>9 DEF LocalInv, LocalTypeOK
    <2>3. ThreadHonest(r, t)'
      BY <1>1, <1>3, <1>5, <1>9, <2>1, <2>2 DEF IcimHonest, ThreadHonest
    <2> HIDE DEF t
    <2> QED
      BY <1>1, <1>2, <1>6, <1>7, <1>9, <2>1, <2>3, ThreadStep
  <1>10. CASE Set(r, t, part) /\ me.step = 2 /\ me.at = "read" /\ me.digest = ledger /\ ready' = ready
    <2>1. /\ part \in ThreadState
          /\ thread'[r][t].digest = me.digest /\ thread'[r][t].read = me.read /\ thread'[r][t].step = me.step
          /\ thread'[r][t].partial = TRUE /\ thread'[r][t].at = "next"
      BY <1>1, <1>10, PartialStep
    <2> HIDE DEF part
    <2>2. ThreadHonest(r, t)'
      BY <1>1, <1>3, <1>5, <1>10, <2>1 DEF IcimHonest, ThreadHonest
    <2> HIDE DEF t
    <2> QED
      BY <1>1, <1>2, <1>6, <1>7, <1>10, <2>1, <2>2, ThreadStep
  <1> QED
    BY <1>4, <1>8, <1>9, <1>10

LEMMA FailsMicro ==
  ASSUME LocalInv, NEW r \in Runs, Fails(r, "micro")
  PROVE  LocalInv'
  <1> DEFINE t == "micro"
             me == thread[r][t]
             new(a) == [me EXCEPT !.at = a]
  <1>1. me.step > 0 /\ Waiting(r, t) /\ UNCHANGED <<gateVars, run, claim, ledger>> /\ t \in Threads
        /\ Unlock(r, t)
    BY DEF Fails, Threads
  <1>2. /\ MicroHonest(r) /\ me.at = "running" /\ ~me.partial
        /\ me.step \in 1 .. Versions + 4 /\ Versions \in Nat
    BY <1>1, MicroWaits, IntradayAssumption DEF LocalInv, RunSafe, ThreadHonest, MicroHonest
  <1>3. ready' = ready /\ \E a \in {"done", "failed"} :
          Set(r, t, new(a)) /\ (a = "done" => me.step = Versions + 4)
    <2>1. Running(r, t) # "realtime" /\ (Running(r, t) = "shutdown" => me.step = Versions + 4)
      BY <1>1, MicroWaits
    <2> QED
      BY <1>2, <2>1 DEF Fails
  <1>4. PICK a \in {"done", "failed"} : Set(r, t, new(a)) /\ (a = "done" => me.step = Versions + 4)
    BY <1>3
  <1>5. /\ new(a) \in ThreadState
        /\ thread'[r][t].step = me.step /\ thread'[r][t].partial = me.partial /\ thread'[r][t].at = a
    BY <1>1, <1>4, AtStep
  <1>6. ThreadHonest(r, t)'
    <2>1. MicroHonest(r)'
      <3> HIDE DEF new
      <3> QED
        BY <1>1, <1>2, <1>3, <1>4, <1>5 DEF MicroHonest
    <2> QED
      BY <2>1 DEF ThreadHonest
  <1>7. /\ me.at \notin {"idle", "done"} /\ writer' \in Runs \cup {NoOne, Other} /\ t # "icim"
        /\ \A s \in Runs \ {r} : writer = s => writer' = s
    BY <1>1, <1>2, UnlockKeeps DEF LocalInv, LocalTypeOK
  <1> HIDE DEF t, new
  <1> QED
    BY <1>1, <1>3, <1>4, <1>5, <1>6, <1>7, ThreadStep

LEMMA ReadSafe ==
  ASSUME LocalInv, NEW r \in Runs, ReadLedger(r)
  PROVE  LocalInv'
  <1> DEFINE t == "icim"
             me == thread[r][t]
             d == IF Running(r, t) = "dry_run" THEN ledger ELSE me.digest
             e == IF Running(r, t) = "realtime" THEN ledger ELSE me.read
             new == [me EXCEPT !.at = "read", !.digest = d, !.read = e]
  <1>1. me.at = "running" /\ UNCHANGED <<gateVars, run, claim, ready, ledger, writer>> /\ t \in Threads
        /\ Running(r, t) \in {"dry_run", "realtime"} /\ Set(r, t, new)
    BY DEF ReadLedger, Threads
  <1>2. me \in ThreadState /\ IcimHonest(r)
    BY <1>1, ThreadFields DEF LocalInv, RunSafe, ThreadHonest
  <1>3. me.step \in Nat /\ me.digest \in Nat /\ me.read \in Nat /\ ledger \in 0 .. MaxTouches /\ ledger \in Nat
    BY <1>1, ThreadFields DEF LocalInv, LocalTypeOK
  <1>4. me.step \in 1 .. 2 /\ (Running(r, t) = "realtime" <=> me.step = 2)
    BY <1>1, <1>2, <1>3, PlanShape DEF IcimHonest, Running
  <1>5. d \in 0 .. MaxTouches /\ e \in 0 .. MaxTouches /\ d <= ledger /\ e <= ledger
        /\ (me.step = 2 => d <= e)
    BY <1>1, <1>2, <1>3, <1>4 DEF ThreadState, IcimHonest
  <1> HIDE DEF d, e
  <1>6. new \in ThreadState
    BY <1>2, <1>5 DEF ThreadState
  <1>7. new.at = "read" /\ new.digest = d /\ new.read = e /\ new.step = me.step /\ new.partial = me.partial
    BY <1>2 DEF ThreadState
  <1> HIDE DEF new
  <1>8. thread'[r][t] = new
    BY <1>1, <1>6, SetThread DEF LocalInv
  <1>9. ThreadHonest(r, t)'
    BY <1>1, <1>2, <1>3, <1>4, <1>5, <1>7, <1>8 DEF ThreadHonest, IcimHonest
  <1>10. me.at \notin {"idle", "done"} /\ writer' \in Runs \cup {NoOne, Other}
    BY <1>1 DEF LocalInv, LocalTypeOK
  <1> HIDE DEF t
  <1> QED
    BY <1>1, <1>6, <1>9, <1>10, ThreadStep

LEMMA MarkSafe ==
  ASSUME LocalInv, NEW r \in Runs, MarkPartial(r)
  PROVE  LocalInv'
  <1> DEFINE t == "icim"
             me == thread[r][t]
             over == [me EXCEPT !.at = "done"]
  <1>1. /\ me.at = "next" /\ me.step = 3 /\ UNCHANGED <<gateVars, run, claim, ledger, writer>>
        /\ t \in Threads /\ Set(r, t, over) /\ ready' = [ready EXCEPT ![r][t] = "partial"]
    BY PlanShape DEF MarkPartial, Threads
  <1>2. IcimHonest(r)
    BY <1>1 DEF LocalInv, RunSafe, ThreadHonest
  <1>3. /\ over \in ThreadState
        /\ thread'[r][t].digest = me.digest /\ thread'[r][t].read = me.read /\ thread'[r][t].step = me.step
        /\ thread'[r][t].partial = me.partial /\ thread'[r][t].at = "done"
    BY <1>1, AtStep
  <1>4. ready'[r][t] = "partial" /\ writer' \in Runs \cup {NoOne, Other}
    BY <1>1 DEF LocalInv, LocalTypeOK
  <1> HIDE DEF over
  <1>5. ThreadHonest(r, t)'
    BY <1>1, <1>2, <1>3, <1>4 DEF ThreadHonest, IcimHonest
  <1> HIDE DEF t
  <1> QED
    BY <1>1, <1>3, <1>4, <1>5, ThreadStep

LEMMA OrphanSafe ==
  ASSUME LocalInv, NEW r \in Runs, NEW t \in Threads, OrphanEnds(r, t)
  PROVE  LocalInv'
  <1> DEFINE me == thread[r][t]
             stop == [me EXCEPT !.at = "failed"]
  <1>1. me.at = "lost" /\ UNCHANGED <<gateVars, run, claim, ledger, ready, writer>> /\ Set(r, t, stop)
    BY DEF OrphanEnds
  <1>2. ThreadHonest(r, t)
    BY DEF LocalInv, RunSafe
  <1>3. /\ stop \in ThreadState
        /\ thread'[r][t].digest = me.digest /\ thread'[r][t].read = me.read /\ thread'[r][t].step = me.step
        /\ thread'[r][t].partial = me.partial /\ thread'[r][t].at = "failed"
    BY <1>1, AtStep
  <1> HIDE DEF stop
  <1>4. ThreadHonest(r, t)'
    BY <1>1, <1>2, <1>3 DEF ThreadHonest, IcimHonest, MicroHonest, Threads
  <1>5. writer' \in Runs \cup {NoOne, Other}
    BY <1>1 DEF LocalInv, LocalTypeOK
  <1> QED
    BY <1>1, <1>3, <1>4, <1>5, ThreadStep

-----------------------------------------------------------------------------
(* The main thread *)

LEMMA RunFields ==
  ASSUME LocalTypeOK, NEW r \in Runs
  PROVE  /\ run[r] \in RunState /\ run[r].kind \in AllKinds
         /\ run[r].pc \in {"idle", "claim", "threads", "ended", "crashed"}
         /\ \A p \in {"idle", "claim", "threads", "ended", "crashed"} : [run[r] EXCEPT !.pc = p] \in RunState
  <1>1. run[r] \in RunState
    BY DEF LocalTypeOK
  <1>2. \A p \in {"idle", "claim", "threads", "ended", "crashed"} : [run[r] EXCEPT !.pc = p] \in RunState
    BY <1>1 DEF RunState
  <1>3. run[r].kind \in AllKinds /\ run[r].pc \in {"idle", "claim", "threads", "ended", "crashed"}
    BY <1>1 DEF RunState
  <1> QED
    BY <1>1, <1>2, <1>3

\* A run changes its place only.
LEMMA PlaceStep ==
  ASSUME LocalTypeOK, NEW r \in Runs, NEW p \in {"idle", "claim", "threads", "ended", "crashed"},
         run' = [run EXCEPT ![r].pc = p]
  PROVE  /\ run' \in [Runs -> RunState] /\ run'[r].pc = p
         /\ run'[r].kind = run[r].kind /\ run'[r].gate = run[r].gate /\ run'[r].by = run[r].by
         /\ \A s \in Runs \ {r} : run'[s] = run[s]
  <1> DEFINE new == [run[r] EXCEPT !.pc = p]
  <1>1. new \in RunState /\ run[r] \in RunState
    BY RunFields
  <1>2. new.pc = p /\ new.kind = run[r].kind /\ new.gate = run[r].gate /\ new.by = run[r].by
    BY <1>1 DEF RunState
  <1>3. run' = [run EXCEPT ![r] = new]
    OBVIOUS
  <1> HIDE DEF new
  <1>4. run \in [Runs -> RunState]
    BY DEF LocalTypeOK
  <1>5. run' \in [Runs -> RunState] /\ run'[r] = new /\ \A s \in Runs \ {r} : run'[s] = run[s]
    BY <1>1, <1>3, <1>4
  <1> QED
    BY <1>2, <1>5

LEMMA WindowDay ==
  ASSUME LocalTypeOK, NEW d, InWindow(d)
  PROVE  d \in Days
  BY DEF InWindow, Day, Days, LocalTypeOK, GateTypeOK

LEMMA BindSafe ==
  ASSUME LocalInv, NEW r \in Runs, NEW k \in AllKinds, NEW l \in Launchers,
         Bind(r, k, l), gate[l].written, InWindow(gate[l].day)
  PROVE  LocalInv'
  <1> USE DEF LocalInv
  <1> DEFINE new == [pc |-> "claim", kind |-> k, by |-> l, gate |-> gate[l], bundle |-> changed["bundle"]]
  <1>1. /\ run[r].pc = "idle" /\ run' = [run EXCEPT ![r] = new]
        /\ UNCHANGED <<gateVars, thread, claim, ready, ledger, writer>>
    BY DEF Bind
  <1>2. gate[l] \in GateFile /\ changed["bundle"] \in BOOLEAN
    BY DEF GateInv, GateTypeOK, NoGate, Files
  <1>3. new \in RunState /\ new.pc = "claim" /\ new.gate = gate[l] /\ new.by = l /\ new.kind = k
    BY <1>2 DEF RunState
  <1> HIDE DEF new
  <1>4. run'[r] = new /\ run' \in [Runs -> RunState] /\ \A s \in Runs \ {r} : run'[s] = run[s]
    BY <1>1, <1>3 DEF LocalTypeOK
  <1>5. GateInv' /\ GateTypeOK'
    BY <1>1, GateSame
  <1>6. LocalTypeOK'
    BY <1>1, <1>4, <1>5 DEF LocalTypeOK, Days
  <1>7. \A s \in Runs \ {r} : RunSafe(s)'
    BY <1>1, <1>4, OtherRunSafe
  <1>8. RunBound(r)'
    BY <1>2, <1>3, <1>4, WindowDay DEF RunBound, Days
  <1>9. /\ \A t \in Threads : thread[r][t] = IdleThread /\ ready[r][t] = "none"
        /\ \A d \in Days : claim[d][2] # r
    BY <1>1 DEF RunSafe, NotBegun
  <1>10. NotBegun(r)' /\ ClaimOwned(r)' /\ ReceiptRests(r)'
    BY <1>1, <1>3, <1>4, <1>9 DEF NotBegun, ClaimOwned, ReceiptRests, Orchestrates, IdleThread, Days
  <1>11. ASSUME NEW t \in Threads PROVE ThreadHonest(r, t)'
    <2>1. IcimHonest(r) /\ MicroHonest(r)
      BY DEF RunSafe, ThreadHonest, Threads
    <2>2. thread[r]["icim"].at = "idle" /\ thread[r]["micro"].at = "idle"
      BY <1>9 DEF IdleThread, Threads
    <2> QED
      BY <1>1, <2>1, <2>2 DEF ThreadHonest, IcimHonest, MicroHonest
  <1> QED
    BY <1>5, <1>6, <1>7, <1>8, <1>10, <1>11 DEF RunSafe

LEMMA ClaimSafe ==
  ASSUME LocalInv, NEW r \in Runs, ClaimDay(r)
  PROVE  LocalInv'
  <1> USE DEF LocalInv
  <1> DEFINE d0 == run[r].gate.day
             begun == [t \in Threads |->
               [IdleThread EXCEPT !.at = IF t \in Selected(run[r].kind) THEN "next" ELSE "done"]]
  <1>1. run[r].pc = "claim" /\ UNCHANGED <<gateVars, ready, ledger, writer>>
    BY DEF ClaimDay
  <1>2. /\ \A t \in Threads : thread[r][t] = IdleThread /\ ready[r][t] = "none"
        /\ \A d \in Days : claim[d][2] # r
        /\ run[r].gate \in GateFile /\ d0 \in Days /\ run[r].by \in Launchers
    BY <1>1 DEF RunSafe, NotBegun, RunBound
  <1>3. GateInv' /\ GateTypeOK'
    BY <1>1, GateSame
  <1>4. PICK p \in {"threads", "ended"} : run' = [run EXCEPT ![r].pc = p]
    BY DEF ClaimDay
  <1>5. /\ run' \in [Runs -> RunState] /\ run'[r].pc = p
        /\ run'[r].kind = run[r].kind /\ run'[r].gate = run[r].gate /\ run'[r].by = run[r].by
        /\ \A s \in Runs \ {r} : run'[s] = run[s]
    BY <1>4, PlaceStep
  <1>6. RunBound(r)' /\ NotBegun(r)'
    BY <1>2, <1>5 DEF RunBound, NotBegun, Days
  <1>7. CASE claim[d0] # Free
    <2>1. UNCHANGED <<claim, thread>> /\ p = "ended"
      BY <1>4, <1>5, <1>7, PlaceStep DEF ClaimDay
    <2>2. LocalTypeOK'
      BY <1>1, <1>3, <1>5, <2>1 DEF LocalTypeOK, Days
    <2>3. \A s \in Runs \ {r} : RunSafe(s)'
      BY <1>1, <1>5, <2>1, OtherRunSafe
    <2>4. ClaimOwned(r)' /\ ReceiptRests(r)'
      BY <1>2, <1>5, <2>1 DEF ClaimOwned, ReceiptRests, Orchestrates, IdleThread, Days
    <2>5. ASSUME NEW t \in Threads PROVE ThreadHonest(r, t)'
      BY <1>1, <1>5, <2>1 DEF RunSafe, ThreadHonest, IcimHonest, MicroHonest
    <2> QED
      BY <1>3, <1>6, <2>2, <2>3, <2>4, <2>5 DEF RunSafe
  <1>8. CASE claim[d0] = Free
    <2>1. /\ claim' = [claim EXCEPT ![d0] = <<"running", r>>]
          /\ thread' = [thread EXCEPT ![r] = begun] /\ p = "threads"
      BY <1>4, <1>5, <1>8, PlaceStep DEF ClaimDay
    <2>2. \A t \in Threads : /\ begun[t].step = 0 /\ begun[t].digest = 0 /\ begun[t].read = 0
                             /\ begun[t].partial = FALSE /\ begun[t] \in ThreadState
                             /\ begun[t].at = (IF t \in Selected(run[r].kind) THEN "next" ELSE "done")
      <3> TAKE t \in Threads
      <3> DEFINE a == IF t \in Selected(run[r].kind) THEN "next" ELSE "done"
      <3>1. begun[t] = [IdleThread EXCEPT !.at = a] /\ a \in {"next", "done"}
        OBVIOUS
      <3>2. 0 \in 0 .. Len(MicroPlan) /\ 0 \in 0 .. MaxTouches
        BY MicroShape, IntradayAssumption
      <3> HIDE DEF a, begun
      <3> QED
        BY <3>1, <3>2 DEF IdleThread, ThreadState, a
    <2> HIDE DEF begun
    <2>3. begun \in [Threads -> ThreadState]
      BY <2>2 DEF begun
    <2>4. /\ thread' \in [Runs -> [Threads -> ThreadState]] /\ thread'[r] = begun
          /\ \A s \in Runs \ {r} : thread'[s] = thread[s]
      BY <2>1, <2>3 DEF LocalTypeOK
    <2>5. claim'[d0] = <<"running", r>> /\ \A d \in Days \ {d0} : claim'[d] = claim[d]
      BY <1>2, <2>1 DEF LocalTypeOK
    <2>6. claim' \in [Days -> {Free} \cup ({"running", "ok", "failed"} \X Runs)]
      BY <2>1 DEF LocalTypeOK
    <2>7. LocalTypeOK'
      BY <1>1, <1>3, <1>5, <2>4, <2>6 DEF LocalTypeOK, Days
    <2>8. \A s \in Runs \ {r} : RunSafe(s)'
      <3>1. \A s \in Runs : claim[d0][2] # s
        BY <1>8, IntradayAssumption DEF Free
      <3> QED
        BY <1>1, <1>5, <2>4, <2>5, <3>1, OtherRunSafe
    <2>9. ClaimOwned(r)' /\ ReceiptRests(r)'
      BY <1>2, <1>5, <2>5 DEF ClaimOwned, ReceiptRests, Days
    <2>10. ASSUME NEW t \in Threads PROVE ThreadHonest(r, t)'
      <3>1. /\ thread'[r][t].step = 0 /\ thread'[r][t].digest = 0 /\ thread'[r][t].read = 0
            /\ thread'[r][t].partial = FALSE
            /\ thread'[r][t].at = (IF t \in Selected(run[r].kind) THEN "next" ELSE "done")
            /\ ready'[r][t] = "none"
        BY <1>1, <1>2, <2>2, <2>4
      <3>2. Versions \in Nat \ {0} /\ ledger \in Nat
        BY IntradayAssumption DEF LocalTypeOK
      <3>3. CASE t = "icim"
        BY <1>1, <1>5, <3>1, <3>2, <3>3 DEF ThreadHonest, IcimHonest
      <3>4. CASE t = "micro"
        BY <1>1, <1>5, <3>1, <3>2, <3>4 DEF ThreadHonest, MicroHonest
      <3> QED
        BY <3>3, <3>4 DEF Threads
    <2> QED
      BY <1>3, <1>6, <2>7, <2>8, <2>9, <2>10 DEF RunSafe
  <1> QED
    BY <1>7, <1>8

LEMMA FinishSafe ==
  ASSUME LocalInv, NEW r \in Runs, Finish(r)
  PROVE  LocalInv'
  <1> USE DEF LocalInv
  <1> DEFINE d0 == run[r].gate.day
             word == IF \A t \in Selected(run[r].kind) : Succeeded(r, t) THEN "ok" ELSE "failed"
  <1>1. /\ run[r].pc = "threads" /\ UNCHANGED <<gateVars, thread, ready, ledger, writer>>
        /\ claim' = [claim EXCEPT ![d0] = <<word, r>>] /\ run' = [run EXCEPT ![r].pc = "ended"]
    BY DEF Finish
  <1>2. /\ run' \in [Runs -> RunState] /\ run'[r].pc = "ended"
        /\ run'[r].kind = run[r].kind /\ run'[r].gate = run[r].gate /\ run'[r].by = run[r].by
        /\ \A s \in Runs \ {r} : run'[s] = run[s]
    BY <1>1, PlaceStep
  <1>3. /\ run[r].gate \in GateFile /\ d0 \in Days /\ run[r].by \in Launchers /\ claim[d0][2] = r
    BY <1>1 DEF RunSafe, RunBound, ClaimOwned
  <1>4. GateInv' /\ GateTypeOK'
    BY <1>1, GateSame
  <1>5. word \in {"ok", "failed"} /\ (word = "ok" => \A t \in Selected(run[r].kind) : thread[r][t].at = "done")
    BY DEF Succeeded
  <1> HIDE DEF word
  <1>6. /\ claim' \in [Days -> {Free} \cup ({"running", "ok", "failed"} \X Runs)]
        /\ claim'[d0] = <<word, r>> /\ \A d \in Days \ {d0} : claim'[d] = claim[d]
    BY <1>1, <1>3, <1>5 DEF LocalTypeOK
  <1>7. LocalTypeOK'
    BY <1>1, <1>2, <1>4, <1>6 DEF LocalTypeOK, Days
  <1>8. \A s \in Runs \ {r} : RunSafe(s)'
    BY <1>1, <1>2, <1>3, <1>6, OtherRunSafe
  <1>9. RunBound(r)' /\ NotBegun(r)' /\ ClaimOwned(r)'
    BY <1>2, <1>3, <1>6 DEF RunBound, NotBegun, ClaimOwned, Days
  <1>10. ReceiptRests(r)'
    BY <1>1, <1>2, <1>5, <1>6 DEF RunSafe, ReceiptRests, Days
  <1>11. ASSUME NEW t \in Threads PROVE ThreadHonest(r, t)'
    BY <1>1, <1>2 DEF RunSafe, ThreadHonest, IcimHonest, MicroHonest
  <1> QED
    BY <1>4, <1>7, <1>8, <1>9, <1>10, <1>11 DEF RunSafe

LEMMA CrashSafe ==
  ASSUME LocalInv, NEW r \in Runs, CrashRun(r)
  PROVE  LocalInv'
  <1> USE DEF LocalInv
  <1> DEFINE dead == [t \in Threads |->
               IF thread[r][t].at \in {"running", "read"} THEN [thread[r][t] EXCEPT !.at = "lost"] ELSE thread[r][t]]
  <1>1. /\ run[r].pc \in {"claim", "threads"} /\ UNCHANGED <<gateVars, claim, ready, ledger, writer>>
        /\ thread' = [thread EXCEPT ![r] = dead] /\ run' = [run EXCEPT ![r].pc = "crashed"]
    BY DEF CrashRun
  <1>2. /\ run' \in [Runs -> RunState] /\ run'[r].pc = "crashed"
        /\ run'[r].kind = run[r].kind /\ run'[r].gate = run[r].gate /\ run'[r].by = run[r].by
        /\ \A s \in Runs \ {r} : run'[s] = run[s]
    BY <1>1, PlaceStep
  <1>3. \A t \in Threads :
          /\ dead[t] \in ThreadState
          /\ dead[t].step = thread[r][t].step /\ dead[t].digest = thread[r][t].digest
          /\ dead[t].read = thread[r][t].read /\ dead[t].partial = thread[r][t].partial
          /\ dead[t].at = IF thread[r][t].at \in {"running", "read"} THEN "lost" ELSE thread[r][t].at
    <2> TAKE t \in Threads
    <2>1. thread[r][t] \in ThreadState
      BY DEF LocalTypeOK
    <2>2. dead[t] = IF thread[r][t].at \in {"running", "read"} THEN [thread[r][t] EXCEPT !.at = "lost"] ELSE thread[r][t]
      OBVIOUS
    <2> HIDE DEF dead
    <2> QED
      BY <2>1, <2>2 DEF ThreadState
  <1> HIDE DEF dead
  <1>4. dead \in [Threads -> ThreadState]
    BY <1>3 DEF dead
  <1>5. /\ thread' \in [Runs -> [Threads -> ThreadState]] /\ thread'[r] = dead
        /\ \A s \in Runs \ {r} : thread'[s] = thread[s]
    BY <1>1, <1>4 DEF LocalTypeOK
  <1>6. GateInv' /\ GateTypeOK'
    BY <1>1, GateSame
  <1>7. LocalTypeOK'
    BY <1>1, <1>2, <1>5, <1>6 DEF LocalTypeOK, Days
  <1>8. \A s \in Runs \ {r} : RunSafe(s)'
    BY <1>1, <1>2, <1>5, OtherRunSafe
  <1>9. RunBound(r)' /\ NotBegun(r)'
    BY <1>1, <1>2 DEF RunSafe, RunBound, NotBegun, Days
  <1>10. Orchestrates(r)' => Orchestrates(r)
    BY <1>3, <1>5 DEF Orchestrates
  <1>11. ClaimOwned(r)'
    BY <1>1, <1>2, <1>10 DEF RunSafe, ClaimOwned
  <1>12. ReceiptRests(r)'
    BY <1>1, <1>2, <1>3, <1>5 DEF RunSafe, ReceiptRests, Days, Selected, Threads
  <1>13. ASSUME NEW t \in Threads PROVE ThreadHonest(r, t)'
    <2>1. ThreadHonest(r, t)
      BY DEF RunSafe
    <2>2. CASE t = "icim"
      BY <1>1, <1>2, <1>3, <1>5, <2>1, <2>2 DEF ThreadHonest, IcimHonest
    <2>3. CASE t = "micro"
      BY <1>1, <1>2, <1>3, <1>5, <2>1, <2>3 DEF ThreadHonest, MicroHonest
    <2> QED
      BY <2>2, <2>3 DEF Threads
  <1> QED
    BY <1>6, <1>7, <1>8, <1>9, <1>11, <1>12, <1>13 DEF RunSafe

-----------------------------------------------------------------------------
(* The invariant is inductive *)

\* The gate, the ledger and the other writers move without any run.
LEMMA AroundSafe ==
  ASSUME LocalInv, UNCHANGED <<run, thread, claim, ready>>, GateInv',
         ledger' \in 0 .. MaxTouches, ledger' >= ledger,
         writer' \in Runs \cup {NoOne, Other}, \A s \in Runs : writer = s => writer' = s
  PROVE  LocalInv'
  <1> USE DEF LocalInv
  <1>1. GateTypeOK'
    BY DEF GateInv
  <1>2. LocalTypeOK'
    BY <1>1 DEF LocalTypeOK, Days
  <1>3. ASSUME NEW r \in Runs PROVE RunSafe(r)'
    <2>1. RunSafe(r)
      OBVIOUS
    <2>2. RunBound(r)' /\ NotBegun(r)' /\ ClaimOwned(r)' /\ ReceiptRests(r)'
      BY <2>1 DEF RunSafe, RunBound, NotBegun, ClaimOwned, ReceiptRests, Orchestrates, Days
    <2>3. IcimHonest(r)'
      <3>1. "icim" \in Threads
        BY DEF Threads
      <3>2. thread[r]["icim"].digest \in Nat /\ thread[r]["icim"].read \in Nat /\ ledger \in Nat /\ ledger' \in Nat
        BY <3>1, ThreadFields, IntradayAssumption
      <3>3. IcimHonest(r)
        BY <2>1, <3>1 DEF RunSafe, ThreadHonest
      <3> QED
        BY <3>2, <3>3 DEF IcimHonest
    <2>4. MicroHonest(r)'
      BY <2>1 DEF RunSafe, ThreadHonest, MicroHonest, Threads
    <2> QED
      BY <2>2, <2>3, <2>4 DEF RunSafe, ThreadHonest
  <1> QED
    BY <1>2, <1>3

LEMMA LocalInitSafe == Init => LocalInv
  <1> SUFFICES ASSUME Init PROVE LocalInv
    OBVIOUS
  <1>1. GateInv /\ GateTypeOK
    BY GateInitSafe DEF Init, GateInv
  <1>2. IdleThread \in ThreadState /\ IdleRun \in RunState
    <2>1. 0 \in 0 .. Len(MicroPlan) /\ 0 \in 0 .. MaxTouches
      BY MicroShape, IntradayAssumption
    <2> QED
      BY <2>1 DEF IdleThread, IdleRun, ThreadState, RunState, AllKinds
  <1>3. LocalTypeOK
    <2>1. 0 \in 0 .. MaxTouches
      BY IntradayAssumption
    <2> HIDE DEF IdleThread, IdleRun
    <2> QED
      BY <1>1, <1>2, <2>1 DEF Init, LocalTypeOK
  <1>4. ASSUME NEW r \in Runs PROVE RunSafe(r)
    <2>1. /\ run[r].pc = "idle" /\ \A t \in Threads : thread[r][t] = IdleThread /\ ready[r][t] = "none"
          /\ \A d \in Days : claim[d][2] # r /\ claim[d] = Free
          /\ ledger = 0 /\ Versions \in Nat \ {0}
      BY IntradayAssumption DEF Init, IdleRun, Free
    <2>2. RunBound(r) /\ NotBegun(r) /\ ClaimOwned(r) /\ ReceiptRests(r)
      BY <2>1 DEF RunBound, NotBegun, ClaimOwned, ReceiptRests, Orchestrates, IdleThread
    <2>3. "icim" \in Threads /\ "micro" \in Threads
      BY DEF Threads
    <2>4. IcimHonest(r) /\ MicroHonest(r)
      BY <2>1, <2>3 DEF IcimHonest, MicroHonest, IdleThread
    <2> QED
      BY <2>2, <2>4 DEF RunSafe, ThreadHonest
  <1> QED
    BY <1>1, <1>3, <1>4 DEF LocalInv

LEMMA LocalNextSafe == LocalInv /\ [Next]_vars => LocalInv'
  <1> SUFFICES ASSUME LocalInv, [Next]_vars PROVE LocalInv'
    OBVIOUS
  <1>0. /\ ledger \in 0 .. MaxTouches /\ ledger \in Nat /\ MaxTouches \in Nat
        /\ writer \in Runs \cup {NoOne, Other}
    BY IntradayAssumption DEF LocalInv, LocalTypeOK
  <1>1. CASE GateProgress /\ UNCHANGED runVars
    <2>1. GateInv'
      <3>1. GateNext
        BY <1>1 DEF GateProgress, GateNext, Continue
      <3> QED
        BY <3>1, GateNextSafe DEF LocalInv
    <2>2. UNCHANGED <<run, thread, claim, ready, ledger, writer>>
      BY <1>1 DEF runVars
    <2> QED
      BY <1>0, <2>1, <2>2, AroundSafe
  <1>2. ASSUME NEW r \in Runs, RunNext(r) PROVE LocalInv'
    <2>1. CASE (\E k \in Kinds, l \in Launchers : Begin(r, k, l)) \/ \E l \in Launchers : BeginIndependent(r, l)
      <3>1. PICK k \in AllKinds, l \in Launchers :
              Bind(r, k, l) /\ gate[l].written /\ InWindow(gate[l].day)
        <4>1. CASE \E k \in Kinds, l \in Launchers : Begin(r, k, l)
          BY <4>1, IntradayAssumption DEF Begin
        <4>2. CASE \E l \in Launchers : BeginIndependent(r, l)
          BY <4>2 DEF BeginIndependent, AllKinds
        <4> QED
          BY <2>1, <4>1, <4>2
      <3> QED
        BY <3>1, BindSafe
    <2>2. CASE ClaimDay(r) \/ Finish(r) \/ CrashRun(r) \/ MarkPartial(r) \/ ReadLedger(r)
      BY <2>2, ClaimSafe, FinishSafe, CrashSafe, MarkSafe, ReadSafe
    <2>3. CASE \E t \in Threads : StartCommand(r, t) \/ Done(r, t) \/ Fails(r, t) \/ OrphanEnds(r, t)
      <3>1. PICK t \in Threads : StartCommand(r, t) \/ Done(r, t) \/ Fails(r, t) \/ OrphanEnds(r, t)
        BY <2>3
      <3>2. CASE t = "icim"
        BY <3>1, <3>2, StartIcim, DoneIcim, FailsIcim, OrphanSafe
      <3>3. CASE t = "micro"
        BY <3>1, <3>3, StartMicro, DoneMicro, FailsMicro, OrphanSafe
      <3> QED
        BY <3>2, <3>3 DEF Threads
    <2> QED
      BY <1>2, <2>1, <2>2, <2>3 DEF RunNext
  <1>3. CASE TouchLedger
    <2>1. GateInv'
      BY <1>3, GateSame DEF TouchLedger
    <2>2. UNCHANGED <<run, thread, claim, ready, writer>> /\ ledger' = ledger + 1 /\ ledger < MaxTouches
      BY <1>3 DEF TouchLedger
    <2>3. ledger' \in 0 .. MaxTouches /\ ledger' >= ledger
      BY <1>0, <2>2
    <2> QED
      BY <1>0, <2>1, <2>2, <2>3, AroundSafe
  <1>4. CASE OtherDelivery
    <2>1. GateInv'
      BY <1>4, GateSame DEF OtherDelivery
    <2>2. UNCHANGED <<run, thread, claim, ready, ledger>>
      BY <1>4 DEF OtherDelivery
    <2>3. writer' \in {NoOne, Other} /\ \A s \in Runs : writer # s
      BY <1>4, IntradayAssumption DEF OtherDelivery
    <2> QED
      BY <1>0, <2>1, <2>2, <2>3, AroundSafe
  <1>5. CASE UNCHANGED vars
    <2>1. UNCHANGED gateVars /\ UNCHANGED <<run, thread, claim, ready, ledger, writer>>
      BY <1>5 DEF vars, runVars
    <2>2. GateInv'
      BY <2>1, GateSame
    <2> QED
      BY <1>0, <2>1, <2>2, AroundSafe
  <1> QED
    BY <1>1, <1>2, <1>3, <1>4, <1>5 DEF Next

LEMMA LocalInvariant == Spec => []LocalInv
  BY LocalInitSafe, LocalNextSafe, PTL DEF Spec

-----------------------------------------------------------------------------
(* What the orchestration promises *)

\* Whoever claims the day, however many processes there are and whichever of them dies, a day is
\* orchestrated by one of them, and one Microcap child at a time writes the live outputs
\* (claim_day, microcap_writer_lock).
THEOREM OneRun == Spec => []OneDayOneWriter
  <1>1. LocalInv => LocalTypeOK
    BY DEF LocalInv
  <1>2. ASSUME LocalInv PROVE OneOrchestrationPerDay
    <2>1. ASSUME NEW r \in Runs, Orchestrates(r) PROVE claim[run[r].gate.day][2] = r
      BY <1>2, <2>1 DEF LocalInv, RunSafe, ClaimOwned
    <2> QED
      BY <2>1 DEF OneOrchestrationPerDay
  <1>3. ASSUME LocalInv PROVE OneMicrocapWriter
    <2>1. ASSUME NEW r \in Runs, Writing(r) PROVE writer = r
      <3> DEFINE k == thread[r]["micro"].step
      <3>1. "micro" \in Threads /\ MicroHonest(r)
        BY <1>3 DEF LocalInv, RunSafe, ThreadHonest, Threads
      <3>2. k \in 1 .. Versions + 4 /\ Versions \in Nat \ {0}
        BY <1>3, <2>1, <3>1, MicroShape, IntradayAssumption, ThreadFields DEF LocalInv, ThreadState, Writing
      <3>3. MicroPlan[k] \in {"version", "render"}
        BY <2>1, PlanShape DEF Writing, Running
      <3>4. k \in 3 .. Versions + 3
        BY <3>2, <3>3, MicroShape
      <3> QED
        BY <2>1, <3>1, <3>4 DEF Writing, MicroHonest
    <2>2. \A r \in Runs : r # Other
      BY IntradayAssumption
    <2> QED
      BY <2>1, <2>2 DEF OneMicrocapWriter
  <1> QED
    BY <1>1, <1>2, <1>3, LocalInvariant, PTL DEF OneDayOneWriter

LEMMA SetAt ==
  ASSUME LocalTypeOK, NEW r \in Runs, NEW t \in Threads, NEW s \in Runs, NEW u \in Threads,
         NEW new, Set(s, u, new)
  PROVE  thread'[r][t] = IF s = r /\ u = t THEN new ELSE thread[r][t]
  BY DEF LocalTypeOK, Set

LEMMA AtOf ==
  ASSUME NEW me \in ThreadState
  PROVE  /\ \A a : [me EXCEPT !.at = a].at = a
         /\ [me EXCEPT !.at = "next", !.partial = TRUE].at = "next"
         /\ \A d, e : [me EXCEPT !.at = "read", !.digest = d, !.read = e].at = "read"
         /\ \A n : [me EXCEPT !.step = n, !.at = "running"].step = n
  BY DEF ThreadState

\* A command starts in one way only.
LEMMA StartsOnce ==
  ASSUME LocalInv, [Next]_vars, NEW r \in Runs, NEW t \in Threads,
         thread'[r][t].at = "running", thread[r][t].at # "running"
  PROVE  StartCommand(r, t)
  <1> USE DEF LocalInv
  <1>1. thread' # thread
    OBVIOUS
  <1>2. PICK s \in Runs : RunNext(s)
    BY <1>1 DEF Next, TouchLedger, OtherDelivery, vars, runVars
  <1>3. \A u \in Threads : thread[s][u] \in ThreadState
    BY ThreadFields
  <1>4. CASE (\E k \in Kinds, l \in Launchers : Begin(s, k, l)) \/ (\E l \in Launchers : BeginIndependent(s, l)) \/ Finish(s)
    BY <1>1, <1>4 DEF Begin, BeginIndependent, Bind, Finish
  <1>5. CASE ClaimDay(s)
    <2> DEFINE begun == [u \in Threads |->
                 [IdleThread EXCEPT !.at = IF u \in Selected(run[s].kind) THEN "next" ELSE "done"]]
    <2>1. thread' = [thread EXCEPT ![s] = begun]
      BY <1>1, <1>5 DEF ClaimDay
    <2>2. s = r
      BY <2>1 DEF LocalTypeOK
    <2>3. thread'[r][t] = [IdleThread EXCEPT !.at = IF t \in Selected(run[s].kind) THEN "next" ELSE "done"]
      BY <2>1, <2>2 DEF LocalTypeOK
    <2> QED
      BY <2>3 DEF IdleThread
  <1>6. CASE CrashRun(s)
    <2> DEFINE dead == [u \in Threads |->
                 IF thread[s][u].at \in {"running", "read"} THEN [thread[s][u] EXCEPT !.at = "lost"] ELSE thread[s][u]]
    <2>1. thread' = [thread EXCEPT ![s] = dead]
      BY <1>6 DEF CrashRun
    <2>2. s = r
      BY <2>1 DEF LocalTypeOK
    <2>3. thread'[r][t] = IF thread[s][t].at \in {"running", "read"} THEN [thread[s][t] EXCEPT !.at = "lost"] ELSE thread[s][t]
      BY <2>1, <2>2 DEF LocalTypeOK
    <2> QED
      BY <1>3, <2>2, <2>3, AtOf
  <1>7. CASE MarkPartial(s) \/ ReadLedger(s)
    <2> DEFINE me == thread[s]["icim"]
               c == Running(s, "icim")
               over == [me EXCEPT !.at = "done"]
               read == [me EXCEPT !.at = "read",
                                  !.digest = IF c = "dry_run" THEN ledger ELSE me.digest,
                                  !.read = IF c = "realtime" THEN ledger ELSE me.read]
    <2>1. Set(s, "icim", over) \/ Set(s, "icim", read)
      BY <1>7 DEF MarkPartial, ReadLedger
    <2>2. over.at # "running" /\ read.at # "running"
      BY <1>3 DEF Threads, ThreadState
    <2> HIDE DEF over, read
    <2> QED
      BY <2>1, <2>2, SetAt DEF Threads
  <1>8. CASE \E u \in Threads : Done(s, u) \/ Fails(s, u) \/ OrphanEnds(s, u)
    <2>1. PICK u \in Threads : Done(s, u) \/ Fails(s, u) \/ OrphanEnds(s, u)
      BY <1>8
    <2>2. \E new : Set(s, u, new) /\ new.at # "running"
      <3>1. /\ [thread[s][u] EXCEPT !.at = "failed"].at # "running"
            /\ [thread[s][u] EXCEPT !.at = "done"].at # "running"
            /\ [thread[s][u] EXCEPT !.at = "next"].at # "running"
            /\ [thread[s][u] EXCEPT !.at = "next", !.partial = TRUE].at # "running"
        BY <1>3, AtOf
      <3>2. CASE Done(s, u)
        <4>1. \/ Set(s, u, [thread[s][u] EXCEPT !.at = "failed"])
              \/ Set(s, u, [thread[s][u] EXCEPT !.at = "done"])
              \/ Set(s, u, [thread[s][u] EXCEPT !.at = "next"])
          BY <3>2 DEF Done
        <4> QED
          BY <3>1, <4>1
      <3>3. CASE Fails(s, u) \/ OrphanEnds(s, u)
        <4>1. \/ Set(s, u, [thread[s][u] EXCEPT !.at = "failed"])
              \/ Set(s, u, [thread[s][u] EXCEPT !.at = "done"])
              \/ Set(s, u, [thread[s][u] EXCEPT !.at = "next", !.partial = TRUE])
          BY <3>3 DEF Fails, OrphanEnds
        <4> QED
          BY <3>1, <4>1
      <3> QED
        BY <2>1, <3>2, <3>3
    <2> QED
      BY <2>2, SetAt
  <1>9. CASE \E u \in Threads : StartCommand(s, u)
    <2>1. PICK u \in Threads : StartCommand(s, u)
      BY <1>9
    <2>2. \E new : Set(s, u, new)
      BY <2>1 DEF StartCommand
    <2>3. s = r /\ u = t
      BY <2>2, SetAt
    <2> QED
      BY <2>1, <2>3
  <1> QED
    BY <1>2, <1>4, <1>5, <1>6, <1>7, <1>8, <1>9 DEF RunNext

\* A command that produces signals starts only under the authority of this very moment.
LEMMA ProducingIsAuthorized ==
  ASSUME LocalInv, [Next]_vars, NEW r \in Runs, NEW t \in Threads, Producing(r, t)
  PROVE  Authorized(r) /\ run[r].pc = "threads"
  <1> DEFINE me == thread[r][t]
             n == me.step + 1
             stop == [me EXCEPT !.at = "failed"]
  <1>1. StartCommand(r, t)
    BY StartsOnce DEF Producing
  <1>2. me \in ThreadState
    BY ThreadFields DEF LocalInv
  <1>3. ~Set(r, t, stop)
    <2>1. stop.at = "failed"
      BY <1>2, AtOf
    <2> HIDE DEF stop
    <2> QED
      BY <2>1, SetAt DEF Producing, LocalInv
  <1>4. run[r].pc = "threads" /\ Set(r, t, [me EXCEPT !.step = n, !.at = "running"]) /\ MayStart(r, t)
    BY <1>1, <1>3 DEF StartCommand
  <1>5. thread'[r][t].step = n
    <2> DEFINE new == [me EXCEPT !.step = n, !.at = "running"]
    <2>1. new.step = n
      BY <1>2, AtOf
    <2>2. Set(r, t, new)
      BY <1>4
    <2> HIDE DEF n, new
    <2> QED
      BY <2>1, <2>2, SetAt DEF LocalInv
  <1>6. Upcoming(r, t) \in {"realtime", "version"}
    BY <1>5 DEF Producing, Upcoming
  <1> QED
    BY <1>4, <1>6 DEF MayStart

\* What the start of a producing command rests on.
Rests(r) ==
  /\ Phase(now) = "window"
  /\ \E l \in Launchers : /\ gate[l].written /\ gate[l].release /\ gate[l].day = Day(now)
                          /\ gate[l].seen["deps"] = changed["deps"]
  /\ run[r].kind = "independent" => changed = [AsReviewed EXCEPT
        !["deps"] = run[r].gate.seen["deps"], !["bundle"] = run[r].gate.seen["bundle"]]

LEMMA AuthorityRests ==
  ASSUME LocalInv, NEW r \in Runs, Authorized(r), run[r].pc = "threads"
  PROVE  Rests(r)
  <1>1. run[r].gate \in GateFile /\ run[r].by \in Launchers
    BY DEF LocalInv, RunSafe, RunBound
  <1>2. gate[run[r].by] = run[r].gate /\ Phase(now) = "window" /\ run[r].gate.day = Day(now)
    BY DEF Authorized, InWindow
  <1>3. run[r].gate.written /\ run[r].gate.release /\ run[r].gate.seen["deps"] = changed["deps"]
    BY <1>1 DEF Authorized, Authority, NativeAuthority, IndependentAuthority, GateFile
  <1>4. ASSUME run[r].kind = "independent"
        PROVE  changed = [AsReviewed EXCEPT
                 !["deps"] = run[r].gate.seen["deps"], !["bundle"] = run[r].gate.seen["bundle"]]
    <2>1. /\ changed["deps"] = run[r].gate.seen["deps"] /\ changed["bundle"] = run[r].gate.seen["bundle"]
          /\ changed["tree"] = FALSE /\ changed["source"] = FALSE
      BY <1>4 DEF Authorized, Authority, IndependentAuthority, LocalInv, LocalTypeOK, GateTypeOK, Files
    <2>2. changed \in [Files -> BOOLEAN]
      BY DEF LocalInv, LocalTypeOK, GateTypeOK
    <2> QED
      BY <2>1, <2>2 DEF AsReviewed, Files
  <1> QED
    BY <1>1, <1>2, <1>3, <1>4 DEF Rests

\* A receipt or a report says what happened, whatever dies, whoever writes to the ledger and
\* whatever is edited between the commands: the report's ledger is the checked one, a run that
\* claims success has announced a report of every selected strategy, and every signal was
\* produced in the window under the released gate of that moment (authorize, run_icim, execute).
THEOREM Reported == Spec => ReportedIsConfirmed
  <1>1. ASSUME LocalInv PROVE ReportedLedgerWasChecked
    <2>1. ASSUME NEW r \in Runs, ready[r]["icim"] # "none"
          PROVE  thread[r]["icim"].read = thread[r]["icim"].digest
      BY <1>1, <2>1 DEF LocalInv, RunSafe, ThreadHonest, IcimHonest, Threads
    <2> QED
      BY <2>1 DEF ReportedLedgerWasChecked
  <1>2. ASSUME LocalInv PROVE ReceiptIsTrue
    <2>1. ASSUME NEW d \in Days, NEW r \in Runs, claim[d] = <<"ok", r>>, NEW t \in Selected(run[r].kind)
          PROVE  ready[r][t] = IF thread[r][t].partial THEN "partial" ELSE "ready"
      <3>1. thread[r][t].at = "done" /\ t \in Threads
        BY <1>2, <2>1 DEF LocalInv, RunSafe, ReceiptRests, Selected, Threads
      <3>2. CASE t = "icim"
        BY <1>2, <2>1, <3>1, <3>2 DEF LocalInv, RunSafe, ThreadHonest, IcimHonest
      <3>3. CASE t = "micro"
        BY <1>2, <2>1, <3>1, <3>3 DEF LocalInv, RunSafe, ThreadHonest, MicroHonest
      <3> QED
        BY <3>1, <3>2, <3>3 DEF Threads
    <2> QED
      BY <2>1 DEF ReceiptIsTrue
  <1>3. ASSUME LocalInv, [Next]_vars
        PROVE  \A r \in Runs, t \in Threads : Producing(r, t) => Rests(r)
    BY <1>3, ProducingIsAuthorized, AuthorityRests
  <1>4. Spec => SignalsRestOnTheGate
    BY <1>3, LocalInvariant, PTL DEF Spec, SignalsRestOnTheGate, Rests
  <1> QED
    BY <1>1, <1>2, <1>4, LocalInvariant, PTL DEF ReportedIsConfirmed
=============================================================================
