--------------------------------- MODULE MCLocal ---------------------------------
(* A small instance of the gate and the intraday orchestration for TLC, and the   *)
(* cases of what the gate accepts as a test result.                               *)
EXTENDS LocalIntraday, TestPlan, GatePrepare, TLC

VARIABLE case

TwoWindows == <<<<1, "window">>, <<1, "late">>, <<2, "window">>>>
OneGroup == [m \in AllModes |-> 1]
UsableModes == [l \in Launchers |-> {"daily", "independent"}]
RunSymmetry == Permutations(Runs)

-------------------------------------------------------------------------------
(* Tests of three files with costs 1, 4 or 9, dealt to two or three processes.   *)
Costs(n) == {c \in [1 .. n -> {1, 4, 9}] : \A i, j \in 1 .. n : i < j => c[i] <= c[j]}
TestsOf(file, c) == {[file |-> file, n |-> i, cost |-> c[i]] : i \in DOMAIN c}
TestSets == {TestsOf("a", a) \cup TestsOf("b", b) \cup TestsOf("c", c) :
               a \in UNION {Costs(k) : k \in 1 .. 3}, b, c \in UNION {Costs(k) : k \in 0 .. 3}}
Deal == \E tests \in TestSets, shards \in 2 .. 3 :
  Cardinality(tests) >= shards /\ case' = <<"deal", tests, shards>>

\* Records around a group of two tests a1 and b1; a2 is a third one.
A1 == [file |-> "a", n |-> 1]
A2 == [file |-> "a", n |-> 2]
B1 == [file |-> "b", n |-> 1]
Orders == {<<>>, <<A1>>, <<A1, A2>>, <<A1, B1>>, <<A1, A2, B1>>, <<A1, A1, B1>>}
Ran(tests, outcome) == {[test |-> t, run |-> 1, outcome |-> outcome] : t \in tests}
CaseSets ==
  (SUBSET (Ran({A1, B1}, "passed") \cup Ran({A1, B1}, "failed")))
  \cup {Ran({A1, A2, B1}, "passed"), Ran({A1, B1}, "passed") \cup Ran({A2}, "skipped"),
        Ran({A1, B1}, "passed") \cup {[test |-> A1, run |-> 2, outcome |-> "passed"]}}
Record(collected, selected, executed, dropped, cases, tests, failed, blocked) ==
  [exit |-> 0, collected |-> collected, selected |-> selected, executed |-> executed, dropped |-> dropped,
   cases |-> cases, told |-> [tests |-> tests, failed |-> failed, skipped |-> 0],
   guard |-> [started |-> TRUE, blocked |-> blocked], files |-> {"a", "b"}]
Judge == \E c, s, x \in Orders, d \in {{}, {A2}}, cases \in CaseSets, n \in 0 .. 3, f \in 0 .. 1, g \in BOOLEAN :
  case' = <<"evidence", Record(c, s, x, d, cases, n, f, g)>>

Whole == Record(<<A1, B1>>, <<A1, B1>>, <<A1, B1>>, {}, Ran({A1, B1}, "passed"), 2, 0, FALSE)
Part  == Record(<<A1>>, <<A1>>, <<A1>>, {}, Ran({A1}, "passed"), 1, 0, FALSE)
GroupOf(pass, exit, timed, same, evidence, day) ==
  [pass |-> pass, exit |-> exit, timed |-> timed, confirmed |-> TRUE, same |-> same, evidence |-> evidence,
   begin |-> [day |-> day, t |-> 1], end |-> [day |-> day, t |-> 2]]
FailedGroup(kind) == GroupOf(FALSE, IF kind = "core" THEN 124 ELSE 1, kind = "core", TRUE, Whole, 1)
Clock(day, t, binds, remote) == [day |-> day, t |-> t, binds |-> binds, pins |-> 1, remote |-> remote]
Resume == \E kind \in {"core", "share", "icim"}, x \in GateGroups, e, fresh \in {Whole, Part},
             pass, same, alive, sealed, green, released \in BOOLEAN, d \in 0 .. 1, later, binds, remote \in 1 .. 2 :
  LET again(y) == kind # "icim" /\ y \in Replayed(kind)
      groups == [y \in GateGroups |-> IF again(y) THEN FailedGroup(kind)
                                      ELSE IF y = x THEN GroupOf(pass, 0, FALSE, same, e, d)
                                      ELSE GroupOf(TRUE, 0, FALSE, TRUE, Whole, 1)]
      earlier == [pass |-> green, purpose |-> "maintenance", released |-> released, resumed |-> FALSE,
               begin |-> [day |-> 1, t |-> 0], end |-> [day |-> 1, t |-> 3], binds |-> 1, pins |-> 1,
               remote |-> 1, alive |-> alive, sealed |-> sealed, groups |-> groups]
  IN case' = <<"resume", kind, earlier, Clock(1, 4, 1, 1), Clock(later, 5, binds, remote),
               [y \in GateGroups |-> fresh]>>

-------------------------------------------------------------------------------
(* Preparations: the second commit promotes the first one's test source to the       *)
(* runtime, the third repins IC/IM and declares its own test source.                   *)
ThreeCommits ==
  << [micro |-> {1}, icim |-> {1}, strategy |-> 1, test |-> 2, runtime |-> 1, successor |-> {<<1, 2>>}],
     [micro |-> {2}, icim |-> {1}, strategy |-> 2, test |-> 0, runtime |-> 0, successor |-> {<<1, 2>>}],
     [micro |-> {1}, icim |-> {2}, strategy |-> 1, test |-> 2, runtime |-> 1, successor |-> {<<1, 3>>}] >>
Same12 == 1 :> 1 @@ 2 :> 2
OneTwo == {<<1, 2>>}

\* Trees of an entry point e, a helper h, a script x and a data file d.
Texts(f) == CASE f = "e" -> {"e: import h", "e: import h, x"} [] f = "h" -> {"h", "h: import x", "h: 'x'"}
              [] f = "x" -> {"x", "x edited"} [] f = "d" -> {"d", "d edited"}
UsesOf == [t \in UNION {Texts(f) : f \in {"e", "h", "x", "d"}} |->
  CASE t = "e: import h" -> [imports |-> {"h"}, strings |-> {}]
    [] t = "e: import h, x" -> [imports |-> {"h", "x"}, strings |-> {}]
    [] t = "h: import x" -> [imports |-> {"x"}, strings |-> {}]
    [] t = "h: 'x'" -> [imports |-> {}, strings |-> {"x"}]
    [] OTHER -> [imports |-> {}, strings |-> {}]]
Contents(f, ends) == [text : Texts(f), crlf : ends]
Trees(ends) ==
  UNION {{[f \in files |-> CASE f = "e" -> e [] f = "h" -> h [] f = "x" -> x [] f = "d" -> d] :
            e \in Contents("e", {FALSE}), h \in Contents("h", {FALSE}), x \in Contents("x", {FALSE}),
            d \in Contents("d", ends)} : files \in {{"e", "d"} \cup more : more \in SUBSET {"h", "x"}}}
BindTree == \E tested \in Trees({FALSE}), other \in Trees(BOOLEAN), truncated \in BOOLEAN :
  case' = <<"bind", tested, other, truncated>>

\* Releases of e and h: contents, checkouts and working copies.
Lf(f) == Contents(f, {FALSE})
Manifests == [{"e"} -> Lf("e")] \cup {[f \in {"e", "h"} |-> IF f = "e" THEN e ELSE h] : e \in Lf("e"), h \in Lf("h")}
Checkouts ==
  {[f \in files |-> IF f = "e" THEN e ELSE h] : files \in {{"e"}, {"e", "h"}},
     e \in Contents("e", BOOLEAN), h \in Contents("h", BOOLEAN)}
Committed == [f \in {"e", "h"} |-> [text |-> IF f = "e" THEN "e: import h" ELSE "h", crlf |-> FALSE]]
Release1 == \E listed, own \in Manifests, root, copied \in Checkouts, at \in 1 .. 2 :
  case' = <<"release", [head |-> at, manifest |-> own, tree |-> root], copied, [manifest |-> listed, tree |-> Committed]>>
\* Receipts of the official IC/IM tests beside five-file groups.
Official == \E exit, code \in 0 .. 1, tests \in -1 .. 1, bad \in 0 .. 1, kept, sourceKept \in BOOLEAN,
               o \in Orders, cases \in {Ran({A1, B1}, "passed"), Ran({A1}, "passed") \cup Ran({B1}, "failed")} :
  case' = <<"official", exit, [tests |-> tests, bad |-> bad, code |-> code, kept |-> kept],
            Record(o, o, o, {}, cases, 2, Cardinality({c \in cases : c.outcome = "failed"}), FALSE), sourceKept>>

DayInit ==
  Init /\ PrepareInit /\ case \in {<<"day">>, <<"deal">>, <<"evidence">>, <<"resume">>, <<"bind">>, <<"release">>, <<"official">>, <<"prepare">>}
DayStep == case = <<"day">> /\ Next /\ UNCHANGED <<prepareVars, case>>
DealCase == case = <<"deal">> /\ Deal /\ UNCHANGED <<vars, prepareVars>>
JudgeCase == case = <<"evidence">> /\ Judge /\ UNCHANGED <<vars, prepareVars>>
ResumeCase == case = <<"resume">> /\ Resume /\ UNCHANGED <<vars, prepareVars>>
BindCase == case = <<"bind">> /\ BindTree /\ UNCHANGED <<vars, prepareVars>>
ReleaseCase == case = <<"release">> /\ Release1 /\ UNCHANGED <<vars, prepareVars>>
OfficialCase == case = <<"official">> /\ Official /\ UNCHANGED <<vars, prepareVars>>
PrepareStep == case = <<"prepare">> /\ PrepareNext /\ UNCHANGED <<vars, case>>
DayNext == DayStep \/ DealCase \/ JudgeCase \/ ResumeCase \/ BindCase \/ ReleaseCase \/ OfficialCase \/ PrepareStep
DaySpec == DayInit /\ [][DayNext]_<<vars, prepareVars, case>>

Case(kind) == Len(case) > 1 /\ case[1] = kind

\* A green test result means tests: every test is dealt once and evenly, a group that passes ran
\* all of its tests, a resumed gate takes over results of its own day only, and the IC/IM-only
\* route refuses a receipt without tests (plan_nodes, validate_collection, validate_*_resume).
TestsCount ==
  /\ Case("deal") => EveryTestOnceAndFair(case[2], case[3])
  /\ Case("evidence") => GreenMeansAllRan(case[2])
  /\ Case("resume") => ReuseIsFromToday(case[2], case[3], case[4], case[5], case[6])
  /\ Case("official") => IndependentRunsRestOnTests(case[2], case[3], case[4], case[5])

\* Production runs what was tested: what the gate accepts as published or installed reads as the
\* tested files, a sealed preparation is of one commit, and both routes of a pin run one program
\* (verify_remote, verify_production_sources, prepare, verify_icim_source_release.py).
ProductionIsWhatWasTested ==
  /\ SealedIsOfOneCommit
  /\ Case("bind") => /\ RemoteRunsWhatWasTested(case[2], case[3], {"e"}, UsesOf, case[4])
                     /\ ProductionRunsWhatWasTested(case[2], case[3], {"e", "d"}, {"e", "h", "x"}, UsesOf)
  /\ Case("release") => OneReleaseRuns(case[2], case[3], 1, case[4], {"e"})
=================================================================================
