-------------------------------- MODULE MCReports --------------------------------
(* What the reports say and what they leave for the next ones, for TLC: the days  *)
(* of the ETF and AI HOT digests, the mails of the equity monitor and of MNT, the *)
(* archives of the market state, and the cases of the parts that have no state.   *)
(* A behaviour is about one of them; a case is chosen in one step.                *)
EXTENDS MCEtf, MCMail, EquityMonitor, StateRecovery, EtfPreflight, AiHot, MntDigest

VARIABLE case
reports == <<vars, equity, recovery, aiVars, mnt, case>>

OneSuccessor == {<<1, 2>>}

-------------------------------------------------------------------------------
(* Cases of the monitor: gaps in two monthly series, losses of sources.          *)
Valuation(month, extremes, tail) == [month |-> month, extremes |-> extremes, tail |-> tail]
Cape == {Valuation(9, 0, "mid"), Valuation(9, 2, "high"), Valuation(5, 1, "low")}
Dividend == Cape \cup {Valuation(9, 1, "high"), Valuation(7, 2, "high"), Valuation(11, 1, "mid"), NoVariant}
Cores == [cape10 : Cape, cape20 : Cape, div10 : Dividend,
          div20 : {Valuation(9, 0, "mid"), Valuation(7, 2, "high")}]
MonitorCases(kind, c) ==
  \/ kind = "months" /\ \E valuation, term \in SUBSET (1 .. 5) : c = <<"months", [rows |-> 1 .. 5, present |-> valuation], term>>
  \/ kind = "week" /\ \E core \in Cores, m \in {<<1, 1>>, <<-1, 1>>, <<1, -1>>}, vix \in {"calm", "high", "rising"}, up \in SUBSET Sources :
       c = <<"week", [gen |-> 10, core |-> [t \in {"fred", "h15"} |-> core], m1 |-> m[1], m3 |-> 1,
                      m12 |-> m[2], vix |-> vix], up>>

Kinds ==
  {"year", "moment", "pages", "ranking", "table", "change", "period", "fear", "partial", "identity",
   "signal", "sums", "cost", "subject", "month", "handoff", "digest", "members", "local", "months", "week"}
Init ==
  /\ case \in {<<k>> : k \in Kinds \cup {"etf", "equity", "recovery", "aihot", "mnt"}}
  /\ EtfInit /\ (case # <<"etf">> => world = CHOOSE w \in Worlds : TRUE)
  /\ EquityInit /\ RecoveryInit /\ AiInit
  /\ MntInit /\ (case # <<"mnt">> => mnt.committed)
Case(kind) == Len(case) > 1 /\ case[1] = kind
Idling == UNCHANGED <<vars, equity, recovery, aiVars, mnt>>
MarketCase    == Len(case) = 1 /\ MarketCases(case[1], case') /\ Idling
FearCase      == Len(case) = 1 /\ FearCases(case[1], case') /\ Idling
IcimCase      == Len(case) = 1 /\ IcimCases(case[1], case') /\ Idling
HandoffCase   == Len(case) = 1 /\ HandoffCases(case[1], case') /\ Idling
MicrocapCase  == Len(case) = 1 /\ MicrocapCases(case[1], case') /\ Idling
MonitorCase   == Len(case) = 1 /\ MonitorCases(case[1], case') /\ Idling
EtfStep    == case = <<"etf">> /\ EtfNext /\ UNCHANGED <<equity, recovery, aiVars, mnt, case>>
EquityStep == case = <<"equity">> /\ EquityNext /\ UNCHANGED <<vars, recovery, aiVars, mnt, case>>
RecoveryStep == case = <<"recovery">> /\ RecoveryNext /\ UNCHANGED <<vars, equity, aiVars, mnt, case>>
AiStep == case = <<"aihot">> /\ AiNext /\ UNCHANGED <<vars, equity, recovery, mnt, case>>
MntStep == case = <<"mnt">> /\ MntNext /\ UNCHANGED <<vars, equity, recovery, aiVars, case>>
Next == MarketCase \/ FearCase \/ IcimCase \/ HandoffCase \/ MicrocapCase \/ MonitorCase \/ EtfStep \/ EquityStep
        \/ RecoveryStep \/ AiStep \/ MntStep
Spec == Init /\ [][Next]_reports

-------------------------------------------------------------------------------
(* What the parts promise together, each on its cases.                           *)

\* Quotes that stand in one table are comparable: the exchange calendar has its holidays and
\* the newest closed session, the list of ETFs is whole or absent, a table is of one finished
\* close, a change is between the two newest sessions, periods cover the same sessions, and a
\* ranking shows the largest ETF of a family and cuts the smallest moves (etf_movers.py).
MarketTablesAreSound ==
  /\ Case("year") => CalendarSane(case[2])
  /\ Case("moment") => LatestSessionIsTheNewestClosed(case[2])
  /\ Case("pages") => UniverseIsWhole(case[2], case[3], case[4], case[5])
  /\ Case("ranking") => RankingIsFair(case[2], case[3])
  /\ Case("table") => TableIsOfOneClose(case[2], case[3], case[4], case[5], case[6])
  /\ Case("change") => ChangeIsOfOneSession(case[2], case[3], case[4])
  /\ Case("period") => PeriodIsUniform(case[2], case[3], case[4], case[5], case[6])

\* An article comes back only for a cause the history shows, and the history holds what was
\* mailed and nothing else (deduplication and persistence in daily_reports.py).
RepeatsAreExplained == RepeatsHaveACause /\ HistoryWasMailed

\* What a digest leaves out is told: the builder omits nothing silently, the audit and the later
\* proof judge by the same windows, accuse no good mail, pass only when nothing is missing, and
\* a refusal has a cause (etf_candidate_audit.py, validate_etf_delivery.py, etf_preflight.py).
OmissionsAreTold ==
  /\ NoSilentOmission /\ AuditAgreesWithTheWindows /\ RefusalHasACause
  /\ ProofsDoNotAccuse /\ PassMeansNothingIsMissing /\ ExplanationsAgree

\* An IC/IM mail rests on its evidence: the freshest fear reading, one identity on every day,
\* one owner per Put leg, sums of the sleeves, priced costs; it calls no day quiet on which
\* something is due and gives the maintenance notice on its day; the ledger handed over is one
\* history (the validators of build_ic_im_v1_4_digest.py and the contracts).
IcimMailsAreSupported ==
  /\ Case("fear") => NoFresherReadingIsHidden(case[2], Claims)
  /\ Case("partial") => PartialIsExact(case[2])
  /\ Case("identity") => IdentitiesAgree(case[2], case[3])
  /\ Case("signal") => OneOwnerForEveryLeg(case[2])
  /\ Case("sums") => ChangesAddUp(case[2])
  /\ Case("cost") => QuietMeansPriced(case[2])
  /\ Case("subject") => WorkIsNeverQuiet(case[2])
  /\ Case("month") => \A day \in 1 .. 31, late \in 0 .. 1 :
                        AnnouncedOnTheDay(case[2], day, case[3], day, day + late)
  /\ Case("handoff") => HandoffIsOneHistory(case[2], case[3], case[4])

\* A microcap mail titled "no operation" stands on complete rows none of which is due, its
\* actions are of its session, a catch-up shows no later data, and member and local reports
\* show what their rows and evidence support (validate_publication_contract, subject_tag).
MicrocapMailsAreSupported ==
  /\ Case("digest") => /\ QuietMeansNothingDue(case[2]) /\ ActionIsOfTheSession(case[2])
                       /\ CatchUpIsPast(case[2])
  /\ Case("members") => MemberMailIsPlain(case[2], case[3], case[4])
  /\ Case("local") => LocalReportIsOneEvidence(case[2])

\* The other mails speak of now: the monitor's windows have no gap, an outage or an old month
\* never relaxes its advice, it compares with the last report that was read; an AI HOT report is
\* of its day; a success of the MNT advisory is of this run.
OtherMailsAreCurrent ==
  /\ Case("months") => \A ma, window \in 1 .. 3 : WindowsAreWhole(case[2], case[3], ma, window)
  /\ Case("week") => /\ OutageNeverRelaxes(case[2], case[3])
                     /\ StaleEvidenceIsInert(Evidence(case[2], case[3]))
  /\ ComparedWithTheLastMail /\ AiHotMailsAreOfTheirDay /\ MntSuccessIsOfThisRun

\* Every delivery can be recovered from an archive that bears its name, and a proof of recovery
\* is issued only while both its runs stand (verify_microcap_recovery_readiness.py).
RecoveryIsProved == [](DeliveriesAreRecoverable /\ ArchiveBearsItsName) /\ ReceiptsRestOnStandingRuns
=================================================================================
