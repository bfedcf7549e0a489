------------------------------- MODULE MntDigest -------------------------------
(* The MNT advisory mail: three builds of other repositories, whose exit codes    *)
(* are kept, and a mail that is written and sent whatever became of them.         *)
(*   .github/workflows/mnt-advisory-digest.yml, scripts/build_mnt_advisory_digest.py *)
EXTENDS Integers, Sequences

VARIABLE mnt    \* [at, cut, codes, committed, wrote, sent, result]
                \* cut: the job was cancelled or a step failed, only always() steps run on;
                \* committed: the checkout brings a summary of an earlier day; wrote: this run
                \* has written one; sent: {} or the mail [conclusion, summary]

MntSteps == <<"checkout", "microcap", "source_returns", "build", "digest", "send", "upload", "verdict">>
Builds == {"microcap", "source_returns", "build"}

MntInit ==
  \E committed \in BOOLEAN :
    mnt = [at |-> 1, cut |-> FALSE, codes |-> [b \in Builds |-> "none"], committed |-> committed,
           wrote |-> FALSE, sent |-> {}, result |-> "running"]

AtStep(step) == mnt.at <= Len(MntSteps) /\ MntSteps[mnt.at] = step /\ mnt.result = "running"
Reached(step) == AtStep(step) /\ ~mnt.cut
Onwards(run) == [run EXCEPT !.at = @ + 1]

\* A step is left out, or is ended by the 75 minutes of the job; a checkout may fail.
Needs(step) ==
  CASE step = "source_returns" -> mnt.codes["microcap"] = "zero"
    [] step = "build" -> mnt.codes["microcap"] = "zero" /\ mnt.codes["source_returns"] = "zero"
    [] OTHER -> TRUE
SkipStep == \E step \in (Builds \cup {"checkout"}) :
  /\ AtStep(step) /\ (mnt.cut \/ ~Needs(step))
  /\ mnt' = Onwards(mnt)
CutStep == \E step \in (Builds \cup {"checkout"}) :
  /\ Reached(step) /\ Needs(step)
  /\ mnt' = [Onwards(mnt) EXCEPT !.cut = TRUE]

CheckOut == Reached("checkout") /\ mnt' = Onwards(mnt)
\* set +e ... exit 0: a build never fails its step, it leaves its exit code.
BuildSource == \E step \in {"microcap", "source_returns"}, code \in {"zero", "other"} :
  /\ Reached(step) /\ Needs(step)
  /\ mnt' = [Onwards(mnt) EXCEPT !.codes[step] = code]
\* Four scripts in one group: its exit code is the last one's, which writes the summary.
BuildAdvisory == \E codes \in [1 .. 4 -> {"zero", "other"}], half \in BOOLEAN :
  /\ Reached("build") /\ Needs("build")
  /\ mnt' = [Onwards(mnt) EXCEPT !.codes["build"] = codes[4], !.wrote = codes[4] = "zero" \/ half]

\* A code that is missing is no success.
Conclusion(codes) == IF \A b \in Builds : codes[b] = "zero" THEN "success" ELSE "failure"
Summary(run) == IF run.wrote THEN "of this run" ELSE IF run.committed THEN "earlier" ELSE "missing"
MntMail(run) == [conclusion |-> Conclusion(run.codes), summary |-> Summary(run)]

\* The mail is written at the step before; without the automation checkout both steps fail.
SendMnt == \E written \in BOOLEAN, delivered \in BOOLEAN :
  /\ AtStep("digest") /\ (mnt.cut \/ written)
  /\ mnt' = [mnt EXCEPT !.at = @ + 2, !.cut = @ \/ ~(written /\ delivered),
                        !.sent = IF written /\ delivered THEN {MntMail(mnt)} ELSE {}]
UploadMnt == AtStep("upload") /\ mnt' = Onwards(mnt)
\* The last step turns the job red for a build that did not succeed.
Verdict ==
  /\ AtStep("verdict")
  /\ mnt' = [mnt EXCEPT !.result = IF mnt.cut \/ Conclusion(mnt.codes) = "failure" THEN "failure" ELSE "success"]
LoseRunner == mnt.result = "running" /\ mnt' = [mnt EXCEPT !.result = "cancelled"]

MntNext == SkipStep \/ CutStep \/ CheckOut \/ BuildSource \/ BuildAdvisory \/ SendMnt \/ UploadMnt \/ Verdict \/ LoseRunner

-------------------------------------------------------------------------------
\* An advisory that is called a success shows the summary its own run wrote, never the one
\* the checkout brought along, although the mail also goes out after a timeout or a skipped
\* build; and a green job has mailed (mnt-advisory-digest.yml, build_mnt_advisory_digest.py).
MntSuccessIsOfThisRun ==
  /\ \A mail \in mnt.sent : mail.conclusion = "success" => mail.summary = "of this run"
  /\ mnt.result = "success" => \E mail \in mnt.sent : mail.conclusion = "success"
================================================================================
