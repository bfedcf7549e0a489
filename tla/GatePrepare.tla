------------------------------ MODULE GatePrepare ------------------------------
(* How the frozen snapshot of the local gate is prepared and how it is bound to   *)
(* what is published: the files an entry point reaches, the comparison of those   *)
(* files with the remote branch and with the production checkout, and the         *)
(* preparation itself, which may die at any step and be resumed.                  *)
(*   docs/acceptance/local_gate_20261106/flow15/realtime_daily_gate.py            *)
EXTENDS Naturals, FiniteSets

CONSTANTS
  Commits,        \* the automation repository's HEAD over time: number -> its declarations
  Bootstrap,      \* version of the reviewed sources the fixture archive was made with
  SourceVersion,  \* pin -> version of the reviewed sources a Microcap commit holds
  Equivalent,     \* the pairs <<runtime, test source>> the published verifier accepts
  BoundVersion,   \* pin -> version of the files that the IC/IM release manifest binds
  LastEdit        \* bound: versions of the IC/IM working copy

\* A commit declares [micro, icim, strategy, test, runtime, successor]: the strategy pins its
\* workflows check out, the pin of the approved state, the test source and the runtime it is
\* declared for (0: none), and the reviewed <<old, new>> source versions.
Pins == DOMAIN SourceVersion
ASSUME PrepareAssumption ==
  /\ IsFiniteSet(DOMAIN Commits) /\ DOMAIN Commits # {}
  /\ DOMAIN Commits = 1 .. Cardinality(DOMAIN Commits)
  /\ \A c \in DOMAIN Commits :
       /\ Commits[c].micro \subseteq Pins /\ Commits[c].strategy \in Pins
       /\ Commits[c].icim \subseteq Pins
       /\ Commits[c].test \in Pins \cup {0} /\ Commits[c].runtime \in Pins \cup {0}
  /\ Equivalent \subseteq Pins \X Pins /\ LastEdit \in Nat
  /\ BoundVersion \in [Pins -> Nat]

-------------------------------------------------------------------------------
(* Closures and bindings. A tree maps the files it holds to their contents           *)
(* [text, crlf]; Uses(text) = [imports, strings] names the files a text imports and    *)
(* those it only mentions in a string.                                                *)

\* The files reached from the entries, one import further in each round; follow: text -> files.
Reach(tree, entries, follow) ==
  LET names == DOMAIN tree
      round[n \in 0 .. Cardinality(names)] ==
        IF n = 0 THEN entries \cap names
        ELSE round[n - 1] \cup (names \cap UNION {follow[tree[f].text] : f \in round[n - 1]})
  IN round[Cardinality(names)]
Missing(tree, entries) == entries \ DOMAIN tree
\* local_import_closure: imports and names of scripts in strings.
LocalClosure(tree, entries, uses) ==
  Reach(tree, entries, [text \in DOMAIN uses |-> uses[text].imports \cup uses[text].strings])
\* consumer_bindings: fixed files, entry points and the scripts the workflows call; only imports are followed.
ConsumerClosure(tree, entries, uses) ==
  Reach(tree, entries, [text \in DOMAIN uses |-> uses[text].imports])
ConsumerBindings(tree, entries, uses) ==
  [f \in ConsumerClosure(tree, entries, uses) |-> tree[f].text]

\* verify_remote: the same commit, or every bound file is there with the same text but for CRLF.
RemoteAccepted(binding, remote, same, truncated) ==
  \/ same
  \/ /\ ~truncated
     /\ \A f \in DOMAIN binding : f \in DOMAIN remote /\ remote[f].text = binding[f]
\* production_bindings: scripts and the registered plan are bound as text, all else as raw bytes.
ProductionBindings(tree, release, scripts, uses) ==
  [f \in release \cup LocalClosure(tree, release \cap scripts, uses) |->
     [content |-> tree[f], lf |-> f \in scripts]]
\* verify_production_sources
ReadAsText(binding, content) == content.text = binding.content.text   \* mutant: line ends of data are ignored
ReadAsBound(binding, content) ==
  IF binding.lf THEN content.text = binding.content.text ELSE content = binding.content
ProductionAccepted(binding, root) ==
  \A f \in DOMAIN binding : f \in DOMAIN root /\ ReadAsBound(binding[f], root[f])

\* A file that only the other tree holds, under a name that the tested one already asks for.
Shadow(tested, other, closure, asked(_)) ==
  \E f \in closure : (asked(tested[f].text) \cap DOMAIN other) \ DOMAIN tested # {}

\* A gate that accepts the remote branch tested what the branch runs: the entry points reach
\* the same files with the same text there, unless a new file shadows a name that was
\* imported all along (verify_remote compares the bound files, not the closure of the other side).
RemoteRunsWhatWasTested(tested, remote, entries, uses, truncated) ==
  LET closure == ConsumerClosure(tested, entries, uses) IN
    /\ Missing(tested, entries) = {}
    /\ RemoteAccepted(ConsumerBindings(tested, entries, uses), remote, FALSE, truncated)
    => \/ /\ ConsumerClosure(remote, entries, uses) = closure
          /\ \A f \in closure : remote[f].text = tested[f].text
       \/ Shadow(tested, remote, closure, LAMBDA text : uses[text].imports)
\* A gate that accepts the production checkout tested what production runs, data included,
\* with the same exception (verify_production_sources).
ProductionRunsWhatWasTested(tested, root, release, scripts, uses) ==
  LET closure == LocalClosure(tested, release \cap scripts, uses)
      asked(text) == uses[text].imports \cup uses[text].strings IN
    /\ Missing(tested, release) = {}
    /\ ProductionAccepted(ProductionBindings(tested, release, scripts, uses), root)
    => /\ \A f \in release \ scripts : f \notin closure => root[f] = tested[f]
       /\ \/ /\ LocalClosure(root, release \cap scripts, uses) = closure
             /\ \A f \in closure \cap scripts : root[f].text = tested[f].text
          \/ Shadow(tested, root, closure, asked)

\* The IC/IM release a pin names: its manifest lists the files that are executed, with their
\* bytes.  A checkout is [head, manifest, tree], a commit [manifest, tree].
Kept(entry, tree, f) == f \in DOMAIN tree /\ tree[f] = entry
\* verify_icim_source_release.py: the checkout a publication runs from.
CheckoutVerified(root, pin, commit, required) ==
  /\ root.head = pin /\ root.manifest = commit.manifest /\ required \subseteq DOMAIN root.manifest
  /\ \A f \in DOMAIN root.manifest : Kept(root.manifest[f], root.tree, f)
\* verify_icim: the working copy the local gate and the local run execute.
CopyVerified(copied, commit) ==
  \A f \in DOMAIN commit.manifest :
    /\ Kept(commit.manifest[f], commit.tree, f)
    /\ f \in DOMAIN copied /\ copied[f].text = commit.tree[f].text

\* What the cloud run and the local run of one pin accept is one program: the same text in
\* every file of the release, whatever was edited in either checkout, manifests included.
OneReleaseRuns(root, copied, pin, commit, required) ==
  CheckoutVerified(root, pin, commit, required) /\ CopyVerified(copied, commit) =>
    /\ required \subseteq DOMAIN commit.manifest
    /\ \A f \in DOMAIN commit.manifest : root.tree[f].text = copied[f].text

-------------------------------------------------------------------------------
(* Preparing. One process at a time (it holds the coordinator lock); a process that  *)
(* dies leaves the directory as it is, to be resumed once somebody cleared the lock. *)

VARIABLES
  head,    \* HEAD of the automation checkout
  copy,    \* version of the IC/IM working copy: extra fixtures and bound files
  target,  \* the directory: what is installed in each part
  step,    \* [pc, commit, resume] of the running preparation
  receipt   \* prepared.json: 0 or the automation commit it names

prepareVars == <<head, copy, target, step, receipt>>

Parts == {"dir", "tools", "micro", "fixture", "icim", "extra", "bound", "supplemental", "consumer", "guard"}
Nothing == [part \in Parts |-> 0]
Partial == 99        \* a part whose writing was interrupted
NoStep == [pc |-> "idle", commit |-> 0, resume |-> FALSE]

PrepareInit ==
  /\ head = 1 /\ copy = 1 /\ receipt = 0
  /\ target = Nothing /\ step = NoStep

\* pin_from_workflow: all checkouts of a repository name one commit.
OnePin(refs) == Cardinality(refs) = 1
PinOf(refs) == CHOOSE p \in refs : TRUE
TestPin(c) == IF Commits[c].test = 0 THEN PinOf(Commits[c].micro) ELSE Commits[c].test

\* prepare, up to the first write: HEAD is read once; the pins agree, the target is new or resumed.
BeginPrepare ==
  /\ step.pc = "idle" /\ receipt = 0
  /\ \E resume \in BOOLEAN :
       /\ ~resume => target = Nothing
       /\ OnePin(Commits[head].micro) /\ OnePin(Commits[head].icim)
       /\ PinOf(Commits[head].micro) = Commits[head].strategy
       /\ step' = [pc |-> "tools", commit |-> head, resume |-> resume]
  /\ target' = [target EXCEPT !["dir"] = 1]
  /\ UNCHANGED <<head, copy, receipt>>

Then(pc) == step' = [step EXCEPT !.pc = pc]
GiveUp == step' = NoStep
Doing(pc) == step.pc = pc
Install(part, content, next) == target' = [target EXCEPT ![part] = content] /\ Then(next)
This == Commits[step.commit]
Elsewhere == UNCHANGED <<head, copy, receipt>>

\* microcap_test_source, validate_microcap_test_source_binding
Tools ==
  /\ Doing("tools") /\ Elsewhere
  /\ IF This.test = 0 THEN target' = target /\ Then("micro")
     ELSE IF /\ This.runtime = PinOf(This.micro)
             /\ target["tools"] = 0 \/ Commits[target["tools"]] = This
             /\ <<This.runtime, This.test>> \in Equivalent
          THEN Install("tools", step.commit, "micro")
          ELSE target' = target /\ GiveUp

\* verify_installed_micro: the resumed source and fixture are exactly the pin's and the archive's.
InstalledExactly(t, pin) == t["micro"] = pin /\ t["fixture"] = 1
\* archive_checkout of Microcap, or the verification of a resumed one.
Micro ==
  /\ Doing("micro") /\ Elsewhere
  /\ IF step.resume
     THEN target' = target /\ IF InstalledExactly(target, TestPin(step.commit)) THEN Then("check") ELSE GiveUp
     ELSE IF target["micro"] = 0 THEN Install("micro", Partial, "micro")
          ELSE Install("micro", TestPin(step.commit), "fixture")
\* extract_fixture
Fixture ==
  /\ Doing("fixture") /\ Elsewhere
  /\ IF target["fixture"] = 0 THEN Install("fixture", Partial, "fixture")
     ELSE Install("fixture", 1, "check")
\* compatibility: the old manifest binds the sources, or a reviewed successor of exactly these;
\* the review is read from the directory of the tools, whichever commit wrote it.
Compatible(t, pin) ==
  \/ SourceVersion[pin] = Bootstrap
  \/ t["tools"] # 0 /\ <<Bootstrap, SourceVersion[pin]>> \in Commits[t["tools"]].successor
CheckFixture ==
  /\ Doing("check") /\ Elsewhere /\ target' = target
  /\ IF Compatible(target, TestPin(step.commit)) THEN Then("icim") ELSE GiveUp

\* archive_checkout of IC/IM: the directory must be new (an empty one is removed on resume).
IcimCheckout ==
  /\ Doing("icim") /\ Elsewhere
  /\ IF target["icim"] # 0 THEN target' = target /\ GiveUp ELSE Install("icim", Partial, "icim2")
IcimExtract == Doing("icim2") /\ Elsewhere /\ Install("icim", PinOf(This.icim), "extra")
\* copy_fixture of each extra fixture, from the working copy.
ExtraFixtures == Doing("extra") /\ Elsewhere /\ Install("extra", copy, "bound")
\* install_icim_bound_files: what the release manifest binds comes from the working copy, as bound.
BoundAvailable(pin) == copy = BoundVersion[pin]
BoundFiles ==
  /\ Doing("bound") /\ Elsewhere
  /\ IF BoundAvailable(PinOf(This.icim)) THEN Install("bound", copy, "supplemental")
     ELSE target' = target /\ GiveUp
\* install_icim_supplemental: from the pin, never from the working copy.
Supplemental == Doing("supplemental") /\ Elsewhere /\ Install("supplemental", PinOf(This.icim), "consumer")
Consumer ==
  /\ Doing("consumer") /\ Elsewhere
  /\ IF target["consumer"] # 0 THEN target' = target /\ GiveUp
     ELSE Install("consumer", Partial, "consumer2")
ConsumerExtract == Doing("consumer2") /\ Elsewhere /\ Install("consumer", step.commit, "guard")
Guard ==
  /\ Doing("guard") /\ Elsewhere
  /\ IF target["guard"] # 0 THEN target' = target /\ GiveUp ELSE Install("guard", 1, "seal")
Seal ==
  /\ Doing("seal") /\ receipt' = step.commit /\ GiveUp
  /\ UNCHANGED <<head, copy, target>>

Prepare ==
  \/ BeginPrepare \/ Tools \/ Micro \/ Fixture \/ CheckFixture \/ IcimCheckout \/ IcimExtract \/ ExtraFixtures
  \/ BoundFiles \/ Supplemental \/ Consumer \/ ConsumerExtract \/ Guard \/ Seal
\* The process dies at any step, or a check of the installed files fails (a daily test is
\* missing, the published runner cannot be adapted).
Die == step.pc # "idle" /\ GiveUp /\ UNCHANGED <<head, copy, target, receipt>>
\* Somebody pulls the automation checkout, or edits the IC/IM working copy.
Pull == head + 1 \in DOMAIN Commits /\ head' = head + 1 /\ UNCHANGED <<copy, target, step, receipt>>
EditCopy == copy < LastEdit /\ copy' = copy + 1 /\ UNCHANGED <<head, target, step, receipt>>

PrepareNext == Prepare \/ Die \/ Pull \/ EditCopy

\* A sealed snapshot is whole and of one commit of the automation, however often its
\* preparation died and was resumed while HEAD moved and the working copy was edited: source,
\* fixture, consumer and bound files are those that commit names, and the fixture was accepted
\* under its own review. The last part needs the tools to be that commit's: compatibility
\* also reads a review that an earlier attempt left behind.
SealedIsOfOneCommit ==
  receipt # 0 =>
    LET c == Commits[receipt]  icim == PinOf(c.icim) IN
      /\ target["micro"] = TestPin(receipt) /\ target["fixture"] = 1
      /\ target["icim"] = icim /\ target["supplemental"] = icim
      /\ target["bound"] = BoundVersion[icim]
      /\ target["consumer"] = receipt /\ target["guard"] = 1
      /\ c.test # 0 => Commits[target["tools"]] = c /\ <<PinOf(c.micro), c.test>> \in Equivalent
      /\ (c.test # 0 \/ target["tools"] = 0) =>
           \/ SourceVersion[TestPin(receipt)] = Bootstrap
           \/ <<Bootstrap, SourceVersion[TestPin(receipt)]>> \in c.successor
===============================================================================
