------------------------------- MODULE SeedRestore -------------------------------
(* The state a microcap run starts from when no recent one can be restored: the   *)
(* approved archive is downloaded, restored under the runtime it was made with,   *)
(* the sources are switched to the reviewed successor, and the archive may be     *)
(* packed again for it. Or an archive of an earlier run is restored.               *)
(*   scripts/restore_approved_microcap_state.py                                    *)
(*   scripts/microcap_whole_state_recovery.py (restore, repack-approved)           *)
EXTENDS Naturals, FiniteSets

CONSTANTS
  Sources,    \* execution sources that a reviewed transition may change
  Approved,   \* the approved archive: [release, inputs, econ]
  Releases    \* approved release configs: [successor, changes, repack, diff]

\* Revisions: 1 the bootstrap, 2 the configured runtime. A release declares the sources a
\* reviewed successor changes (used when successor), those a repack may change, and diff
\* is what really differs between the two revisions.
Runtime == 2
Bodies == [release : 1 .. 2, inputs : [Sources -> 1 .. 2], econ : 1 .. 2]
ASSUME SeedAssumption ==
  /\ Approved \in Bodies /\ IsFiniteSet(Sources)
  /\ \A c \in Releases : c.changes \subseteq Sources /\ c.repack \subseteq Sources /\ c.diff \subseteq Sources

VARIABLES
  seed,     \* the step: [pc, command, release, packed]
  checkout, \* the strategy checkout: [head, manifest]; manifest: the archive restored into it
  bundle,   \* the archive on disk, "none", or a file that is no archive
  kept,     \* the preserved approved original
  reported  \* "restored", "repacked", "unchanged" or "nothing"

seedVars == <<seed, checkout, bundle, kept, reported>>

None == [file |-> "none"]
Broken == [file |-> "broken"]       \* a download that is not what was asked for
Tampered == [file |-> "tampered"]   \* overwritten by the strategy's packer
Earlier == [release |-> 2, inputs |-> [s \in Sources |-> 2], econ |-> 3]
\* The sources of a revision.
SourcesAt(revision, diff) == [s \in Sources |-> IF revision = 2 /\ s \in diff THEN 2 ELSE 1]
Commands == {"approved", "archive"}

SeedInit ==
  /\ \E c \in Commands, r \in Releases : seed = [pc |-> "start", command |-> c, release |-> r, packed |-> Approved]
  /\ checkout = [head |-> Runtime, manifest |-> None]
  /\ bundle \in {None, Earlier}
  /\ kept = None /\ reported = "nothing"

Step(from, to) == seed.pc = from /\ seed' = [seed EXCEPT !.pc = to]
\* A step that raises; no later step runs.
Raise(from) == seed.pc = from /\ seed' = [seed EXCEPT !.pc = "failed"]
R == seed.release

-------------------------------------------------------------------------------
(* restore_approved_microcap_state.py                                            *)

\* download_seed: into a partial file, hashed, then put in place of an earlier archive.
Download == \E body \in {Approved, Broken} :
  /\ IF body = Approved THEN bundle' = body /\ Step("start", "fetched")
                        ELSE bundle' = bundle /\ Raise("start")
  /\ UNCHANGED <<checkout, kept, reported>>
FetchApproved == seed.command = "approved" /\ Download

\* restore_with_source_successor, up to the switch: the runtime is checked out and its
\* execution sources differ from the bootstrap's exactly as reviewed.
SwitchBack ==
  /\ seed.command = "approved" /\ R.successor
  /\ \/ /\ R.diff = R.changes /\ Step("fetched", "switched")
        /\ checkout' = [checkout EXCEPT !.head = 1]
     \/ /\ R.diff # R.changes /\ Raise("fetched") /\ checkout' = checkout
  /\ UNCHANGED <<bundle, kept, reported>>
\* The strategy's own restore, under the revision that is checked out, accepts the archive or fails.
NativeRestore(from, to, body) ==
  \/ /\ Step(from, to) /\ checkout' = [checkout EXCEPT !.manifest = body]
  \/ Step(from, "unrestored") /\ checkout' = checkout
RestoreUnderBootstrap == NativeRestore("switched", "restored", bundle) /\ UNCHANGED <<bundle, kept, reported>>
\* finally: the runtime is checked out again, or git fails.
Returns(from) == TRUE
SwitchForward ==
  /\ R.successor /\ seed.command = "approved"
  /\ \E from \in {"restored", "unrestored"} :
       /\ seed.pc = from
       /\ \/ /\ Returns(from)
             /\ checkout' = [checkout EXCEPT !.head = Runtime]
             /\ seed' = [seed EXCEPT !.pc = IF from = "restored" THEN "readback" ELSE "failed"]
          \/ ~Returns(from) /\ checkout' = checkout /\ seed' = [seed EXCEPT !.pc = "failed"]
          \/ checkout' = checkout /\ seed' = [seed EXCEPT !.pc = "lost"]
  /\ UNCHANGED <<bundle, kept, reported>>
\* The sources read back are those reviewed.
ReadBack ==
  /\ IF \A s \in R.changes : SourcesAt(checkout.head, R.diff)[s] = 2
     THEN Step("readback", "seeded") /\ reported' = "restored"
     ELSE Raise("readback") /\ reported' = reported
  /\ UNCHANGED <<checkout, bundle, kept>>
\* main without a reviewed successor
RestoreDirectly ==
  /\ seed.command = "approved" /\ ~R.successor
  /\ NativeRestore("fetched", "seeded", bundle)
  /\ reported' = IF seed'.pc = "seeded" THEN "restored" ELSE reported
  /\ UNCHANGED <<bundle, kept>>

-------------------------------------------------------------------------------
(* microcap_whole_state_recovery.py                                               *)

\* main, restore: the downloaded archive takes the place, then it is identified.
FetchArchive == \E body \in Bodies \cup {Broken} :
  /\ seed.command = "archive" /\ Step("start", "fetched") /\ bundle' = body
  /\ UNCHANGED <<checkout, kept, reported>>
\* restore_bundle, bundle_identity
BundleIdentified == bundle # Broken /\ bundle.release = Runtime
RestoreArchive ==
  /\ seed.command = "archive" /\ seed.pc = "fetched"
  /\ \/ /\ BundleIdentified /\ NativeRestore("fetched", "ended", bundle)
        /\ reported' = IF seed'.pc = "ended" THEN "restored" ELSE reported
     \/ ~BundleIdentified /\ Raise("fetched") /\ UNCHANGED <<checkout, reported>>
  /\ UNCHANGED <<bundle, kept>>

\* _source_repack_changes, verify_declared_source: one source or the reviewed pair, old in
\* the archive and new in the checkout.
Declared ==
  /\ Cardinality(R.repack) <= 2
  /\ \A s \in R.repack : Approved.inputs[s] = 1 /\ SourcesAt(checkout.head, R.diff)[s] = 2
\* repack_approved, before packing
RepackChecks ==
  /\ checkout.head = Runtime /\ bundle = Approved /\ checkout.manifest = Approved /\ Declared
StartRepack ==
  /\ seed.pc = "seeded"
  /\ IF ~RepackChecks \/ (Approved.release = Runtime /\ R.repack # {})
     THEN Raise("seeded") /\ reported' = reported
     ELSE IF Approved.release = Runtime THEN Step("seeded", "ended") /\ reported' = "unchanged"
          ELSE Step("seeded", "packing") /\ reported' = reported
  /\ UNCHANGED <<checkout, bundle, kept>>
\* _verify_repack_inputs, and the economic parts of the manifest.
AcceptedRepack(b) ==
  /\ b.release = Runtime /\ b.econ = Approved.econ
  /\ {s \in Sources : b.inputs[s] # Approved.inputs[s]} = R.repack
  /\ \A s \in R.repack : b.inputs[s] = 2
\* The strategy's packer writes a new file, and may change anything beside it; what it wrote
\* is compared, the inputs are read again, and the original is preserved before it is replaced.
Pack ==
  /\ seed.pc = "packing"
  /\ \E b \in Bodies, touches \in {"nothing", "bundle", "manifest", "head"} :
       /\ checkout' = CASE touches = "manifest" -> [checkout EXCEPT !.manifest = Tampered]
                        [] touches = "head" -> [checkout EXCEPT !.head = 1]
                        [] OTHER -> checkout
       /\ IF AcceptedRepack(b) /\ touches = "nothing"
          THEN seed' = [seed EXCEPT !.pc = "replace", !.packed = b] /\ kept' = bundle /\ bundle' = bundle
          ELSE /\ Raise("packing") /\ kept' = kept
               /\ bundle' = IF touches = "bundle" THEN Tampered ELSE bundle
  /\ UNCHANGED reported
Replace ==
  /\ Step("replace", "ended") /\ kept = Approved
  /\ bundle' = seed.packed /\ reported' = "repacked" /\ UNCHANGED <<checkout, kept>>

\* The process dies, or the last step of a run was the restore.
DieSeeding == seed.pc \notin {"failed", "ended", "lost", "died"} /\ seed' = [seed EXCEPT !.pc = "died"]
              /\ UNCHANGED <<checkout, bundle, kept, reported>>

SeedNext ==
  \/ FetchApproved \/ SwitchBack \/ RestoreUnderBootstrap \/ SwitchForward \/ ReadBack \/ RestoreDirectly
  \/ FetchArchive \/ RestoreArchive \/ StartRepack \/ Pack \/ Replace \/ DieSeeding

-------------------------------------------------------------------------------
(* Properties                                                                    *)

\* At every moment, a crash included, the archive on disk is the one that was there before,
\* the approved one, or a packing of it for the runtime that differs from it in the declared
\* sources only, with the approved original preserved beside it ("The approved original
\* remains immutable"). An archive of an earlier run may be there before it is identified.
BundleIsApproved ==
  (seed.command = "approved" /\ bundle \notin {None, Earlier, Approved, Tampered}) =>
    /\ bundle # Broken /\ kept = Approved
    /\ bundle.release = Runtime /\ bundle.econ = Approved.econ
    /\ \A s \in Sources : bundle.inputs[s] # Approved.inputs[s] => s \in R.repack /\ s \in R.diff

\* A report of success means a checkout of the configured runtime with the state of the
\* archive in it; after any end but a failing git or a crash the runtime is checked out again.
RestoredRunsTheRuntime ==
  /\ (reported # "nothing" /\ seed.pc \in {"seeded", "ended"}) =>
       /\ checkout.head = Runtime /\ checkout.manifest # None
       /\ seed.command = "approved" => checkout.manifest = Approved
       /\ seed.command = "archive" => checkout.manifest.release = Runtime
       /\ (R.successor /\ seed.command = "approved") => \A s \in R.changes : SourcesAt(checkout.head, R.diff)[s] = 2
  /\ (seed.pc = "failed" /\ reported = "nothing") => checkout.head = Runtime
===============================================================================
