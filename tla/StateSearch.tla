------------------------------ MODULE StateSearch -------------------------------
(* How a microcap run looks for the newest verified state bundle while other runs  *)
(* upload, are run again or have theirs removed: the list is read by pages, then   *)
(* one run after the other is asked.                                               *)
(*   scripts/restore_microcap_verified_state.py                                    *)
EXTENDS Integers, Sequences, FiniteSets, SequencesExt

CONSTANTS
  PageSize, MaxPages,            \* 100 and 100
  MaxBundles, MaxChanges         \* bounds: bundles, changes while a search goes on

ASSUME SearchAssumption == PageSize \in Nat \ {0} /\ MaxPages \in Nat /\ MaxBundles \in Nat /\ MaxChanges \in Nat

VARIABLES
  shelf,      \* artifacts of the name, the newest first: [id, expired]
  verdicts,   \* conclusion of the run of each bundle: "running" | "success" | "cancelled" | "failure"
  search,     \* [pc, strict, page, got, queue, found]; queue: the bundles not yet asked about
  steady      \* history: of this search, the bundles that were usable all the time;
              \* removed, whether one has left the list; changes, how many there were

searchVars == <<shelf, verdicts, search, steady>>

Ids == 1 .. MaxBundles
NoSearch == [pc |-> "idle", strict |-> FALSE, page |-> 1, got |-> {}, queue |-> {}, found |-> 0]
OnShelf == {shelf[k].id : k \in DOMAIN shelf}
\* A run that was cancelled after its upload still counts, except in a strict search.
RunCounts(i, strict) == verdicts[i] = "success" \/ (verdicts[i] = "cancelled" /\ ~strict)
Usable(strict) == {shelf[k].id : k \in {j \in DOMAIN shelf : ~shelf[j].expired /\ RunCounts(shelf[j].id, strict)}}

SearchInit ==
  /\ shelf = <<>> /\ verdicts = [i \in Ids |-> "running"] /\ search = NoSearch
  /\ steady = [ids |-> {}, removed |-> FALSE, changes |-> 0]

-------------------------------------------------------------------------------
(* The other runs.                                                               *)

MayChange == search.pc = "idle" \/ steady.changes < MaxChanges
Changed(removed) ==
  steady' = IF search.pc = "idle" THEN steady
            ELSE [ids |-> steady.ids \cap (Usable(search.strict))', removed |-> steady.removed \/ removed,
                  changes |-> steady.changes + 1]

\* A bundle is uploaded before its run has a conclusion.
UploadBundle ==
  /\ MayChange
  /\ LET new == Cardinality({i \in Ids : i \in OnShelf \/ verdicts[i] # "running"}) + 1 IN
     /\ new \in Ids
     /\ shelf' = <<[id |-> new, expired |-> FALSE]>> \o shelf
  /\ UNCHANGED <<verdicts, search>> /\ Changed(FALSE)
\* A run ends, or is run again and loses its conclusion.
Conclude == \E i \in OnShelf, result \in {"success", "cancelled", "failure", "running"} :
  /\ MayChange /\ verdicts[i] # result
  /\ verdicts' = [verdicts EXCEPT ![i] = result]
  /\ UNCHANGED <<shelf, search>> /\ Changed(FALSE)
\* A bundle expires, and is listed for a while; or it is deleted.
LoseBundle == \E k \in DOMAIN shelf, deleted \in BOOLEAN :
  /\ MayChange /\ verdicts[shelf[k].id] # "running"
  /\ deleted \/ ~shelf[k].expired
  /\ shelf' = IF deleted THEN RemoveAt(shelf, k) ELSE [shelf EXCEPT ![k].expired = TRUE]
  /\ UNCHANGED <<verdicts, search>> /\ Changed(deleted)

-------------------------------------------------------------------------------
(* fetch_latest, download and extract.                                           *)

StartSearch == \E strict \in BOOLEAN :
  /\ search.pc = "idle" /\ shelf # <<>>
  /\ search' = [NoSearch EXCEPT !.pc = "list", !.strict = strict]
  /\ steady' = [ids |-> Usable(strict), removed |-> FALSE, changes |-> 0]
  /\ UNCHANGED <<shelf, verdicts>>

BundlePage(n) == {shelf[k] : k \in {j \in DOMAIN shelf : PageSize * (n - 1) < j /\ j <= PageSize * n}}
\* One artifact seen on two pages counts once, an expired one not at all.
Listed(got) == {x.id : x \in {y \in got : ~y.expired}}
ReadPage ==
  /\ search.pc = "list"
  /\ LET got == search.got \cup BundlePage(search.page)
         last == Cardinality(BundlePage(search.page)) < PageSize
     IN search' = IF last THEN [search EXCEPT !.pc = "ask", !.got = got, !.queue = Listed(got)]
                  ELSE IF search.page = MaxPages THEN [search EXCEPT !.pc = "failed"]
                  ELSE [search EXCEPT !.got = got, !.page = @ + 1]
  /\ UNCHANGED <<shelf, verdicts, steady>>

\* Newest first; the run is asked for what it is now.
OldestFirst(queue) == {i \in queue : \A j \in queue : i <= j}   \* mutant
NewestFirst(queue) == {i \in queue : \A j \in queue : j <= i}
AskRun ==
  /\ search.pc = "ask"
  /\ \/ search.queue = {} /\ search' = [search EXCEPT !.pc = "none"]
     \/ \E i \in NewestFirst(search.queue) :
          search' = IF RunCounts(i, search.strict) THEN [search EXCEPT !.pc = "download", !.found = i]
                                                  ELSE [search EXCEPT !.queue = @ \ {i}]
  /\ UNCHANGED <<shelf, verdicts, steady>>

\* One file of the expected name, or (a broken archive, a lost download) the step fails and no
\* older bundle is tried.
DownloadBundle == \E whole \in BOOLEAN :
  /\ search.pc = "download"
  /\ search' = [search EXCEPT !.pc =
       IF whole /\ \E k \in DOMAIN shelf : shelf[k].id = search.found /\ ~shelf[k].expired THEN "restored" ELSE "failed"]
  /\ UNCHANGED <<shelf, verdicts, steady>>

SearchNext == UploadBundle \/ Conclude \/ LoseBundle \/ StartSearch \/ ReadPage \/ AskRun \/ DownloadBundle
SearchSpec == SearchInit /\ [][SearchNext]_searchVars

-------------------------------------------------------------------------------
\* Whatever is uploaded or run again meanwhile, a search never passes over a bundle that was
\* usable from its start to its end: it finds that one or a newer. Only a deletion between two
\* pages, which moves the next bundle to the page already read, can hide one.
NewestStateIsFound ==
  (search.pc \in {"none", "download", "restored"} /\ ~steady.removed) =>
    \A i \in steady.ids : search.found >= i
================================================================================
