----------------------------- MODULE LocalDayProofs -----------------------------
(***************************************************************************)
(* Proofs about what the local gate's answers are worth: that the tests    *)
(* are dealt completely and fairly, that a green group ran its tests, that *)
(* a takeover is of the same day, that a prepared snapshot is of one       *)
(* commit and that production reads as the tested files; for every set of  *)
(* tests, every tree, every evidence and every history of commits.         *)
(***************************************************************************)
EXTENDS MCLocal, LocalIntradayProofs, FiniteSetTheorems, WellFoundedInduction

-------------------------------------------------------------------------------
(* Recursion over the numbers up to a bound, and over the subsets of a finite set:    *)
(* there is a function that satisfies the recursive equation, and what holds at 0 and  *)
(* is handed on by every number holds of all of them.                                  *)

\* A non-empty set of numbers has a least element.
LEMMA LeastOf ==
  ASSUME NEW T \in SUBSET Nat, T # {}
  PROVE  \E m \in T : \A k \in T : m <= k
<1>1. PICK m \in T : \A k \in T : ~(<<k, m>> \in OpToRel(<, Nat))
  BY NatLessThanWellFounded, WFMin
<1>2. ASSUME NEW k \in T PROVE m <= k
  <2>1. k \in Nat /\ m \in Nat
    OBVIOUS
  <2>2. ~(k < m)
    BY <1>1, <2>1 DEF OpToRel
  <2>3. QED BY <2>1, <2>2
<1>3. QED BY <1>2

\* Induction over the numbers, for a set of them.
LEMMA Induction ==
  ASSUME NEW T, 0 \in T, \A n \in Nat : n \in T => n + 1 \in T
  PROVE  Nat \subseteq T
<1> SUFFICES ASSUME Nat \ T # {} PROVE FALSE
  OBVIOUS
<1>1. PICK m \in Nat \ T : \A k \in Nat \ T : m <= k
  BY LeastOf
<1>2. m # 0 /\ m - 1 \in Nat
  BY <1>1
<1>3. m - 1 \in T
  BY <1>1, <1>2
<1>4. QED BY <1>1, <1>2, <1>3

Taken(s) == CHOOSE x \in s : TRUE

\* Taking an element out of a finite set leaves a smaller one.
LEMMA Removal ==
  ASSUME NEW s, IsFiniteSet(s), s # {}
  PROVE  /\ Taken(s) \in s /\ IsFiniteSet(s \ {Taken(s)})
         /\ Cardinality(s) \in Nat \ {0}
         /\ Cardinality(s \ {Taken(s)}) = Cardinality(s) - 1
<1>1. Taken(s) \in s
  BY DEF Taken
<1>2. QED BY <1>1, FS_RemoveElement, FS_CardinalityType, FS_EmptySet

\* What holds of the empty set and of a set when it holds of the set without the element
\* that is taken first, holds of every finite set.
LEMMA SetInduction ==
  ASSUME NEW S, IsFiniteSet(S), NEW T, {} \in T,
         \A s \in SUBSET S : s # {} /\ s \ {Taken(s)} \in T => s \in T
  PROVE  SUBSET S \subseteq T
<1> DEFINE U == {n \in Nat : \A s \in SUBSET S : Cardinality(s) = n => s \in T}
<1>0. ASSUME NEW s \in SUBSET S PROVE IsFiniteSet(s) /\ Cardinality(s) \in Nat
  BY FS_Subset, FS_CardinalityType
<1>1. 0 \in U
  BY <1>0, FS_EmptySet
<1>2. ASSUME NEW n \in Nat, n \in U PROVE n + 1 \in U
  <2>1. ASSUME NEW s \in SUBSET S, Cardinality(s) = n + 1 PROVE s \in T
    <3>1. s # {}
      BY <2>1, FS_EmptySet
    <3>2. Cardinality(s \ {Taken(s)}) = n /\ s \ {Taken(s)} \in SUBSET S
      BY <1>0, <2>1, <3>1, Removal
    <3>3. QED BY <1>2, <3>1, <3>2
  <2>2. QED BY <2>1
<1> HIDE DEF U
<1>3. Nat \subseteq U
  BY <1>1, <1>2, Induction
<1>4. QED BY <1>0, <1>3 DEF U

\* g sums w over the subsets of S, one element after the other.
Sums(S, w, g) == g = [s \in SUBSET S |-> IF s = {} THEN 0 ELSE w[Taken(s)] + g[s \ {Taken(s)}]]

\* There is a function that sums w over all subsets.
LEMMA SumExists ==
  ASSUME NEW S, IsFiniteSet(S), NEW w
  PROVE  \E g : Sums(S, w, g)
<1> DEFINE Small(n) == {s \in SUBSET S : Cardinality(s) <= n}
           Sum(n, g) == g = [s \in Small(n) |-> IF s = {} THEN 0 ELSE w[Taken(s)] + g[s \ {Taken(s)}]]
           T == {n \in Nat : \E g : Sum(n, g)}
<1>0. ASSUME NEW s \in SUBSET S PROVE IsFiniteSet(s) /\ Cardinality(s) \in Nat /\ Cardinality(s) <= Cardinality(S)
  BY FS_Subset, FS_CardinalityType
<1>00. ASSUME NEW s \in SUBSET S, s # {}
       PROVE  s \ {Taken(s)} \in SUBSET S /\ Cardinality(s \ {Taken(s)}) = Cardinality(s) - 1
  BY <1>0, <1>00, Removal
<1>1. 0 \in T
  <2>1. Small(0) = {{}}
    BY <1>0, FS_EmptySet
  <2>2. Sum(0, [s \in Small(0) |-> 0])
    BY <2>1
  <2>3. QED BY <2>2
<1>2. ASSUME NEW n \in Nat, n \in T PROVE n + 1 \in T
  <2>1. PICK g : Sum(n, g)
    BY <1>2
  <2> DEFINE h == [s \in Small(n + 1) |-> IF s \in Small(n) THEN g[s] ELSE w[Taken(s)] + g[s \ {Taken(s)}]]
  <2>2. ASSUME NEW s \in Small(n + 1) PROVE h[s] = IF s = {} THEN 0 ELSE w[Taken(s)] + h[s \ {Taken(s)}]
    <3>1. CASE s = {}
      <4>1. s \in Small(n)
        BY <3>1, FS_EmptySet
      <4>2. QED BY <2>1, <3>1, <4>1
    <3>2. CASE s # {}
      <4>1. s \ {Taken(s)} \in Small(n) /\ s \ {Taken(s)} \in Small(n + 1)
        <5>1. Cardinality(s) \in Nat /\ Cardinality(s) <= n + 1
          BY <1>0
        <5>2. QED BY <1>00, <3>2, <5>1
      <4> DEFINE less == s \ {Taken(s)}
      <4>2. h[less] = g[less]
        BY <4>1
      <4>3. s \in Small(n) => g[s] = w[Taken(s)] + g[less]
        BY <2>1, <3>2
      <4> HIDE DEF less, Small
      <4>4. h[s] = w[Taken(s)] + g[less]
        BY <4>3 DEF less
      <4>5. QED BY <3>2, <4>2, <4>4 DEF less
    <3>3. QED BY <3>1, <3>2
  <2>3. h = [s \in Small(n + 1) |-> h[s]]
    OBVIOUS
  <2> HIDE DEF h, Small
  <2>4. Sum(n + 1, h)
    BY <2>2, <2>3
  <2> HIDE DEF Sum
  <2>5. QED BY <2>4
<1> HIDE DEF T
<1>3. Nat \subseteq T
  BY <1>1, <1>2, Induction
<1>4. Cardinality(S) \in Nat /\ Small(Cardinality(S)) = SUBSET S
  BY <1>0, FS_CardinalityType
<1>5. \E g : Sum(Cardinality(S), g)
  BY <1>3, <1>4 DEF T
<1>6. PICK g : Sum(Cardinality(S), g)
  BY <1>5
<1> HIDE DEF Small
<1>7. Sums(S, w, g)
  BY <1>4, <1>6 DEF Sums
<1>8. QED BY <1>7

\* Sums of numbers are numbers.
LEMMA SumType ==
  ASSUME NEW S, IsFiniteSet(S), NEW w, \A x \in S : w[x] \in Nat,
         NEW g, Sums(S, w, g)
  PROVE  \A s \in SUBSET S : g[s] \in Nat
<1> DEFINE T == {s \in SUBSET S : g[s] \in Nat}
<1>1. \A s \in SUBSET S : g[s] = IF s = {} THEN 0 ELSE w[Taken(s)] + g[s \ {Taken(s)}]
  <2> DEFINE val(s) == IF s = {} THEN 0 ELSE w[Taken(s)] + g[s \ {Taken(s)}]
  <2> HIDE DEF val
  <2>1. g = [s \in SUBSET S |-> val(s)]
    BY DEF val, Sums
  <2>2. \A s \in SUBSET S : g[s] = val(s)
    BY <2>1
  <2>3. QED BY <2>2 DEF val
<1>2. {} \in T
  <2>1. {} \in SUBSET S
    OBVIOUS
  <2>2. g[{}] = 0
    BY <1>1, <2>1
  <2>3. QED BY <2>1, <2>2
<1>3. ASSUME NEW s \in SUBSET S, s # {}, s \ {Taken(s)} \in T PROVE s \in T
  <2>1. w[Taken(s)] \in Nat
    BY <1>3 DEF Taken
  <2>2. g[s] = w[Taken(s)] + g[s \ {Taken(s)}]
    BY <1>1, <1>3
  <2>3. QED BY <1>3, <2>1, <2>2
<1> HIDE DEF T
<1>4. SUBSET S \subseteq T
  BY <1>2, <1>3, SetInduction
<1>5. QED BY <1>4 DEF T

-------------------------------------------------------------------------------
(* Closures.  Names a closure reaches are closed under what their texts follow, and   *)
(* no smaller closed set holds the entries.                                             *)

\* Reach is the last round of a function that satisfies its recursive equation.
LEMMA ReachRounds ==
  ASSUME NEW tree, NEW entries, NEW follow, NEW k \in Nat, k = Cardinality(DOMAIN tree)
  PROVE  \E round :
           /\ round[0] = entries \cap DOMAIN tree
           /\ \A n \in 1 .. k :
                round[n] = round[n - 1] \cup (DOMAIN tree \cap UNION {follow[tree[f].text] : f \in round[n - 1]})
           /\ Reach(tree, entries, follow) = round[k]
<1> DEFINE names == DOMAIN tree
           More(A) == A \cup (names \cap UNION {follow[tree[f].text] : f \in A})
           Rounds(m, g) == g = [n \in 0 .. m |-> IF n = 0 THEN entries \cap names ELSE More(g[n - 1])]
           T == {m \in Nat : \E g : Rounds(m, g)}
<1>1. 0 \in T
  <2>1. Rounds(0, [n \in 0 .. 0 |-> entries \cap names])
    OBVIOUS
  <2>2. QED BY <2>1
<1>2. ASSUME NEW m \in Nat, m \in T PROVE m + 1 \in T
  <2>1. PICK g : Rounds(m, g)
    BY <1>2
  <2> DEFINE h == [n \in 0 .. m + 1 |-> IF n = m + 1 THEN More(g[m]) ELSE g[n]]
  <2>2. \A n \in 0 .. m + 1 : h[n] = IF n = 0 THEN entries \cap names ELSE More(h[n - 1])
    <3> HIDE DEF More
    <3>0. /\ \A n \in 0 .. m : g[n] = IF n = 0 THEN entries \cap names ELSE More(g[n - 1])
          /\ \A n \in 0 .. m : h[n] = g[n]
          /\ h[m + 1] = More(g[m])
      <4> DEFINE val(n) == IF n = 0 THEN entries \cap names ELSE More(g[n - 1])
      <4>1. g = [n \in 0 .. m |-> val(n)]
        BY <2>1
      <4> HIDE DEF val
      <4>2. \A n \in 0 .. m : g[n] = val(n)
        BY <4>1
      <4>3. (\A n \in 0 .. m : h[n] = g[n]) /\ h[m + 1] = More(g[m])
        OBVIOUS
      <4>4. QED BY <4>2, <4>3 DEF val
    <3>1. ASSUME NEW n \in 0 .. m + 1, n # 0 PROVE h[n] = More(h[n - 1])
      <4> HIDE DEF h
      <4>1. CASE n = m + 1
        BY <3>0, <4>1
      <4>2. CASE n # m + 1
        <5>1. n \in 0 .. m /\ n - 1 \in 0 .. m
          BY <3>1, <4>2
        <5>2. QED BY <3>0, <3>1, <5>1
      <4>3. QED BY <4>1, <4>2
    <3>2. h[0] = entries \cap names
      BY <2>1
    <3>3. QED BY <3>1, <3>2
  <2>3. Rounds(m + 1, h)
    <3> HIDE DEF More
    <3>1. h = [n \in 0 .. m + 1 |-> h[n]]
      OBVIOUS
    <3>2. QED BY <2>2, <3>1
  <2> HIDE DEF Rounds, h
  <2>4. QED BY <2>3
<1>3. \E g : Rounds(k, g)
  <2> HIDE DEF T
  <2>1. Nat \subseteq T
    BY <1>1, <1>2, Induction
  <2>2. QED BY <2>1 DEF T
<1>4. PICK r : Rounds(k, r) /\ Reach(tree, entries, follow) = r[k]
  BY <1>3 DEF Reach
<1>5. r[0] = entries \cap names /\ \A n \in 1 .. k : r[n] = More(r[n - 1])
  <2> HIDE DEF More
  <2>1. \A n \in 0 .. k : r[n] = IF n = 0 THEN entries \cap names ELSE More(r[n - 1])
    BY <1>4
  <2>2. QED BY <2>1
<1>6. QED BY <1>4, <1>5

\* As many rounds as there are names suffice (local_import_closure follows until nothing is new).
LEMMA ReachFacts ==
  ASSUME NEW tree, NEW entries, NEW follow, IsFiniteSet(DOMAIN tree)
  PROVE  LET C == Reach(tree, entries, follow) IN
           /\ C \subseteq DOMAIN tree /\ entries \cap DOMAIN tree \subseteq C
           /\ \A f \in C : follow[tree[f].text] \cap DOMAIN tree \subseteq C
           /\ \A X : /\ entries \cap DOMAIN tree \subseteq X
                     /\ \A f \in X : follow[tree[f].text] \cap DOMAIN tree \subseteq X
                     => C \subseteq X
<1> DEFINE names == DOMAIN tree
           k == Cardinality(names)
           C == Reach(tree, entries, follow)
           Added(A) == names \cap UNION {follow[tree[f].text] : f \in A}
           Closed(A) == \A f \in A : follow[tree[f].text] \cap names \subseteq A
<1>0. k \in Nat
  BY FS_CardinalityType
<1>1. PICK r : /\ r[0] = entries \cap names
               /\ \A n \in 1 .. k : r[n] = r[n - 1] \cup Added(r[n - 1])
               /\ C = r[k]
  <2> DEFINE m == k
  <2>1. m \in Nat /\ m = Cardinality(DOMAIN tree)
    BY <1>0
  <2> HIDE DEF m
  <2>2. \E r : /\ r[0] = entries \cap DOMAIN tree
               /\ \A n \in 1 .. m :
                    r[n] = r[n - 1] \cup (DOMAIN tree \cap UNION {follow[tree[f].text] : f \in r[n - 1]})
               /\ Reach(tree, entries, follow) = r[m]
    BY <2>1, ReachRounds
  <2>3. QED BY <2>2 DEF m
<1>2. \A A : Added(A) \subseteq A <=> Closed(A)
  OBVIOUS
<1>3. \A A, X : A \subseteq X /\ Closed(X) => A \cup Added(A) \subseteq X
  OBVIOUS
<1>4. \A A : Added(A) \subseteq names
  OBVIOUS
<1> HIDE DEF C, Added, Closed, names
\* Every round is closed or holds more names than have passed.
<1> DEFINE Grown(n) == /\ r[n] \subseteq names /\ entries \cap names \subseteq r[n]
                       /\ Closed(r[n]) \/ Cardinality(r[n]) >= n
           T == {n \in Nat : n <= k => Grown(n)}
<1>5. \A A \in SUBSET names : /\ IsFiniteSet(A) /\ Cardinality(A) \in Nat /\ Cardinality(A) <= k
                              /\ (Cardinality(A) = k => A = names)
  BY FS_Subset, FS_CardinalityType DEF names
<1>6. 0 \in T
  BY <1>1, <1>5
<1>7. ASSUME NEW n \in Nat, n \in T, n + 1 <= k PROVE Grown(n + 1)
  <2>1. Grown(n) /\ r[n + 1] = r[n] \cup Added(r[n])
    <3>1. n <= k /\ n + 1 \in 1 .. k /\ (n + 1) - 1 = n
      BY <1>0, <1>7
    <3>2. QED BY <1>1, <1>7, <3>1
  <2>2. r[n + 1] \subseteq names /\ entries \cap names \subseteq r[n + 1]
    BY <1>4, <2>1
  <2>3. CASE Closed(r[n])
    <3>1. r[n + 1] = r[n]
      BY <1>2, <2>1, <2>3
    <3>2. QED BY <2>2, <2>3, <3>1
  <2>4. CASE ~Closed(r[n])
    <3>1. Cardinality(r[n]) >= n /\ r[n] # r[n + 1] /\ r[n] \in SUBSET r[n + 1]
      BY <1>2, <2>1, <2>4
    <3>2. IsFiniteSet(r[n + 1]) /\ Cardinality(r[n + 1]) \in Nat /\ Cardinality(r[n]) \in Nat
      BY <1>5, <2>1, <2>2
    <3>3. Cardinality(r[n]) <= Cardinality(r[n + 1]) /\ Cardinality(r[n]) # Cardinality(r[n + 1])
      BY <3>1, <3>2, FS_Subset
    <3>4. QED BY <2>2, <3>1, <3>2, <3>3
  <2>5. QED BY <2>3, <2>4
<1>8. Grown(k)
  <2> HIDE DEF Grown
  <2>1. Nat \subseteq T
    <3> HIDE DEF T
    <3>1. \A n \in Nat : n \in T => n + 1 \in T
      BY <1>7 DEF T
    <3>2. QED BY <1>6, <3>1, Induction
  <2>2. QED BY <1>0, <2>1
<1>9. Closed(C)
  <2>1. CASE Cardinality(C) >= k
    <3>1. C = names
      BY <1>0, <1>1, <1>5, <1>8, <2>1
    <3>2. QED BY <1>2, <1>4, <3>1
  <2>2. QED BY <1>1, <1>8, <2>1
\* A closed set that holds the entries holds every round.
<1>10. ASSUME NEW X, entries \cap names \subseteq X, Closed(X) PROVE C \subseteq X
  <2> DEFINE U == {n \in Nat : n <= k => r[n] \subseteq X}
  <2>1. 0 \in U
    BY <1>1, <1>10
  <2>2. ASSUME NEW n \in Nat, n \in U PROVE n + 1 \in U
    <3>1. ASSUME n + 1 <= k PROVE r[n + 1] \subseteq X
      <4>1. n <= k /\ n + 1 \in 1 .. k /\ (n + 1) - 1 = n
        BY <1>0, <3>1
      <4>2. r[n + 1] = r[n] \cup Added(r[n]) /\ r[n] \subseteq X
        BY <1>1, <2>2, <4>1
      <4>3. QED BY <1>3, <1>10, <4>2
    <3>2. QED BY <3>1
  <2>3. Nat \subseteq U
    <3> HIDE DEF U
    <3>1. QED BY <2>1, <2>2, Induction
  <2>4. QED BY <1>0, <1>1, <2>3
<1>11. C \subseteq names /\ entries \cap names \subseteq C
  BY <1>1, <1>8
<1>12. QED BY <1>9, <1>10, <1>11 DEF C, Closed, names

\* Two trees with the same texts under a closure of the first, in the second of which no
\* new file answers to a name that was followed all along, have the same closure.
LEMMA SameClosure ==
  ASSUME NEW tested, NEW other, NEW entries, NEW follow,
         IsFiniteSet(DOMAIN tested), IsFiniteSet(DOMAIN other),
         entries \subseteq DOMAIN tested,
         \A f \in Reach(tested, entries, follow) : f \in DOMAIN other /\ other[f].text = tested[f].text,
         \A f \in Reach(tested, entries, follow) :
           (follow[tested[f].text] \cap DOMAIN other) \ DOMAIN tested = {}
  PROVE  Reach(other, entries, follow) = Reach(tested, entries, follow)
<1> DEFINE C == Reach(tested, entries, follow)
           D == Reach(other, entries, follow)
<1>1. /\ C \subseteq DOMAIN tested /\ entries \cap DOMAIN tested \subseteq C
      /\ \A f \in C : follow[tested[f].text] \cap DOMAIN tested \subseteq C
      /\ \A X : /\ entries \cap DOMAIN tested \subseteq X
                /\ \A f \in X : follow[tested[f].text] \cap DOMAIN tested \subseteq X
                => C \subseteq X
  BY ReachFacts
<1>2. /\ D \subseteq DOMAIN other /\ entries \cap DOMAIN other \subseteq D
      /\ \A f \in D : follow[other[f].text] \cap DOMAIN other \subseteq D
      /\ \A X : /\ entries \cap DOMAIN other \subseteq X
                /\ \A f \in X : follow[other[f].text] \cap DOMAIN other \subseteq X
                => D \subseteq X
  BY ReachFacts
<1>0. /\ \A f \in C : f \in DOMAIN other /\ other[f].text = tested[f].text
      /\ \A f \in C : (follow[tested[f].text] \cap DOMAIN other) \ DOMAIN tested = {}
  OBVIOUS
<1> HIDE DEF C, D
<1>3. D \subseteq C
  <2>1. entries \cap DOMAIN other \subseteq C
    BY <1>1
  <2>2. \A f \in C : follow[other[f].text] \cap DOMAIN other \subseteq C
    BY <1>0, <1>1
  <2>3. QED BY <1>2, <2>1, <2>2
<1>4. C \subseteq C \cap D
  <2>1. entries \cap DOMAIN tested \subseteq C \cap D
    BY <1>0, <1>1, <1>2
  <2>2. \A f \in C \cap D : follow[tested[f].text] \cap DOMAIN tested \subseteq C \cap D
    BY <1>0, <1>1, <1>2
  <2>3. QED BY <1>1, <2>1, <2>2
<1>5. QED BY <1>3, <1>4 DEF C, D

-------------------------------------------------------------------------------
(* Bindings.  A readable tree has finitely many files and only texts whose uses are   *)
(* known; uses maps a text to the names it imports and the names in its strings.        *)

ReadableTree(tree, uses) == IsFiniteSet(DOMAIN tree) /\ \A f \in DOMAIN tree : tree[f].text \in DOMAIN uses

\* What the gate accepts on the remote branch reaches the tested files with the tested texts,
\* for every pair of trees (verify_remote).
THEOREM RemoteSame ==
  ASSUME NEW uses, NEW tested, NEW remote, NEW entries, NEW truncated,
         ReadableTree(tested, uses), ReadableTree(remote, uses)
  PROVE  RemoteRunsWhatWasTested(tested, remote, entries, uses, truncated)
<1> DEFINE closure == ConsumerClosure(tested, entries, uses)
           follow == [text \in DOMAIN uses |-> uses[text].imports]
<1> SUFFICES ASSUME Missing(tested, entries) = {},
                    RemoteAccepted(ConsumerBindings(tested, entries, uses), remote, FALSE, truncated),
                    ~Shadow(tested, remote, closure, LAMBDA text : uses[text].imports)
             PROVE  /\ ConsumerClosure(remote, entries, uses) = closure
                    /\ \A f \in closure : remote[f].text = tested[f].text
  BY DEF RemoteRunsWhatWasTested
<1>1. /\ closure = Reach(tested, entries, follow)
      /\ ConsumerClosure(remote, entries, uses) = Reach(remote, entries, follow)
  BY DEF ConsumerClosure
<1>2. closure \subseteq DOMAIN tested /\ entries \subseteq DOMAIN tested
  BY <1>1, ReachFacts DEF ReadableTree, Missing
<1>3. \A f \in closure : f \in DOMAIN remote /\ remote[f].text = tested[f].text
  BY DEF RemoteAccepted, ConsumerBindings
<1>4. \A f \in closure : (follow[tested[f].text] \cap DOMAIN remote) \ DOMAIN tested = {}
  BY <1>2 DEF Shadow, ReadableTree
<1> HIDE DEF closure, follow
<1>5. QED BY <1>1, <1>2, <1>3, <1>4, SameClosure DEF ReadableTree

\* The same of the production checkout, data files included (verify_production_sources).
THEOREM ProductionSame ==
  ASSUME NEW uses, NEW tested, NEW root, NEW release, NEW scripts,
         ReadableTree(tested, uses), ReadableTree(root, uses)
  PROVE  ProductionRunsWhatWasTested(tested, root, release, scripts, uses)
<1> DEFINE closure == LocalClosure(tested, release \cap scripts, uses)
           asked(text) == uses[text].imports \cup uses[text].strings
           follow == [text \in DOMAIN uses |-> asked(text)]
<1> SUFFICES ASSUME Missing(tested, release) = {},
                    ProductionAccepted(ProductionBindings(tested, release, scripts, uses), root)
             PROVE  /\ \A f \in release \ scripts : f \notin closure => root[f] = tested[f]
                    /\ \/ /\ LocalClosure(root, release \cap scripts, uses) = closure
                          /\ \A f \in closure \cap scripts : root[f].text = tested[f].text
                       \/ Shadow(tested, root, closure, asked)
  BY DEF ProductionRunsWhatWasTested
<1>1. /\ closure = Reach(tested, release \cap scripts, follow)
      /\ LocalClosure(root, release \cap scripts, uses) = Reach(root, release \cap scripts, follow)
  BY DEF LocalClosure
<1>2. closure \subseteq DOMAIN tested /\ release \cap scripts \subseteq DOMAIN tested
  BY <1>1, ReachFacts DEF ReadableTree, Missing
<1>3. \A f \in release \cup closure :
        /\ f \in DOMAIN root
        /\ IF f \in scripts THEN root[f].text = tested[f].text ELSE root[f] = tested[f]
  BY DEF ProductionAccepted, ProductionBindings, ReadAsBound
<1>4. ASSUME ~Shadow(tested, root, closure, asked)
      PROVE  \A f \in closure : (follow[tested[f].text] \cap DOMAIN root) \ DOMAIN tested = {}
  BY <1>2, <1>4 DEF Shadow, ReadableTree
<1> HIDE DEF closure, follow
<1>5. ASSUME ~Shadow(tested, root, closure, asked)
      PROVE  LocalClosure(root, release \cap scripts, uses) = closure
  <2>1. \A f \in closure : f \in DOMAIN root /\ root[f].text = tested[f].text
    BY <1>3
  <2>2. \A f \in closure : (follow[tested[f].text] \cap DOMAIN root) \ DOMAIN tested = {}
    BY <1>4, <1>5
  <2>3. IsFiniteSet(DOMAIN tested) /\ IsFiniteSet(DOMAIN root)
    BY DEF ReadableTree
  <2> DEFINE first == release \cap scripts
  <2>4. /\ \A f \in Reach(tested, first, follow) : f \in DOMAIN root /\ root[f].text = tested[f].text
        /\ \A f \in Reach(tested, first, follow) : (follow[tested[f].text] \cap DOMAIN root) \ DOMAIN tested = {}
        /\ first \subseteq DOMAIN tested
    BY <1>1, <1>2, <2>1, <2>2
  <2> HIDE DEF first
  <2>5. Reach(root, first, follow) = Reach(tested, first, follow)
    BY <2>3, <2>4, SameClosure
  <2>6. QED BY <1>1, <2>5 DEF first
<1>6. QED BY <1>3, <1>5

\* What both routes of one pin accept is one program (verify_icim_source_release.py, verify_icim).
LEMMA ReleaseSame ==
  ASSUME NEW root, NEW copied, NEW pin, NEW commit, NEW required
  PROVE  OneReleaseRuns(root, copied, pin, commit, required)
BY DEF OneReleaseRuns, CheckoutVerified, CopyVerified, Kept

-------------------------------------------------------------------------------
(* Preparing.  The steps that follow the one named: what it installed is there.       *)

PastGuard == {"seal"}
PastConsumer == PastGuard \cup {"guard"}
PastSupplemental == PastConsumer \cup {"consumer", "consumer2"}
PastBound == PastSupplemental \cup {"supplemental"}
PastIcim == PastBound \cup {"extra", "bound"}
PastCheck == PastIcim \cup {"icim", "icim2"}
PastFixture == PastCheck \cup {"check"}
PastMicro == PastFixture \cup {"fixture"}
PastTools == PastMicro \cup {"micro"}
PrepareSteps == PastTools \cup {"tools", "idle"}

\* What commit c names is installed in the directory t, up to the step pc.
ToolsOf(c, t) == Commits[c].test # 0 =>
  /\ t["tools"] # 0 /\ Commits[t["tools"]] = Commits[c]
  /\ <<PinOf(Commits[c].micro), Commits[c].test>> \in Equivalent
Reviewed(c, t) == (Commits[c].test # 0 \/ t["tools"] = 0) =>
  \/ SourceVersion[TestPin(c)] = Bootstrap
  \/ <<Bootstrap, SourceVersion[TestPin(c)]>> \in Commits[c].successor
Installed(c, t, pc) ==
  /\ pc \in PastTools => ToolsOf(c, t)
  /\ pc \in PastMicro => t["micro"] = TestPin(c)
  /\ pc \in PastFixture => t["fixture"] = 1
  /\ pc \in PastCheck => Reviewed(c, t)
  /\ pc \in PastIcim => t["icim"] = PinOf(Commits[c].icim)
  /\ pc \in PastBound => t["bound"] = BoundVersion[PinOf(Commits[c].icim)]
  /\ pc \in PastSupplemental => t["supplemental"] = PinOf(Commits[c].icim)
  /\ pc \in PastConsumer => t["consumer"] = c
  /\ pc \in PastGuard => t["guard"] = 1

PrepareTypes ==
  /\ head \in DOMAIN Commits /\ receipt \in DOMAIN Commits \cup {0}
  /\ DOMAIN target = Parts
  /\ step \in [pc : PrepareSteps, commit : DOMAIN Commits \cup {0}, resume : BOOLEAN]
  /\ step.pc # "idle" => step.commit \in DOMAIN Commits
PrepareInv ==
  /\ PrepareTypes
  /\ step.pc # "idle" => receipt = 0 /\ Installed(step.commit, target, step.pc)
  /\ receipt # 0 => step.pc = "idle" /\ Installed(receipt, target, "seal")

\* Commits are numbered from 1; 0 stands for none.
LEMMA CommitsFromOne == 0 \notin DOMAIN Commits /\ 1 \in DOMAIN Commits
<1> DEFINE n == Cardinality(DOMAIN Commits)
<1>1. n \in Nat \ {0}
  BY PrepareAssumption, FS_CardinalityType, FS_EmptySet
<1>2. DOMAIN Commits = 1 .. n
  BY PrepareAssumption
<1> HIDE DEF n
<1>3. QED BY <1>1, <1>2

\* A preparation starts with nothing installed.
LEMMA PrepareStart == PrepareInit => PrepareInv
<1> SUFFICES ASSUME PrepareInit PROVE PrepareInv
  OBVIOUS
<1>1. QED BY CommitsFromOne DEF PrepareInit, PrepareInv, PrepareTypes, NoStep, Nothing, PrepareSteps

\* A step of the preparation that gives up, or installs a part and goes on.
LEMMA StepTo ==
  ASSUME NEW pc \in PrepareSteps, PrepareTypes, Then(pc), step.pc # "idle"
  PROVE  /\ step' \in [pc : PrepareSteps, commit : DOMAIN Commits \cup {0}, resume : BOOLEAN]
         /\ step'.pc = pc /\ step'.commit = step.commit /\ step'.commit \in DOMAIN Commits
BY DEF PrepareTypes, Then

\* A preparation that gives up leaves nothing to keep.
LEMMA GivenUp ==
  ASSUME PrepareInv, GiveUp, DOMAIN target' = Parts, UNCHANGED head,
         receipt' = receipt, step.pc # "idle"
  PROVE  PrepareInv'
BY DEF PrepareInv, PrepareTypes, GiveUp, NoStep, PrepareSteps

\* A step that goes on has installed what the next one rests on.
LEMMA WentOn ==
  ASSUME PrepareInv, NEW pc \in PrepareSteps \ {"idle"}, Then(pc), DOMAIN target' = Parts, Elsewhere,
         step.pc # "idle", Installed(step.commit, target', pc)
  PROVE  PrepareInv'
<1>1. /\ step' \in [pc : PrepareSteps, commit : DOMAIN Commits \cup {0}, resume : BOOLEAN]
      /\ step'.pc = pc /\ step'.commit = step.commit /\ step'.commit \in DOMAIN Commits
  BY StepTo DEF PrepareInv
<1>2. QED BY <1>1 DEF PrepareInv, PrepareTypes, Elsewhere

\* A preparation, new or resumed, begins with nothing taken for granted.
LEMMA BeginKeeps == PrepareInv /\ BeginPrepare => PrepareInv'
<1> SUFFICES ASSUME PrepareInv, BeginPrepare PROVE PrepareInv'
  OBVIOUS
<1>1. PICK resume \in BOOLEAN : step' = [pc |-> "tools", commit |-> head, resume |-> resume]
  BY DEF BeginPrepare
<1>2. step' \in [pc : PrepareSteps, commit : DOMAIN Commits \cup {0}, resume : BOOLEAN]
      /\ step'.pc = "tools" /\ step'.commit = head
  BY <1>1 DEF PrepareInv, PrepareTypes, PrepareSteps
<1>3. Installed(head, target', "tools")
  BY DEF Installed, PastTools, PastMicro, PastFixture, PastCheck, PastIcim, PastBound, PastSupplemental,
         PastConsumer, PastGuard
<1>4. QED BY <1>2, <1>3 DEF PrepareInv, PrepareTypes, BeginPrepare

\* Every other step of the preparation.
LEMMA PartKeeps ==
  ASSUME PrepareInv, Tools \/ Micro \/ Fixture \/ CheckFixture \/ IcimCheckout \/ IcimExtract \/ ExtraFixtures
                     \/ BoundFiles \/ Supplemental \/ Consumer \/ ConsumerExtract \/ Guard
  PROVE  PrepareInv'
<1> USE DEF Installed, PastTools, PastMicro, PastFixture, PastCheck, PastIcim, PastBound, PastSupplemental,
            PastConsumer, PastGuard, PrepareSteps, Install, Doing, Parts
<1>0. /\ DOMAIN target = Parts
      /\ step.pc # "idle" => step.commit \in DOMAIN Commits /\ Installed(step.commit, target, step.pc)
  BY DEF PrepareInv, PrepareTypes
<1>1. CASE Tools
  <2>1. CASE This.test = 0
    BY <1>0, <1>1, <2>1, WentOn DEF Tools, ToolsOf, This
  <2>2. CASE This.test # 0 /\ ~GiveUp
    <3>1. /\ target' = [target EXCEPT !["tools"] = step.commit] /\ Then("micro") /\ Elsewhere /\ step.pc = "tools"
          /\ This.runtime = PinOf(This.micro) /\ <<This.runtime, This.test>> \in Equivalent
      BY <1>1, <2>2 DEF Tools
    <3>2. ToolsOf(step.commit, target') /\ DOMAIN target' = Parts
      BY <1>0, <3>1, CommitsFromOne DEF ToolsOf, This
    <3>3. QED BY <3>1, <3>2, WentOn
  <2>3. CASE This.test # 0 /\ GiveUp
    BY <1>0, <1>1, <2>3, GivenUp DEF Tools, Elsewhere
  <2>4. QED BY <2>1, <2>2, <2>3
<1>2. CASE Micro
  <2>1. CASE Then("check")
    <3>0. ~Then("micro") /\ ~Then("fixture") /\ ~GiveUp
      BY <1>2, <2>1 DEF Then, GiveUp, NoStep, PrepareInv, PrepareTypes, Micro
    <3>1. target' = target /\ InstalledExactly(target, TestPin(step.commit)) /\ Elsewhere /\ step.pc = "micro"
      BY <1>2, <3>0 DEF Micro
    <3>2. QED BY <1>0, <2>1, <3>1, WentOn DEF InstalledExactly
  <2>2. CASE GiveUp
    BY <1>0, <1>2, <2>2, GivenUp DEF Micro, Elsewhere
  <2>3. CASE Then("micro") /\ target' = [target EXCEPT !["micro"] = Partial]
    BY <1>0, <1>2, <2>3, WentOn DEF Micro, ToolsOf
  <2>4. CASE Then("fixture") /\ target' = [target EXCEPT !["micro"] = TestPin(step.commit)]
    BY <1>0, <1>2, <2>4, WentOn DEF Micro, ToolsOf
  <2>5. QED BY <1>2, <2>1, <2>2, <2>3, <2>4 DEF Micro
<1>3. CASE Fixture
  <2>1. CASE Then("fixture") /\ target' = [target EXCEPT !["fixture"] = Partial]
    BY <1>0, <1>3, <2>1, WentOn DEF Fixture, ToolsOf
  <2>2. CASE Then("check") /\ target' = [target EXCEPT !["fixture"] = 1]
    BY <1>0, <1>3, <2>2, WentOn DEF Fixture, ToolsOf
  <2>3. QED BY <1>3, <2>1, <2>2 DEF Fixture
<1>4. CASE CheckFixture
  <2>1. CASE Compatible(target, TestPin(step.commit)) /\ Then("icim")
    <3>1. Reviewed(step.commit, target)
      BY <1>0, <1>4, <2>1 DEF CheckFixture, Compatible, Reviewed, ToolsOf
    <3>2. QED BY <1>0, <1>4, <2>1, <3>1, WentOn DEF CheckFixture
  <2>2. CASE GiveUp
    BY <1>0, <1>4, <2>2, GivenUp DEF CheckFixture, Elsewhere
  <2>3. QED BY <1>4, <2>1, <2>2 DEF CheckFixture
<1>5. CASE IcimCheckout
  <2>1. CASE GiveUp /\ target' = target
    BY <1>0, <1>5, <2>1, GivenUp DEF IcimCheckout, Elsewhere
  <2>2. CASE Then("icim2") /\ target' = [target EXCEPT !["icim"] = Partial]
    BY <1>0, <1>5, <2>2, WentOn DEF IcimCheckout, ToolsOf, Reviewed
  <2>3. QED BY <1>5, <2>1, <2>2 DEF IcimCheckout
<1>6. CASE IcimExtract
  BY <1>0, <1>6, WentOn DEF IcimExtract, ToolsOf, Reviewed, This
<1>7. CASE ExtraFixtures
  BY <1>0, <1>7, WentOn DEF ExtraFixtures, ToolsOf, Reviewed
<1>8. CASE BoundFiles
  <2>1. CASE GiveUp /\ target' = target
    BY <1>0, <1>8, <2>1, GivenUp DEF BoundFiles, Elsewhere
  <2>2. CASE /\ Then("supplemental") /\ target' = [target EXCEPT !["bound"] = copy]
             /\ BoundAvailable(PinOf(This.icim))
    BY <1>0, <1>8, <2>2, WentOn DEF BoundFiles, BoundAvailable, ToolsOf, Reviewed, This
  <2>3. QED BY <1>8, <2>1, <2>2 DEF BoundFiles
<1>9. CASE Supplemental
  BY <1>0, <1>9, WentOn DEF Supplemental, ToolsOf, Reviewed, This
<1>10. CASE Consumer
  <2>1. CASE GiveUp /\ target' = target
    BY <1>0, <1>10, <2>1, GivenUp DEF Consumer, Elsewhere
  <2>2. CASE Then("consumer2") /\ target' = [target EXCEPT !["consumer"] = Partial]
    BY <1>0, <1>10, <2>2, WentOn DEF Consumer, ToolsOf, Reviewed
  <2>3. QED BY <1>10, <2>1, <2>2 DEF Consumer
<1>11. CASE ConsumerExtract
  BY <1>0, <1>11, WentOn DEF ConsumerExtract, ToolsOf, Reviewed
<1>12. CASE Guard
  <2>1. CASE GiveUp /\ target' = target
    BY <1>0, <1>12, <2>1, GivenUp DEF Guard, Elsewhere
  <2>2. CASE Then("seal") /\ target' = [target EXCEPT !["guard"] = 1]
    BY <1>0, <1>12, <2>2, WentOn DEF Guard, ToolsOf, Reviewed
  <2>3. QED BY <1>12, <2>1, <2>2 DEF Guard
<1>13. QED BY <1>1, <1>2, <1>3, <1>4, <1>5, <1>6, <1>7, <1>8, <1>9, <1>10, <1>11, <1>12

\* Sealing names the commit whose parts are installed.
LEMMA SealKeeps == PrepareInv /\ Seal => PrepareInv'
BY DEF PrepareInv, PrepareTypes, Seal, GiveUp, NoStep, Doing, PrepareSteps

\* No step of a preparation, death, pull or edit breaks what is installed.
LEMMA PrepareKeeps == PrepareInv /\ [PrepareNext]_prepareVars => PrepareInv'
<1> SUFFICES ASSUME PrepareInv, [PrepareNext]_prepareVars PROVE PrepareInv'
  OBVIOUS
<1>1. CASE Die
  BY <1>1, GivenUp DEF Die, PrepareInv, PrepareTypes
<1>2. CASE Pull \/ EditCopy \/ UNCHANGED prepareVars
  BY <1>2 DEF Pull, EditCopy, prepareVars, PrepareInv, PrepareTypes
<1>3. CASE Prepare
  BY <1>3, BeginKeeps, PartKeeps, SealKeeps DEF Prepare
<1>4. QED BY <1>1, <1>2, <1>3 DEF PrepareNext

\* What a receipt names is what is installed (prepare).
LEMMA SealedSafe == PrepareInv => SealedIsOfOneCommit
BY DEF PrepareInv, Installed, SealedIsOfOneCommit, ToolsOf, Reviewed, PastTools, PastMicro, PastFixture,
       PastCheck, PastIcim, PastBound, PastSupplemental, PastConsumer, PastGuard

-------------------------------------------------------------------------------
(* Evidence of the tests.                                                          *)

\* What a group leaves: sequences of tests, finitely many cases of three outcomes.
Evidence(e) ==
  /\ IsFiniteSet(e.cases) /\ \A c \in e.cases : c.outcome \in {"passed", "failed", "skipped"}
  /\ \E n \in Nat : DOMAIN e.selected = 1 .. n

\* A sequence without repetitions has as many elements as its length.
LEMMA DistinctCount ==
  ASSUME NEW s, NEW n \in Nat, DOMAIN s = 1 .. n, Distinct(s)
  PROVE  Cardinality(Elements(s)) = n /\ Len(s) = n
<1> DEFINE f == [i \in 1 .. n |-> s[i]]
<1>1. f \in Bijection(1 .. n, Elements(s))
  BY DEF Bijection, Injection, Surjection, IsInjective, Distinct, Elements
<1>2. Cardinality(Elements(s)) = n
  BY <1>1, FS_CountingElements DEF ExistsBijection
<1>3. Len(s) = n
  OBVIOUS
<1>4. QED BY <1>2, <1>3

\* A group that passed left cases of success only, as many as it ran tests, and ran what it
\* selected.
LEMMA PassedFacts ==
  ASSUME NEW e, Evidence(e), GroupPassed(e) \/ SupplementPassed(e, TRUE)
  PROVE  /\ e.collected = e.selected /\ e.executed = e.selected
         /\ Cardinality(Elements(e.executed)) = Cardinality(e.cases)
         /\ \A c \in e.cases : c.outcome = "passed"
<1>1. CountsSound(e) /\ CollectionSound(e) /\ e.told.failed = 0 /\ e.told.skipped = 0
  BY DEF GroupPassed, SupplementPassed
<1>2. e.collected = e.selected /\ e.executed = e.selected
  BY <1>1 DEF CollectionSound
<1>3. PICK n \in Nat : DOMAIN e.selected = 1 .. n
  BY DEF Evidence
<1>4. Cardinality(Elements(e.selected)) = Len(e.selected)
  BY <1>1, <1>3, DistinctCount DEF CollectionSound
<1>5. Len(e.selected) = Cardinality(e.cases)
  BY <1>1 DEF CountsSound, CollectionSound
<1>6. ASSUME NEW kind \in {"failed", "skipped"} PROVE Outcomes(e, kind) = {}
  <2>1. IsFiniteSet(Outcomes(e, kind)) /\ Cardinality(Outcomes(e, kind)) = 0
    BY <1>1, FS_Subset DEF Evidence, Outcomes, CountsSound
  <2>2. QED BY <2>1, FS_EmptySet
<1>7. \A c \in e.cases : c.outcome = "passed"
  BY <1>6 DEF Outcomes, Evidence
<1>8. QED BY <1>2, <1>4, <1>5, <1>7

\* A group that counts as passed ran all of its tests, whatever its evidence (validate_collection).
THEOREM GreenRan ==
  ASSUME NEW e, Evidence(e)
  PROVE  GreenMeansAllRan(e)
<1> SUFFICES ASSUME ReportedRan(e), GroupPassed(e) \/ SupplementPassed(e, TRUE)
             PROVE  /\ e.files \subseteq FilesOf(e.executed)
                    /\ Cardinality(Elements(e.executed)) = Cardinality(e.cases)
                    /\ Elements(e.collected) = Elements(e.executed)
                    /\ \A c \in e.cases : c.outcome = "passed"
                    /\ GroupPassed(e) => ~e.guard.blocked
  BY DEF GreenMeansAllRan
<1>1. \A f \in e.files : \E c \in e.cases : c.test.file = f
  BY DEF GroupPassed, SupplementPassed, CountsSound
<1>2. e.files \subseteq FilesOf(e.executed)
  BY <1>1 DEF ReportedRan, FilesOf
<1>3. GroupPassed(e) => ~e.guard.blocked
  BY DEF GroupPassed, GuardSound
<1>4. QED BY <1>2, <1>3, PassedFacts

\* The IC/IM-only route rests on tests that ran (verify_group_evidence).
LEMMA IndependentRests ==
  ASSUME NEW exit, NEW r, NEW five, NEW sourceKept, Evidence(five)
  PROVE  IndependentRunsRestOnTests(exit, r, five, sourceKept)
<1>1. GreenMeansAllRan(five)
  BY GreenRan
<1>2. QED
  BY <1>1 DEF IndependentRunsRestOnTests, EvidenceAccepted, EvidenceCounted, IndependentPassed, OfficialPassed,
              SupplementPassed

\* What a takeover reads, at its start and again at its end, is of one day.
THEOREM ReuseIsToday ==
  ASSUME NEW kind \in {"core", "share", "icim"}, NEW g, NEW now1, NEW later1, NEW fresh,
         \A x \in GateGroups : Evidence(g.groups[x].evidence),
         \A x \in GateGroups : Evidence(fresh[x])
  PROVE  ReuseIsFromToday(kind, g, now1, later1, fresh)
<1> SUFFICES ASSUME ResumedPass(kind, g, now1, later1, fresh)
             PROVE  /\ \A x \in GateGroups \ Replayed(kind) :
                         /\ GreenMeansAllRan(g.groups[x].evidence) /\ GroupPassed(g.groups[x].evidence)
                         /\ FilesOf(g.groups[x].evidence.executed) = g.groups[x].evidence.files
                         /\ g.groups[x].end.day = later1.day
                    /\ g.begin.day = later1.day /\ g.binds = later1.binds /\ g.pins = later1.pins
                    /\ \A x \in Replayed(kind) :
                         /\ GroupPassed(fresh[x])
                         /\ kind # "icim" => Elements(fresh[x].executed) = Elements(g.groups[x].evidence.selected)
                    /\ kind = "core" => ~g.alive
  BY DEF ReuseIsFromToday
<1>1. TakenOver(kind, g, now1)
  BY DEF ResumedPass, Resumable, FailureResumable, IcimReusable
<1>2. ReadAgain(kind, g, later1)
  BY DEF ResumedPass
<1>3. g.begin.day = later1.day /\ g.begin.day = now1.day /\ g.binds = later1.binds /\ g.pins = later1.pins
  BY <1>1, <1>2 DEF TakenOver, ReadAgain, SameDay
<1>4. ASSUME NEW x \in GateGroups \ Replayed(kind)
      PROVE  /\ GreenMeansAllRan(g.groups[x].evidence) /\ GroupPassed(g.groups[x].evidence)
             /\ FilesOf(g.groups[x].evidence.executed) = g.groups[x].evidence.files
             /\ g.groups[x].end.day = later1.day
  <2>1. GroupStands(g.groups[x], now1)
    BY <1>1 DEF TakenOver
  <2>2. GroupPassed(g.groups[x].evidence) /\ g.groups[x].end.day = later1.day
    BY <1>3, <2>1 DEF GroupStands, SameDay
  <2>3. g.groups[x].evidence.executed = g.groups[x].evidence.selected
    BY <2>2, PassedFacts
  <2>4. QED BY <2>1, <2>2, <2>3, GreenRan DEF GroupStands
<1>5. ASSUME NEW x \in Replayed(kind)
      PROVE  /\ GroupPassed(fresh[x])
             /\ kind # "icim" => Elements(fresh[x].executed) = Elements(g.groups[x].evidence.selected)
  <2>1. ReplayComplete(kind, g.groups[x].evidence, fresh[x])
    BY <1>5 DEF ResumedPass
  <2>2. x \in GateGroups
    BY <1>5 DEF Replayed, GateGroups
  <2>3. GroupPassed(fresh[x]) /\ fresh[x].executed = fresh[x].selected
    BY <2>1, <2>2, PassedFacts DEF ReplayComplete
  <2>4. QED BY <2>1, <2>3 DEF ReplayComplete
<1>6. kind = "core" => ~g.alive
  BY <1>2 DEF ReadAgain, ProcessesGone
<1>7. QED BY <1>3, <1>4, <1>5, <1>6

-------------------------------------------------------------------------------
(* Dealing the core tests.                                                         *)

\* Tests with costs, for at least one process.
Dealable(tests, shards) == IsFiniteSet(tests) /\ (\A t \in tests : t.cost \in Nat) /\ shards \in Nat \ {0}

\* A job costs the sum of its tests: a number.
LEMMA CostType ==
  ASSUME NEW job, IsFiniteSet(job), \A t \in job : t.cost \in Nat
  PROVE  JobCost(job) \in Nat
<1> DEFINE w == [t \in job |-> t.cost]
           h == CHOOSE iter : iter = [s \in SUBSET job |->
                  IF s = {} THEN 0 ELSE (CHOOSE x \in s : TRUE).cost + iter[s \ {CHOOSE x \in s : TRUE}]]
<1>1. PICK g : Sums(job, w, g)
  <2> HIDE DEF w
  <2>1. QED BY SumExists
<1>2. g = [s \in SUBSET job |-> IF s = {} THEN 0 ELSE Taken(s).cost + g[s \ {Taken(s)}]]
  <2>1. \A s \in SUBSET job : s # {} => w[Taken(s)] = Taken(s).cost
    BY DEF Taken
  <2> HIDE DEF w
  <2>2. QED BY <1>1, <2>1 DEF Sums
<1>3. h = [s \in SUBSET job |-> IF s = {} THEN 0 ELSE (CHOOSE x \in s : TRUE).cost + h[s \ {CHOOSE x \in s : TRUE}]]
  BY <1>2, Zenon DEF Taken
<1>4. JobCost(job) = h[job]
  BY Zenon DEF JobCost, MapThenSumSet, MapThenFoldSet
<1> HIDE DEF h
<1>5. Sums(job, w, h)
  <2>1. \A s \in SUBSET job : s # {} => w[Taken(s)] = Taken(s).cost
    BY DEF Taken
  <2>2. h = [s \in SUBSET job |-> IF s = {} THEN 0 ELSE Taken(s).cost + h[s \ {Taken(s)}]]
    BY <1>3, Zenon DEF Taken
  <2> HIDE DEF w
  <2>3. QED BY <2>1, <2>2 DEF Sums
<1>6. \A t \in job : w[t] \in Nat
  OBVIOUS
<1> HIDE DEF w
<1>7. h[job] \in Nat
  BY <1>5, <1>6, SumType
<1>8. QED BY <1>4, <1>7

\* The sum of the sizes of disjoint parts is the size of their union.
LEMMA SizesSum ==
  ASSUME NEW shards \in Nat, NEW plan, \A i \in 1 .. shards : IsFiniteSet(UNION plan[i]),
         \A i, k \in 1 .. shards : i # k => (UNION plan[i]) \cap (UNION plan[k]) = {}
  PROVE  MapThenSumSet(LAMBDA i : Cardinality(UNION plan[i]), 1 .. shards) =
           Cardinality(UNION {UNION plan[i] : i \in 1 .. shards})
<1> DEFINE S == 1 .. shards
           w == [i \in S |-> Cardinality(UNION plan[i])]
           h == CHOOSE iter : iter = [s \in SUBSET S |->
                  IF s = {} THEN 0
                  ELSE Cardinality(UNION plan[CHOOSE x \in s : TRUE]) + iter[s \ {CHOOSE x \in s : TRUE}]]
<1>0. IsFiniteSet(S)
  BY FS_Interval
<1>1. PICK g : Sums(S, w, g)
  <2> HIDE DEF w, S
  <2>1. QED BY <1>0, SumExists
<1>2. \A s \in SUBSET S : s # {} => Taken(s) \in S /\ Taken(s) \in s /\ w[Taken(s)] = Cardinality(UNION plan[Taken(s)])
  <2>1. \A i \in S : w[i] = Cardinality(UNION plan[i])
    OBVIOUS
  <2> HIDE DEF w, S
  <2>2. \A s \in SUBSET S : s # {} => Taken(s) \in S /\ Taken(s) \in s
    BY DEF Taken
  <2>3. QED BY <2>1, <2>2
<1>3. g = [s \in SUBSET S |-> IF s = {} THEN 0 ELSE Cardinality(UNION plan[Taken(s)]) + g[s \ {Taken(s)}]]
  <2> HIDE DEF w, S
  <2>1. QED BY <1>1, <1>2 DEF Sums
<1>4. h = [s \in SUBSET S |->
            IF s = {} THEN 0 ELSE Cardinality(UNION plan[CHOOSE x \in s : TRUE]) + h[s \ {CHOOSE x \in s : TRUE}]]
  BY <1>3, Zenon DEF Taken
<1>5. MapThenSumSet(LAMBDA i : Cardinality(UNION plan[i]), S) = h[S]
  BY Zenon DEF MapThenSumSet, MapThenFoldSet
<1>6. h = [s \in SUBSET S |-> IF s = {} THEN 0 ELSE Cardinality(UNION plan[Taken(s)]) + h[s \ {Taken(s)}]]
  <2> HIDE DEF h
  <2>1. QED BY <1>4, Zenon DEF Taken
<1> HIDE DEF h, w, S
<1> DEFINE parts(s) == UNION {UNION plan[i] : i \in s}
           T == {s \in SUBSET S : IsFiniteSet(parts(s)) /\ h[s] = Cardinality(parts(s))}
<1>7. \A s \in SUBSET S : h[s] = IF s = {} THEN 0 ELSE Cardinality(UNION plan[Taken(s)]) + h[s \ {Taken(s)}]
  <2> DEFINE val(s) == IF s = {} THEN 0 ELSE Cardinality(UNION plan[Taken(s)]) + h[s \ {Taken(s)}]
  <2> HIDE DEF val
  <2>1. h = [s \in SUBSET S |-> val(s)]
    BY <1>6 DEF val
  <2>2. \A s \in SUBSET S : h[s] = val(s)
    BY <2>1
  <2>3. QED BY <2>2 DEF val
<1>8. {} \in T
  <2>1. parts({}) = {}
    OBVIOUS
  <2> HIDE DEF parts
  <2>2. QED BY <1>7, <2>1, FS_EmptySet
<1>9. ASSUME NEW s \in SUBSET S, s # {}, s \ {Taken(s)} \in T PROVE s \in T
  <2> DEFINE i == Taken(s)
             A == UNION plan[i]
             B == parts(s \ {i})
  <2>1. i \in S /\ i \in s /\ h[s] = Cardinality(A) + h[s \ {i}]
    BY <1>2, <1>7, <1>9
  <2>2. IsFiniteSet(A) /\ IsFiniteSet(B) /\ h[s \ {i}] = Cardinality(B)
    BY <1>9, <2>1 DEF S
  <2>3. parts(s) = A \cup B
    BY <2>1
  <2>4. A \cap B = {}
    <3>1. \A k \in s \ {i} : A \cap (UNION plan[k]) = {}
      BY <2>1 DEF S
    <3>2. QED BY <3>1
  <2> HIDE DEF A, B, parts
  <2>5. IsFiniteSet(A \cup B) /\ Cardinality(A \cup B) = Cardinality(A) + Cardinality(B)
    <3>1. /\ IsFiniteSet(A \cup B)
          /\ Cardinality(A \cup B) = Cardinality(A) + Cardinality(B) - Cardinality(A \cap B)
      BY <2>2, FS_Union
    <3>2. Cardinality(A) \in Nat /\ Cardinality(B) \in Nat /\ Cardinality(A \cap B) = 0
      BY <2>2, <2>4, FS_EmptySet, FS_CardinalityType
    <3>3. QED BY <3>1, <3>2
  <2>6. QED BY <2>1, <2>2, <2>3, <2>5
<1>10. SUBSET S \subseteq T
  <2> HIDE DEF T
  <2>1. QED BY <1>0, <1>8, <1>9, SetInduction
<1>11. S \in T
  BY <1>10
<1>12. QED BY <1>5, <1>11 DEF S

\* The jobs are the tests, each in one job.
LEMMA JobsFacts ==
  ASSUME NEW tests, NEW shards, Dealable(tests, shards)
  PROVE  /\ IsFiniteSet(Jobs(tests, shards))
         /\ \A j \in Jobs(tests, shards) : j \subseteq tests /\ JobCost(j) \in Nat
         /\ UNION Jobs(tests, shards) = tests
         /\ \A j, k \in Jobs(tests, shards) : j # k => j \cap k = {}
<1> DEFINE jobs == Jobs(tests, shards)
           Big(f) == Heavy(tests, shards, f)
<1>1. \A j : j \in jobs <=> \/ \E t \in tests : ~Big(t.file) /\ j = {u \in tests : u.file = t.file}
                            \/ \E t \in tests : Big(t.file) /\ j = {t}
  BY DEF Jobs, OfFile
<1> HIDE DEF jobs, Big
<1>2. jobs \subseteq SUBSET tests
  BY <1>1
<1>3. IsFiniteSet(jobs)
  BY <1>2, FS_SUBSET, FS_Subset DEF Dealable
<1>4. ASSUME NEW j \in jobs PROVE JobCost(j) \in Nat
  <2>1. j \subseteq tests /\ IsFiniteSet(j)
    BY <1>2, FS_Subset DEF Dealable
  <2>2. QED BY <2>1, CostType DEF Dealable
<1>5. UNION jobs = tests
  <2>1. ASSUME NEW t \in tests PROVE t \in UNION jobs
    <3>1. CASE Big(t.file)
      BY <1>1, <3>1
    <3>2. CASE ~Big(t.file)
      <4>1. {u \in tests : u.file = t.file} \in jobs
        BY <1>1, <3>2
      <4>2. QED BY <4>1
    <3>3. QED BY <3>1, <3>2
  <2>2. QED BY <1>2, <2>1
<1>6. ASSUME NEW j \in jobs, NEW k \in jobs, NEW t \in j, t \in k PROVE j = k
  <2>1. t \in tests
    BY <1>2
  <2>2. CASE Big(t.file)
    <3>1. j = {t} /\ k = {t}
      BY <1>1, <1>6, <2>2
    <3>2. QED BY <3>1
  <2>3. CASE ~Big(t.file)
    <3>1. j = {u \in tests : u.file = t.file} /\ k = {u \in tests : u.file = t.file}
      BY <1>1, <1>6, <2>3
    <3>2. QED BY <3>1
  <2>4. QED BY <2>2, <2>3
<1>7. QED BY <1>2, <1>3, <1>4, <1>5, <1>6 DEF jobs

\* Of finitely many jobs there is a heaviest.
LEMMA HeaviestFacts ==
  ASSUME NEW jobs, IsFiniteSet(jobs), jobs # {}, \A j \in jobs : JobCost(j) \in Nat
  PROVE  Heaviest(jobs) \in jobs /\ \A k \in jobs : JobCost(k) <= JobCost(Heaviest(jobs))
<1> DEFINE Top(s) == \E j \in s : \A k \in s : JobCost(k) <= JobCost(j)
           T == {s \in SUBSET jobs : s # {} => Top(s)}
<1>1. {} \in T
  OBVIOUS
<1>2. ASSUME NEW s \in SUBSET jobs, s # {}, s \ {Taken(s)} \in T PROVE s \in T
  <2> DEFINE x == Taken(s)
  <2>1. x \in s
    BY <1>2 DEF Taken
  <2>2. \A j \in s : JobCost(j) \in Nat
    OBVIOUS
  <2> HIDE DEF x
  <2>3. CASE s \ {x} = {}
    <3>1. \A k \in s : k = x
      BY <2>3
    <3>2. Top(s)
      BY <2>1, <2>2, <3>1
    <3>3. QED BY <3>2
  <2>4. CASE s \ {x} # {}
    <3>1. PICK j \in s \ {x} : \A k \in s \ {x} : JobCost(k) <= JobCost(j)
      BY <1>2, <2>4 DEF x
    <3>2. CASE JobCost(x) <= JobCost(j)
      <4>1. Top(s)
        BY <3>1, <3>2
      <4>2. QED BY <4>1
    <3>3. CASE ~(JobCost(x) <= JobCost(j))
      <4>1. \A k \in s : JobCost(k) <= JobCost(x)
        BY <2>1, <2>2, <3>1, <3>3
      <4>2. Top(s)
        BY <2>1, <4>1
      <4>3. QED BY <4>2
    <3>4. QED BY <3>2, <3>3
  <2>5. QED BY <2>3, <2>4
<1>3. Top(jobs)
  <2> HIDE DEF T, Top
  <2>1. SUBSET jobs \subseteq T
    BY <1>1, <1>2, SetInduction
  <2>2. QED BY <2>1 DEF T
<1>4. QED BY <1>3 DEF Heaviest

\* Of the processes there is one with the least load.
LEMMA LeastLoadedFacts ==
  ASSUME NEW n \in Nat \ {0}, NEW loads \in [1 .. n -> Nat]
  PROVE  LeastLoaded(loads) \in 1 .. n /\ \A k \in 1 .. n : loads[LeastLoaded(loads)] <= loads[k]
<1> DEFINE V == {loads[k] : k \in 1 .. n}
<1>1. V \in SUBSET Nat /\ V # {}
  <2>1. 1 \in 1 .. n
    OBVIOUS
  <2>2. QED BY <2>1
<1>2. PICK v \in V : \A u \in V : v <= u
  <2> HIDE DEF V
  <2>1. QED BY <1>1, LeastOf
<1> DEFINE U == {k \in 1 .. n : loads[k] = v}
<1>3. U \in SUBSET Nat /\ U # {}
  OBVIOUS
<1>4. PICK i \in U : \A k \in U : i <= k
  <2> HIDE DEF U
  <2>1. QED BY <1>3, LeastOf
<1>5. i \in DOMAIN loads /\ \A k \in DOMAIN loads : loads[i] < loads[k] \/ (loads[i] = loads[k] /\ i <= k)
  <2>1. DOMAIN loads = 1 .. n /\ i \in 1 .. n /\ loads[i] = v
    BY <1>4
  <2>2. ASSUME NEW k \in 1 .. n PROVE loads[i] < loads[k] \/ (loads[i] = loads[k] /\ i <= k)
    <3>1. v <= loads[k] /\ v \in Nat /\ loads[k] \in Nat
      BY <1>1, <1>2
    <3>2. loads[k] = v => i <= k
      BY <1>4
    <3>3. QED BY <2>1, <3>1, <3>2
  <2>3. QED BY <2>1, <2>2
<1> DEFINE l == LeastLoaded(loads)
<1>6. l \in DOMAIN loads /\ \A k \in DOMAIN loads : loads[l] < loads[k] \/ (loads[l] = loads[k] /\ l <= k)
  BY <1>5 DEF LeastLoaded
<1> HIDE DEF l
<1>7. l \in 1 .. n /\ \A k \in 1 .. n : loads[l] <= loads[k]
  <2>1. l \in 1 .. n /\ loads[l] \in Nat /\ \A k \in 1 .. n : loads[k] \in Nat
    BY <1>6
  <2>2. QED BY <1>6, <2>1
<1>8. QED BY <1>7 DEF l

\* The dealing's first state and its step.
NoneDealt(jobs, shards) ==
  [left |-> jobs, plan |-> [i \in 1..shards |-> {}], load |-> [i \in 1..shards |-> 0]]
DealOne(d) ==
  LET j == Heaviest(d.left)  i == LeastLoaded(d.load) IN
    [left |-> d.left \ {j}, plan |-> [d.plan EXCEPT ![i] = @ \cup {j}],
     load |-> [d.load EXCEPT ![i] = @ + JobCost(j)]]

\* Dealt is the last round of a function that satisfies its recursive equation.
LEMMA DealtRounds ==
  ASSUME NEW tests, NEW shards, NEW k \in Nat, k = Cardinality(Jobs(tests, shards))
  PROVE  \E deal : /\ deal[0] = NoneDealt(Jobs(tests, shards), shards)
                   /\ \A n \in 1 .. k : deal[n] = DealOne(deal[n - 1])
                   /\ Dealt(tests, shards) = deal[k]
<1> DEFINE start == NoneDealt(Jobs(tests, shards), shards)
           Rounds(m, g) == g = [n \in 0 .. m |-> IF n = 0 THEN start ELSE DealOne(g[n - 1])]
           T == {m \in Nat : \E g : Rounds(m, g)}
<1> HIDE DEF start
<1>1. 0 \in T
  <2>1. Rounds(0, [n \in 0 .. 0 |-> start])
    OBVIOUS
  <2>2. QED BY <2>1
<1>2. ASSUME NEW m \in Nat, m \in T PROVE m + 1 \in T
  <2>1. PICK g : Rounds(m, g)
    BY <1>2
  <2> DEFINE h == [n \in 0 .. m + 1 |-> IF n = m + 1 THEN DealOne(g[m]) ELSE g[n]]
  <2>2. \A n \in 0 .. m + 1 : h[n] = IF n = 0 THEN start ELSE DealOne(h[n - 1])
    <3>0. /\ \A n \in 0 .. m : g[n] = IF n = 0 THEN start ELSE DealOne(g[n - 1])
          /\ \A n \in 0 .. m : h[n] = g[n]
          /\ h[m + 1] = DealOne(g[m])
      <4> DEFINE val(n) == IF n = 0 THEN start ELSE DealOne(g[n - 1])
      <4>1. g = [n \in 0 .. m |-> val(n)]
        BY <2>1
      <4> HIDE DEF val
      <4>2. \A n \in 0 .. m : g[n] = val(n)
        BY <4>1
      <4>3. (\A n \in 0 .. m : h[n] = g[n]) /\ h[m + 1] = DealOne(g[m])
        OBVIOUS
      <4>4. QED BY <4>2, <4>3 DEF val
    <3>1. ASSUME NEW n \in 0 .. m + 1, n # 0 PROVE h[n] = DealOne(h[n - 1])
      <4> HIDE DEF h
      <4>1. CASE n = m + 1
        BY <3>0, <4>1
      <4>2. CASE n # m + 1
        <5>1. n \in 0 .. m /\ n - 1 \in 0 .. m
          BY <3>1, <4>2
        <5>2. QED BY <3>0, <3>1, <5>1
      <4>3. QED BY <4>1, <4>2
    <3>2. h[0] = start
      BY <2>1
    <3>3. QED BY <3>1, <3>2
  <2>3. Rounds(m + 1, h)
    <3>1. h = [n \in 0 .. m + 1 |-> h[n]]
      OBVIOUS
    <3>2. QED BY <2>2, <3>1
  <2> HIDE DEF Rounds, h
  <2>4. QED BY <2>3
<1>3. \E g : Rounds(k, g)
  <2> HIDE DEF T
  <2>1. Nat \subseteq T
    BY <1>1, <1>2, Induction
  <2>2. QED BY <2>1 DEF T
<1> DEFINE r == CHOOSE g : Rounds(k, g)
<1>4. Rounds(k, r)
  <2> HIDE DEF Rounds
  <2>1. QED BY <1>3
<1>5. Dealt(tests, shards) = r[k]
  BY Zenon DEF Dealt, start, NoneDealt, DealOne
<1>6. r[0] = start /\ \A n \in 1 .. k : r[n] = DealOne(r[n - 1])
  <2> HIDE DEF r
  <2>1. \A n \in 0 .. k : r[n] = IF n = 0 THEN start ELSE DealOne(r[n - 1])
    BY <1>4
  <2>2. QED BY <2>1
<1>7. QED BY <1>5, <1>6 DEF start

\* A dealing with m jobs left: the jobs dealt and the jobs left make up all of them, and no
\* process is ahead of another by more than the cost of one of its own jobs.
Dealing(jobs, shards, d, m) ==
  /\ d.left \subseteq jobs /\ IsFiniteSet(d.left) /\ Cardinality(d.left) = m
  /\ d.plan \in [1 .. shards -> SUBSET jobs] /\ d.load \in [1 .. shards -> Nat]
  /\ \A j \in jobs : j \in d.left \/ \E i \in 1 .. shards : j \in d.plan[i]
  /\ \A i \in 1 .. shards : d.plan[i] \cap d.left = {}
  /\ \A i, k \in 1 .. shards : i # k => d.plan[i] \cap d.plan[k] = {}
  /\ \A i \in 1 .. shards :
       d.plan[i] # {} => \E j \in d.plan[i] : \A k \in 1 .. shards : d.load[i] - JobCost(j) <= d.load[k]

\* Before the first job is dealt all of them are left.
LEMMA DealStarts ==
  ASSUME NEW jobs, IsFiniteSet(jobs), NEW shards \in Nat \ {0}
  PROVE  Dealing(jobs, shards, NoneDealt(jobs, shards), Cardinality(jobs))
<1> DEFINE d == NoneDealt(jobs, shards)
<1>1. /\ d.left = jobs /\ d.plan \in [1 .. shards -> SUBSET jobs] /\ d.load \in [1 .. shards -> Nat]
      /\ \A i \in 1 .. shards : d.plan[i] = {}
  BY DEF NoneDealt
<1> HIDE DEF d
<1>2. QED BY <1>1 DEF Dealing, d

\* The heaviest job left, dealt to the least loaded process, keeps the dealing fair.
LEMMA DealKeeps ==
  ASSUME NEW jobs, \A j \in jobs : JobCost(j) \in Nat, NEW shards \in Nat \ {0},
         NEW d, NEW m \in Nat \ {0}, Dealing(jobs, shards, d, m)
  PROVE  Dealing(jobs, shards, DealOne(d), m - 1)
<1> DEFINE j == Heaviest(d.left)
           i == LeastLoaded(d.load)
           new == DealOne(d)
           S == 1 .. shards
<1>1. d.left # {}
  BY FS_EmptySet DEF Dealing
<1>2. j \in d.left /\ j \in jobs
  BY <1>1, HeaviestFacts DEF Dealing
<1>3. i \in S /\ \A k \in S : d.load[i] <= d.load[k]
  BY LeastLoadedFacts DEF Dealing
<1>4. /\ new.left = d.left \ {j} /\ new.plan = [d.plan EXCEPT ![i] = @ \cup {j}]
      /\ new.load = [d.load EXCEPT ![i] = @ + JobCost(j)]
  BY DEF DealOne
<1>5. /\ d.plan \in [S -> SUBSET jobs] /\ d.load \in [S -> Nat] /\ JobCost(j) \in Nat
      /\ d.left \subseteq jobs /\ IsFiniteSet(d.left) /\ Cardinality(d.left) = m
  BY <1>2 DEF Dealing
<1> HIDE DEF j, i, new, S
<1>6. /\ new.plan \in [S -> SUBSET jobs] /\ new.load \in [S -> Nat]
      /\ \A k \in S : new.plan[k] = IF k = i THEN d.plan[k] \cup {j} ELSE d.plan[k]
      /\ \A k \in S : new.load[k] = IF k = i THEN d.load[k] + JobCost(j) ELSE d.load[k]
  <2> DEFINE grown == d.plan[i] \cup {j}
             cost == d.load[i] + JobCost(j)
  <2>1. grown \in SUBSET jobs /\ cost \in Nat
    <3>1. d.plan[i] \in SUBSET jobs /\ d.load[i] \in Nat
      BY <1>3, <1>5
    <3>2. QED BY <1>2, <1>5, <3>1
  <2>2. new.plan = [d.plan EXCEPT ![i] = grown] /\ new.load = [d.load EXCEPT ![i] = cost]
    BY <1>4
  <2>3. grown = d.plan[i] \cup {j} /\ cost = d.load[i] + JobCost(j)
    OBVIOUS
  <2> HIDE DEF grown, cost
  <2>4. /\ new.plan \in [S -> SUBSET jobs] /\ new.load \in [S -> Nat]
        /\ \A k \in S : new.plan[k] = IF k = i THEN grown ELSE d.plan[k]
        /\ \A k \in S : new.load[k] = IF k = i THEN cost ELSE d.load[k]
    BY <1>3, <1>5, <2>1, <2>2
  <2>5. QED BY <2>3, <2>4
<1>7. IsFiniteSet(new.left) /\ Cardinality(new.left) = m - 1 /\ new.left \subseteq jobs
  BY <1>2, <1>4, <1>5, FS_RemoveElement
<1>8. \A x \in jobs : x \in new.left \/ \E k \in S : x \in new.plan[k]
  <2>1. \A x \in jobs : x \in d.left \/ \E k \in S : x \in d.plan[k]
    BY DEF Dealing, S
  <2>2. QED BY <1>3, <1>4, <1>6, <2>1
<1>9. \A k \in S : new.plan[k] \cap new.left = {}
  <2>1. \A k \in S : d.plan[k] \cap d.left = {}
    BY DEF Dealing, S
  <2>2. QED BY <1>4, <1>6, <2>1
<1>10. \A k, l \in S : k # l => new.plan[k] \cap new.plan[l] = {}
  <2>1. /\ \A k \in S : d.plan[k] \cap d.left = {}
        /\ \A k, l \in S : k # l => d.plan[k] \cap d.plan[l] = {}
    BY DEF Dealing, S
  <2>2. QED BY <1>2, <1>6, <2>1
<1>11. ASSUME NEW k \in S, new.plan[k] # {}
       PROVE  \E x \in new.plan[k] : \A l \in S : new.load[k] - JobCost(x) <= new.load[l]
  <2>0. \A l \in S : d.load[l] \in Nat /\ new.load[l] \in Nat /\ d.load[l] <= new.load[l]
    BY <1>5, <1>6
  <2>1. CASE k = i
    <3>1. j \in new.plan[k] /\ new.load[k] = d.load[i] + JobCost(j)
      BY <1>3, <1>6, <2>1
    <3>2. \A l \in S : new.load[k] - JobCost(j) <= new.load[l]
      BY <1>3, <1>5, <2>0, <3>1
    <3>3. QED BY <3>1, <3>2
  <2>2. CASE k # i
    <3>1. new.plan[k] = d.plan[k] /\ new.load[k] = d.load[k]
      BY <1>6, <2>2
    <3>2. PICK x \in d.plan[k] : \A l \in S : d.load[k] - JobCost(x) <= d.load[l]
      BY <1>11, <3>1 DEF Dealing, S
    <3>3. JobCost(x) \in Nat
      BY <1>5
    <3>4. \A l \in S : d.load[k] - JobCost(x) <= new.load[l]
      BY <2>0, <3>2, <3>3
    <3>5. QED BY <3>1, <3>4
  <2>3. QED BY <2>1, <2>2
<1>12. Dealing(jobs, shards, new, m - 1)
  BY <1>6, <1>7, <1>8, <1>9, <1>10, <1>11 DEF Dealing, S
<1>13. QED BY <1>12 DEF new

\* When all jobs are dealt none is left.
LEMMA DealtFacts ==
  ASSUME NEW tests, NEW shards, Dealable(tests, shards)
  PROVE  Dealing(Jobs(tests, shards), shards, Dealt(tests, shards), 0)
<1> DEFINE jobs == Jobs(tests, shards)
           k == Cardinality(jobs)
<1>1. IsFiniteSet(jobs) /\ (\A j \in jobs : JobCost(j) \in Nat) /\ shards \in Nat \ {0} /\ k \in Nat
  BY JobsFacts, FS_CardinalityType DEF Dealable
<1>2. PICK deal : /\ deal[0] = NoneDealt(jobs, shards)
                  /\ \A n \in 1 .. k : deal[n] = DealOne(deal[n - 1])
                  /\ Dealt(tests, shards) = deal[k]
  <2> DEFINE l == k
  <2>1. l \in Nat /\ l = Cardinality(Jobs(tests, shards))
    BY <1>1
  <2> HIDE DEF l
  <2>2. \E deal : /\ deal[0] = NoneDealt(Jobs(tests, shards), shards)
                  /\ \A n \in 1 .. l : deal[n] = DealOne(deal[n - 1])
                  /\ Dealt(tests, shards) = deal[l]
    BY <2>1, DealtRounds
  <2>3. QED BY <2>2 DEF l
<1> DEFINE T == {n \in Nat : n <= k => Dealing(jobs, shards, deal[n], k - n)}
<1>3. 0 \in T
  <2>1. Dealing(jobs, shards, NoneDealt(jobs, shards), k)
    BY <1>1, DealStarts
  <2> HIDE DEF k, jobs
  <2>2. k - 0 = k
    BY <1>1
  <2>3. QED BY <1>2, <2>1, <2>2
<1>4. ASSUME NEW n \in Nat, n \in T PROVE n + 1 \in T
  <2> HIDE DEF k, jobs
  <2>1. ASSUME n + 1 <= k PROVE Dealing(jobs, shards, deal[n + 1], k - (n + 1))
    <3> DEFINE m == k - n
    <3>1. m \in Nat \ {0} /\ m - 1 = k - (n + 1) /\ n + 1 \in 1 .. k /\ (n + 1) - 1 = n /\ n <= k
      BY <1>1, <2>1
    <3>2. Dealing(jobs, shards, deal[n], m)
      BY <1>4, <3>1
    <3> HIDE DEF m
    <3>3. Dealing(jobs, shards, DealOne(deal[n]), m - 1)
      BY <1>1, <3>1, <3>2, DealKeeps
    <3>4. deal[n + 1] = DealOne(deal[n])
      BY <1>2, <3>1
    <3>5. QED BY <3>1, <3>3, <3>4
  <2>2. QED BY <2>1
<1> HIDE DEF T
<1>5. Nat \subseteq T
  BY <1>3, <1>4, Induction
<1>6. Dealing(jobs, shards, deal[k], k - k)
  <2> HIDE DEF jobs, k
  <2>1. k \in T /\ k <= k
    BY <1>1, <1>5
  <2>2. QED BY <2>1 DEF T
<1>7. k - k = 0
  <2> HIDE DEF k
  <2>1. QED BY <1>1
<1>8. QED BY <1>2, <1>6, <1>7

\* The dealing is complete, repeats no test and is fair.
THEOREM DealtFairly ==
  ASSUME NEW tests, NEW shards, Dealable(tests, shards)
  PROVE  EveryTestOnceAndFair(tests, shards)
<1> DEFINE jobs == Jobs(tests, shards)
           d == Dealt(tests, shards)
           S == 1 .. shards
<1>1. Dealing(jobs, shards, d, 0)
  BY DealtFacts
<1>2. d.left = {}
  BY <1>1, FS_EmptySet DEF Dealing
<1>3. /\ \A j \in jobs : j \subseteq tests
      /\ UNION jobs = tests /\ \A j, k \in jobs : j # k => j \cap k = {}
  BY JobsFacts
<1>4. IsFiniteSet(tests) /\ shards \in Nat
  BY DEF Dealable
<1> HIDE DEF jobs, d, S
<1>5. /\ d.plan \in [S -> SUBSET jobs]
      /\ \A j \in jobs : \E i \in S : j \in d.plan[i]
      /\ \A i, k \in S : i # k => d.plan[i] \cap d.plan[k] = {}
      /\ \A i \in S : d.plan[i] # {} => \E j \in d.plan[i] : \A k \in S : d.load[i] - JobCost(j) <= d.load[k]
  BY <1>1, <1>2 DEF Dealing, S
<1>6. UNION {UNION d.plan[i] : i \in S} = tests
  <2>1. ASSUME NEW t \in tests PROVE \E i \in S : t \in UNION d.plan[i]
    <3>1. PICK j \in jobs : t \in j
      BY <1>3
    <3>2. PICK i \in S : j \in d.plan[i]
      BY <1>5
    <3>3. QED BY <3>1, <3>2
  <2>2. \A i \in S : UNION d.plan[i] \subseteq tests
    BY <1>3, <1>5
  <2>3. QED BY <2>1, <2>2
<1>7. ASSUME NEW i \in S, NEW k \in S, i # k PROVE (UNION d.plan[i]) \cap (UNION d.plan[k]) = {}
  <2>1. ASSUME NEW x \in d.plan[i], NEW y \in d.plan[k] PROVE x \cap y = {}
    <3>1. x \in jobs /\ y \in jobs /\ x # y
      BY <1>5, <1>7
    <3>2. QED BY <1>3, <3>1
  <2>2. QED BY <2>1
<1>8. \A i, k \in S : d.plan[i] # {} => \E j \in d.plan[i] : d.load[i] - JobCost(j) <= d.load[k]
  BY <1>5
<1>9. MapThenSumSet(LAMBDA i : Cardinality(UNION d.plan[i]), 1 .. shards) = Cardinality(tests)
  <2> DEFINE plan == d.plan
  <2>1. \A i \in 1 .. shards : IsFiniteSet(UNION plan[i])
    BY <1>3, <1>4, <1>5, FS_Subset DEF S
  <2>2. \A i, k \in 1 .. shards : i # k => (UNION plan[i]) \cap (UNION plan[k]) = {}
    BY <1>7 DEF S
  <2> HIDE DEF plan
  <2>3. MapThenSumSet(LAMBDA i : Cardinality(UNION plan[i]), 1 .. shards) =
          Cardinality(UNION {UNION plan[i] : i \in 1 .. shards})
    BY <1>4, <2>1, <2>2, SizesSum
  <2>4. UNION {UNION plan[i] : i \in 1 .. shards} = tests
    BY <1>6 DEF plan, S
  <2>5. MapThenSumSet(LAMBDA i : Cardinality(UNION plan[i]), 1 .. shards) = Cardinality(tests)
    BY <2>3, <2>4
  <2>6. QED BY <2>5 DEF plan
<1>10. PlanRefused(tests, shards) => \E i \in S : d.plan[i] = {}
  BY <1>6, <1>9 DEF PlanRefused, d, S
<1>11. QED BY <1>6, <1>7, <1>8, <1>10 DEF EveryTestOnceAndFair, d, S

-------------------------------------------------------------------------------
(* The instance: every case the gate is asked about is well formed.               *)

CaseSound ==
  /\ Case("deal") => Dealable(case[2], case[3])
  /\ Case("evidence") => Evidence(case[2])
  /\ Case("resume") => /\ case[2] \in {"core", "share", "icim"}
                       /\ \A x \in GateGroups : Evidence(case[3].groups[x].evidence) /\ Evidence(case[6][x])
  /\ Case("bind") => ReadableTree(case[2], UsesOf) /\ ReadableTree(case[3], UsesOf)
  /\ Case("official") => Evidence(case[4])

\* Facts on finite sets, in the form the cases below use them.
LEMMA Finite ==
  /\ \A x, y : IsFiniteSet({x}) /\ IsFiniteSet({x, y})
  /\ \A s, t : IsFiniteSet(s) /\ IsFiniteSet(t) => IsFiniteSet(s \cup t)
  /\ \A s, t : IsFiniteSet(s) /\ t \subseteq s => IsFiniteSet(t)
<1>1. ASSUME NEW x PROVE IsFiniteSet({x})
  BY FS_Singleton, Zenon
<1>2. ASSUME NEW s, NEW t, IsFiniteSet(s), IsFiniteSet(t) PROVE IsFiniteSet(s \cup t)
  BY <1>2, FS_Union, Zenon
<1>3. ASSUME NEW s, NEW t \in SUBSET s, IsFiniteSet(s) PROVE IsFiniteSet(t)
  BY <1>3, FS_Subset, Zenon
<1>4. \A x, y : {x, y} = {x} \cup {y}
  OBVIOUS
<1>5. \A s, t : t \subseteq s => t \in SUBSET s
  OBVIOUS
<1>6. ASSUME NEW x, NEW y PROVE IsFiniteSet({x}) /\ IsFiniteSet({x, y})
  <2>1. IsFiniteSet({x} \cup {y})
    BY <1>1, <1>2, Zenon
  <2>2. {x, y} = {x} \cup {y}
    OBVIOUS
  <2>3. QED BY <1>1, <2>1, <2>2, Zenon
<1>7. QED BY <1>2, <1>3, <1>5, <1>6

\* A function on a finite set has finitely many values.
LEMMA ImageFinite ==
  ASSUME NEW f, IsFiniteSet(DOMAIN f)
  PROVE  IsFiniteSet({f[x] : x \in DOMAIN f})
<1> DEFINE S == DOMAIN f
           V == {f[x] : x \in S}
           g == [x \in S |-> f[x]]
<1>1. g \in Surjection(S, V)
  BY DEF Surjection
<1> HIDE DEF g, V
<1>2. IsFiniteSet(V)
  BY <1>1, FS_Surjection, Zenon
<1>3. QED BY <1>2 DEF V

\* The tests of a file are finitely many, with costs.
LEMMA TestsFinite ==
  ASSUME NEW file, NEW n \in Nat, NEW c \in Costs(n)
  PROVE  IsFiniteSet(TestsOf(file, c)) /\ \A t \in TestsOf(file, c) : t.cost \in Nat
<1>1. DOMAIN c = 1 .. n /\ \A i \in 1 .. n : c[i] \in Nat
  BY DEF Costs
<1>2. IsFiniteSet(1 .. n)
  BY FS_Interval
<1> DEFINE f == [i \in 1 .. n |-> [file |-> file, n |-> i, cost |-> c[i]]]
<1>3. IsFiniteSet({f[i] : i \in DOMAIN f})
  BY <1>2, ImageFinite
<1>4. TestsOf(file, c) = {f[i] : i \in DOMAIN f}
  BY <1>1 DEF TestsOf
<1>5. \A i \in DOMAIN f : f[i].cost \in Nat
  BY <1>1
<1>6. QED BY <1>3, <1>4, <1>5

\* The deals of the instance are of finitely many tests.
LEMMA DealsSound == Deal => \E tests, shards : Dealable(tests, shards) /\ case' = <<"deal", tests, shards>>
<1> SUFFICES ASSUME NEW tests \in TestSets, NEW shards \in 2 .. 3, case' = <<"deal", tests, shards>>
             PROVE  Dealable(tests, shards)
  BY DEF Deal
<1>1. PICK a \in UNION {Costs(k) : k \in 1 .. 3}, b \in UNION {Costs(k) : k \in 0 .. 3},
           c \in UNION {Costs(k) : k \in 0 .. 3} :
        tests = TestsOf("a", a) \cup TestsOf("b", b) \cup TestsOf("c", c)
  BY DEF TestSets
<1>2. \E i, j, k \in Nat : a \in Costs(i) /\ b \in Costs(j) /\ c \in Costs(k)
  <2>1. PICK i \in 1 .. 3, j \in 0 .. 3, k \in 0 .. 3 : a \in Costs(i) /\ b \in Costs(j) /\ c \in Costs(k)
    OBVIOUS
  <2>2. i \in Nat /\ j \in Nat /\ k \in Nat
    OBVIOUS
  <2>3. QED BY <2>1, <2>2
<1>3. /\ IsFiniteSet(TestsOf("a", a)) /\ \A t \in TestsOf("a", a) : t.cost \in Nat
      /\ IsFiniteSet(TestsOf("b", b)) /\ \A t \in TestsOf("b", b) : t.cost \in Nat
      /\ IsFiniteSet(TestsOf("c", c)) /\ \A t \in TestsOf("c", c) : t.cost \in Nat
  BY <1>2, TestsFinite
<1>4. IsFiniteSet(tests)
  BY <1>1, <1>3, Finite, Zenon
<1>5. (\A t \in tests : t.cost \in Nat) /\ shards \in Nat \ {0}
  BY <1>1, <1>3
<1>6. QED BY <1>4, <1>5 DEF Dealable

\* The cases of the instance's records are finite, with known outcomes.
LEMMA CasesFinite ==
  \A s \in CaseSets : IsFiniteSet(s) /\ \A c \in s : c.outcome \in {"passed", "failed", "skipped"}
<1>1. ASSUME NEW t, NEW outcome \in {"passed", "failed", "skipped"}, IsFiniteSet(t)
      PROVE  IsFiniteSet(Ran(t, outcome)) /\ \A c \in Ran(t, outcome) : c.outcome \in {"passed", "failed", "skipped"}
  <2> DEFINE f == [x \in t |-> [test |-> x, run |-> 1, outcome |-> outcome]]
  <2>1. IsFiniteSet({f[x] : x \in DOMAIN f})
    BY <1>1, ImageFinite
  <2>2. Ran(t, outcome) = {f[x] : x \in DOMAIN f}
    BY DEF Ran
  <2>3. \A x \in DOMAIN f : f[x].outcome = outcome
    OBVIOUS
  <2>4. QED BY <2>1, <2>2, <2>3
<1>2. IsFiniteSet({A1, B1}) /\ IsFiniteSet({A2}) /\ IsFiniteSet({A1, A2, B1})
  <2>1. {A1, A2, B1} = {A1, A2} \cup {B1}
    OBVIOUS
  <2>2. QED BY <2>1, Finite, Zenon
<1> DEFINE again == {[test |-> A1, run |-> 2, outcome |-> "passed"]}
           Fine(s) == IsFiniteSet(s) /\ \A c \in s : c.outcome \in {"passed", "failed", "skipped"}
<1>3. /\ Fine(Ran({A1, B1}, "passed")) /\ Fine(Ran({A1, B1}, "failed"))
      /\ Fine(Ran({A1, A2, B1}, "passed")) /\ Fine(Ran({A2}, "skipped"))
  BY <1>1, <1>2
<1>4. Fine(again)
  <2>1. IsFiniteSet(again)
    BY Finite, Zenon
  <2>2. \A c \in again : c.outcome = "passed"
    OBVIOUS
  <2>3. QED BY <2>1, <2>2
<1>5. ASSUME NEW s, NEW t, Fine(s), Fine(t) PROVE Fine(s \cup t)
  <2>1. IsFiniteSet(s \cup t)
    BY <1>5, Finite, Zenon
  <2>2. QED BY <1>5, <2>1
<1>6. ASSUME NEW s, NEW t, Fine(s), t \subseteq s PROVE Fine(t)
  <2>1. IsFiniteSet(t)
    BY <1>6, Finite, Zenon
  <2>2. QED BY <1>6, <2>1
<1> HIDE DEF Fine, again
<1>7. ASSUME NEW s \in CaseSets PROVE Fine(s)
  <2>1. \/ s \subseteq Ran({A1, B1}, "passed") \cup Ran({A1, B1}, "failed")
        \/ s = Ran({A1, A2, B1}, "passed") \/ s = Ran({A1, B1}, "passed") \cup Ran({A2}, "skipped")
        \/ s = Ran({A1, B1}, "passed") \cup again
    <3> DEFINE p == Ran({A1, B1}, "passed") \cup Ran({A1, B1}, "failed")
               q == Ran({A1, A2, B1}, "passed")
               u == Ran({A1, B1}, "passed") \cup Ran({A2}, "skipped")
               v == Ran({A1, B1}, "passed") \cup again
    <3>1. CaseSets = (SUBSET p) \cup {q, u, v}
      BY DEF CaseSets, again
    <3> HIDE DEF p, q, u, v
    <3>2. s \in (SUBSET p) \cup {q, u, v}
      BY <3>1, Zenon
    <3>3. s \subseteq p \/ s = q \/ s = u \/ s = v
      BY <3>2, Zenon
    <3>4. QED BY <3>3 DEF p, q, u, v
  <2>2. /\ Fine(Ran({A1, B1}, "passed") \cup Ran({A1, B1}, "failed"))
        /\ Fine(Ran({A1, B1}, "passed") \cup Ran({A2}, "skipped"))
        /\ Fine(Ran({A1, B1}, "passed") \cup again)
    BY <1>3, <1>4, <1>5, Zenon
  <2>3. QED BY <1>3, <1>6, <2>1, <2>2, Zenon
<1>8. QED BY <1>7 DEF Fine

\* Every record of the instance is evidence.
LEMMA RecordsSound ==
  ASSUME NEW c, NEW s, NEW x, NEW d, NEW cases, NEW n, NEW f, NEW g, s \in Orders,
         IsFiniteSet(cases), \A y \in cases : y.outcome \in {"passed", "failed", "skipped"}
  PROVE  Evidence(Record(c, s, x, d, cases, n, f, g))
<1>1. \E k \in Nat : DOMAIN s = 1 .. k
  <2>1. /\ DOMAIN <<>> = 1 .. 0 /\ DOMAIN <<A1>> = 1 .. 1 /\ DOMAIN <<A1, A2>> = 1 .. 2
        /\ DOMAIN <<A1, B1>> = 1 .. 2 /\ DOMAIN <<A1, A2, B1>> = 1 .. 3 /\ DOMAIN <<A1, A1, B1>> = 1 .. 3
    OBVIOUS
  <2>2. \/ s = <<>> \/ s = <<A1>> \/ s = <<A1, A2>>
        \/ s = <<A1, B1>> \/ s = <<A1, A2, B1>> \/ s = <<A1, A1, B1>>
    BY Zenon DEF Orders
  <2>3. 0 \in Nat /\ 1 \in Nat /\ 2 \in Nat /\ 3 \in Nat
    OBVIOUS
  <2>4. QED BY <2>1, <2>2, <2>3, Zenon
<1> DEFINE r == Record(c, s, x, d, cases, n, f, g)
<1>2. r.cases = cases /\ r.selected = s
  BY DEF Record
<1> HIDE DEF r
<1>3. Evidence(r)
  BY <1>1, <1>2 DEF Evidence
<1>4. QED BY <1>3 DEF r

\* The records of groups that are taken over are evidence.
LEMMA WholeSound == Evidence(Whole) /\ Evidence(Part)
<1>1. Ran({A1, B1}, "passed") \in CaseSets
  BY DEF CaseSets
<1>2. Ran({A1}, "passed") \in CaseSets
  <2>1. Ran({A1}, "passed") \subseteq Ran({A1, B1}, "passed")
    BY DEF Ran
  <2>2. QED BY <2>1 DEF CaseSets
<1>3. <<A1, B1>> \in Orders /\ <<A1>> \in Orders
  BY DEF Orders
<1>4. QED BY <1>1, <1>2, <1>3, CasesFinite, RecordsSound DEF Whole, Part

\* A takeover of the instance is of groups with evidence.
LEMMA ResumesSound ==
  Resume => \E kind, g, now1, now2, fresh :
              /\ kind \in {"core", "share", "icim"}
              /\ \A x \in GateGroups : Evidence(g.groups[x].evidence) /\ Evidence(fresh[x])
              /\ case' = <<"resume", kind, g, now1, now2, fresh>>
<1> SUFFICES ASSUME Resume
             PROVE  \E kind, g, now1, now2, fresh :
              /\ kind \in {"core", "share", "icim"}
              /\ \A x \in GateGroups : Evidence(g.groups[x].evidence) /\ Evidence(fresh[x])
              /\ case' = <<"resume", kind, g, now1, now2, fresh>>
  OBVIOUS
<1>1. PICK kind \in {"core", "share", "icim"}, x \in GateGroups, e \in {Whole, Part}, fresh \in {Whole, Part},
           pass \in BOOLEAN, same \in BOOLEAN, alive \in BOOLEAN, sealed \in BOOLEAN, green \in BOOLEAN,
           released \in BOOLEAN, d \in 0 .. 1, later \in 1 .. 2, binds \in 1 .. 2, remote \in 1 .. 2 :
        LET again(y) == kind # "icim" /\ y \in Replayed(kind)
            groups == [y \in GateGroups |-> IF again(y) THEN FailedGroup(kind)
                                            ELSE IF y = x THEN GroupOf(pass, 0, FALSE, same, e, d)
                                            ELSE GroupOf(TRUE, 0, FALSE, TRUE, Whole, 1)]
            earlier == [pass |-> green, purpose |-> "maintenance", released |-> released, resumed |-> FALSE,
                     begin |-> [day |-> 1, t |-> 0], end |-> [day |-> 1, t |-> 3], binds |-> 1, pins |-> 1,
                     remote |-> 1, alive |-> alive, sealed |-> sealed, groups |-> groups]
        IN case' = <<"resume", kind, earlier, Clock(1, 4, 1, 1), Clock(later, 5, binds, remote),
                     [y \in GateGroups |-> fresh]>>
  BY Zenon DEF Resume
<1> DEFINE again(y) == kind # "icim" /\ y \in Replayed(kind)
           group(y) == IF again(y) THEN FailedGroup(kind)
                       ELSE IF y = x THEN GroupOf(pass, 0, FALSE, same, e, d)
                       ELSE GroupOf(TRUE, 0, FALSE, TRUE, Whole, 1)
           groups == [y \in GateGroups |-> group(y)]
           earlier == [pass |-> green, purpose |-> "maintenance", released |-> released, resumed |-> FALSE,
                    begin |-> [day |-> 1, t |-> 0], end |-> [day |-> 1, t |-> 3], binds |-> 1, pins |-> 1,
                    remote |-> 1, alive |-> alive, sealed |-> sealed, groups |-> groups]
           anew == [y \in GateGroups |-> fresh]
<1>2. case' = <<"resume", kind, earlier, Clock(1, 4, 1, 1), Clock(later, 5, binds, remote), anew>>
  BY <1>1, Zenon
<1>3. \A y : group(y).evidence \in {Whole, Part}
  <2>1. FailedGroup(kind).evidence = Whole /\ GroupOf(pass, 0, FALSE, same, e, d).evidence = e
        /\ GroupOf(TRUE, 0, FALSE, TRUE, Whole, 1).evidence = Whole
    BY DEF GroupOf, FailedGroup
  <2>2. QED BY <2>1, Zenon
<1> HIDE DEF group
<1>4. earlier.groups = groups
  OBVIOUS
<1> HIDE DEF earlier
<1>5. \A y \in GateGroups : Evidence(earlier.groups[y].evidence)
  BY <1>3, <1>4, WholeSound
<1>6. \A y \in GateGroups : Evidence(anew[y])
  BY WholeSound
<1> HIDE DEF anew
<1>7. QED BY <1>2, <1>5, <1>6

\* The trees of the instance are finite, and their texts have known uses.
LEMMA TreesReadable ==
  ASSUME NEW ends, NEW tree \in Trees(ends)
  PROVE  ReadableTree(tree, UsesOf)
<1> DEFINE Of(files) ==
             {[f \in files |-> CASE f = "e" -> e [] f = "h" -> h [] f = "x" -> x [] f = "d" -> d] :
                e \in Contents("e", {FALSE}), h \in Contents("h", {FALSE}), x \in Contents("x", {FALSE}),
                d \in Contents("d", ends)}
           FileSets == {{"e", "d"} \cup more : more \in SUBSET {"h", "x"}}
<1>1. PICK files \in FileSets : tree \in Of(files)
  <2>1. Trees(ends) = UNION {Of(files) : files \in FileSets}
    BY DEF Trees
  <2> HIDE DEF Of, FileSets
  <2>2. QED BY <2>1
<1>2. PICK e \in Contents("e", {FALSE}), h \in Contents("h", {FALSE}), x \in Contents("x", {FALSE}),
           d \in Contents("d", ends) :
        tree = [f \in files |-> CASE f = "e" -> e [] f = "h" -> h [] f = "x" -> x [] f = "d" -> d]
  BY <1>1
<1>0. DOMAIN tree = files /\ files \subseteq {"e", "d", "h", "x"}
  <2>1. files \subseteq {"e", "d", "h", "x"}
    BY DEF FileSets
  <2>2. QED BY <1>2, <2>1
<1>3. IsFiniteSet(DOMAIN tree)
  <2>1. IsFiniteSet({"e", "d", "h", "x"})
    <3>1. {"e", "d", "h", "x"} = {"e", "d"} \cup {"h", "x"}
      OBVIOUS
    <3>2. QED BY <3>1, Finite, Zenon
  <2>2. DOMAIN tree \subseteq {"e", "d", "h", "x"}
    BY <1>0
  <2>3. QED BY <2>1, <2>2, Finite, Zenon
<1>4. /\ e.text \in Texts("e") /\ h.text \in Texts("h") /\ x.text \in Texts("x") /\ d.text \in Texts("d")
  BY DEF Contents
<1>5. \A f \in DOMAIN tree : tree[f] = IF f = "e" THEN e ELSE IF f = "h" THEN h ELSE IF f = "x" THEN x ELSE d
  <2> HIDE DEF FileSets, Of
  <2> DEFINE val(f) == CASE f = "e" -> e [] f = "h" -> h [] f = "x" -> x [] f = "d" -> d
  <2>1. tree = [f \in files |-> val(f)]
    BY <1>2
  <2>2. \A f \in {"e", "h", "x", "d"} : val(f) = IF f = "e" THEN e ELSE IF f = "h" THEN h ELSE IF f = "x" THEN x ELSE d
    OBVIOUS
  <2> HIDE DEF val
  <2>3. \A f \in files : tree[f] = val(f)
    BY <2>1
  <2>4. QED BY <1>0, <2>2, <2>3
<1>6. \A f \in DOMAIN tree : tree[f].text \in Texts(f)
  BY <1>0, <1>4, <1>5
<1>7. \A f \in {"e", "h", "x", "d"} : Texts(f) \subseteq DOMAIN UsesOf
  <2>1. DOMAIN UsesOf = UNION {Texts(f) : f \in {"e", "h", "x", "d"}}
    BY DEF UsesOf
  <2>2. QED BY <2>1
<1>8. QED BY <1>0, <1>3, <1>6, <1>7 DEF ReadableTree

\* The five files beside an official receipt leave evidence.
LEMMA OfficialsSound ==
  Official => \E exit, r, five, kept : Evidence(five) /\ case' = <<"official", exit, r, five, kept>>
<1> SUFFICES ASSUME Official
             PROVE  \E exit, r, five, kept : Evidence(five) /\ case' = <<"official", exit, r, five, kept>>
  OBVIOUS
<1>1. PICK exit \in 0 .. 1, code \in 0 .. 1, tests \in -1 .. 1, bad \in 0 .. 1,
           kept \in BOOLEAN, sourceKept \in BOOLEAN,
           o \in Orders, cases \in {Ran({A1, B1}, "passed"), Ran({A1}, "passed") \cup Ran({B1}, "failed")} :
        case' = <<"official", exit, [tests |-> tests, bad |-> bad, code |-> code, kept |-> kept],
                  Record(o, o, o, {}, cases, 2, Cardinality({c \in cases : c.outcome = "failed"}), FALSE), sourceKept>>
  BY Zenon DEF Official
<1>2. cases \in CaseSets
  <2>1. /\ Ran({A1}, "passed") \subseteq Ran({A1, B1}, "passed")
        /\ Ran({B1}, "failed") \subseteq Ran({A1, B1}, "failed")
    BY DEF Ran
  <2>2. QED BY <2>1 DEF CaseSets
<1> DEFINE five == Record(o, o, o, {}, cases, 2, Cardinality({c \in cases : c.outcome = "failed"}), FALSE)
           r == [tests |-> tests, bad |-> bad, code |-> code, kept |-> kept]
<1>3. Evidence(five)
  BY <1>2, CasesFinite, RecordsSound
<1>4. case' = <<"official", exit, r, five, sourceKept>>
  BY <1>1
<1> HIDE DEF five, r
<1>5. QED BY <1>3, <1>4

\* A step writes at most one case, and the case it writes is well formed.
LEMMA CaseKeeps == CaseSound /\ [DayNext]_<<vars, prepareVars, case>> => CaseSound'
<1> SUFFICES ASSUME CaseSound, [DayNext]_<<vars, prepareVars, case>> PROVE CaseSound'
  OBVIOUS
<1>1. CASE UNCHANGED case
  BY <1>1 DEF CaseSound, Case
<1>2. CASE Deal
  <2>1. PICK tests, shards : Dealable(tests, shards) /\ case' = <<"deal", tests, shards>>
    BY <1>2, DealsSound
  <2>2. case'[1] = "deal" /\ case'[2] = tests /\ case'[3] = shards
    BY <2>1
  <2>3. QED BY <2>1, <2>2 DEF CaseSound, Case
<1>3. CASE Judge
  <2>1. PICK e : Evidence(e) /\ case' = <<"evidence", e>>
    BY <1>3, CasesFinite, RecordsSound DEF Judge
  <2>2. case'[1] = "evidence" /\ case'[2] = e
    BY <2>1
  <2>3. QED BY <2>1, <2>2 DEF CaseSound, Case
<1>4. CASE Resume
  <2>1. PICK kind, g, now1, now2, fresh :
          /\ kind \in {"core", "share", "icim"}
          /\ \A x \in GateGroups : Evidence(g.groups[x].evidence) /\ Evidence(fresh[x])
          /\ case' = <<"resume", kind, g, now1, now2, fresh>>
    BY <1>4, ResumesSound
  <2>2. case'[1] = "resume" /\ case'[2] = kind /\ case'[3] = g /\ case'[6] = fresh
    BY <2>1
  <2>3. QED BY <2>1, <2>2 DEF CaseSound, Case
<1>5. CASE BindTree
  <2>1. PICK tested, other, truncated :
          /\ ReadableTree(tested, UsesOf) /\ ReadableTree(other, UsesOf)
          /\ case' = <<"bind", tested, other, truncated>>
    BY <1>5, TreesReadable DEF BindTree
  <2>2. case'[1] = "bind" /\ case'[2] = tested /\ case'[3] = other
    BY <2>1
  <2>3. QED BY <2>1, <2>2 DEF CaseSound, Case
<1>6. CASE Release1
  <2>1. PICK root, copied, commit : case' = <<"release", root, copied, commit>>
    BY <1>6, Zenon DEF Release1
  <2>2. case'[1] = "release"
    BY <2>1
  <2>3. QED BY <2>2 DEF CaseSound, Case
<1>7. CASE Official
  <2>1. PICK exit, r, five, kept : Evidence(five) /\ case' = <<"official", exit, r, five, kept>>
    BY <1>7, OfficialsSound
  <2>2. case'[1] = "official" /\ case'[4] = five
    BY <2>1
  <2>3. QED BY <2>1, <2>2 DEF CaseSound, Case
<1>8. QED
  BY <1>1, <1>2, <1>3, <1>4, <1>5, <1>6, <1>7
  DEF DayNext, DayStep, DealCase, JudgeCase, ResumeCase, BindCase, ReleaseCase, OfficialCase, PrepareStep

\* The orchestration, the preparation and the cases each take steps of their own.
DayInv == LocalInv /\ PrepareInv /\ CaseSound

\* The invariant holds initially.
LEMMA DayStarts == DayInit => DayInv
<1> SUFFICES ASSUME DayInit PROVE DayInv
  OBVIOUS
<1>1. LocalInv
  BY LocalInitSafe DEF DayInit
<1>2. PrepareInv
  BY PrepareStart DEF DayInit
<1>3. Len(case) = 1
  BY DEF DayInit
<1>4. CaseSound
  BY <1>3 DEF CaseSound, Case
<1>5. QED BY <1>1, <1>2, <1>4 DEF DayInv

\* Every step keeps the invariant: the parts share no variable.
LEMMA DayKeeps == DayInv /\ [DayNext]_<<vars, prepareVars, case>> => DayInv'
<1> SUFFICES ASSUME DayInv, [DayNext]_<<vars, prepareVars, case>> PROVE DayInv'
  OBVIOUS
<1>1. [Next]_vars /\ [PrepareNext]_prepareVars
  BY Zenon
  DEF DayNext, DayStep, DealCase, JudgeCase, ResumeCase, BindCase, ReleaseCase, OfficialCase, PrepareStep
<1>2. LocalInv'
  BY <1>1, LocalNextSafe DEF DayInv
<1>3. PrepareInv'
  BY <1>1, PrepareKeeps DEF DayInv
<1>4. CaseSound'
  BY CaseKeeps DEF DayInv
<1>5. QED BY <1>2, <1>3, <1>4 DEF DayInv

\* The three parts are sound in every reachable state.
LEMMA DayInvariant == DaySpec => []DayInv
BY DayStarts, DayKeeps, PTL DEF DaySpec

-------------------------------------------------------------------------------
(* What the gate's answers are worth *)

\* A green answer of the gate means tests, in every reachable state: what is dealt is dealt
\* completely and fairly, a group that counts as passed ran all of its tests, a takeover is of
\* the same day, and the IC/IM-only route rests on tests that ran (plan_nodes,
\* validate_collection, validate_core_resume, verify_group_evidence).
THEOREM TestsAreCounted == DaySpec => []TestsCount
<1>1. ASSUME DayInv PROVE TestsCount
  <2>1. Case("deal") => EveryTestOnceAndFair(case[2], case[3])
    BY <1>1, DealtFairly DEF DayInv, CaseSound
  <2>2. Case("evidence") => GreenMeansAllRan(case[2])
    BY <1>1, GreenRan DEF DayInv, CaseSound
  <2>3. Case("resume") => ReuseIsFromToday(case[2], case[3], case[4], case[5], case[6])
    BY <1>1, ReuseIsToday DEF DayInv, CaseSound
  <2>4. Case("official") => IndependentRunsRestOnTests(case[2], case[3], case[4], case[5])
    BY <1>1, IndependentRests DEF DayInv, CaseSound
  <2>5. QED BY <2>1, <2>2, <2>3, <2>4 DEF TestsCount
<1>2. QED BY <1>1, DayInvariant, PTL

\* Production runs what was tested: a sealed preparation is of one commit however often it died,
\* was resumed and was overtaken by a pull, and what the gate accepts as published, installed or
\* released has the tested texts (prepare, verify_remote, verify_production_sources, verify_icim).
THEOREM TestedIsProduced == DaySpec => []ProductionIsWhatWasTested
<1>1. ASSUME DayInv PROVE ProductionIsWhatWasTested
  <2>1. SealedIsOfOneCommit
    BY <1>1, SealedSafe DEF DayInv
  <2>2. Case("bind") => /\ RemoteRunsWhatWasTested(case[2], case[3], {"e"}, UsesOf, case[4])
                        /\ ProductionRunsWhatWasTested(case[2], case[3], {"e", "d"}, {"e", "h", "x"}, UsesOf)
    BY <1>1, RemoteSame, ProductionSame DEF DayInv, CaseSound
  <2>3. Case("release") => OneReleaseRuns(case[2], case[3], 1, case[4], {"e"})
    BY ReleaseSame
  <2>4. QED BY <2>1, <2>2, <2>3 DEF ProductionIsWhatWasTested
<1>2. QED BY <1>1, DayInvariant, PTL

\* The preparation on its own: for all commits, pins, reviews and edits of the working copy.
THEOREM Sealed == PrepareInit /\ [][PrepareNext]_prepareVars => []SealedIsOfOneCommit
<1>1. PrepareInit /\ [][PrepareNext]_prepareVars => []PrepareInv
  BY PrepareStart, PrepareKeeps, PTL
<1>2. QED BY <1>1, SealedSafe, PTL

\* The instance's orchestration is the one proved above, whatever the other parts do meanwhile:
\* a day has one orchestration and one Microcap writer, and what it reports was confirmed
\* (authorize, claim_day, run_icim, execute).
THEOREM DayIsOrchestrated == DaySpec => []OneDayOneWriter /\ ReportedIsConfirmed
<1>1. DayInit => Init
  BY DEF DayInit
<1>2. [DayNext]_<<vars, prepareVars, case>> => [Next]_vars
  BY Zenon
  DEF DayNext, DayStep, DealCase, JudgeCase, ResumeCase, BindCase, ReleaseCase, OfficialCase, PrepareStep
<1>3. DaySpec => Spec
  BY <1>1, <1>2, PTL DEF DaySpec, Spec
<1>4. QED BY <1>3, OneRun, Reported, PTL
================================================================================
