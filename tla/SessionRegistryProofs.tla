----------------------- MODULE SessionRegistryProofs ------------------------
(***************************************************************************)
(* The registry's indexes agree, a session that may have a live child holds *)
(* a slot, and no more children live than the limits allow: proved for      *)
(* every set of sessions and owners and every value of the limits.  So are  *)
(* the running sums of retained output: what a sum over a finite set is     *)
(* (SumFunctionOnSet, a recursive function that folds in an unknown order)  *)
(* is proved first, by induction on the number of its terms.                *)
(***************************************************************************)
EXTENDS SessionRegistry, FiniteSetTheorems, WellFoundedInduction, TLAPS

\* A proof in a record is true: a settled session has no child left.
SettledTruth == \A s \in Sessions : settled[s] => s \in gone

\* The types of the totals, without the bounds that follow from the sums.
OutputTypes ==
    /\ outputBySession \in [Sessions -> 0..OutputLimit]
    /\ outputByOwner \in [Owners -> Nat]
    /\ outputTotal \in Nat

IndInv ==
    /\ IndexTypes
    /\ SettledTruth
    /\ IndexesAgree
    /\ LiveHoldsSlot
    /\ IsFiniteSet(Records)
    /\ LiveBounded
    /\ OutputTypes
    /\ OutputAccounted

-----------------------------------------------------------------------------
(* What the registry's helpers do to the indexes *)

\* Freeing a slot removes the session from both slot indexes and from no
\* other (releaseActive).
LEMMA ReleaseActiveIndexes ==
    ASSUME IndexTypes, IndexesAgree, NEW s \in Sessions, ReleaseActive(s)
    PROVE  /\ ownerSlots' \in [Owners -> SUBSET Sessions]
           /\ slotOwner' \in [Sessions -> Owners \cup {NoOwner}]
           /\ slotOwner'[s] = NoOwner
           /\ \A x \in Sessions \ {s} : slotOwner'[x] = slotOwner[x]
           /\ \A o \in Owners : ownerSlots'[o] = {x \in Sessions : slotOwner'[x] = o}
  BY OwnersAssumption DEF IndexTypes, IndexesAgree, ReleaseActive

\* Releasing a session removes it from all four indexes (release).
LEMMA ReleaseIndexes ==
    ASSUME IndexTypes, IndexesAgree, NEW s \in Sessions, Release(s)
    PROVE  /\ recordsByOwner' \in [Owners -> SUBSET Sessions]
           /\ recordOwner' \in [Sessions -> Owners \cup {NoOwner}]
           /\ recordOwner'[s] = NoOwner
           /\ \A x \in Sessions \ {s} : recordOwner'[x] = recordOwner[x]
           /\ \A o \in Owners : recordsByOwner'[o] = {x \in Sessions : recordOwner'[x] = o}
  BY OwnersAssumption DEF IndexTypes, IndexesAgree, Release, SetOutput, recorded

-----------------------------------------------------------------------------
(* Bounds *)

\* Every step but an admission leaves the sets that the limits bound no
\* larger than they were.
LEMMA BoundsShrink ==
    ASSUME IsFiniteSet(Records), LiveBounded, gone \subseteq gone',
           Records' \subseteq Records
    PROVE  IsFiniteSet(Records') /\ LiveBounded'
<1>1. IsFiniteSet(Records') /\ Cardinality(Records') <= Cardinality(Records)
  BY FS_Subset
<1>2. /\ IsFiniteSet(Records \ gone)
      /\ Cardinality(Records' \ gone') <= Cardinality(Records \ gone)
  BY FS_Subset, Records' \ gone' \subseteq Records \ gone, Records \ gone \subseteq Records
<1>3. ASSUME NEW o \in Owners
      PROVE  /\ Cardinality({s \in Records' \ gone' : OwnerOf[s] = o}) <= MaxSessionsPerOwner
             /\ Cardinality({s \in Records' : OwnerOf[s] = o}) <= MaxRecordsPerOwner
  <2> DEFINE live == {s \in Records \ gone : OwnerOf[s] = o}
             all  == {s \in Records : OwnerOf[s] = o}
             live2 == {s \in Records' \ gone' : OwnerOf[s] = o}
             all2  == {s \in Records' : OwnerOf[s] = o}
  <2>1. live \subseteq Records /\ all \subseteq Records /\ live2 \subseteq live /\ all2 \subseteq all
    OBVIOUS
  <2>2. IsFiniteSet(live) /\ IsFiniteSet(all)
    BY <2>1, FS_Subset
  <2>3. /\ Cardinality(live2) <= Cardinality(live) /\ Cardinality(all2) <= Cardinality(all)
        /\ Cardinality(live2) \in Nat /\ Cardinality(all2) \in Nat
        /\ Cardinality(live) \in Nat /\ Cardinality(all) \in Nat
    <3> HIDE DEF live, all, live2, all2
    <3> QED BY <2>1, <2>2, FS_Subset, FS_CardinalityType
  <2>4. Cardinality(live) <= MaxSessionsPerOwner /\ Cardinality(all) <= MaxRecordsPerOwner
    BY DEF LiveBounded
  <2>5. Cardinality(live2) <= MaxSessionsPerOwner /\ Cardinality(all2) <= MaxRecordsPerOwner
    <3> HIDE DEF live, all, live2, all2
    <3> QED BY <2>3, <2>4, LimitsAssumption
  <2> QED BY <2>5
<1>4. /\ Cardinality(Records) \in Nat /\ Cardinality(Records') \in Nat
      /\ Cardinality(Records \ gone) \in Nat /\ Cardinality(Records' \ gone') \in Nat
  BY <1>1, <1>2, FS_CardinalityType, FS_Subset, Records' \ gone' \subseteq Records'
<1>5. /\ Cardinality(Records' \ gone') <= MaxActiveSessions
      /\ Cardinality(Records') <= MaxRecords
  BY <1>1, <1>2, <1>4, LimitsAssumption DEF LiveBounded
<1> QED BY <1>1, <1>3, <1>5 DEF LiveBounded

\* A finite set one element larger than a subset of one below the limit.
LEMMA OneMore ==
    ASSUME NEW S, NEW T, NEW x, NEW limit \in Nat, IsFiniteSet(T),
           Cardinality(T) < limit, S \subseteq T \cup {x}
    PROVE  IsFiniteSet(S) /\ Cardinality(S) <= limit
<1>0. /\ Cardinality(T) \in Nat
      /\ IsFiniteSet(T \cup {x})
      /\ Cardinality(T \cup {x}) = IF x \in T THEN Cardinality(T) ELSE Cardinality(T) + 1
  BY FS_AddElement, FS_CardinalityType
<1>1. IsFiniteSet(T \cup {x}) /\ Cardinality(T \cup {x}) <= Cardinality(T) + 1
  BY <1>0
<1>2. IsFiniteSet(S) /\ Cardinality(S) <= Cardinality(T \cup {x})
  BY <1>1, FS_Subset
<1>3. Cardinality(S) \in Nat /\ Cardinality(T) \in Nat /\ Cardinality(T \cup {x}) \in Nat
  BY <1>1, <1>2, FS_CardinalityType
<1> QED BY <1>1, <1>2, <1>3

-----------------------------------------------------------------------------
(* Sums over finite sets.  SumFunctionOnSet folds in an order that nobody    *)
(* knows; these lemmas say that a running sum may forget the order.          *)

\* The element that a fold over s takes next.
Pick(s) == CHOOSE x \in s : TRUE

\* g computes the sums of f over the sets of C.
Sums(g, f, C) == \A s \in C : g[s] = IF s = {} THEN 0 ELSE f[Pick(s)] + g[s \ {Pick(s)}]

\* The element a fold takes next is one of the set.
LEMMA PickIn == ASSUME NEW s, s # {} PROVE Pick(s) \in s
  BY DEF Pick

\* SumFunctionOnSet is a function on the subsets of its set, applied to it.
LEMMA Iter ==
    ASSUME NEW f, NEW S
    PROVE  SumFunctionOnSet(f, S) =
            (CHOOSE g : g = [s \in SUBSET S |->
                 IF s = {} THEN 0 ELSE f[Pick(s)] + g[s \ {Pick(s)}]])[S]
  BY DEF SumFunctionOnSet, FoldFunctionOnSet, MapThenFoldSet, Pick

\* A set of numbers with 0 and every successor is all of them: the least
\* number outside it would be the successor of one inside.
LEMMA NatSets ==
    ASSUME NEW B \in SUBSET Nat, 0 \in B, \A n \in B : n + 1 \in B
    PROVE  B = Nat
<1> SUFFICES ASSUME B # Nat PROVE FALSE
  OBVIOUS
<1> DEFINE C == Nat \ B
<1>1. C \in SUBSET Nat /\ C # {}
  OBVIOUS
<1>2. PICK m \in C : \A n \in C : ~(<<n, m>> \in OpToRel(<, Nat))
  <2> HIDE DEF C
  <2> QED BY <1>1, NatLessThanWellFounded, WFMin
<1>3. \A n \in C : ~(n < m)
  BY <1>2 DEF OpToRel
<1>4. m \in Nat /\ m # 0 /\ m - 1 \in Nat
  OBVIOUS
<1>5. m - 1 \in B
  BY <1>3, <1>4
<1> QED BY <1>4, <1>5

\* The subsets of S of at most n elements.
UpTo(S, n) == {s \in SUBSET S : Cardinality(s) <= n}

\* A subset without one of its elements is smaller by one.
LEMMA Smaller ==
    ASSUME NEW S, IsFiniteSet(S), NEW s \in SUBSET S, s # {}, NEW x \in s
    PROVE  /\ s \ {x} \in SUBSET S
           /\ IsFiniteSet(s)
           /\ Cardinality(s) \in Nat /\ Cardinality(s \ {x}) \in Nat
           /\ Cardinality(s \ {x}) = Cardinality(s) - 1
<1>1. IsFiniteSet(s) /\ Cardinality(s) \in Nat
  BY FS_Subset, FS_CardinalityType
<1>2. IsFiniteSet(s \ {x}) /\ Cardinality(s \ {x}) = Cardinality(s) - 1
  BY <1>1, FS_RemoveElement
<1> QED BY <1>1, <1>2, FS_CardinalityType

\* The function that SumFunctionOnSet chooses exists: it is built for the
\* subsets of at most n elements, one n after the other.
LEMMA SumsExist ==
    ASSUME NEW S, IsFiniteSet(S), NEW f, \A z \in S : f[z] \in Nat
    PROVE  \E g \in [SUBSET S -> Nat] : Sums(g, f, SUBSET S)
<1> DEFINE B == {n \in Nat : \E g \in [UpTo(S, n) -> Nat] : Sums(g, f, UpTo(S, n))}
<1>1. 0 \in B
  <2>1. \A s \in UpTo(S, 0) : s = {}
    BY FS_Subset, FS_CardinalityType, FS_EmptySet DEF UpTo
  <2>2. [s \in UpTo(S, 0) |-> 0] \in [UpTo(S, 0) -> Nat] /\ Sums([s \in UpTo(S, 0) |-> 0], f, UpTo(S, 0))
    BY <2>1 DEF Sums
  <2> QED BY <2>2
<1>2. ASSUME NEW n \in B PROVE n + 1 \in B
  <2>1. PICK g \in [UpTo(S, n) -> Nat] : Sums(g, f, UpTo(S, n))
    OBVIOUS
  <2> DEFINE h == [s \in UpTo(S, n + 1) |-> IF s = {} THEN 0 ELSE f[Pick(s)] + g[s \ {Pick(s)}]]
  <2>2. ASSUME NEW s \in UpTo(S, n + 1), s # {}
        PROVE  /\ Pick(s) \in s /\ f[Pick(s)] \in Nat
               /\ s \ {Pick(s)} \in UpTo(S, n) /\ g[s \ {Pick(s)}] \in Nat
    <3>1. Pick(s) \in s /\ s \in SUBSET S /\ Cardinality(s) <= n + 1
      BY <2>2, PickIn DEF UpTo
    <3>2. s \ {Pick(s)} \in UpTo(S, n)
      BY <2>2, <3>1, Smaller DEF UpTo
    <3> QED BY <3>1, <3>2
  <2>3. h \in [UpTo(S, n + 1) -> Nat]
    <3>1. ASSUME NEW s \in UpTo(S, n + 1)
          PROVE  (IF s = {} THEN 0 ELSE f[Pick(s)] + g[s \ {Pick(s)}]) \in Nat
      <4>1. CASE s = {}
        BY <4>1
      <4>2. CASE s # {}
        <5>1. f[Pick(s)] \in Nat /\ g[s \ {Pick(s)}] \in Nat
          BY <4>2, <2>2
        <5> QED BY <4>2, <5>1
      <4> QED BY <4>1, <4>2
    <3> QED BY <3>1
  <2>4. \A s \in UpTo(S, n) : s \in UpTo(S, n + 1) /\ h[s] = g[s]
    <3>1. ASSUME NEW s \in UpTo(S, n) PROVE s \in UpTo(S, n + 1)
      BY FS_Subset, FS_CardinalityType DEF UpTo
    <3> QED BY <3>1, <2>1 DEF Sums
  <2>5. Sums(h, f, UpTo(S, n + 1))
    BY <2>2, <2>4 DEF Sums
  <2>6. n + 1 \in Nat
    OBVIOUS
  <2> HIDE DEF h
  <2> QED BY <2>3, <2>5, <2>6
<1>3. B = Nat
  <2> HIDE DEF B
  <2>1. B \in SUBSET Nat
    BY DEF B
  <2> QED BY <1>1, <1>2, <2>1, NatSets
<1>4. Cardinality(S) \in B
  BY <1>3, FS_CardinalityType
<1>5. UpTo(S, Cardinality(S)) = SUBSET S
  BY FS_Subset DEF UpTo
<1> QED BY <1>4, <1>5

\* There is only one, and it looks at no value outside the set.
LEMMA SumsAgree ==
    ASSUME NEW S, IsFiniteSet(S), NEW f, NEW e, \A x \in S : f[x] = e[x],
           NEW g, Sums(g, f, SUBSET S), NEW h, Sums(h, e, SUBSET S)
    PROVE  \A s \in SUBSET S : g[s] = h[s]
<1> DEFINE B == {n \in Nat : \A s \in SUBSET S : Cardinality(s) = n => g[s] = h[s]}
<1>1. 0 \in B
  <2>1. \A s \in SUBSET S : Cardinality(s) = 0 => s = {}
    BY FS_Subset, FS_EmptySet
  <2> QED BY <2>1 DEF Sums
<1>2. ASSUME NEW n \in B PROVE n + 1 \in B
  <2>1. ASSUME NEW s \in SUBSET S, Cardinality(s) = n + 1 PROVE g[s] = h[s]
    <3>0. n \in Nat /\ Cardinality({}) = 0
      BY FS_EmptySet
    <3>1. s # {}
      BY <2>1, <3>0
    <3>2. /\ Pick(s) \in s /\ s \ {Pick(s)} \in SUBSET S
          /\ Cardinality(s \ {Pick(s)}) = n
      BY <2>1, <3>0, <3>1, PickIn, Smaller
    <3>3. g[s \ {Pick(s)}] = h[s \ {Pick(s)}]
      BY <3>2
    <3> QED BY <3>1, <3>2, <3>3 DEF Sums
  <2> QED BY <2>1
<1>3. B = Nat
  <2> HIDE DEF B
  <2>1. B \in SUBSET Nat
    BY DEF B
  <2> QED BY <1>1, <1>2, <2>1, NatSets
<1>4. ASSUME NEW s \in SUBSET S PROVE g[s] = h[s]
  <2>1. Cardinality(s) \in B
    BY <1>3, FS_Subset, FS_CardinalityType
  <2> QED BY <2>1
<1> QED BY <1>4

\* g computes the sums of f over the subsets of S, the last of them
\* SumFunctionOnSet.
IsSum(g, f, S) ==
    g \in [SUBSET S -> Nat] /\ Sums(g, f, SUBSET S) /\ g[S] = SumFunctionOnSet(f, S)

\* So SumFunctionOnSet computes with it.
LEMMA SumIsSums ==
    ASSUME NEW S, IsFiniteSet(S), NEW f, \A z \in S : f[z] \in Nat
    PROVE  /\ SumFunctionOnSet(f, S) \in Nat
           /\ \E g : IsSum(g, f, S)
<1> DEFINE Step(g) == [s \in SUBSET S |-> IF s = {} THEN 0 ELSE f[Pick(s)] + g[s \ {Pick(s)}]]
<1>1. PICK g \in [SUBSET S -> Nat] : Sums(g, f, SUBSET S)
  BY SumsExist
<1>2. g = Step(g)
  BY <1>1 DEF Sums
<1> DEFINE it == CHOOSE k : k = Step(k)
<1>3. it = Step(it)
  BY <1>2
<1>4. Sums(it, f, SUBSET S)
  <2>1. \A s \in SUBSET S : Step(it)[s] = IF s = {} THEN 0 ELSE f[Pick(s)] + it[s \ {Pick(s)}]
    OBVIOUS
  <2> HIDE DEF it
  <2> QED BY <1>3, <2>1 DEF Sums
<1>5. \A s \in SUBSET S : g[s] = it[s]
  <2> HIDE DEF it
  <2> QED BY <1>1, <1>4, SumsAgree
<1>6. SumFunctionOnSet(f, S) = it[S]
  BY Iter
<1> HIDE DEF it
<1>7. g[S] = SumFunctionOnSet(f, S)
  BY <1>5, <1>6
<1> QED BY <1>1, <1>7 DEF IsSum

\* The empty sum.
LEMMA SumEmpty ==
    ASSUME NEW f PROVE SumFunctionOnSet(f, {}) = 0
  BY SumIsSums, FS_EmptySet DEF Sums, IsSum

\* A sum is the term of the element that is taken first, and the rest.
LEMMA SumPick ==
    ASSUME NEW S, IsFiniteSet(S), NEW f, \A z \in S : f[z] \in Nat, S # {}
    PROVE  SumFunctionOnSet(f, S) = f[Pick(S)] + SumFunctionOnSet(f, S \ {Pick(S)})
<1> DEFINE T == S \ {Pick(S)}
<1>1. PICK g : IsSum(g, f, S)
  BY SumIsSums
<1>2. T \in SUBSET S /\ IsFiniteSet(T)
  BY FS_Subset
<1>3. PICK h : IsSum(h, f, T)
  <2> HIDE DEF T
  <2> QED BY <1>2, SumIsSums
<1>4. g[T] = h[T]
  <2>1. \A s \in SUBSET T : g[s] = h[s]
    <3>1. Sums(g, f, SUBSET T) /\ Sums(h, f, SUBSET T)
      BY <1>1, <1>2, <1>3 DEF IsSum, Sums
    <3>2. PICK e : e = f
      OBVIOUS
    <3>3. Sums(h, e, SUBSET T) /\ \A z \in T : f[z] = e[z]
      BY <3>1, <3>2
    <3> HIDE DEF T
    <3> QED BY <1>2, <3>1, <3>3, SumsAgree
  <2> QED BY <2>1
<1>5. g[S] = f[Pick(S)] + g[T]
  BY <1>1 DEF Sums, IsSum
<1> QED BY <1>1, <1>3, <1>4, <1>5 DEF IsSum

\* A sum looks at the values on its set only.
LEMMA SumSameValues ==
    ASSUME NEW S, IsFiniteSet(S), NEW f, NEW e,
           \A z \in S : f[z] \in Nat /\ e[z] \in Nat, \A x \in S : f[x] = e[x]
    PROVE  SumFunctionOnSet(f, S) = SumFunctionOnSet(e, S)
<1>1. PICK g : IsSum(g, f, S)
  BY SumIsSums
<1>2. PICK h : IsSum(h, e, S)
  BY SumIsSums
<1>3. \A s \in SUBSET S : g[s] = h[s]
  <2>1. Sums(g, f, SUBSET S) /\ Sums(h, e, SUBSET S)
    BY <1>1, <1>2 DEF IsSum
  <2> QED BY <2>1, SumsAgree
<1> QED BY <1>1, <1>2, <1>3 DEF IsSum

\* Whatever the order of the fold, a sum is one of its terms and the rest.
LEMMA SumTakeOut ==
    ASSUME NEW S, IsFiniteSet(S), NEW f, \A z \in S : f[z] \in Nat, NEW x \in S
    PROVE  SumFunctionOnSet(f, S) = f[x] + SumFunctionOnSet(f, S \ {x})
<1> DEFINE Sum(s) == SumFunctionOnSet(f, s)
           B == {n \in Nat : \A s \in SUBSET S : Cardinality(s) = n =>
                               \A y \in s : Sum(s) = f[y] + Sum(s \ {y})}
<1>0. \A s \in SUBSET S : IsFiniteSet(s) /\ s \in SUBSET S /\ Cardinality(s) \in Nat /\ Sum(s) \in Nat
  BY SumIsSums, FS_Subset, FS_CardinalityType
<1>1. 0 \in B
  BY <1>0, FS_EmptySet
<1>2. ASSUME NEW n \in B PROVE n + 1 \in B
  <2>0. n \in Nat
    OBVIOUS
  <2>1. ASSUME NEW s \in SUBSET S, Cardinality(s) = n + 1, NEW y \in s
        PROVE  Sum(s) = f[y] + Sum(s \ {y})
    <3> DEFINE p == Pick(s)
    <3>1. p \in s
      BY PickIn
    <3>2. Sum(s) = f[p] + Sum(s \ {p})
      BY <1>0, <3>1, SumPick
    <3>3. CASE p = y
      BY <3>2, <3>3
    <3>4. CASE p # y
      <4>1. /\ s \ {p} \in SUBSET S /\ s \ {y} \in SUBSET S
            /\ Cardinality(s \ {p}) = n /\ Cardinality(s \ {y}) = n
            /\ y \in s \ {p} /\ p \in s \ {y}
        BY <2>0, <2>1, <3>1, <3>4, Smaller
      <4>2. /\ Sum(s \ {p}) = f[y] + Sum((s \ {p}) \ {y})
            /\ Sum(s \ {y}) = f[p] + Sum((s \ {y}) \ {p})
        <5> HIDE DEF Sum, p
        <5> QED BY <4>1
      <4>3. (s \ {p}) \ {y} = (s \ {y}) \ {p} /\ (s \ {p}) \ {y} \in SUBSET S
        OBVIOUS
      <4>4. f[y] \in Nat /\ f[p] \in Nat /\ Sum((s \ {p}) \ {y}) \in Nat
        BY <1>0, <3>1, <4>3
      <4>5. /\ Sum(s) = f[p] + (f[y] + Sum((s \ {p}) \ {y}))
            /\ Sum(s \ {y}) = f[p] + Sum((s \ {p}) \ {y})
        BY <3>2, <4>2, <4>3
      <4> HIDE DEF Sum, p
      <4> QED BY <4>4, <4>5
    <3> QED BY <3>3, <3>4
  <2> HIDE DEF Sum
  <2> QED BY <2>0, <2>1
<1>3. B = Nat
  <2> HIDE DEF B
  <2>1. B \in SUBSET Nat
    BY DEF B
  <2> QED BY <1>1, <1>2, <2>1, NatSets
<1>4. Cardinality(S) \in B
  BY <1>3, <1>0
<1> HIDE DEF Sum
<1>5. Sum(S) = f[x] + Sum(S \ {x})
  BY <1>4
<1> QED BY <1>5 DEF Sum

\* A sum of terms of at most b is at most b times their number.
LEMMA SumBound ==
    ASSUME NEW S, IsFiniteSet(S), NEW f, NEW b \in Nat, \A z \in S : f[z] \in 0..b
    PROVE  SumFunctionOnSet(f, S) <= b * Cardinality(S)
<1> DEFINE Sum(s) == SumFunctionOnSet(f, s)
           B == {n \in Nat : \A s \in SUBSET S : Cardinality(s) = n => Sum(s) <= b * n}
<1>0. \A z \in S : f[z] \in Nat
  OBVIOUS
<1>01. \A s \in SUBSET S : IsFiniteSet(s) /\ s \in SUBSET S /\ Cardinality(s) \in Nat /\ Sum(s) \in Nat
  BY <1>0, SumIsSums, FS_Subset, FS_CardinalityType
<1>1. 0 \in B
  <2>1. \A s \in SUBSET S : Cardinality(s) = 0 => Sum(s) = 0
    BY <1>0, <1>01, FS_EmptySet, SumEmpty
  <2> HIDE DEF Sum
  <2> QED BY <2>1
<1>2. ASSUME NEW n \in B PROVE n + 1 \in B
  <2>0. n \in Nat
    OBVIOUS
  <2>1. ASSUME NEW s \in SUBSET S, Cardinality(s) = n + 1
        PROVE  Sum(s) <= b * (n + 1)
    <3>1. s # {}
      <4>1. Cardinality({}) = 0 /\ n + 1 # 0
        BY <2>0, FS_EmptySet
      <4> QED BY <2>1, <4>1
    <3>2. PICK y : y \in s
      BY <3>1
    <3>3. /\ Sum(s) = f[y] + Sum(s \ {y}) /\ s \ {y} \in SUBSET S
          /\ Cardinality(s \ {y}) = n /\ f[y] \in 0..b
      <4>1. Sum(s) = f[y] + Sum(s \ {y})
        BY <1>0, <1>01, <3>2, SumTakeOut
      <4>2. s \ {y} \in SUBSET S /\ Cardinality(s \ {y}) = n
        BY <2>0, <2>1, <3>1, <3>2, Smaller
      <4> QED BY <3>2, <4>1, <4>2
    <3>4. Sum(s \ {y}) <= b * n /\ Sum(s \ {y}) \in Nat
      <4> HIDE DEF Sum
      <4> QED BY <3>3, <1>01
    <3>5. b * (n + 1) = b * n + b /\ b * n \in Nat
      BY <2>0
    <3> HIDE DEF Sum
    <3> QED BY <3>3, <3>4, <3>5
  <2> HIDE DEF Sum
  <2> QED BY <2>0, <2>1
<1>3. B = Nat
  <2> HIDE DEF B
  <2>1. B \in SUBSET Nat
    BY DEF B
  <2> QED BY <1>1, <1>2, <2>1, NatSets
<1>4. Cardinality(S) \in B
  BY <1>3, <1>01
<1> QED BY <1>4

\* A term that changes, and enters or leaves the set as it does, changes the
\* sum by its difference: what setOutput relies on.
LEMMA SumMove ==
    ASSUME NEW T, NEW U, IsFiniteSet(T), IsFiniteSet(U), NEW s, T \ {s} = U \ {s},
           NEW f, NEW e, \A z \in T \cup U \cup {s} : f[z] \in Nat /\ e[z] \in Nat,
           \A z \in T \ {s} : f[z] = e[z],
           s \in T \/ f[s] = 0, s \in U \/ e[s] = 0
    PROVE  SumFunctionOnSet(e, U) = SumFunctionOnSet(f, T) + (e[s] - f[s])
<1> DEFINE R == T \ {s}
<1>1. IsFiniteSet(R) /\ (s \notin T => R = T) /\ (s \notin U => R = U) /\ R = U \ {s}
  BY FS_Subset
<1>2. SumFunctionOnSet(f, R) = SumFunctionOnSet(e, R) /\ SumFunctionOnSet(f, R) \in Nat
  <2>1. \A z \in R : f[z] \in Nat /\ e[z] \in Nat /\ f[z] = e[z]
    OBVIOUS
  <2> HIDE DEF R
  <2> QED BY <1>1, <2>1, SumSameValues, SumIsSums
<1>3. SumFunctionOnSet(f, T) = f[s] + SumFunctionOnSet(f, R)
  <2>1. CASE s \in T
    BY <2>1, SumTakeOut
  <2>2. CASE s \notin T
    BY <1>1, <1>2, <2>2
  <2> QED BY <2>1, <2>2
<1>4. SumFunctionOnSet(e, U) = e[s] + SumFunctionOnSet(e, R)
  <2>1. CASE s \in U
    <3>1. SumFunctionOnSet(e, U) = e[s] + SumFunctionOnSet(e, U \ {s})
      BY <2>1, SumTakeOut
    <3> QED BY <1>1, <3>1
  <2>2. CASE s \notin U
    <3>1. e[s] = 0 /\ R = U
      BY <1>1, <2>2
    <3> HIDE DEF R
    <3> QED BY <1>2, <3>1
  <2> QED BY <2>1, <2>2
<1>5. f[s] \in Nat /\ e[s] \in Nat
  OBVIOUS
<1> HIDE DEF R
<1> QED BY <1>2, <1>3, <1>4, <1>5

-----------------------------------------------------------------------------
(* The running sums *)

\* The sets that the totals range over are finite and split by owner.
LEMMA RecordedFinite ==
    ASSUME IndexTypes, IndexesAgree, IsFiniteSet(Records)
    PROVE  /\ IsFiniteSet(Recorded) /\ Recorded \subseteq Sessions
           /\ \A o \in Owners : IsFiniteSet(recordsByOwner[o]) /\ recordsByOwner[o] \subseteq Sessions
<1>1. Recorded = Records /\ Recorded \subseteq Sessions
  BY DEF IndexesAgree, Recorded
<1>2. \A o \in Owners : recordsByOwner[o] \subseteq Recorded
  BY OwnersAssumption DEF IndexesAgree, Recorded
<1>3. \A o \in Owners : IsFiniteSet(recordsByOwner[o])
  BY <1>1, <1>2, FS_Subset
<1> QED BY <1>1, <1>2, <1>3

\* A charge keeps the sums, whether the session keeps its record, gets one
\* or loses it in the same step (setOutput).
LEMMA SetOutputAccounts ==
    ASSUME IndexTypes, IndexesAgree, IsFiniteSet(Records), OutputTypes, OutputAccounted,
           IndexTypes', IndexesAgree', IsFiniteSet(Records)',
           NEW s \in Sessions, NEW bytes \in 0..OutputLimit, SetOutput(s, OwnerOf[s], bytes),
           Recorded' \ {s} = Recorded \ {s}, s \in Recorded' \/ bytes = 0
    PROVE  OutputTypes' /\ OutputAccounted'
<1> DEFINE f == outputBySession
           e == outputBySession'
           o == OwnerOf[s]
<1>0. o \in Owners /\ OutputLimit \in Nat /\ bytes \in Nat
  BY OwnersAssumption, LimitsAssumption
<1>1. /\ f \in [Sessions -> 0..OutputLimit] /\ e \in [Sessions -> 0..OutputLimit]
      /\ e[s] = bytes /\ \A z \in Sessions \ {s} : f[z] = e[z]
      /\ \A z \in Sessions : f[z] \in Nat /\ e[z] \in Nat
  BY <1>0 DEF OutputTypes, SetOutput
<1>2. /\ outputTotal' = outputTotal + (e[s] - f[s])
      /\ outputByOwner' = [outputByOwner EXCEPT ![o] = @ + (e[s] - f[s])]
  BY <1>1 DEF SetOutput
<1>3. /\ IsFiniteSet(Recorded) /\ Recorded \subseteq Sessions
      /\ \A p \in Owners : IsFiniteSet(recordsByOwner[p]) /\ recordsByOwner[p] \subseteq Sessions
  BY RecordedFinite
<1>4. /\ IsFiniteSet(Recorded') /\ Recorded' \subseteq Sessions
      /\ \A p \in Owners : IsFiniteSet(recordsByOwner'[p]) /\ recordsByOwner'[p] \subseteq Sessions
  <2>1. Recorded' = Records' /\ Recorded' \subseteq Sessions
    BY DEF IndexesAgree, Recorded
  <2>2. \A p \in Owners : recordsByOwner'[p] \subseteq Recorded'
    BY OwnersAssumption DEF IndexesAgree, Recorded
  <2>3. \A p \in Owners : IsFiniteSet(recordsByOwner'[p])
    BY <2>1, <2>2, FS_Subset
  <2> QED BY <2>1, <2>2, <2>3
<1>5. s \in Recorded \/ f[s] = 0
  BY DEF OutputAccounted
<1>6. \A z \in Sessions \ Recorded' : e[z] = 0
  BY <1>1 DEF OutputAccounted
<1>7. outputTotal' = SumFunctionOnSet(e, Recorded')
  <2>1. SumFunctionOnSet(e, Recorded') = SumFunctionOnSet(f, Recorded) + (e[s] - f[s])
    <3>1. /\ \A z \in Recorded \cup Recorded' \cup {s} : f[z] \in Nat /\ e[z] \in Nat
          /\ \A z \in Recorded \ {s} : f[z] = e[z]
          /\ s \in Recorded' \/ e[s] = 0
          /\ Recorded \ {s} = Recorded' \ {s}
      BY <1>1, <1>3, <1>4
    <3> HIDE DEF f, e
    <3> QED BY <1>3, <1>4, <1>5, <3>1, SumMove
  <2> QED BY <1>2, <2>1 DEF OutputAccounted
<1>8. \A p \in Owners :
        /\ recordsByOwner[p] = {z \in Recorded : OwnerOf[z] = p}
        /\ recordsByOwner'[p] = {z \in Recorded' : OwnerOf[z] = p}
  BY OwnersAssumption DEF IndexesAgree, Recorded
<1>9. ASSUME NEW p \in Owners
      PROVE  outputByOwner'[p] = SumFunctionOnSet(e, recordsByOwner'[p])
  <2> DEFINE T == recordsByOwner[p]
             U == recordsByOwner'[p]
  <2>0. /\ IsFiniteSet(T) /\ IsFiniteSet(U) /\ T \subseteq Sessions /\ U \subseteq Sessions
        /\ outputByOwner[p] = SumFunctionOnSet(f, T)
        /\ \A z \in T \cup U \cup {s} : f[z] \in Nat /\ e[z] \in Nat
        /\ \A z \in T \ {s} : f[z] = e[z]
    BY <1>1, <1>3, <1>4 DEF OutputAccounted
  <2>1. CASE p = o
    <3>1. T \ {s} = U \ {s} /\ (s \in T \/ f[s] = 0) /\ (s \in U \/ e[s] = 0)
      BY <1>1, <1>5, <1>8, <2>1
    <3>2. SumFunctionOnSet(e, U) = SumFunctionOnSet(f, T) + (e[s] - f[s])
      <4> HIDE DEF T, U, e, f
      <4> QED BY <2>0, <3>1, SumMove
    <3>3. outputByOwner'[p] = outputByOwner[p] + (e[s] - f[s])
      BY <1>0, <1>2, <2>1 DEF OutputTypes
    <3> QED BY <2>0, <3>2, <3>3
  <2>2. CASE p # o
    <3>1. T = U /\ s \notin T
      BY <1>8, <2>2
    <3>2. SumFunctionOnSet(f, T) = SumFunctionOnSet(e, T)
      <4>1. \A z \in T : f[z] \in Nat /\ e[z] \in Nat /\ f[z] = e[z]
        BY <2>0, <3>1
      <4> HIDE DEF T, U, e, f
      <4> QED BY <2>0, <4>1, SumSameValues
    <3>3. outputByOwner'[p] = outputByOwner[p]
      BY <1>2, <2>2 DEF OutputTypes
    <3> QED BY <2>0, <3>1, <3>2, <3>3
  <2> QED BY <2>1, <2>2
<1>10. OutputTypes'
  <2>1. SumFunctionOnSet(e, Recorded') \in Nat
    <3>1. \A z \in Recorded' : e[z] \in Nat
      BY <1>1, <1>4
    <3> QED BY <1>4, <3>1, SumIsSums
  <2>2. ASSUME NEW p \in Owners PROVE SumFunctionOnSet(e, recordsByOwner'[p]) \in Nat
    <3>1. \A z \in recordsByOwner'[p] : e[z] \in Nat
      BY <1>1, <1>4
    <3> QED BY <1>4, <3>1, SumIsSums
  <2>3. DOMAIN outputByOwner' = Owners /\ outputByOwner' = [p \in Owners |-> outputByOwner'[p]]
    BY <1>2 DEF OutputTypes
  <2> QED BY <1>1, <1>7, <1>9, <2>1, <2>2, <2>3 DEF OutputTypes
<1> QED BY <1>6, <1>7, <1>9, <1>10 DEF OutputAccounted

\* A step that touches neither the totals nor the records keeps the sums.
LEMMA OutputUntouched ==
    ASSUME OutputTypes, OutputAccounted, UNCHANGED <<recorded, output>>
    PROVE  OutputTypes' /\ OutputAccounted'
  BY DEF OutputTypes, OutputAccounted, recorded, output, Recorded

\* A report charges a session that still has its record, and no other
\* (updateOutput).
LEMMA ReportAccounts ==
    ASSUME IndInv, IndexTypes', IndexesAgree', Records' = Records, UNCHANGED recorded,
           NEW s \in Sessions, NEW proof \in BOOLEAN, NEW bytes \in 0..OutputLimit,
           ReleaseIfSettled(s, proof, bytes)
    PROVE  OutputTypes' /\ OutputAccounted'
<1>1. UpdateOutput(s, proof, bytes)
  BY DEF ReleaseIfSettled
<1>2. CASE recordOwner[s] = NoOwner
  <2>1. UNCHANGED output
    BY <1>1, <1>2 DEF UpdateOutput
  <2> QED BY <2>1, OutputUntouched DEF IndInv
<1>3. CASE recordOwner[s] # NoOwner
  <2>1. s \in Recorded /\ recordOwner[s] = OwnerOf[s] /\ Recorded' = Recorded
    BY <1>3 DEF IndInv, IndexesAgree, Recorded, recorded
  <2>2. SetOutput(s, OwnerOf[s], OutputReservation(proof, bytes))
    BY <1>1, <1>3, <2>1 DEF UpdateOutput
  <2>3. OutputReservation(proof, bytes) \in 0..OutputLimit
    BY LimitsAssumption DEF OutputReservation
  <2>4. IsFiniteSet(Records)'
    BY DEF IndInv
  <2> QED BY <2>1, <2>2, <2>3, <2>4, SetOutputAccounts DEF IndInv
<1> QED BY <1>2, <1>3

\* A release charges nothing for the session that goes (release).
LEMMA ReleaseAccounts ==
    ASSUME IndInv, IndexTypes', IndexesAgree', IsFiniteSet(Records)',
           NEW s \in Records, Release(s)
    PROVE  OutputTypes' /\ OutputAccounted'
<1>1. s \in Sessions /\ s \in Recorded /\ recordOwner[s] = OwnerOf[s] /\ recordOwner[s] # NoOwner
  BY DEF IndInv, IndexesAgree, Recorded, Records
<1>2. /\ SetOutput(s, OwnerOf[s], 0)
      /\ recordOwner' = [recordOwner EXCEPT ![s] = NoOwner]
  BY <1>1 DEF Release
<1>3. Recorded' \ {s} = Recorded \ {s}
  BY <1>1, <1>2 DEF Recorded, IndInv, IndexTypes
<1>4. 0 \in 0..OutputLimit
  BY LimitsAssumption
<1> QED BY <1>1, <1>2, <1>3, <1>4, SetOutputAccounts DEF IndInv

-----------------------------------------------------------------------------
(* Initially, and one step at a time *)

\* The empty registry of a fresh data directory satisfies the invariant.
LEMMA InitIndInv == Init => IndInv
<1> SUFFICES ASSUME Init PROVE IndInv
  OBVIOUS
<1>1. Records = {}
  BY DEF Init, Records
<1>2. IndexTypes /\ SettledTruth /\ LiveHoldsSlot
  BY <1>1, LimitsAssumption DEF Init, IndexTypes, SettledTruth, LiveHoldsSlot, Phases
<1>3. IndexesAgree
  BY <1>1, OwnersAssumption DEF Init, IndexesAgree, ActiveSlots, Recorded
<1>5. OutputTypes /\ OutputAccounted
  <2>1. Recorded = {} /\ \A o \in Owners : recordsByOwner[o] = {}
    BY DEF Init, Recorded
  <2>2. SumFunctionOnSet(outputBySession, {}) = 0
    BY SumEmpty
  <2> QED BY <2>1, <2>2, LimitsAssumption DEF Init, OutputTypes, OutputAccounted
<1>4. IsFiniteSet(Records) /\ LiveBounded
  <2>1. IsFiniteSet({}) /\ Cardinality({}) = 0
    BY FS_EmptySet
  <2>2. /\ Records \ gone = {}
        /\ \A o \in Owners : /\ {s \in Records \ gone : OwnerOf[s] = o} = {}
                            /\ {s \in Records : OwnerOf[s] = o} = {}
    BY <1>1
  <2> QED BY <1>1, <2>1, <2>2, LimitsAssumption DEF LiveBounded
<1> QED BY <1>2, <1>3, <1>4, <1>5 DEF IndInv

\* The steps that leave the registry alone keep the indexes, provided they
\* neither add nor remove a record.
LEMMA IndexesUntouched ==
    ASSUME IndInv, UNCHANGED <<slots, recorded, output>>, Records' = Records, gone \subseteq gone'
    PROVE  /\ IndexesAgree' /\ LiveHoldsSlot' /\ IsFiniteSet(Records)' /\ LiveBounded'
           /\ OutputTypes' /\ OutputAccounted'
<1>1. IndexesAgree' /\ LiveHoldsSlot'
  BY DEF IndInv, IndexesAgree, LiveHoldsSlot, ActiveSlots, Recorded, slots, recorded
<1>2. IsFiniteSet(Records') /\ LiveBounded'
  BY BoundsShrink DEF IndInv
<1>3. OutputTypes' /\ OutputAccounted'
  BY OutputUntouched DEF IndInv
<1> QED BY <1>1, <1>2, <1>3

\* A report frees a slot only of a session that is gone.
LEMMA ReportKeepsIndexes ==
    ASSUME IndInv, NEW s \in Sessions, NEW proof \in BOOLEAN, NEW bytes,
           ReleaseIfSettled(s, proof, bytes), UNCHANGED <<recorded, gone>>,
           proof => s \in gone, Records' = Records
    PROVE  /\ ownerSlots' \in [Owners -> SUBSET Sessions]
           /\ slotOwner' \in [Sessions -> Owners \cup {NoOwner}]
           /\ IndexesAgree' /\ LiveHoldsSlot'
<1>1. CASE ~proof
  BY <1>1 DEF IndInv, IndexTypes, IndexesAgree, LiveHoldsSlot, ActiveSlots, Recorded,
              ReleaseIfSettled, slots, recorded
<1>2. CASE proof
  <2>1. ReleaseActive(s) /\ s \in gone
    BY <1>2 DEF ReleaseIfSettled
  <2>2. /\ ownerSlots' \in [Owners -> SUBSET Sessions]
        /\ slotOwner' \in [Sessions -> Owners \cup {NoOwner}]
        /\ slotOwner'[s] = NoOwner
        /\ \A x \in Sessions \ {s} : slotOwner'[x] = slotOwner[x]
        /\ \A o \in Owners : ownerSlots'[o] = {x \in Sessions : slotOwner'[x] = o}
    BY <2>1, ReleaseActiveIndexes DEF IndInv
  <2>3. IndexesAgree'
    BY <2>2 DEF IndInv, IndexTypes, IndexesAgree, ActiveSlots, Recorded, recorded
  <2>4. LiveHoldsSlot'
    BY <2>1, <2>2 DEF IndInv, LiveHoldsSlot, Records
  <2> QED BY <2>2, <2>3, <2>4
<1> QED BY <1>1, <1>2

\* A release removes the record and its slot.
LEMMA ReleaseKeepsInv ==
    ASSUME IndInv, NEW s \in Sessions, Release(s), s \in Records,
           phase' = [phase EXCEPT ![s] = "deleted"], UNCHANGED gone
    PROVE  /\ ownerSlots' \in [Owners -> SUBSET Sessions]
           /\ slotOwner' \in [Sessions -> Owners \cup {NoOwner}]
           /\ recordsByOwner' \in [Owners -> SUBSET Sessions]
           /\ recordOwner' \in [Sessions -> Owners \cup {NoOwner}]
           /\ IndexesAgree' /\ LiveHoldsSlot' /\ IsFiniteSet(Records') /\ LiveBounded'
<1>1. IndexTypes /\ IndexesAgree /\ LiveHoldsSlot
  BY DEF IndInv
<1>2. ReleaseActive(s)
  BY DEF Release
<1>3. /\ ownerSlots' \in [Owners -> SUBSET Sessions]
      /\ slotOwner' \in [Sessions -> Owners \cup {NoOwner}]
      /\ slotOwner'[s] = NoOwner
      /\ \A x \in Sessions \ {s} : slotOwner'[x] = slotOwner[x]
      /\ \A o \in Owners : ownerSlots'[o] = {x \in Sessions : slotOwner'[x] = o}
  BY <1>1, <1>2, ReleaseActiveIndexes
<1>4. /\ recordsByOwner' \in [Owners -> SUBSET Sessions]
      /\ recordOwner' \in [Sessions -> Owners \cup {NoOwner}]
      /\ recordOwner'[s] = NoOwner
      /\ \A x \in Sessions \ {s} : recordOwner'[x] = recordOwner[x]
      /\ \A o \in Owners : recordsByOwner'[o] = {x \in Sessions : recordOwner'[x] = o}
  BY <1>1, ReleaseIndexes
<1>5. Records' = Records \ {s} /\ Records \subseteq Sessions
  BY <1>1 DEF IndexTypes, Records
<1>6. IndexesAgree'
  BY <1>1, <1>3, <1>4, <1>5 DEF IndexesAgree, ActiveSlots, Recorded
<1>7. LiveHoldsSlot'
  BY <1>1, <1>3, <1>5 DEF LiveHoldsSlot
<1>8. IsFiniteSet(Records') /\ LiveBounded'
  BY <1>5, BoundsShrink DEF IndInv
<1> QED BY <1>3, <1>4, <1>6, <1>7, <1>8

\* An admission takes a slot and a record below every limit.
LEMMA ReserveKeepsInv ==
    ASSUME IndInv, NEW s \in Sessions, Reserve(s)
    PROVE  IndInv'
<1> DEFINE o == OwnerOf[s]
<1>1. /\ IndexTypes /\ SettledTruth /\ IndexesAgree /\ LiveHoldsSlot
      /\ IsFiniteSet(Records) /\ LiveBounded
      /\ o \in Owners /\ Records \subseteq Sessions
  BY OwnersAssumption DEF IndInv, Records
<1>2. /\ phase' = [phase EXCEPT ![s] = "admitted"] /\ phase[s] = "absent"
      /\ spawning' = spawning \cup {s}
      /\ ownerSlots' = [ownerSlots EXCEPT ![o] = @ \cup {s}]
      /\ slotOwner' = [slotOwner EXCEPT ![s] = o]
      /\ recordsByOwner' = [recordsByOwner EXCEPT ![o] = @ \cup {s}]
      /\ recordOwner' = [recordOwner EXCEPT ![s] = o]
      /\ UNCHANGED <<releasing, gone, settled, outputBytes>>
  BY DEF Reserve
<1>3. Records' = Records \cup {s} /\ s \notin Records
  BY <1>1, <1>2 DEF Records, IndexTypes, Phases
<1>4. IndexTypes' /\ SettledTruth'
  BY <1>1, <1>2 DEF IndexTypes, SettledTruth, Phases
<1>5. recordOwner[s] = NoOwner /\ slotOwner[s] = NoOwner
  BY <1>1, <1>3 DEF IndexesAgree, Recorded, ActiveSlots
<1>6. IndexesAgree'
  BY <1>1, <1>2, <1>3, <1>5, OwnersAssumption
  DEF IndexesAgree, Recorded, ActiveSlots, IndexTypes
<1>7. LiveHoldsSlot'
  BY <1>1, <1>2, <1>3 DEF LiveHoldsSlot, IndexTypes
<1>8. /\ Cardinality(ownerSlots[o]) < MaxSessionsPerOwner
      /\ Cardinality(ActiveSlots) < MaxActiveSessions
      /\ Cardinality(recordsByOwner[o]) < MaxRecordsPerOwner
      /\ Cardinality(Recorded) < MaxRecords
  BY DEF Reserve, Admits
<1>9. /\ ActiveSlots \subseteq Records /\ Recorded = Records
      /\ ownerSlots[o] \subseteq Records /\ recordsByOwner[o] \subseteq Records
  BY <1>1, OwnersAssumption DEF IndexesAgree, Recorded, ActiveSlots
<1>10. /\ IsFiniteSet(ActiveSlots) /\ IsFiniteSet(ownerSlots[o])
       /\ IsFiniteSet(recordsByOwner[o]) /\ IsFiniteSet(Recorded)
  BY <1>1, <1>9, FS_Subset
<1>11. IsFiniteSet(Records') /\ Cardinality(Records') <= MaxRecords
  BY <1>3, <1>8, <1>9, <1>10, OneMore, LimitsAssumption
<1>12. Cardinality(Records' \ gone') <= MaxActiveSessions
  <2>1. Records' \ gone' \subseteq ActiveSlots \cup {s}
    BY <1>1, <1>2, <1>3, OwnersAssumption DEF LiveHoldsSlot, ActiveSlots
  <2> QED BY <2>1, <1>8, <1>10, OneMore, LimitsAssumption
<1>13. ASSUME NEW p \in Owners
       PROVE  /\ Cardinality({x \in Records' \ gone' : OwnerOf[x] = p}) <= MaxSessionsPerOwner
              /\ Cardinality({x \in Records' : OwnerOf[x] = p}) <= MaxRecordsPerOwner
  <2>1. CASE p = o
    <3>1. /\ {x \in Records' \ gone' : OwnerOf[x] = p} \subseteq ownerSlots[o] \cup {s}
          /\ {x \in Records' : OwnerOf[x] = p} \subseteq recordsByOwner[o] \cup {s}
      BY <2>1, <1>1, <1>2, <1>3 DEF LiveHoldsSlot, IndexesAgree
    <3> QED BY <3>1, <1>8, <1>10, OneMore, LimitsAssumption
  <2>2. CASE p # o
    <3>1. /\ {x \in Records' \ gone' : OwnerOf[x] = p} = {x \in Records \ gone : OwnerOf[x] = p}
          /\ {x \in Records' : OwnerOf[x] = p} = {x \in Records : OwnerOf[x] = p}
      BY <2>2, <1>2, <1>3
    <3> QED BY <3>1, <1>1 DEF LiveBounded
  <2> QED BY <2>1, <2>2
<1>14. LiveBounded'
  BY <1>11, <1>12, <1>13 DEF LiveBounded
<1>15. OutputTypes' /\ OutputAccounted'
  <2>1. SetOutput(s, OwnerOf[s], OutputLimit) /\ OutputLimit \in 0..OutputLimit
    BY LimitsAssumption DEF Reserve
  <2>2. Recorded' \ {s} = Recorded \ {s} /\ s \in Recorded'
    BY <1>1, <1>2, OwnersAssumption DEF Recorded, IndexTypes
  <2>3. OutputTypes /\ OutputAccounted
    BY DEF IndInv
  <2> QED BY <1>1, <1>4, <1>6, <1>11, <2>1, <2>2, <2>3, SetOutputAccounts
<1> QED BY <1>4, <1>6, <1>7, <1>11, <1>14, <1>15 DEF IndInv

\* A restart rebuilds the indexes from the records it keeps.
LEMMA RestartKeepsInv ==
    ASSUME IndInv, NEW now \in [Sessions -> Phases], NEW proofs \in [Sessions -> BOOLEAN],
           Restart(now, proofs)
    PROVE  IndInv'
<1> DEFINE kept == {s \in Records : now[s] # "deleted"}
<1>1. /\ IndexTypes /\ IsFiniteSet(Records) /\ LiveBounded /\ Records \subseteq Sessions
  BY DEF IndInv, Records
<1>2. /\ \A s \in Sessions : now[s] \in AfterLoad(phase[s])
      /\ \A s \in Sessions : proofs[s] => s \in gone
      /\ phase' = now /\ settled' = proofs
      /\ spawning' = {} /\ releasing' = {}
      /\ gone' = gone \cup {s \in Sessions : phase[s] = "admitted"}
      /\ RebuildIndexes(kept, proofs)
      /\ UNCHANGED outputBytes
  BY DEF Restart
<1>3. Records' = kept
  BY <1>1, <1>2 DEF Records, AfterLoad, IndexTypes, Phases
<1>4. IndexTypes' /\ SettledTruth'
  BY <1>1, <1>2, OwnersAssumption DEF IndexTypes, SettledTruth, RebuildIndexes
<1>5. IndexesAgree'
  BY <1>1, <1>2, <1>3, OwnersAssumption DEF IndexesAgree, RebuildIndexes, Recorded, ActiveSlots
<1>6. LiveHoldsSlot'
  BY <1>1, <1>2, <1>3 DEF LiveHoldsSlot, RebuildIndexes
<1>7. IsFiniteSet(Records') /\ LiveBounded'
  BY <1>1, <1>2, <1>3, BoundsShrink
<1>8. OutputTypes' /\ OutputAccounted'
  <2> DEFINE reserved == [s \in Sessions |-> OutputReservation(proofs[s], outputBytes[s])]
             held == outputBySession'
  <2>1. /\ held = [s \in Sessions |-> IF s \in kept THEN reserved[s] ELSE 0]
        /\ outputByOwner' = [o \in Owners |->
                                SumFunctionOnSet(reserved, {s \in kept : OwnerOf[s] = o})]
        /\ outputTotal' = SumFunctionOnSet(reserved, kept)
    BY DEF Restart, RebuildOutput
  <2>2. \A s \in Sessions : reserved[s] \in 0..OutputLimit
    BY <1>1, LimitsAssumption DEF OutputReservation, IndexTypes
  <2>3. held \in [Sessions -> 0..OutputLimit]
    <3> HIDE DEF reserved
    <3> QED BY <2>1, <2>2, LimitsAssumption
  <2>4. \A s \in kept : reserved[s] \in Nat /\ held[s] \in Nat /\ reserved[s] = held[s]
    <3> HIDE DEF reserved
    <3> QED BY <1>1, <2>1, <2>2, LimitsAssumption
  <2>5. /\ Recorded' = kept
        /\ \A o \in Owners : recordsByOwner'[o] = {s \in kept : OwnerOf[s] = o}
    BY <1>1, <1>2, OwnersAssumption DEF RebuildIndexes, Recorded
  <2>6. IsFiniteSet(kept)
    BY <1>3, <1>7
  <2>7. ASSUME NEW K, K \subseteq kept
        PROVE  /\ SumFunctionOnSet(reserved, K) = SumFunctionOnSet(held, K)
               /\ SumFunctionOnSet(reserved, K) \in Nat
    <3>1. IsFiniteSet(K)
      BY <2>6, <2>7, FS_Subset
    <3>2. \A z \in K : reserved[z] \in Nat /\ held[z] \in Nat /\ reserved[z] = held[z]
      BY <2>4, <2>7
    <3> HIDE DEF reserved, held
    <3> QED BY <3>1, <3>2, SumSameValues, SumIsSums
  <2>8. outputTotal' = SumFunctionOnSet(held, Recorded') /\ outputTotal' \in Nat
    BY <2>1, <2>5, <2>7
  <2>9. ASSUME NEW o \in Owners
        PROVE  /\ outputByOwner'[o] = SumFunctionOnSet(held, recordsByOwner'[o])
               /\ outputByOwner'[o] \in Nat
    <3> DEFINE K == {s \in kept : OwnerOf[s] = o}
    <3>1. K \subseteq kept /\ recordsByOwner'[o] = K /\ outputByOwner'[o] = SumFunctionOnSet(reserved, K)
      BY <2>1, <2>5
    <3> HIDE DEF K
    <3> QED BY <3>1, <2>7
  <2>10. \A s \in Sessions \ Recorded' : held[s] = 0
    BY <2>1, <2>5
  <2>11. outputByOwner' \in [Owners -> Nat]
    <3>1. outputByOwner' = [o \in Owners |-> outputByOwner'[o]]
      BY <2>1
    <3> QED BY <3>1, <2>9
  <2> QED BY <2>3, <2>8, <2>9, <2>10, <2>11 DEF OutputTypes, OutputAccounted
<1> QED BY <1>4, <1>5, <1>6, <1>7, <1>8 DEF IndInv

\* Every step keeps the inductive invariant.
LEMMA NextIndInv == IndInv /\ [Next]_vars => IndInv'
<1> SUFFICES ASSUME IndInv, [Next]_vars PROVE IndInv'
  OBVIOUS
<1>0. IndexTypes /\ SettledTruth /\ Records \subseteq Sessions
  BY DEF IndInv, Records
<1>1. ASSUME NEW s \in Sessions, Reserve(s) PROVE IndInv'
  BY <1>1, ReserveKeepsInv
<1>2. ASSUME NEW s \in Sessions, FirstWriteFails(s) PROVE IndInv'
  <2>1. s \in Records
    BY <1>2 DEF FirstWriteFails, Records
  <2>2. IndexTypes' /\ SettledTruth'
    BY <1>0, <1>2, <2>1, ReleaseKeepsInv DEF FirstWriteFails, IndexTypes, SettledTruth, Phases
  <2>3. /\ IndexesAgree' /\ LiveHoldsSlot' /\ IsFiniteSet(Records)' /\ LiveBounded'
    BY <1>2, <2>1, ReleaseKeepsInv DEF FirstWriteFails
  <2>4. OutputTypes' /\ OutputAccounted'
    BY <1>2, <2>1, <2>2, <2>3, ReleaseAccounts DEF FirstWriteFails
  <2> QED BY <2>2, <2>3, <2>4 DEF IndInv
<1>3. ASSUME NEW s \in Sessions, FirstWriteSucceeds(s) PROVE IndInv'
  <2>1. Records' = Records /\ IndexTypes' /\ SettledTruth'
    BY <1>0, <1>3 DEF FirstWriteSucceeds, Records, IndexTypes, SettledTruth, Phases, slots, recorded
  <2> QED BY <1>3, <2>1, IndexesUntouched DEF FirstWriteSucceeds, IndInv
<1>4. ASSUME NEW s \in Sessions, SpawnSucceeds(s) PROVE IndInv'
  <2>1. Records' = Records /\ IndexTypes' /\ SettledTruth'
    BY <1>0, <1>4 DEF SpawnSucceeds, Records, IndexTypes, SettledTruth, Phases, slots, recorded
  <2> QED BY <1>4, <2>1, IndexesUntouched DEF SpawnSucceeds, IndInv
<1>5. ASSUME NEW s \in Sessions, NEW noChild \in BOOLEAN, NEW saved \in BOOLEAN,
             SpawnFails(s, noChild, saved)
      PROVE  IndInv'
  <2>1. Records' = Records /\ IndexTypes' /\ SettledTruth'
    BY <1>0, <1>5 DEF SpawnFails, Records, IndexTypes, SettledTruth, Phases, slots, recorded
  <2> QED BY <1>5, <2>1, IndexesUntouched DEF SpawnFails, IndInv
<1>6. ASSUME NEW s \in Sessions, SpawnFailureReports(s) PROVE IndInv'
  <2>1. Records' = Records /\ SettledTruth' /\ settled[s] \in BOOLEAN /\ (settled[s] => s \in gone)
    BY <1>0, <1>6 DEF SpawnFailureReports, Records, IndexTypes, SettledTruth
  <2>2. /\ ownerSlots' \in [Owners -> SUBSET Sessions]
        /\ slotOwner' \in [Sessions -> Owners \cup {NoOwner}]
        /\ IndexesAgree' /\ LiveHoldsSlot'
    BY <1>6, <2>1, ReportKeepsIndexes DEF SpawnFailureReports
  <2>3. IndexTypes'
    BY <1>0, <1>6, <2>2 DEF SpawnFailureReports, IndexTypes, recorded
  <2>4. IsFiniteSet(Records') /\ LiveBounded'
    BY <1>6, <2>1, BoundsShrink DEF SpawnFailureReports, IndInv
  <2>5. OutputTypes' /\ OutputAccounted'
    BY <1>0, <1>6, <2>1, <2>2, <2>3, ReportAccounts DEF SpawnFailureReports, IndexTypes
  <2> QED BY <2>1, <2>2, <2>3, <2>4, <2>5 DEF IndInv
<1>7. ASSUME NEW s \in Sessions, ChildGone(s) PROVE IndInv'
  <2>1. Records' = Records /\ IndexTypes' /\ SettledTruth' /\ gone \subseteq gone'
    BY <1>0, <1>7 DEF ChildGone, Records, IndexTypes, SettledTruth, slots, recorded
  <2> QED BY <1>7, <2>1, IndexesUntouched DEF ChildGone, IndInv
<1>8. ASSUME NEW s \in Sessions, Delete(s) PROVE IndInv'
  <2>1. s \in Records
    BY <1>8 DEF Delete, Records
  <2>2. IndexTypes' /\ SettledTruth'
    BY <1>0, <1>8, <2>1, ReleaseKeepsInv DEF Delete, IndexTypes, SettledTruth, Phases
  <2>3. /\ IndexesAgree' /\ LiveHoldsSlot' /\ IsFiniteSet(Records)' /\ LiveBounded'
    BY <1>8, <2>1, ReleaseKeepsInv DEF Delete
  <2>4. OutputTypes' /\ OutputAccounted'
    BY <1>8, <2>1, <2>2, <2>3, ReleaseAccounts DEF Delete
  <2> QED BY <2>2, <2>3, <2>4 DEF IndInv
<1>9. ASSUME NEW s \in Sessions, NEW proof \in BOOLEAN, RollbackNative(s, proof) PROVE IndInv'
  <2>1. Records' = Records /\ IndexTypes' /\ SettledTruth'
    BY <1>0, <1>9 DEF RollbackNative, Records, IndexTypes, SettledTruth, Phases, slots, recorded
  <2> QED BY <1>9, <2>1, IndexesUntouched DEF RollbackNative, IndInv
<1>10. ASSUME NEW s \in Sessions, NEW proof \in BOOLEAN, NEW bytes \in 0..OutputLimit,
              SnapshotUnsaved(s, proof, bytes)
       PROVE  IndInv'
  <2>1. Records' = Records /\ IndexTypes' /\ SettledTruth'
    BY <1>0, <1>10 DEF SnapshotUnsaved, Records, IndexTypes, SettledTruth, Phases, slots, recorded
  <2> QED BY <1>10, <2>1, IndexesUntouched DEF SnapshotUnsaved, IndInv
<1>11. ASSUME NEW s \in Sessions, NEW proof \in BOOLEAN, NEW bytes \in 0..OutputLimit,
              NEW now \in {"active", "ended"}, Snapshot(s, proof, bytes, now)
       PROVE  IndInv'
  <2>1. Records' = Records /\ SettledTruth'
    BY <1>0, <1>11 DEF Snapshot, Records, IndexTypes, SettledTruth
  <2>2. /\ ownerSlots' \in [Owners -> SUBSET Sessions]
        /\ slotOwner' \in [Sessions -> Owners \cup {NoOwner}]
        /\ IndexesAgree' /\ LiveHoldsSlot'
    BY <1>11, <2>1, ReportKeepsIndexes DEF Snapshot
  <2>3. IndexTypes'
    BY <1>0, <1>11, <2>2 DEF Snapshot, IndexTypes, Phases, recorded
  <2>4. IsFiniteSet(Records') /\ LiveBounded'
    BY <1>11, <2>1, BoundsShrink DEF Snapshot, IndInv
  <2>5. OutputTypes' /\ OutputAccounted'
    BY <1>0, <1>11, <2>1, <2>2, <2>3, ReportAccounts DEF Snapshot, IndexTypes
  <2> QED BY <2>1, <2>2, <2>3, <2>4, <2>5 DEF IndInv
<1>12. ASSUME NEW now \in [Sessions -> Phases], NEW proofs \in [Sessions -> BOOLEAN],
              Restart(now, proofs)
       PROVE  IndInv'
  BY <1>12, RestartKeepsInv
<1>13. CASE UNCHANGED vars
  <2>1. Records' = Records /\ IndexTypes' /\ SettledTruth'
    BY <1>0, <1>13 DEF vars, supervisor, slots, recorded, Records, IndexTypes, SettledTruth
  <2> QED BY <1>13, <2>1, IndexesUntouched DEF vars, supervisor, IndInv
<1> QED
  BY <1>1, <1>2, <1>3, <1>4, <1>5, <1>6, <1>7, <1>8, <1>9, <1>10, <1>11, <1>12, <1>13 DEF Next

\* The inductive invariant holds in every reachable state.
THEOREM Inductive == Spec => []IndInv
  BY InitIndInv, NextIndInv, PTL DEF Spec

\* The two indexes of the registry never drift apart and hold exactly the
\* supervisor's records.
THEOREM IndexesNeverDrift == Spec => []IndexesAgree
  BY Inductive, PTL DEF IndInv

\* A session that may have a live child always holds its owner's slot.
THEOREM LiveSessionsHoldSlots == Spec => []LiveHoldsSlot
  BY Inductive, PTL DEF IndInv

\* The limits bound the children that may live and the records that exist,
\* for the daemon and for each owner, through every restart.
THEOREM LimitsHold == Spec => []LiveBounded
  BY Inductive, PTL DEF IndInv

\* The retained-output totals, kept as running sums of differences, equal
\* what the recorded sessions hold, after any order of reports, releases and
\* restarts, and nothing stays charged for a deleted session.
THEOREM OutputNeverDrifts == Spec => []OutputAccounted
  BY Inductive, PTL DEF IndInv

\* The totals stay below the limit of one session times the limit on the
\* records, for the daemon and for each owner.
LEMMA TotalsBounded == IndInv => TypeOK
<1> SUFFICES ASSUME IndInv PROVE TypeOK
  OBVIOUS
<1>1. /\ IndexTypes /\ IndexesAgree /\ IsFiniteSet(Records) /\ LiveBounded
      /\ OutputTypes /\ OutputAccounted
  BY DEF IndInv
<1>2. /\ IsFiniteSet(Recorded) /\ Recorded \subseteq Sessions
      /\ \A o \in Owners : IsFiniteSet(recordsByOwner[o]) /\ recordsByOwner[o] \subseteq Sessions
  BY <1>1, RecordedFinite
<1>3. ASSUME NEW K, K \subseteq Sessions, IsFiniteSet(K), NEW limit \in Nat, Cardinality(K) <= limit
      PROVE  SumFunctionOnSet(outputBySession, K) \in 0..(OutputLimit * limit)
  <2>1. \A z \in K : outputBySession[z] \in 0..OutputLimit /\ outputBySession[z] \in Nat
    BY <1>1, <1>3, LimitsAssumption DEF OutputTypes
  <2>2. /\ SumFunctionOnSet(outputBySession, K) <= OutputLimit * Cardinality(K)
        /\ SumFunctionOnSet(outputBySession, K) \in Nat
    BY <1>3, <2>1, LimitsAssumption, SumBound, SumIsSums
  <2>3. Cardinality(K) \in Nat /\ OutputLimit \in Nat
    BY <1>3, FS_CardinalityType, LimitsAssumption
  <2>4. OutputLimit * Cardinality(K) <= OutputLimit * limit
    BY <1>3, <2>3
  <2>5. OutputLimit * Cardinality(K) \in Nat /\ OutputLimit * limit \in Nat
    BY <2>3
  <2> QED BY <2>2, <2>4, <2>5
<1>4. outputTotal \in 0..(OutputLimit * MaxRecords)
  <2>1. Cardinality(Recorded) <= MaxRecords
    BY <1>1 DEF LiveBounded, IndexesAgree
  <2> QED BY <1>1, <1>2, <1>3, <2>1, LimitsAssumption DEF OutputAccounted
<1>5. ASSUME NEW o \in Owners PROVE outputByOwner[o] \in 0..(OutputLimit * MaxRecordsPerOwner)
  <2>1. recordsByOwner[o] = {s \in Records : OwnerOf[s] = o}
    BY <1>1, OwnersAssumption DEF IndexesAgree, Recorded
  <2>2. Cardinality(recordsByOwner[o]) <= MaxRecordsPerOwner
    BY <1>1, <2>1 DEF LiveBounded
  <2> QED BY <1>1, <1>2, <1>3, <2>2, LimitsAssumption DEF OutputAccounted
<1> QED BY <1>1, <1>4, <1>5 DEF TypeOK, OutputTypes

\* Type correctness, the bounds of the totals included.
THEOREM TypesHold == Spec => []TypeOK
  BY Inductive, TotalsBounded, PTL

=============================================================================
