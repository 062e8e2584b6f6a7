--------------------------- MODULE ReportsProofs ---------------------------
(***************************************************************************)
(* Proofs about Reports: what a report shows of an export is what was      *)
(* delivered, for any ads, deliveries and windows.                         *)
(***************************************************************************)
EXTENDS Reports, FiniteSetTheorems, WellFoundedInduction, TLAPS

-----------------------------------------------------------------------------
(* Sums.  A sum of natural numbers is the number of the units it is made   *)
(* of, so that sums are compared as sets are.                              *)

(* What CommunityModules' fold defines by recursion over the subsets of S. *)
IsSum(iter, f, S) ==
    iter = [s \in SUBSET S |->
               IF s = {} THEN 0
               ELSE f[CHOOSE x \in s : TRUE] + iter[s \ {CHOOSE x \in s : TRUE}]]

(* Each x of S stands for as many units as f says, and for none of another.*)
Stands(C, f, S) ==
    /\ IsFiniteSet(S)
    /\ \A x \in S : IsFiniteSet(C[x]) /\ f[x] = Cardinality(C[x])
    /\ \A x, y \in S : x # y => C[x] \cap C[y] = {}

UnitsOf(C, s) == UNION {C[x] : x \in s}

Counted(C, S) == [s \in SUBSET S |-> Cardinality(UnitsOf(C, s))]

LEMMA ImageIsFinite ==
    ASSUME NEW S, IsFiniteSet(S), NEW T, NEW h \in [S -> T], \A t \in T : \E x \in S : h[x] = t
    PROVE  IsFiniteSet(T)
  <1>1. h \in Surjection(S, T)
    BY DEF Surjection
  <1>2. QED
    BY <1>1, FS_Surjection

LEMMA UnitsAreFinite ==
    ASSUME NEW C, NEW S, IsFiniteSet(S), \A x \in S : IsFiniteSet(C[x])
    PROVE  \A s \in SUBSET S : IsFiniteSet(UnitsOf(C, s)) /\ Cardinality(UnitsOf(C, s)) \in Nat
  <1> SUFFICES ASSUME NEW s \in SUBSET S
               PROVE  IsFiniteSet(UnitsOf(C, s)) /\ Cardinality(UnitsOf(C, s)) \in Nat
    OBVIOUS
  <1>1. IsFiniteSet(s)
    BY FS_Subset
  <1>2. IsFiniteSet({C[x] : x \in s})
    <2> DEFINE T == {C[x] : x \in s}
               h == [x \in s |-> C[x]]
    <2>1. h \in [s -> T] /\ \A t \in T : \E x \in s : h[x] = t
      OBVIOUS
    <2> HIDE DEF T, h
    <2>2. IsFiniteSet(T)
      BY <1>1, <2>1, ImageIsFinite
    <2>3. QED BY <2>2 DEF T
  <1>3. \A T \in {C[x] : x \in s} : IsFiniteSet(T)
    OBVIOUS
  <1>4. IsFiniteSet(UNION {C[x] : x \in s})
    BY <1>2, <1>3, FS_UNION
  <1>5. QED
    BY <1>4, FS_CardinalityType DEF UnitsOf

LEMMA CountingIsASum ==
    ASSUME NEW C, NEW f, NEW S, Stands(C, f, S)
    PROVE  IsSum(Counted(C, S), f, S)
  <1> DEFINE g == Counted(C, S)
             Rest(s) == s \ {CHOOSE x \in s : TRUE}
  <1>1. \A s \in SUBSET S : IsFiniteSet(UnitsOf(C, s)) /\ Cardinality(UnitsOf(C, s)) \in Nat
    BY UnitsAreFinite DEF Stands
  <1>2. ASSUME NEW s \in SUBSET S, s # {}
        PROVE  Cardinality(UnitsOf(C, s)) = f[CHOOSE x \in s : TRUE] + g[Rest(s)]
    <2> DEFINE c == CHOOSE x \in s : TRUE
               t == s \ {c}
    <2>1. c \in s /\ c \in S /\ t \in SUBSET S
      BY <1>2
    <2> HIDE DEF c
    <2>2. UnitsOf(C, s) = C[c] \cup UnitsOf(C, t)
      BY <2>1 DEF UnitsOf
    <2>3. C[c] \cap UnitsOf(C, t) = {}
      BY <2>1 DEF UnitsOf, Stands
    <2>4. /\ IsFiniteSet(C[c]) /\ f[c] = Cardinality(C[c])
          /\ IsFiniteSet(UnitsOf(C, t)) /\ g[t] = Cardinality(UnitsOf(C, t))
      BY <1>1, <2>1 DEF Stands, Counted
    <2>5. Cardinality(C[c]) \in Nat /\ Cardinality(UnitsOf(C, t)) \in Nat /\ Cardinality({}) = 0
      BY <2>4, FS_CardinalityType, FS_EmptySet
    <2>6. Cardinality(UnitsOf(C, s)) = Cardinality(C[c]) + Cardinality(UnitsOf(C, t)) - Cardinality({})
      <3> DEFINE u == UnitsOf(C, t)
                 v == C[c]
      <3>1. IsFiniteSet(u) /\ IsFiniteSet(v) /\ u \cap v = {} /\ UnitsOf(C, s) = v \cup u
        BY <2>2, <2>3, <2>4
      <3> HIDE DEF u, v
      <3>2. Cardinality(v \cup u) = Cardinality(v) + Cardinality(u) - Cardinality(v \cap u)
        BY <3>1, FS_Union
      <3>3. v \cap u = {}
        BY <3>1
      <3>4. QED BY <3>1, <3>2, <3>3 DEF u, v
    <2>7. Cardinality(UnitsOf(C, s)) = f[c] + g[t]
      BY <2>4, <2>5, <2>6
    <2>8. QED
      BY <2>7 DEF c
  <1>3. Cardinality(UnitsOf(C, {})) = 0
    <2>1. UnitsOf(C, {}) = {}
      BY DEF UnitsOf
    <2>2. QED BY <2>1, FS_EmptySet
  <1>4. \A s \in SUBSET S : Cardinality(UnitsOf(C, s)) =
            IF s = {} THEN 0 ELSE f[CHOOSE x \in s : TRUE] + g[Rest(s)]
    BY <1>2, <1>3
  <1>5. QED
    BY <1>4 DEF IsSum, Counted

LEMMA LeastMember ==
    ASSUME NEW T, T \subseteq Nat, T # {}
    PROVE  \E x \in T : \A y \in T : x <= y
  <1> DEFINE Before2 == {p \in Nat \X Nat : p[1] < p[2]}
  <1>1. IsWellFoundedOn(Before2, Nat)
    BY NatLessThanWellFounded DEF OpToRel
  <1>2. \A x, y \in Nat : y < x => <<y, x>> \in Before2
    OBVIOUS
  <1> HIDE DEF Before2
  <1>3. PICK x \in T : \A y \in T : ~ (<<y, x>> \in Before2)
    BY <1>1, WFMin
  <1>4. \A y \in T : ~ (y < x) /\ x \in Nat /\ y \in Nat
    BY <1>2, <1>3
  <1>5. QED
    BY <1>4

LEMMA SumIsTheCount ==
    ASSUME NEW C, NEW f, NEW S, Stands(C, f, S), NEW iter, IsSum(iter, f, S)
    PROVE  iter[S] = Cardinality(UnitsOf(C, S))
  <1> DEFINE g == Counted(C, S)
             Wrong == {s \in SUBSET S : iter[s] # g[s]}
             Sizes == {Cardinality(s) : s \in Wrong}
  <1>1. IsSum(g, f, S)
    BY CountingIsASum
  <1>2. \A s \in SUBSET S : IsFiniteSet(s) /\ Cardinality(s) \in Nat
    BY FS_Subset, FS_CardinalityType DEF Stands
  <1>3. ASSUME Wrong # {} PROVE FALSE
    <2>1. Sizes \subseteq Nat /\ Sizes # {}
      BY <1>2, <1>3
    <2>2. PICK n \in Sizes : \A k \in Sizes : n <= k
      <3> HIDE DEF Sizes
      <3>1. QED BY <2>1, LeastMember
    <2>3. PICK s \in Wrong : n = Cardinality(s)
      BY <2>2
    <2> DEFINE c == CHOOSE x \in s : TRUE
               t == s \ {c}
    <2>4. s # {}
      BY <1>1, <2>3 DEF IsSum
    <2>5. c \in s
      BY <2>4
    <2>6. iter[s] = f[c] + iter[t] /\ g[s] = f[c] + g[t]
      BY <1>1, <2>3, <2>4 DEF IsSum
    <2> HIDE DEF c
    <2>7. Cardinality(t) = Cardinality(s) - 1 /\ t \in SUBSET S
      BY <1>2, <2>3, <2>5, FS_RemoveElement
    <2>8. t \notin Wrong
      <3>1. ~ (n <= Cardinality(t))
        BY <1>2, <2>3, <2>7
      <3>2. QED BY <2>2, <3>1
    <2>9. QED
      BY <2>3, <2>6, <2>7, <2>8
  <1>4. iter[S] = g[S]
    BY <1>3
  <1>5. QED
    BY <1>4 DEF Counted

(* The sums of the program.                                                *)
CountOf(rows, count) == MapThenSumSet(LAMBDA r : r[count], rows)

SpendOf(rows) == MapThenSumSet(LAMBDA r : r.spend, rows)

ResultsOf(rows) == MapThenSumSet(LAMBDA r : Total(r.actions), rows)

CountBy(a, w, count) == MapThenSumSet(LAMBDA d : delivered[a][d][count], Live(a, w))

ResultsBy(a, w) == MapThenSumSet(LAMBDA d : results[a][d], Live(a, w))

(* Each of them is the number of units of what it sums.                    *)
LEMMA CountsAreCounted ==
    ASSUME NEW rows, NEW count, NEW C, Stands(C, [r \in rows |-> r[count]], rows)
    PROVE  CountOf(rows, count) = Cardinality(UnitsOf(C, rows))
  <1> DEFINE f == [r \in rows |-> r[count]]
             Is(iter) == iter = [s \in SUBSET rows |->
                             IF s = {} THEN 0
                             ELSE (CHOOSE x \in s : TRUE)[count] + iter[s \ {CHOOSE x \in s : TRUE}]]
             sum == CHOOSE iter : Is(iter)
  <1>1. CountOf(rows, count) = sum[rows]
    BY DEF CountOf, MapThenSumSet, MapThenFoldSet
  <1>2. \A iter : Is(iter) <=> IsSum(iter, f, rows)
    BY DEF IsSum
  <1>3. IsSum(Counted(C, rows), f, rows)
    BY CountingIsASum
  <1>4. Is(sum)
    <2>1. Is(Counted(C, rows))
      BY <1>2, <1>3
    <2>2. QED BY <2>1
  <1> HIDE DEF sum
  <1>5. IsSum(sum, f, rows)
    BY <1>2, <1>4
  <1>6. sum[rows] = Cardinality(UnitsOf(C, rows))
    BY <1>5, SumIsTheCount
  <1>7. QED
    BY <1>1, <1>6

LEMMA SpendIsACount == \A rows : SpendOf(rows) = CountOf(rows, "spend")
  BY DEF SpendOf, CountOf, MapThenSumSet, MapThenFoldSet

LEMMA ResultsAreCounted ==
    ASSUME NEW rows, NEW C, Stands(C, [r \in rows |-> Total(r.actions)], rows)
    PROVE  ResultsOf(rows) = Cardinality(UnitsOf(C, rows))
  <1> DEFINE f == [r \in rows |-> Total(r.actions)]
             Is(iter) == iter = [s \in SUBSET rows |->
                             IF s = {} THEN 0
                             ELSE Total((CHOOSE x \in s : TRUE).actions) + iter[s \ {CHOOSE x \in s : TRUE}]]
             sum == CHOOSE iter : Is(iter)
  <1>1. ResultsOf(rows) = sum[rows]
    BY DEF ResultsOf, MapThenSumSet, MapThenFoldSet
  <1>2. \A iter : Is(iter) <=> IsSum(iter, f, rows)
    BY DEF IsSum
  <1>3. IsSum(Counted(C, rows), f, rows)
    BY CountingIsASum
  <1>4. Is(sum)
    <2>1. Is(Counted(C, rows))
      BY <1>2, <1>3
    <2>2. QED BY <2>1
  <1> HIDE DEF sum
  <1>5. IsSum(sum, f, rows)
    BY <1>2, <1>4
  <1>6. sum[rows] = Cardinality(UnitsOf(C, rows))
    BY <1>5, SumIsTheCount
  <1>7. QED
    BY <1>1, <1>6

LEMMA NumbersAreCounted ==
    ASSUME NEW S, NEW C, Stands(C, [n \in S |-> n], S)
    PROVE  Total(S) = Cardinality(UnitsOf(C, S))
  <1> DEFINE f == [n \in S |-> n]
             Is(iter) == iter = [s \in SUBSET S |->
                             IF s = {} THEN 0
                             ELSE (CHOOSE x \in s : TRUE) + iter[s \ {CHOOSE x \in s : TRUE}]]
             sum == CHOOSE iter : Is(iter)
  <1>1. Total(S) = sum[S]
    BY DEF Total, MapThenSumSet, MapThenFoldSet
  <1>2. \A iter : Is(iter) <=> IsSum(iter, f, S)
    BY DEF IsSum
  <1>3. IsSum(Counted(C, S), f, S)
    BY CountingIsASum
  <1>4. Is(sum)
    <2>1. Is(Counted(C, S))
      BY <1>2, <1>3
    <2>2. QED BY <2>1
  <1> HIDE DEF sum
  <1>5. IsSum(sum, f, S)
    BY <1>2, <1>4
  <1>6. sum[S] = Cardinality(UnitsOf(C, S))
    BY <1>5, SumIsTheCount
  <1>7. QED
    BY <1>1, <1>6

LEMMA CountByIsCounted ==
    ASSUME NEW a, NEW w, NEW count, NEW C, Stands(C, [d \in Live(a, w) |-> delivered[a][d][count]], Live(a, w))
    PROVE  CountBy(a, w, count) = Cardinality(UnitsOf(C, Live(a, w)))
  <1> DEFINE f == [d \in Live(a, w) |-> delivered[a][d][count]]
             Is(iter) == iter = [s \in SUBSET Live(a, w) |->
                             IF s = {} THEN 0
                             ELSE delivered[a][CHOOSE x \in s : TRUE][count] + iter[s \ {CHOOSE x \in s : TRUE}]]
             sum == CHOOSE iter : Is(iter)
  <1>1. CountBy(a, w, count) = sum[Live(a, w)]
    BY DEF CountBy, MapThenSumSet, MapThenFoldSet
  <1>2. \A iter : Is(iter) <=> IsSum(iter, f, Live(a, w))
    BY DEF IsSum
  <1>3. IsSum(Counted(C, Live(a, w)), f, Live(a, w))
    BY CountingIsASum
  <1>4. Is(sum)
    <2>1. Is(Counted(C, Live(a, w)))
      BY <1>2, <1>3
    <2>2. QED BY <2>1
  <1> HIDE DEF sum
  <1>5. IsSum(sum, f, Live(a, w))
    BY <1>2, <1>4
  <1>6. sum[Live(a, w)] = Cardinality(UnitsOf(C, Live(a, w)))
    BY <1>5, SumIsTheCount
  <1>7. QED
    BY <1>1, <1>6

LEMMA ResultsByAreCounted ==
    ASSUME NEW a, NEW w, NEW C, Stands(C, [d \in Live(a, w) |-> results[a][d]], Live(a, w))
    PROVE  ResultsBy(a, w) = Cardinality(UnitsOf(C, Live(a, w)))
  <1> DEFINE f == [d \in Live(a, w) |-> results[a][d]]
             Is(iter) == iter = [s \in SUBSET Live(a, w) |->
                             IF s = {} THEN 0
                             ELSE results[a][CHOOSE x \in s : TRUE] + iter[s \ {CHOOSE x \in s : TRUE}]]
             sum == CHOOSE iter : Is(iter)
  <1>1. ResultsBy(a, w) = sum[Live(a, w)]
    BY DEF ResultsBy, MapThenSumSet, MapThenFoldSet
  <1>2. \A iter : Is(iter) <=> IsSum(iter, f, Live(a, w))
    BY DEF IsSum
  <1>3. IsSum(Counted(C, Live(a, w)), f, Live(a, w))
    BY CountingIsASum
  <1>4. Is(sum)
    <2>1. Is(Counted(C, Live(a, w)))
      BY <1>2, <1>3
    <2>2. QED BY <2>1
  <1> HIDE DEF sum
  <1>5. IsSum(sum, f, Live(a, w))
    BY <1>2, <1>4
  <1>6. sum[Live(a, w)] = Cardinality(UnitsOf(C, Live(a, w)))
    BY <1>5, SumIsTheCount
  <1>7. QED
    BY <1>1, <1>6

LEMMA SumForIsCounted ==
    ASSUME NEW ads, NEW w, NEW count, NEW C, Stands(C, [a \in ads |-> CountBy(a, w, count)], ads)
    PROVE  SumFor(ads, w, count) = Cardinality(UnitsOf(C, ads))
  <1> DEFINE f == [a \in ads |-> CountBy(a, w, count)]
             Is(iter) == iter = [s \in SUBSET ads |->
                             IF s = {} THEN 0
                             ELSE CountBy(CHOOSE x \in s : TRUE, w, count) + iter[s \ {CHOOSE x \in s : TRUE}]]
             sum == CHOOSE iter : Is(iter)
  <1>1. SumFor(ads, w, count) = sum[ads]
    <2>1. SumFor(ads, w, count) = MapThenSumSet(LAMBDA a : CountBy(a, w, count), ads)
      BY Zenon DEF SumFor, CountBy
    <2>2. MapThenSumSet(LAMBDA a : CountBy(a, w, count), ads) = sum[ads]
      BY DEF MapThenSumSet, MapThenFoldSet
    <2>3. QED BY Zenon, <2>1, <2>2
  <1>2. \A iter : Is(iter) <=> IsSum(iter, f, ads)
    BY DEF IsSum
  <1>3. IsSum(Counted(C, ads), f, ads)
    BY CountingIsASum
  <1>4. Is(sum)
    <2>1. Is(Counted(C, ads))
      BY <1>2, <1>3
    <2>2. QED BY <2>1
  <1> HIDE DEF sum
  <1>5. IsSum(sum, f, ads)
    BY <1>2, <1>4
  <1>6. sum[ads] = Cardinality(UnitsOf(C, ads))
    BY <1>5, SumIsTheCount
  <1>7. QED
    BY <1>1, <1>6

LEMMA ResultsForAreCounted ==
    ASSUME NEW ads, NEW w, NEW C, Stands(C, [a \in ads |-> ResultsBy(a, w)], ads)
    PROVE  ResultsFor(ads, w) = Cardinality(UnitsOf(C, ads))
  <1> DEFINE f == [a \in ads |-> ResultsBy(a, w)]
             Is(iter) == iter = [s \in SUBSET ads |->
                             IF s = {} THEN 0
                             ELSE ResultsBy(CHOOSE x \in s : TRUE, w) + iter[s \ {CHOOSE x \in s : TRUE}]]
             sum == CHOOSE iter : Is(iter)
  <1>1. ResultsFor(ads, w) = sum[ads]
    <2>1. ResultsFor(ads, w) = MapThenSumSet(LAMBDA a : ResultsBy(a, w), ads)
      BY Zenon DEF ResultsFor, ResultsBy
    <2>2. MapThenSumSet(LAMBDA a : ResultsBy(a, w), ads) = sum[ads]
      BY DEF MapThenSumSet, MapThenFoldSet
    <2>3. QED BY Zenon, <2>1, <2>2
  <1>2. \A iter : Is(iter) <=> IsSum(iter, f, ads)
    BY DEF IsSum
  <1>3. IsSum(Counted(C, ads), f, ads)
    BY CountingIsASum
  <1>4. Is(sum)
    <2>1. Is(Counted(C, ads))
      BY <1>2, <1>3
    <2>2. QED BY <2>1
  <1> HIDE DEF sum
  <1>5. IsSum(sum, f, ads)
    BY <1>2, <1>4
  <1>6. sum[ads] = Cardinality(UnitsOf(C, ads))
    BY <1>5, SumIsTheCount
  <1>7. QED
    BY <1>1, <1>6

-----------------------------------------------------------------------------
(* What was delivered, as units: an ad, a day and a number.                *)

Counts == [spend : Nat, impressions : Nat, clicks : Nat]

CountNames == {"spend", "impressions", "clicks"}

DaysAreTyped ==
    /\ Today \in 0 .. LastDay
    /\ delivered \in [Ads -> Seq(Counts)] /\ results \in [Ads -> Seq(Nat)]
    /\ \A a \in Ads : Len(delivered[a]) = Today /\ Len(results[a]) = Today

Delivered(count) == [a \in Ads |-> [d \in 1 .. Today |-> delivered[a][d][count]]]

Spent == Delivered("spend")

Units(n, ads, w) ==
    {u \in ads \X (1 .. Today) \X Nat : u[2] \in Live(u[1], w) /\ u[3] \in 1 .. n[u[1]][u[2]]}

Numbered(a, d, n) == {<<a, d, k>> : k \in 1 .. n}

LEMMA NumberedAreMany ==
    ASSUME NEW a, NEW d, NEW n \in Nat
    PROVE  IsFiniteSet(Numbered(a, d, n)) /\ Cardinality(Numbered(a, d, n)) = n
  <1> DEFINE h == [k \in 1 .. n |-> <<a, d, k>>]
  <1>1. h \in Bijection(1 .. n, Numbered(a, d, n))
    BY DEF Bijection, Injection, Surjection, IsInjective, Numbered
  <1>2. ExistsBijection(1 .. n, Numbered(a, d, n))
    BY <1>1 DEF ExistsBijection
  <1>3. IsFiniteSet(1 .. n) /\ Cardinality(1 .. n) = n
    BY FS_Interval
  <1>4. QED
    BY <1>2, <1>3, FS_Bijection

LEMMA LiveIsFinite ==
    ASSUME DaysAreTyped, NEW a, NEW w
    PROVE  Live(a, w) \subseteq 1 .. Today /\ IsFiniteSet(Live(a, w))
  <1>1. Live(a, w) \subseteq 1 .. Today
    BY DEF Live
  <1>2. IsFiniteSet(1 .. Today)
    BY FS_Interval DEF DaysAreTyped
  <1>3. QED
    BY <1>1, <1>2, FS_Subset

(* The units of one ad make up its sum.                                    *)
LEMMA CountByIsUnits ==
    ASSUME DaysAreTyped, NEW a \in Ads, NEW w, NEW count \in CountNames
    PROVE  /\ IsFiniteSet(Units(Delivered(count), {a}, w))
           /\ CountBy(a, w, count) = Cardinality(Units(Delivered(count), {a}, w))
  <1> DEFINE f == [d \in Live(a, w) |-> delivered[a][d][count]]
             C == [d \in Live(a, w) |-> Numbered(a, d, f[d])]
  <1>1. Live(a, w) \subseteq 1 .. Today /\ IsFiniteSet(Live(a, w))
    BY LiveIsFinite
  <1>2. \A d \in Live(a, w) : f[d] \in Nat /\ f[d] = Delivered(count)[a][d]
    <2>1. delivered[a] \in Seq(Counts) /\ Len(delivered[a]) = Today
      BY DEF DaysAreTyped
    <2>2. \A d \in 1 .. Today : delivered[a][d] \in Counts
      BY <2>1
    <2>3. QED BY <1>1, <2>2 DEF Counts, CountNames, Delivered
  <1>3. Stands(C, f, Live(a, w))
    <2>1. \A d \in Live(a, w) : IsFiniteSet(C[d]) /\ f[d] = Cardinality(C[d])
      BY <1>2, NumberedAreMany
    <2>2. \A x, y \in Live(a, w) : x # y => C[x] \cap C[y] = {}
      BY DEF Numbered
    <2>3. QED BY <1>1, <2>1, <2>2 DEF Stands
  <1>4. UnitsOf(C, Live(a, w)) = Units(Delivered(count), {a}, w)
    <2>1. ASSUME NEW u \in UnitsOf(C, Live(a, w)) PROVE u \in Units(Delivered(count), {a}, w)
      <3>1. PICK d \in Live(a, w) : u \in Numbered(a, d, f[d])
        BY DEF UnitsOf
      <3>2. PICK k \in 1 .. f[d] : u = <<a, d, k>>
        BY <3>1 DEF Numbered
      <3>3. QED BY <1>1, <1>2, <3>2 DEF Units
    <2>2. ASSUME NEW u \in Units(Delivered(count), {a}, w) PROVE u \in UnitsOf(C, Live(a, w))
      <3>1. /\ u[1] = a /\ u[2] \in Live(a, w) /\ u[3] \in 1 .. Delivered(count)[a][u[2]]
            /\ u = <<a, u[2], u[3]>>
        BY DEF Units
      <3>2. u \in Numbered(a, u[2], f[u[2]])
        BY <1>2, <3>1 DEF Numbered
      <3>3. QED BY <3>1, <3>2 DEF UnitsOf
    <2>3. QED BY <2>1, <2>2
  <1>5. IsFiniteSet(UnitsOf(C, Live(a, w)))
    BY <1>3, UnitsAreFinite DEF Stands
  <1> HIDE DEF C
  <1>6. CountBy(a, w, count) = Cardinality(UnitsOf(C, Live(a, w)))
    BY <1>3, CountByIsCounted
  <1>7. QED
    BY <1>4, <1>5, <1>6

LEMMA ResultsByAreUnits ==
    ASSUME DaysAreTyped, NEW a \in Ads, NEW w
    PROVE  /\ IsFiniteSet(Units(results, {a}, w))
           /\ ResultsBy(a, w) = Cardinality(Units(results, {a}, w))
  <1> DEFINE f == [d \in Live(a, w) |-> results[a][d]]
             C == [d \in Live(a, w) |-> Numbered(a, d, f[d])]
  <1>1. Live(a, w) \subseteq 1 .. Today /\ IsFiniteSet(Live(a, w))
    BY LiveIsFinite
  <1>2. \A d \in Live(a, w) : f[d] \in Nat /\ f[d] = results[a][d]
    BY <1>1 DEF DaysAreTyped
  <1>3. Stands(C, f, Live(a, w))
    <2>1. \A d \in Live(a, w) : IsFiniteSet(C[d]) /\ f[d] = Cardinality(C[d])
      BY <1>2, NumberedAreMany
    <2>2. \A x, y \in Live(a, w) : x # y => C[x] \cap C[y] = {}
      BY DEF Numbered
    <2>3. QED BY <1>1, <2>1, <2>2 DEF Stands
  <1>4. UnitsOf(C, Live(a, w)) = Units(results, {a}, w)
    <2>1. ASSUME NEW u \in UnitsOf(C, Live(a, w)) PROVE u \in Units(results, {a}, w)
      <3>1. PICK d \in Live(a, w) : u \in Numbered(a, d, f[d])
        BY DEF UnitsOf
      <3>2. PICK k \in 1 .. f[d] : u = <<a, d, k>>
        BY <3>1 DEF Numbered
      <3>3. QED BY <1>1, <1>2, <3>2 DEF Units
    <2>2. ASSUME NEW u \in Units(results, {a}, w) PROVE u \in UnitsOf(C, Live(a, w))
      <3>1. /\ u[1] = a /\ u[2] \in Live(a, w) /\ u[3] \in 1 .. results[a][u[2]]
            /\ u = <<a, u[2], u[3]>>
        BY DEF Units
      <3>2. u \in Numbered(a, u[2], f[u[2]])
        BY <1>2, <3>1 DEF Numbered
      <3>3. QED BY <3>1, <3>2 DEF UnitsOf
    <2>3. QED BY <2>1, <2>2
  <1>5. IsFiniteSet(UnitsOf(C, Live(a, w)))
    BY <1>3, UnitsAreFinite DEF Stands
  <1> HIDE DEF C
  <1>6. ResultsBy(a, w) = Cardinality(UnitsOf(C, Live(a, w)))
    BY <1>3, ResultsByAreCounted
  <1>7. QED
    BY <1>4, <1>5, <1>6

(* The units of several ads are those of each.                             *)
LEMMA UnitsOfSeveral ==
    ASSUME NEW n, NEW ads \in SUBSET Ads, NEW w
    PROVE  /\ UnitsOf([a \in ads |-> Units(n, {a}, w)], ads) = Units(n, ads, w)
           /\ \A a, b \in ads : a # b => Units(n, {a}, w) \cap Units(n, {b}, w) = {}
  BY DEF UnitsOf, Units

LEMMA CountsAreUnits ==
    ASSUME DaysAreTyped, NEW ads \in SUBSET Ads, NEW w, NEW count \in CountNames
    PROVE  /\ IsFiniteSet(Units(Delivered(count), ads, w))
           /\ SumFor(ads, w, count) = Cardinality(Units(Delivered(count), ads, w))
  <1> DEFINE C == [a \in ads |-> Units(Delivered(count), {a}, w)]
  <1>1. IsFiniteSet(ads)
    BY ReportsAssumption, FS_Subset
  <1>2. Stands(C, [a \in ads |-> CountBy(a, w, count)], ads)
    BY <1>1, CountByIsUnits, UnitsOfSeveral DEF Stands
  <1>3. IsFiniteSet(UnitsOf(C, ads))
    BY <1>2, UnitsAreFinite DEF Stands
  <1>4. UnitsOf(C, ads) = Units(Delivered(count), ads, w)
    BY UnitsOfSeveral
  <1> HIDE DEF C
  <1>5. SumFor(ads, w, count) = Cardinality(UnitsOf(C, ads))
    BY <1>2, SumForIsCounted
  <1>6. QED
    BY <1>3, <1>4, <1>5

LEMMA SumsAreUnits ==
    DaysAreTyped =>
        \A ads \in SUBSET Ads : \A w :
            /\ IsFiniteSet(Units(Spent, ads, w)) /\ IsFiniteSet(Units(results, ads, w))
            /\ SumFor(ads, w, "spend") = Cardinality(Units(Spent, ads, w))
            /\ ResultsFor(ads, w) = Cardinality(Units(results, ads, w))
  <1> SUFFICES ASSUME DaysAreTyped, NEW ads \in SUBSET Ads, NEW w
               PROVE  /\ IsFiniteSet(Units(Spent, ads, w)) /\ IsFiniteSet(Units(results, ads, w))
                      /\ SumFor(ads, w, "spend") = Cardinality(Units(Spent, ads, w))
                      /\ ResultsFor(ads, w) = Cardinality(Units(results, ads, w))
    OBVIOUS
  <1> DEFINE D == [a \in ads |-> Units(results, {a}, w)]
  <1>1. IsFiniteSet(ads)
    BY ReportsAssumption, FS_Subset
  <1>2. /\ IsFiniteSet(Units(Spent, ads, w))
        /\ SumFor(ads, w, "spend") = Cardinality(Units(Spent, ads, w))
    BY CountsAreUnits DEF CountNames, Spent
  <1>3. Stands(D, [a \in ads |-> ResultsBy(a, w)], ads)
    BY <1>1, ResultsByAreUnits, UnitsOfSeveral DEF Stands
  <1>4. IsFiniteSet(UnitsOf(D, ads))
    BY <1>3, UnitsAreFinite DEF Stands
  <1>5. UnitsOf(D, ads) = Units(results, ads, w)
    BY UnitsOfSeveral
  <1> HIDE DEF D
  <1>6. ResultsFor(ads, w) = Cardinality(UnitsOf(D, ads))
    BY <1>3, ResultsForAreCounted
  <1>7. QED
    BY <1>2, <1>4, <1>5, <1>6

LEMMA SumsAreNumbers ==
    DaysAreTyped =>
        \A ads \in SUBSET Ads : \A w : SumFor(ads, w, "spend") \in Nat /\ ResultsFor(ads, w) \in Nat
  BY SumsAreUnits, FS_CardinalityType

LEMMA SumsAreUnitsNext ==
    DaysAreTyped' =>
        \A ads \in SUBSET Ads : \A w :
            /\ IsFiniteSet(Units(Spent, ads, w)') /\ IsFiniteSet(Units(results, ads, w)')
            /\ SumFor(ads, w, "spend")' = Cardinality(Units(Spent, ads, w)')
            /\ ResultsFor(ads, w)' = Cardinality(Units(results, ads, w)')
  <1>1. (DaysAreTyped =>
            \A ads \in SUBSET Ads : \A w :
                /\ IsFiniteSet(Units(Spent, ads, w)) /\ IsFiniteSet(Units(results, ads, w))
                /\ SumFor(ads, w, "spend") = Cardinality(Units(Spent, ads, w))
                /\ ResultsFor(ads, w) = Cardinality(Units(results, ads, w)))'
    BY SumsAreUnits, PTL
  <1>2. QED
    BY <1>1

(* Days that are past stay what they were.                                 *)
PastIsKept ==
    /\ Today <= Today'
    /\ \A a \in Ads, d \in 1 .. Today : delivered'[a][d] = delivered[a][d]

LEMMA SpendGrows ==
    ASSUME DaysAreTyped, DaysAreTyped', PastIsKept
    PROVE  \A ads \in SUBSET Ads : \A w :
              /\ SumFor(ads, w, "spend") <= SumFor(ads, w, "spend")'
              /\ DaysOf(w) \cap (1 .. Today') \subseteq 1 .. Today
                    => SumFor(ads, w, "spend")' = SumFor(ads, w, "spend")
  <1> SUFFICES ASSUME NEW ads \in SUBSET Ads, NEW w
               PROVE  /\ SumFor(ads, w, "spend") <= SumFor(ads, w, "spend")'
                      /\ DaysOf(w) \cap (1 .. Today') \subseteq 1 .. Today
                            => SumFor(ads, w, "spend")' = SumFor(ads, w, "spend")
    OBVIOUS
  <1> DEFINE U == Units(Spent, ads, w)
  <1>1. Today \in Nat /\ Today' \in Nat /\ Today <= Today'
    BY DEF DaysAreTyped, PastIsKept
  <1>2. \A a \in Ads : /\ Len(delivered[a]) = Today /\ Len(delivered'[a]) = Today'
                       /\ \A d \in 1 .. Today : delivered'[a][d] = delivered[a][d]
    BY DEF DaysAreTyped, PastIsKept
  <1>3. \A a \in Ads, d \in 1 .. Today :
            /\ d \in Live(a, w)' <=> d \in Live(a, w)
            /\ Spent'[a][d] = Spent[a][d]
    BY <1>1, <1>2 DEF Live, Spent, Delivered
  <1>4. U \subseteq U'
    BY <1>1, <1>3 DEF Units
  <1>5. ASSUME DaysOf(w) \cap (1 .. Today') \subseteq 1 .. Today
        PROVE  U' = U
    <2>1. \A u \in U' : u[1] \in Ads /\ u[2] \in 1 .. Today
      BY <1>5 DEF Units, Live
    <2>2. U' \subseteq U
      BY <1>1, <1>3, <2>1 DEF Units
    <2>3. QED BY <1>4, <2>2
  <1>6. /\ IsFiniteSet(U) /\ IsFiniteSet(U')
        /\ SumFor(ads, w, "spend") = Cardinality(U) /\ SumFor(ads, w, "spend")' = Cardinality(U')
    BY SumsAreUnits, SumsAreUnitsNext
  <1> HIDE DEF U
  <1>7. Cardinality(U) <= Cardinality(U')
    BY <1>4, <1>6, FS_Subset
  <1>8. QED
    BY <1>5, <1>6, <1>7

LEMMA ResultsAreKept ==
    ASSUME DaysAreTyped, DaysAreTyped', PastIsKept, NEW w,
           DaysOf(w) \cap (1 .. Today') \subseteq 1 .. Today,
           \A a \in Ads, d \in (1 .. Today) \cap DaysOf(w) : results'[a][d] = results[a][d]
    PROVE  \A ads \in SUBSET Ads : ResultsFor(ads, w)' = ResultsFor(ads, w)
  <1> SUFFICES ASSUME NEW ads \in SUBSET Ads
               PROVE  ResultsFor(ads, w)' = ResultsFor(ads, w)
    OBVIOUS
  <1> DEFINE U == Units(results, ads, w)
  <1>1. Today \in Nat /\ Today' \in Nat /\ Today <= Today'
    BY DEF DaysAreTyped, PastIsKept
  <1>2. \A a \in Ads : /\ Len(delivered[a]) = Today /\ Len(delivered'[a]) = Today'
                       /\ \A d \in 1 .. Today : delivered'[a][d] = delivered[a][d]
    BY DEF DaysAreTyped, PastIsKept
  <1>3. \A a \in Ads, d \in 1 .. Today : d \in Live(a, w)' <=> d \in Live(a, w)
    BY <1>1, <1>2 DEF Live
  <1>4. \A a \in Ads : \A d \in Live(a, w) : d \in 1 .. Today /\ results'[a][d] = results[a][d]
    BY DEF Live
  <1>5. U \subseteq U'
    BY <1>1, <1>3, <1>4 DEF Units
  <1>6. \A u \in U' : u[1] \in Ads /\ u[2] \in 1 .. Today
    BY DEF Units, Live
  <1>7. U' \subseteq U
    BY <1>1, <1>3, <1>4, <1>6 DEF Units
  <1>8. U' = U
    BY <1>5, <1>7
  <1>9. ResultsFor(ads, w) = Cardinality(U) /\ ResultsFor(ads, w)' = Cardinality(U')
    BY SumsAreUnits, SumsAreUnitsNext
  <1> HIDE DEF U
  <1>10. QED
    BY <1>8, <1>9

-----------------------------------------------------------------------------
(* The rows of an export.                                                  *)

AdsIn(r) == IF r.ad = None THEN Ads ELSE {r.ad}

Day(r) == Window(r.start, r.start)

(* Dates are days up to that of the export.                                *)
RowsHaveDays(rows, today) ==
    /\ IsFiniteSet(rows)
    /\ \A r \in rows : r.start \in Int /\ r.stop \in 1 .. today /\ r.start <= r.stop

(* A daily row is about an ad or about the campaign, and its spend is      *)
(* theirs.                                                                 *)
RowsAreReal(rows) ==
    \A r \in Daily(rows) :
        /\ r.ad \in Ads \cup {None}
        /\ r.ad = None => Level(r) = "campaign"
        /\ r.spend = SumFor(AdsIn(r), Day(r), "spend")

OneRowADay(rows) ==
    \A r, s \in Daily(rows) : r.ad = s.ad /\ r.start = s.start => r = s

(* With any row of a day come those of every ad that delivered.            *)
NoneIsMissing(rows) ==
    \A r \in Daily(rows), a \in Ads :
        Live(a, Day(r)) # {} =>
            \E s \in Daily(rows) :
                s.start = r.start /\ a \in AdsIn(s) /\ (s.ad = None <=> r.ad = None)

(* Only daily rows of ads are broken down by placement, and then all are.  *)
PlacesAreDaily(rows) ==
    \A r \in rows : r.place # None => r \in Daily(rows) /\ r.ad # None

ResultsAreCurrent(rows) ==
    \A r \in Daily(rows) : Total(r.actions) = ResultsFor(AdsIn(r), Day(r))

(* Rows of a file that are all about ads or all about the campaign.        *)
OfOneLevel(R, rows) ==
    /\ R \subseteq Daily(rows)
    /\ \A r, s \in R : r.ad = None <=> s.ad = None

(* R has what its file has of its days.                                    *)
Whole(R) ==
    \A r \in R, a \in Ads :
        Live(a, Day(r)) # {} => \E s \in R : s.start = r.start /\ a \in AdsIn(s)

UnitsOfEach(n, X) == [r \in X |-> Units(n, AdsIn(r), Day(r))]

LEMMA UnitsOfRows ==
    ASSUME NEW n, NEW rows, NEW R, NEW w, NEW ads \in SUBSET Ads, NEW today,
           RowsHaveDays(rows, today), RowsAreReal(rows), OneRowADay(rows), OfOneLevel(R, rows),
           w.start \in Int, w.end \in Int, \A r \in R : AdsIn(r) \subseteq ads
    PROVE  /\ \A r, s \in Inside(w, R) :
                 r # s => UnitsOfEach(n, Inside(w, R))[r] \cap UnitsOfEach(n, Inside(w, R))[s] = {}
           /\ UnitsOf(UnitsOfEach(n, Inside(w, R)), Inside(w, R)) \subseteq Units(n, ads, w)
           /\ Whole(R) /\ (\A d \in DaysOf(w) : \E r \in R : r.start = d)
                 => UnitsOf(UnitsOfEach(n, Inside(w, R)), Inside(w, R)) = Units(n, Ads, w)
  <1> DEFINE X == Inside(w, R)
             C == [r \in X |-> Units(n, AdsIn(r), Day(r))]
  <1>1. \A r \in R : /\ r.start = r.stop /\ r.start \in Int /\ r \in Daily(rows)
                     /\ DaysOf(Day(r)) = {r.start} /\ AdsIn(r) \subseteq ads
    BY DEF RowsHaveDays, OfOneLevel, Daily, DaysOf, Day, Window
  <1>2. \A r \in R : r \in X <=> r.start \in DaysOf(w)
    BY <1>1 DEF Inside, Contains, DaysOf
  <1>3. \A r \in R : \A u \in Units(n, AdsIn(r), Day(r)) : u[2] = r.start /\ u[1] \in AdsIn(r)
    BY <1>1 DEF Units, Live
  <1>4. ASSUME NEW r \in X, NEW s \in X, r # s PROVE C[r] \cap C[s] = {}
    <2>1. r \in R /\ s \in R
      BY DEF Inside
    <2>2. r.ad # s.ad \/ r.start # s.start
      BY <1>1, <1>4, <2>1 DEF OneRowADay
    <2>3. r.ad # s.ad => AdsIn(r) \cap AdsIn(s) = {}
      BY <2>1 DEF OfOneLevel, AdsIn
    <2>4. QED BY <1>3, <2>1, <2>2, <2>3
  <1>5. ASSUME NEW u \in UnitsOf(C, X) PROVE u \in Units(n, ads, w)
    <2>1. PICK r \in X : u \in Units(n, AdsIn(r), Day(r))
      BY DEF UnitsOf
    <2>2. r \in R /\ r.start \in DaysOf(w)
      BY <1>2 DEF Inside
    <2>3. u[2] = r.start /\ u[1] \in ads
      BY <1>1, <1>3, <2>1, <2>2
    <2>4. u[2] \in Live(u[1], w)
      BY <2>1, <2>2, <2>3 DEF Units, Live
    <2>5. QED BY <2>1, <2>3, <2>4 DEF Units
  <1>6. ASSUME Whole(R), \A d \in DaysOf(w) : \E r \in R : r.start = d,
               NEW u \in Units(n, Ads, w)
        PROVE  u \in UnitsOf(C, X)
    <2>1. u[1] \in Ads /\ u[2] \in Live(u[1], w) /\ u[2] \in DaysOf(w)
      BY DEF Units, Live
    <2>2. PICK r \in R : r.start = u[2]
      BY <1>6, <2>1
    <2>3. u[2] \in Live(u[1], Day(r))
      BY <1>1, <2>1, <2>2 DEF Live
    <2>4. PICK s \in R : s.start = r.start /\ u[1] \in AdsIn(s)
      BY <1>6, <2>1, <2>3 DEF Whole
    <2>5. s \in X /\ Day(s) = Day(r)
      BY <1>2, <2>1, <2>2, <2>4 DEF Day
    <2>6. u \in Units(n, AdsIn(s), Day(s))
      BY <2>3, <2>4, <2>5 DEF Units
    <2>7. QED BY <2>5, <2>6 DEF UnitsOf
  <1>7. UnitsOf(C, X) \subseteq Units(n, Ads, w)
    BY <1>5 DEF Units
  <1>8. C = UnitsOfEach(n, X)
    BY DEF UnitsOfEach
  <1>9. QED
    BY <1>4, <1>5, <1>6, <1>7, <1>8

LEMMA AdsOfRows ==
    ASSUME NEW rows, RowsAreReal(rows), NEW r \in Daily(rows)
    PROVE  AdsIn(r) \in SUBSET Ads
  BY DEF RowsAreReal, AdsIn

(* Rows of one level show no more than was delivered in their period, and  *)
(* all of it when no day is missing.                                       *)
LEMMA SpendOfRows ==
    ASSUME DaysAreTyped, NEW rows, NEW R, NEW w, NEW ads \in SUBSET Ads, NEW today,
           RowsHaveDays(rows, today), RowsAreReal(rows), OneRowADay(rows), OfOneLevel(R, rows),
           w.start \in Int, w.end \in Int, \A r \in R : AdsIn(r) \subseteq ads
    PROVE  /\ SpendOf(Inside(w, R)) \in Nat
           /\ SpendOf(Inside(w, R)) <= SumFor(ads, w, "spend")
           /\ Whole(R) /\ (\A d \in DaysOf(w) : \E r \in R : r.start = d)
                 => SpendOf(Inside(w, R)) = SumFor(Ads, w, "spend")
  <1> DEFINE X == Inside(w, R)
             C == UnitsOfEach(Spent, X)
             f == [r \in X |-> r["spend"]]
             V == UnitsOf(C, X)
             U == Units(Spent, ads, w)
  <1>1. X \subseteq R /\ R \subseteq Daily(rows) /\ Daily(rows) \subseteq rows
    BY DEF Inside, OfOneLevel, Daily
  <1>2. IsFiniteSet(X)
    BY <1>1, FS_Subset DEF RowsHaveDays
  <1>3. \A r \in X : IsFiniteSet(C[r]) /\ f[r] = Cardinality(C[r])
    BY <1>1, SumsAreUnits, AdsOfRows DEF RowsAreReal, UnitsOfEach
  <1>4. /\ \A r, s \in X : r # s => C[r] \cap C[s] = {}
        /\ V \subseteq U
        /\ Whole(R) /\ (\A d \in DaysOf(w) : \E r \in R : r.start = d) => V = Units(Spent, Ads, w)
    BY UnitsOfRows
  <1>5. Stands(C, f, X)
    BY <1>2, <1>3, <1>4 DEF Stands
  <1>6. SpendOf(X) = Cardinality(V)
    <2> HIDE DEF C, X
    <2>1. QED BY <1>5, CountsAreCounted, SpendIsACount
  <1>7. /\ IsFiniteSet(U) /\ SumFor(ads, w, "spend") = Cardinality(U)
        /\ SumFor(Ads, w, "spend") = Cardinality(Units(Spent, Ads, w))
    BY SumsAreUnits
  <1> HIDE DEF U, V
  <1>8. Cardinality(V) <= Cardinality(U) /\ Cardinality(V) \in Nat
    BY <1>4, <1>7, FS_Subset, FS_CardinalityType
  <1>9. QED
    BY <1>4, <1>6, <1>7, <1>8

LEMMA ResultsOfRows ==
    ASSUME DaysAreTyped, NEW rows, NEW R, NEW w, NEW today,
           RowsHaveDays(rows, today), RowsAreReal(rows), OneRowADay(rows), OfOneLevel(R, rows),
           ResultsAreCurrent(rows), w.start \in Int, w.end \in Int,
           Whole(R), \A d \in DaysOf(w) : \E r \in R : r.start = d
    PROVE  ResultsOf(Inside(w, R)) = ResultsFor(Ads, w)
  <1> DEFINE X == Inside(w, R)
             C == UnitsOfEach(results, X)
             f == [r \in X |-> Total(r.actions)]
  <1>1. X \subseteq R /\ R \subseteq Daily(rows) /\ Daily(rows) \subseteq rows
    BY DEF Inside, OfOneLevel, Daily
  <1>2. IsFiniteSet(X)
    BY <1>1, FS_Subset DEF RowsHaveDays
  <1>3. \A r \in X : IsFiniteSet(C[r]) /\ f[r] = Cardinality(C[r])
    BY <1>1, SumsAreUnits, AdsOfRows DEF ResultsAreCurrent, UnitsOfEach
  <1>4. \A r \in R : AdsIn(r) \subseteq Ads
    BY <1>1, AdsOfRows
  <1>5. /\ \A r, s \in X : r # s => C[r] \cap C[s] = {}
        /\ UnitsOf(C, X) = Units(results, Ads, w)
    BY <1>4, UnitsOfRows
  <1>6. Stands(C, f, X)
    BY <1>2, <1>3, <1>5 DEF Stands
  <1>7. ResultsOf(X) = Cardinality(UnitsOf(C, X))
    <2> HIDE DEF C, X
    <2>1. QED BY <1>6, ResultsAreCounted
  <1>8. QED
    BY <1>5, <1>7, SumsAreUnits

-----------------------------------------------------------------------------
(* An export.                                                              *)

LEMMA TotalOfOne ==
    /\ Total({}) = 0
    /\ \A n \in Nat : Total({n}) = n
  <1>1. Total({}) = 0
    <2> DEFINE C == [x \in {} |-> {}]
    <2>1. Stands(C, [n \in {} |-> n], {}) /\ UnitsOf(C, {}) = {}
      BY FS_EmptySet DEF Stands, UnitsOf
    <2>2. Total({}) = Cardinality({})
      <3> HIDE DEF C
      <3>1. Total({}) = Cardinality(UnitsOf(C, {}))
        BY <2>1, NumbersAreCounted
      <3>2. QED BY <2>1, <3>1
    <2>3. QED BY <2>2, FS_EmptySet
  <1>2. ASSUME NEW n \in Nat PROVE Total({n}) = n
    <2> DEFINE C == [x \in {n} |-> Numbered(1, 1, x)]
    <2>1. IsFiniteSet({n}) /\ IsFiniteSet(C[n]) /\ Cardinality(C[n]) = n
      BY NumberedAreMany, FS_Singleton
    <2>2. Stands(C, [x \in {n} |-> x], {n}) /\ UnitsOf(C, {n}) = C[n]
      BY <2>1 DEF Stands, UnitsOf
    <2> HIDE DEF C
    <2>3. Total({n}) = Cardinality(UnitsOf(C, {n}))
      BY <2>2, NumbersAreCounted
    <2>4. QED BY <2>1, <2>2, <2>3
  <1>3. QED
    BY <1>1, <1>2

LEMMA PartsOfRow ==
    ASSUME DaysAreTyped, NEW ads \in SUBSET Ads, NEW w, NEW about, NEW query
    PROVE  LET r == RowOf(ads, w, about, query)
           IN  /\ r.start = w.start /\ r.stop = w.end /\ r.campaign = Campaign
               /\ r.adset = IF about = Campaign THEN None ELSE AdSet
               /\ r.ad = IF about = Campaign THEN None ELSE about
               /\ r.place = IF query = "placements" THEN PlaceOf[about] ELSE None
               /\ r.spend = SumFor(ads, w, "spend")
               /\ Total(r.actions) = ResultsFor(ads, w)
  <1> DEFINE r == RowOf(ads, w, about, query)
             n == ResultsFor(ads, w)
             clicks == SumFor(ads, w, "clicks")
             spend == SumFor(ads, w, "spend")
  <1>1. /\ r.start = w.start /\ r.stop = w.end /\ r.campaign = Campaign
        /\ r.adset = IF about = Campaign THEN None ELSE AdSet
        /\ r.ad = IF about = Campaign THEN None ELSE about
        /\ r.place = IF query = "placements" THEN PlaceOf[about] ELSE None
        /\ r.spend = spend
        /\ r.actions = IF clicks = 0 /\ n = 0 THEN {} ELSE {n}
    <2> HIDE DEF n, clicks, spend
    <2>1. QED BY DEF RowOf, n, clicks, spend
  <1>2. n \in Nat
    BY SumsAreNumbers
  <1>3. Total(r.actions) = n
    <2> HIDE DEF r, n, clicks
    <2>1. QED BY <1>1, <1>2, TotalOfOne
  <1>4. QED
    BY <1>1, <1>3

DailyOfAds(first, query) == UNION {AdRows(Window(d, d), query) : d \in first .. Today}

DailyOfCampaign(first) == UNION {CampaignRows(Window(d, d)) : d \in first .. Today}

LEMMA KindsOfExport ==
    ASSUME NEW first, NEW rows \in Exports(first)
    PROVE  \/ rows = DailyOfAds(first, "ads")
           \/ rows = DailyOfAds(first, "ads") \cup DailyOfCampaign(first)
           \/ rows = DailyOfAds(first, "placements")
           \/ \E n \in ReachLengths :
                 rows = DailyOfAds(first, "ads") \cup AdRows(WindowEnding(Today, n), "reach")
  <1> DEFINE ads == ByDay(first, LAMBDA w : AdRows(w, "ads"))
             campaign == ByDay(first, CampaignRows)
             places == ByDay(first, LAMBDA w : AdRows(w, "placements"))
  <1>1. /\ ads = DailyOfAds(first, "ads") /\ campaign = DailyOfCampaign(first)
        /\ places = DailyOfAds(first, "placements")
    BY DEF ByDay, DailyOfAds, DailyOfCampaign
  <1>2. rows \in {ads, ads \cup campaign, places}
                 \cup {ads \cup AdRows(WindowEnding(Today, n), "reach") : n \in ReachLengths}
    BY Zenon DEF Exports
  <1> HIDE DEF ads, campaign, places
  <1>3. QED
    BY <1>1, <1>2

(* What the rows of an ad over a period, and of a campaign, are.           *)
IsRowOf(r, ads, w, about, query) ==
    /\ r.start = w.start /\ r.stop = w.end
    /\ r.ad = IF about = Campaign THEN None ELSE about
    /\ r.place = IF query = "placements" THEN PlaceOf[about] ELSE None
    /\ r.spend = SumFor(ads, w, "spend") /\ Total(r.actions) = ResultsFor(ads, w)
    /\ about = Campaign => Level(r) = "campaign"
    /\ AdsIn(r) = ads
    /\ r = RowOf(ads, w, about, query)

LEMMA RowsOfAd ==
    ASSUME DaysAreTyped, NEW w, NEW query
    PROVE  /\ \A r \in AdRows(w, query) :
                 \E a \in Ads : Live(a, w) # {} /\ IsRowOf(r, {a}, w, a, query)
           /\ \A a \in Ads : Live(a, w) # {} =>
                 \E r \in AdRows(w, query) : IsRowOf(r, {a}, w, a, query)
  <1>1. ASSUME NEW a \in Ads PROVE IsRowOf(RowOf({a}, w, a, query), {a}, w, a, query)
    <2> DEFINE r == RowOf({a}, w, a, query)
    <2>1. a # Campaign /\ a # None
      BY ReportsAssumption
    <2>2. /\ r.start = w.start /\ r.stop = w.end
          /\ r.ad = IF a = Campaign THEN None ELSE a
          /\ r.place = IF query = "placements" THEN PlaceOf[a] ELSE None
          /\ r.spend = SumFor({a}, w, "spend") /\ Total(r.actions) = ResultsFor({a}, w)
      BY PartsOfRow
    <2> HIDE DEF r
    <2>3. AdsIn(r) = {a}
      BY <2>1, <2>2 DEF AdsIn
    <2>4. QED BY <2>1, <2>2, <2>3 DEF IsRowOf, r
  <1>2. \A r \in AdRows(w, query) : \E a \in Ads : Live(a, w) # {} /\ r = RowOf({a}, w, a, query)
    BY Zenon DEF AdRows
  <1>3. \A a \in Ads : Live(a, w) # {} => RowOf({a}, w, a, query) \in AdRows(w, query)
    BY Zenon DEF AdRows
  <1>4. QED
    BY <1>1, <1>2, <1>3

LEMMA RowsOfCampaign ==
    ASSUME DaysAreTyped, NEW w, NEW r \in CampaignRows(w)
    PROVE  IsRowOf(r, Ads, w, Campaign, "campaigns")
  <1>1. r = RowOf(Ads, w, Campaign, "campaigns")
    <2>1. CampaignRows(w) = {RowOf(Ads, w, Campaign, "campaigns")} \/ CampaignRows(w) = {}
      BY Zenon DEF CampaignRows
    <2>2. QED BY <2>1
  <1>2. /\ r.start = w.start /\ r.stop = w.end /\ r.campaign = Campaign
        /\ r.adset = None /\ r.ad = None /\ r.place = None
        /\ r.spend = SumFor(Ads, w, "spend") /\ Total(r.actions) = ResultsFor(Ads, w)
    BY <1>1, PartsOfRow
  <1>3. Level(r) = "campaign" /\ AdsIn(r) = Ads
    BY <1>2, ReportsAssumption DEF Level, AdsIn
  <1>4. QED
    BY <1>1, <1>2, <1>3 DEF IsRowOf

LEMMA DailyRowsOfAds ==
    ASSUME DaysAreTyped, NEW first, NEW query
    PROVE  /\ \A r \in DailyOfAds(first, query) :
                 \E a \in Ads, d \in first .. Today :
                     Live(a, Window(d, d)) # {} /\ IsRowOf(r, {a}, Window(d, d), a, query)
           /\ \A a \in Ads, d \in first .. Today : Live(a, Window(d, d)) # {} =>
                 \E r \in DailyOfAds(first, query) : IsRowOf(r, {a}, Window(d, d), a, query)
  <1>1. \A r : r \in DailyOfAds(first, query) <=> \E d \in first .. Today : r \in AdRows(Window(d, d), query)
    BY DEF DailyOfAds
  <1>2. QED
    BY <1>1, RowsOfAd

LEMMA DailyRowsOfCampaign ==
    ASSUME DaysAreTyped, NEW first, NEW r \in DailyOfCampaign(first)
    PROVE  \E d \in first .. Today : IsRowOf(r, Ads, Window(d, d), Campaign, "campaigns")
  <1>1. PICK d \in first .. Today : r \in CampaignRows(Window(d, d))
    BY DEF DailyOfCampaign
  <1>2. QED
    BY <1>1, RowsOfCampaign

LEMMA ExportIsFinite ==
    ASSUME DaysAreTyped, NEW first \in Int, NEW rows \in Exports(first)
    PROVE  IsFiniteSet(rows)
  <1>1. \A w : \A query : IsFiniteSet(AdRows(w, query))
    <2> SUFFICES ASSUME NEW w, NEW query PROVE IsFiniteSet(AdRows(w, query))
      OBVIOUS
    <2> DEFINE S == {x \in Ads : Live(x, w) # {}}
               T == AdRows(w, query)
               h == [a \in S |-> RowOf({a}, w, a, query)]
    <2>1. IsFiniteSet(S)
      BY ReportsAssumption, FS_Subset
    <2>2. h \in [S -> T] /\ \A t \in T : \E x \in S : h[x] = t
      <3>1. T = {RowOf({a}, w, a, query) : a \in S}
        BY Zenon DEF AdRows
      <3> HIDE DEF T, S
      <3>2. QED BY <3>1
    <2> HIDE DEF S, T, h
    <2>3. IsFiniteSet(T)
      BY <2>1, <2>2, ImageIsFinite
    <2>4. QED BY <2>3 DEF T
  <1>2. \A w : IsFiniteSet(CampaignRows(w))
    <2>1. \A w : CampaignRows(w) = {RowOf(Ads, w, Campaign, "campaigns")} \/ CampaignRows(w) = {}
      BY Zenon DEF CampaignRows
    <2>2. \A x : IsFiniteSet({x})
      BY FS_Singleton
    <2>3. QED BY <2>1, <2>2, FS_EmptySet
  <1>3. IsFiniteSet(first .. Today)
    BY FS_Interval DEF DaysAreTyped
  <1>4. \A query : IsFiniteSet(DailyOfAds(first, query))
    <2> SUFFICES ASSUME NEW query PROVE IsFiniteSet(DailyOfAds(first, query))
      OBVIOUS
    <2> DEFINE C == [d \in first .. Today |-> AdRows(Window(d, d), query)]
    <2>1. \A d \in first .. Today : IsFiniteSet(C[d])
      BY <1>1
    <2>2. UnitsOf(C, first .. Today) = DailyOfAds(first, query)
      BY DEF UnitsOf, DailyOfAds
    <2> HIDE DEF C
    <2>3. QED BY <1>3, <2>1, <2>2, UnitsAreFinite
  <1>5. IsFiniteSet(DailyOfCampaign(first))
    <2> DEFINE C == [d \in first .. Today |-> CampaignRows(Window(d, d))]
    <2>1. \A d \in first .. Today : IsFiniteSet(C[d])
      BY <1>2
    <2>2. UnitsOf(C, first .. Today) = DailyOfCampaign(first)
      BY DEF UnitsOf, DailyOfCampaign
    <2> HIDE DEF C
    <2>3. QED BY <1>3, <2>1, <2>2, UnitsAreFinite
  <1>6. QED
    <2>1. CASE rows = DailyOfAds(first, "ads") \/ rows = DailyOfAds(first, "placements")
      BY <1>4, <2>1
    <2>2. CASE rows = DailyOfAds(first, "ads") \cup DailyOfCampaign(first)
      BY <1>4, <1>5, <2>2, FS_Union
    <2>3. CASE \E n \in ReachLengths :
                   rows = DailyOfAds(first, "ads") \cup AdRows(WindowEnding(Today, n), "reach")
      BY <1>1, <1>4, <2>3, FS_Union
    <2>4. QED BY <2>1, <2>2, <2>3, KindsOfExport

(* The three kinds of rows.                                                *)
OfAd(r, first, query) ==
    \E a \in Ads, d \in first .. Today :
        Live(a, Window(d, d)) # {} /\ IsRowOf(r, {a}, Window(d, d), a, query)

OfCampaign(r, first) ==
    \E d \in first .. Today : IsRowOf(r, Ads, Window(d, d), Campaign, "campaigns")

OfReach(r) ==
    \E a \in Ads, n \in ReachLengths : IsRowOf(r, {a}, WindowEnding(Today, n), a, "reach")

LEMMA RowsOfExport ==
    ASSUME DaysAreTyped, NEW first \in FirstDays, NEW rows \in Exports(first), NEW r \in rows
    PROVE  /\ r.start \in Int /\ r.stop \in 1 .. Today /\ r.start <= r.stop
           /\ OfAd(r, first, "ads") \/ OfAd(r, first, "placements") \/ OfCampaign(r, first) \/ OfReach(r)
  <1>1. first \in 1 .. LastDay /\ Today \in Nat /\ \A d \in first .. Today : d \in 1 .. Today
    BY ReportsAssumption DEF DaysAreTyped
  <1>2. ASSUME NEW query, OfAd(r, first, query)
        PROVE  r.start \in Int /\ r.stop \in 1 .. Today /\ r.start <= r.stop
    <2>1. PICK a \in Ads, d \in first .. Today : IsRowOf(r, {a}, Window(d, d), a, query)
      BY <1>2 DEF OfAd
    <2>2. r.start = d /\ r.stop = d
      BY <2>1 DEF IsRowOf, Window
    <2>3. QED BY <1>1, <2>2
  <1>3. ASSUME OfCampaign(r, first)
        PROVE  r.start \in Int /\ r.stop \in 1 .. Today /\ r.start <= r.stop
    <2>1. PICK d \in first .. Today : IsRowOf(r, Ads, Window(d, d), Campaign, "campaigns")
      BY <1>3 DEF OfCampaign
    <2>2. r.start = d /\ r.stop = d
      BY <2>1 DEF IsRowOf, Window
    <2>3. QED BY <1>1, <2>2
  <1>4. ASSUME NEW n \in ReachLengths, r \in AdRows(WindowEnding(Today, n), "reach")
        PROVE  OfReach(r) /\ r.start \in Int /\ r.stop \in 1 .. Today /\ r.start <= r.stop
    <2>1. PICK a \in Ads : Live(a, WindowEnding(Today, n)) # {}
                          /\ IsRowOf(r, {a}, WindowEnding(Today, n), a, "reach")
      BY <1>4, RowsOfAd
    <2>2. r.start = Today - n + 1 /\ r.stop = Today /\ n \in Nat \ {0}
      BY <2>1, ReportsAssumption DEF IsRowOf, WindowEnding, Window
    <2>3. Today # 0
      BY <1>1, <2>1 DEF Live
    <2>4. OfReach(r)
      BY <2>1 DEF OfReach
    <2>5. r.start \in Int /\ r.stop \in 1 .. Today /\ r.start <= r.stop
      BY <1>1, <2>2, <2>3
    <2>6. QED BY <2>4, <2>5
  <1>5. /\ \A query : r \in DailyOfAds(first, query) => OfAd(r, first, query)
        /\ r \in DailyOfCampaign(first) => OfCampaign(r, first)
    BY DailyRowsOfAds, DailyRowsOfCampaign DEF OfAd, OfCampaign
  <1>6. \/ r \in DailyOfAds(first, "ads") \/ r \in DailyOfAds(first, "placements")
        \/ r \in DailyOfCampaign(first)
        \/ \E n \in ReachLengths : r \in AdRows(WindowEnding(Today, n), "reach")
    BY KindsOfExport
  <1>7. QED
    BY <1>2, <1>3, <1>4, <1>5, <1>6

(* The rows of ads come from one request.                                  *)
OfRequest(rows, first, query) ==
    /\ \A r \in rows : OfAd(r, first, query) \/ OfCampaign(r, first) \/ OfReach(r)
    /\ query = "placements" => \A r \in rows : OfAd(r, first, query)
    /\ \A a \in Ads, d \in first .. Today : Live(a, Window(d, d)) # {} =>
          \E r \in rows : IsRowOf(r, {a}, Window(d, d), a, query)

LEMMA RequestOfExport ==
    ASSUME DaysAreTyped, NEW first \in FirstDays, NEW rows \in Exports(first)
    PROVE  \E query \in {"ads", "placements"} : OfRequest(rows, first, query)
  <1>1. \A query : \A r \in DailyOfAds(first, query) : OfAd(r, first, query)
    BY DailyRowsOfAds DEF OfAd
  <1>2. \A r \in DailyOfCampaign(first) : OfCampaign(r, first)
    BY DailyRowsOfCampaign DEF OfCampaign
  <1>3. \A n \in ReachLengths : \A r \in AdRows(WindowEnding(Today, n), "reach") : OfReach(r)
    BY RowsOfAd DEF OfReach
  <1>4. \A query : \A a \in Ads, d \in first .. Today : Live(a, Window(d, d)) # {} =>
            \E r \in DailyOfAds(first, query) : IsRowOf(r, {a}, Window(d, d), a, query)
    BY DailyRowsOfAds
  <1>5. CASE rows = DailyOfAds(first, "placements")
    BY <1>1, <1>4, <1>5 DEF OfRequest
  <1>6. CASE rows = DailyOfAds(first, "ads") \/ rows = DailyOfAds(first, "ads") \cup DailyOfCampaign(first)
    BY <1>1, <1>2, <1>4, <1>6 DEF OfRequest
  <1>7. CASE \E n \in ReachLengths :
                 rows = DailyOfAds(first, "ads") \cup AdRows(WindowEnding(Today, n), "reach")
    BY <1>1, <1>3, <1>4, <1>7 DEF OfRequest
  <1>8. QED
    BY <1>5, <1>6, <1>7, KindsOfExport

LEMMA ExportIsReal ==
    ASSUME DaysAreTyped, NEW first \in FirstDays, NEW rows \in Exports(first)
    PROVE  /\ RowsHaveDays(rows, Today)
           /\ 1 \notin ReachLengths =>
                 /\ RowsAreReal(rows) /\ OneRowADay(rows) /\ NoneIsMissing(rows) /\ PlacesAreDaily(rows)
                 /\ ResultsAreCurrent(rows)
  <1>1. RowsHaveDays(rows, Today)
    <2>1. first \in Int
      BY ReportsAssumption
    <2>2. QED BY <2>1, ExportIsFinite, RowsOfExport DEF RowsHaveDays
  <1> SUFFICES ASSUME 1 \notin ReachLengths
               PROVE  /\ RowsAreReal(rows) /\ OneRowADay(rows) /\ NoneIsMissing(rows)
                      /\ PlacesAreDaily(rows) /\ ResultsAreCurrent(rows)
    BY <1>1
  <1>2. PICK query \in {"ads", "placements"} : OfRequest(rows, first, query)
    BY RequestOfExport
  <1>3. first \in Int /\ Today \in Nat
    BY ReportsAssumption DEF DaysAreTyped
  <1>4. \A r \in rows : OfReach(r) => r \notin Daily(rows) /\ r.place = None
    <2> SUFFICES ASSUME NEW r \in rows, OfReach(r) PROVE r \notin Daily(rows) /\ r.place = None
      OBVIOUS
    <2>1. PICK a \in Ads, n \in ReachLengths : IsRowOf(r, {a}, WindowEnding(Today, n), a, "reach")
      BY DEF OfReach
    <2>2. r.start = Today - n + 1 /\ r.stop = Today /\ n \in Nat \ {0} /\ n # 1 /\ r.place = None
      BY <2>1, ReportsAssumption DEF IsRowOf, WindowEnding, Window
    <2>3. QED BY <1>3, <2>2 DEF Daily
  <1>5. ASSUME NEW r \in rows, OfAd(r, first, query)
        PROVE  \E a \in Ads : /\ r.ad = a /\ a # None /\ AdsIn(r) = {a} /\ r.start \in first .. Today
                             /\ r.start = r.stop /\ Live(a, Day(r)) # {}
                             /\ IsRowOf(r, {a}, Day(r), a, query)
    <2>1. PICK a \in Ads, d \in first .. Today :
              Live(a, Window(d, d)) # {} /\ IsRowOf(r, {a}, Window(d, d), a, query)
      BY <1>5 DEF OfAd
    <2>2. a # Campaign /\ a # None
      BY ReportsAssumption
    <2>3. r.start = d /\ r.stop = d /\ r.ad = a /\ AdsIn(r) = {a} /\ Day(r) = Window(d, d)
      BY <2>1, <2>2 DEF IsRowOf, Window, Day
    <2>4. QED BY <2>1, <2>2, <2>3
  <1>6. ASSUME NEW r \in rows, OfCampaign(r, first)
        PROVE  /\ r.ad = None /\ AdsIn(r) = Ads /\ r.start \in first .. Today /\ r.start = r.stop
               /\ IsRowOf(r, Ads, Day(r), Campaign, "campaigns")
    <2>1. PICK d \in first .. Today : IsRowOf(r, Ads, Window(d, d), Campaign, "campaigns")
      BY <1>6 DEF OfCampaign
    <2>2. r.start = d /\ r.stop = d /\ r.ad = None /\ AdsIn(r) = Ads /\ Day(r) = Window(d, d)
      BY <2>1 DEF IsRowOf, Window, Day
    <2>3. QED BY <2>1, <2>2
  <1>7. \A r \in Daily(rows) : r \in rows /\ (OfAd(r, first, query) \/ OfCampaign(r, first))
    BY <1>2, <1>4 DEF OfRequest, Daily
  <1>8. RowsAreReal(rows) /\ ResultsAreCurrent(rows)
    <2> SUFFICES ASSUME NEW r \in Daily(rows)
                 PROVE  /\ r.ad \in Ads \cup {None} /\ (r.ad = None => Level(r) = "campaign")
                        /\ r.spend = SumFor(AdsIn(r), Day(r), "spend")
                        /\ Total(r.actions) = ResultsFor(AdsIn(r), Day(r))
      BY DEF RowsAreReal, ResultsAreCurrent
    <2>1. CASE OfAd(r, first, query)
      <3>1. PICK a \in Ads : r.ad = a /\ a # None /\ AdsIn(r) = {a} /\ IsRowOf(r, {a}, Day(r), a, query)
        BY <1>5, <1>7, <2>1
      <3>2. QED BY <3>1 DEF IsRowOf
    <2>2. CASE OfCampaign(r, first)
      <3>1. r.ad = None /\ AdsIn(r) = Ads /\ IsRowOf(r, Ads, Day(r), Campaign, "campaigns")
        BY <1>6, <1>7, <2>2
      <3>2. QED BY <3>1 DEF IsRowOf
    <2>3. QED BY <1>7, <2>1, <2>2
  <1>9. OneRowADay(rows)
    <2> SUFFICES ASSUME NEW r \in Daily(rows), NEW s \in Daily(rows), r.ad = s.ad, r.start = s.start
                 PROVE  r = s
      BY DEF OneRowADay
    <2>1. r \in rows /\ s \in rows /\ Day(r) = Day(s)
      BY <1>7 DEF Day
    <2>2. CASE r.ad = None
      <3>1. OfCampaign(r, first) /\ OfCampaign(s, first)
        BY <1>5, <1>7, <2>1, <2>2
      <3>2. /\ IsRowOf(r, Ads, Day(r), Campaign, "campaigns")
            /\ IsRowOf(s, Ads, Day(s), Campaign, "campaigns")
        BY <1>6, <2>1, <3>1
      <3>3. QED BY <2>1, <3>2 DEF IsRowOf
    <2>3. CASE r.ad # None
      <3>1. OfAd(r, first, query) /\ OfAd(s, first, query)
        BY <1>6, <1>7, <2>1, <2>3
      <3>2. IsRowOf(r, {r.ad}, Day(r), r.ad, query) /\ IsRowOf(s, {s.ad}, Day(s), s.ad, query)
        BY <1>5, <2>1, <3>1
      <3>3. QED BY <2>1, <3>2 DEF IsRowOf
    <2>4. QED BY <2>2, <2>3
  <1>10. NoneIsMissing(rows)
    <2> SUFFICES ASSUME NEW r \in Daily(rows), NEW a \in Ads, Live(a, Day(r)) # {}
                 PROVE  \E s \in Daily(rows) : /\ s.start = r.start /\ a \in AdsIn(s)
                                               /\ s.ad = None <=> r.ad = None
      BY DEF NoneIsMissing
    <2>1. CASE OfCampaign(r, first)
      BY <1>6, <1>7, <2>1
    <2>2. CASE OfAd(r, first, query)
      <3>1. r.ad # None /\ r.start \in first .. Today
        BY <1>5, <1>7, <2>2
      <3>2. PICK s \in rows : IsRowOf(s, {a}, Day(r), a, query)
        BY <1>2, <3>1 DEF OfRequest, Day
      <3>3. a # Campaign /\ a # None
        BY ReportsAssumption
      <3>4. s.start = r.start /\ s.stop = r.start /\ s.ad = a /\ AdsIn(s) = {a}
        BY <3>2, <3>3 DEF IsRowOf, Day, Window
      <3>5. QED BY <3>1, <3>3, <3>4 DEF Daily
    <2>3. QED BY <1>7, <2>1, <2>2
  <1>11. PlacesAreDaily(rows)
    <2> SUFFICES ASSUME NEW r \in rows, r.place # None PROVE r \in Daily(rows) /\ r.ad # None
      BY DEF PlacesAreDaily
    <2>1. ~ OfCampaign(r, first) /\ ~ OfReach(r)
      BY <1>4, <1>6 DEF IsRowOf
    <2>2. OfAd(r, first, query)
      BY <1>2, <2>1 DEF OfRequest
    <2>3. QED BY <1>5, <2>2 DEF Daily
  <1>12. QED
    BY <1>8, <1>9, <1>10, <1>11

-----------------------------------------------------------------------------
(* What the reports take from a file.                                      *)

LEMMA LevelsAreFew ==
    ASSUME NEW S, S \subseteq {"ad", "adset", "campaign", "account"}, ~ (Cardinality(S) > 1)
    PROVE  \A x, y \in S : x = y
  <1> SUFFICES ASSUME NEW x \in S, NEW y \in S, x # y PROVE FALSE
    OBVIOUS
  <1>1. IsFiniteSet(S)
    <2> DEFINE all == {"ad"} \cup {"adset"} \cup {"campaign"} \cup {"account"}
    <2>1. IsFiniteSet({"ad"} \cup {"adset"})
      BY FS_Singleton, FS_Union
    <2>2. IsFiniteSet({"ad"} \cup {"adset"} \cup {"campaign"})
      BY <2>1, FS_Singleton, FS_Union
    <2>3. IsFiniteSet(all)
      BY <2>2, FS_Singleton, FS_Union
    <2>4. S \subseteq all
      OBVIOUS
    <2> HIDE DEF all
    <2>5. QED BY <2>3, <2>4, FS_Subset
  <1>2. IsFiniteSet({x}) /\ Cardinality({x}) = 1
    BY FS_Singleton
  <1>3. IsFiniteSet({x} \cup {y}) /\ Cardinality({x} \cup {y}) = 2
    BY <1>2, FS_AddElement
  <1>4. {x} \cup {y} \subseteq S
    OBVIOUS
  <1>5. 2 <= Cardinality(S) /\ Cardinality(S) \in Nat
    BY <1>1, <1>3, <1>4, FS_Subset, FS_CardinalityType
  <1>6. QED
    BY <1>5

LEMMA RowsOfOneLevel ==
    ASSUME NEW rows, RowsAreReal(rows), NoneIsMissing(rows), NEW level
    PROVE  OfOneLevel(OneLevel(Daily(rows), level), rows) /\ Whole(OneLevel(Daily(rows), level))
  <1> DEFINE D == Daily(rows)
             R == OneLevel(D, level)
  <1>1. \A r \in D : Level(r) = IF r.ad = None THEN "campaign" ELSE "ad"
    BY DEF RowsAreReal, Level
  <1>2. \/ R = {r \in D : Level(r) = level}
        \/ R = {}
        \/ R = D /\ ~ (Cardinality({Level(r) : r \in D}) > 1)
    BY DEF OneLevel
  <1>3. CASE R = {r \in D : Level(r) = level}
    <2>1. OfOneLevel(R, rows)
      BY <1>1, <1>3 DEF OfOneLevel
    <2>2. Whole(R)
      BY <1>1, <1>3 DEF Whole, NoneIsMissing
    <2>3. QED BY <2>1, <2>2
  <1>4. CASE R = {}
    BY <1>4 DEF OfOneLevel, Whole
  <1>5. CASE R = D /\ ~ (Cardinality({Level(r) : r \in D}) > 1)
    <2> DEFINE S == {Level(r) : r \in D}
    <2>1. S \subseteq {"ad", "adset", "campaign", "account"}
      BY <1>1
    <2>2. \A x, y \in S : x = y
      <3> HIDE DEF S
      <3>1. ~ (Cardinality(S) > 1)
        BY <1>5 DEF S
      <3>2. QED BY <2>1, <3>1, LevelsAreFew
    <2>3. \A r, s \in D : Level(r) = Level(s)
      BY <2>2
    <2>4. OfOneLevel(R, rows)
      BY <1>1, <1>5, <2>3 DEF OfOneLevel
    <2>5. Whole(R)
      BY <1>5 DEF Whole, NoneIsMissing
    <2>6. QED BY <2>4, <2>5
  <1>6. QED
    BY <1>2, <1>3, <1>4, <1>5

LEMMA DatesOfRows ==
    ASSUME NEW rows, NEW today \in Nat, RowsHaveDays(rows, today), NEW R, R \subseteq rows, R # {}
    PROVE  /\ LastOf(R) \in 1 .. today
           /\ R \subseteq Daily(rows) => FirstOf(R) \in 1 .. today
  <1> DEFINE stops == {r.stop : r \in R}
             starts == {r.start : r \in R}
             gaps == {today - e : e \in stops}
  <1>1. stops \subseteq 1 .. today /\ stops # {}
    BY DEF RowsHaveDays
  <1>2. LastOf(R) \in stops
    <2>1. gaps \subseteq Nat /\ gaps # {}
      <3> HIDE DEF stops
      <3>1. \A e \in stops : today - e \in Nat
        BY <1>1
      <3>2. QED BY <1>1, <3>1
    <2>2. PICK g \in gaps : \A k \in gaps : g <= k
      <3> HIDE DEF gaps
      <3>1. QED BY <2>1, LeastMember
    <2>3. PICK e \in stops : g = today - e
      BY <2>2
    <2>4. \A y \in stops : e >= y
      <3> HIDE DEF stops
      <3>1. \A y \in stops : today - e <= today - y
        BY <2>2, <2>3
      <3>2. QED BY <1>1, <3>1
    <2>5. LastOf(R) = CHOOSE x \in stops : \A y \in stops : x >= y
      BY DEF LastOf, Max
    <2> HIDE DEF stops
    <2>6. QED BY <2>4, <2>5
  <1>3. ASSUME R \subseteq Daily(rows) PROVE FirstOf(R) \in 1 .. today
    <2>1. starts \subseteq 1 .. today /\ starts # {}
      BY <1>3 DEF RowsHaveDays, Daily
    <2>2. FirstOf(R) = CHOOSE x \in starts : \A y \in starts : x =< y
      BY DEF FirstOf, Min
    <2> HIDE DEF starts
    <2>3. starts \subseteq Nat
      BY <2>1
    <2>4. PICK e \in starts : \A y \in starts : e <= y
      BY <2>1, <2>3, LeastMember
    <2>5. FirstOf(R) \in starts
      BY <2>2, <2>4
    <2>6. QED BY <2>1, <2>5
  <1>4. QED
    BY <1>1, <1>2, <1>3

LEMMA EndsAreDays ==
    ASSUME NEW rows, NEW today \in Nat, RowsHaveDays(rows, today), NEW R, R \subseteq rows, R # {},
           NEW n \in Nat, NEW end \in {None} \cup 1 .. n
    PROVE  EndOf(end, R) \in Nat
  BY DatesOfRows DEF EndOf

LEMMA ResultsAreASum ==
    ASSUME NEW rows, NEW event, NEW reported
    PROVE  Results(rows, event, reported) \subseteq {ResultsOf(rows)}
  <1>1. \/ Results(rows, event, reported) = {ResultsOf(rows)}
        \/ Results(rows, event, reported) = {}
    BY Zenon DEF Results, ResultsOf
  <1>2. QED
    BY <1>1

LEMMA PartsOfTotals ==
    ASSUME NEW rows, NEW event, NEW reported, NEW covering
    PROVE  /\ TotalsOf(rows, event, reported, covering).spend = SpendOf(rows)
           /\ TotalsOf(rows, event, reported, covering).results = Results(rows, event, reported)
  BY DEF TotalsOf, SpendOf

PeriodOf(rows, days, end, boundary) ==
    IF boundary # None THEN Window(boundary, boundary + days - 1)
                       ELSE WindowEnding(EndOf(end, rows), days)

IsComparison(r, rows, w, event, attribution, today) ==
    /\ r.kind = "compare" /\ r.current = w /\ r.previous = Before(w)
    /\ r.now.spend = SpendOf(Inside(w, rows))
    /\ r.before.spend = SpendOf(Inside(Before(w), rows))
    /\ r.now.results \subseteq {ResultsOf(Inside(w, rows))}
    /\ r.before.results \subseteq {ResultsOf(Inside(Before(w), rows))}
    /\ r.notes = Notes(w, Before(w), rows, event, attribution, today)

LEMMA PartsOfCompare ==
    ASSUME NEW f, NEW days, NEW end, NEW boundary, NEW event, NEW attribution, NEW level, NEW today,
           NEW rows, rows = OneLevel(Daily(f), level), NEW w, w = PeriodOf(rows, days, end, boundary)
    PROVE  LET r == Compare(f, days, end, boundary, event, attribution, level, today)
           IN  \/ rows = {} /\ r = Refused
               \/ rows # {} /\ IsComparison(r, rows, w, event, attribution, today)
  <1> DEFINE r == Compare(f, days, end, boundary, event, attribution, level, today)
             reported == ActionsReported(rows)
             previous == Before(w)
             now == TotalsOf(Inside(w, rows), event, reported, {})
             before == TotalsOf(Inside(previous, rows), event, reported, {})
             notes == Notes(w, previous, rows, event, attribution, today)
             readings == [m \in Rates |-> Reading(m, before, now)]
  <1>1. r = IF rows = {} THEN Refused
            ELSE [kind |-> "compare", current |-> w, previous |-> previous, now |-> now, before |-> before,
                  readings |-> readings, notes |-> notes]
    BY Zenon DEF Compare, PeriodOf
  <1>2. /\ now.spend = SpendOf(Inside(w, rows)) /\ now.results \subseteq {ResultsOf(Inside(w, rows))}
        /\ before.spend = SpendOf(Inside(previous, rows))
        /\ before.results \subseteq {ResultsOf(Inside(previous, rows))}
    BY PartsOfTotals, ResultsAreASum
  <1> HIDE DEF r, now, before, notes, readings
  <1>3. rows # {} => r.kind = "compare" /\ r.current = w /\ r.previous = previous
                     /\ r.now = now /\ r.before = before /\ r.notes = notes
    BY <1>1
  <1>4. rows # {} => IsComparison(r, rows, w, event, attribution, today)
    BY <1>2, <1>3 DEF IsComparison, notes
  <1>5. QED
    BY <1>1, <1>4 DEF r

LEMMA WhatNotesTell ==
    ASSUME NEW w, NEW p, NEW rows, NEW event, NEW attribution, NEW today,
           NEW notes, notes = Notes(w, p, rows, event, attribution, today)
    PROVE  /\ "INCOMPLETE current" \notin notes => \A d \in DaysOf(w) : \E r \in rows : r.start = d
           /\ "INCOMPLETE previous" \notin notes => \A d \in DaysOf(p) : \E r \in rows : r.start = d
           /\ Settled(notes) => attribution # None /\ ~ Open(w, attribution, today)
  <1>1. /\ "INCOMPLETE current" \in notes <=> Incomplete(w, rows)
        /\ "INCOMPLETE previous" \in notes <=> Incomplete(p, rows)
        /\ "ATTRIBUTION NOT STATED" \in notes <=> attribution = None
        /\ "RECENT" \in notes <=> attribution # None /\ Open(w, attribution, today)
    BY DEF Notes
  <1>2. Settled(notes) => "RECENT" \notin notes /\ "ATTRIBUTION NOT STATED" \notin notes
    BY DEF Settled
  <1>3. QED
    BY <1>1, <1>2 DEF Incomplete

-----------------------------------------------------------------------------
(* What the reports show.                                                  *)

IsShown(spend, w, complete) ==
    /\ spend \in Nat
    /\ spend <= SumFor(Ads, w, "spend")
    /\ complete => DaysOf(w) \subseteq 1 .. Today /\ spend = SumFor(Ads, w, "spend")

ComparisonShows(r) ==
    r.kind = "compare" =>
        /\ IsShown(r.now.spend, r.current, "INCOMPLETE current" \notin r.notes)
        /\ IsShown(r.before.spend, r.previous, "INCOMPLETE previous" \notin r.notes)

OthersShow(r) ==
    /\ r.kind = "fatigue" =>
          \A a \in DOMAIN r.ads : a \in Ads /\ r.ads[a].now.spend <= SumFor({a}, r.current, "spend")
    /\ r.kind = "breakdown" => r.now.spend <= SumFor(Ads, r.current, "spend")
    /\ r.kind \in {"daily", "lifetime"} => r.spend <= SumFor(Ads, r.current, "spend")

(* A comparison that is settled is about days whose results are all in.    *)
ResultsAreIn(r) ==
    r.kind = "compare" /\ Settled(r.notes) =>
        /\ r.current.end + AttributionDays < Today /\ r.previous.end + AttributionDays < Today
        /\ "INCOMPLETE current" \notin r.notes =>
              r.now.results \subseteq {ResultsFor(Ads, r.current)}
        /\ "INCOMPLETE previous" \notin r.notes =>
              r.before.results \subseteq {ResultsFor(Ads, r.previous)}

(* The two periods, and the shape of the others.                           *)
PeriodsMeet(r) ==
    r.kind = "compare" =>
        /\ r.current.start \in Int /\ r.current.end \in Int /\ r.current.start <= r.current.end
        /\ r.previous.start \in Int /\ r.previous.end \in Int
        /\ Length(r.previous) = Length(r.current)
        /\ r.previous.end + 1 = r.current.start

RowsAreSound(rows, today) ==
    /\ RowsHaveDays(rows, today) /\ RowsAreReal(rows) /\ OneRowADay(rows) /\ NoneIsMissing(rows)
    /\ PlacesAreDaily(rows)

LEMMA PeriodOfRows ==
    ASSUME NEW rows, NEW today \in Nat, RowsHaveDays(rows, today), NEW R, R \subseteq rows, R # {},
           NEW n \in Nat, NEW end \in {None} \cup 1 .. n, NEW boundary \in {None} \cup 1 .. n,
           NEW days \in Nat \ {0}
    PROVE  LET w == PeriodOf(R, days, end, boundary)
               p == Before(w)
           IN  /\ w.start \in Int /\ w.end \in Int /\ w.start <= w.end
               /\ p.start \in Int /\ p.end \in Int /\ Length(p) = Length(w) /\ p.end + 1 = w.start
  <1> DEFINE w == PeriodOf(R, days, end, boundary)
             p == Before(w)
  <1>1. w.start \in Int /\ w.end \in Int /\ w.start <= w.end
    <2>1. CASE boundary # None
      BY <2>1 DEF PeriodOf, Window
    <2>2. CASE boundary = None
      <3>1. EndOf(end, R) \in Nat
        BY EndsAreDays
      <3>2. w = Window(EndOf(end, R) - days + 1, EndOf(end, R))
        BY <2>2 DEF PeriodOf, WindowEnding
      <3> HIDE DEF w
      <3>3. QED BY <3>1, <3>2 DEF Window
    <2>3. QED BY <2>1, <2>2
  <1> HIDE DEF w
  <1>2. p.start = w.start - 1 - (w.end - w.start + 1) + 1 /\ p.end = w.start - 1
    BY DEF Before, WindowEnding, Window, Length
  <1> HIDE DEF p
  <1>3. p.start \in Int /\ p.end \in Int /\ Length(p) = Length(w) /\ p.end + 1 = w.start
    BY <1>1, <1>2 DEF Length
  <1>4. QED
    BY <1>1, <1>3 DEF w, p

(* One level of a file shows no more than was delivered, and all of it     *)
(* when it has every day.                                                  *)
LEMMA LevelIsShown ==
    ASSUME DaysAreTyped, NEW rows, NEW today, today \in 0 .. Today, RowsAreSound(rows, today), NEW level,
           NEW R, R = OneLevel(Daily(rows), level), NEW w, w.start \in Int, w.end \in Int
    PROVE  /\ SpendOf(Inside(w, R)) \in Nat
           /\ SpendOf(Inside(w, R)) <= SumFor(Ads, w, "spend")
           /\ (\A d \in DaysOf(w) : \E r \in R : r.start = d) =>
                 /\ DaysOf(w) \subseteq 1 .. Today
                 /\ SpendOf(Inside(w, R)) = SumFor(Ads, w, "spend")
                 /\ ResultsAreCurrent(rows) => ResultsOf(Inside(w, R)) = ResultsFor(Ads, w)
  <1>1. OfOneLevel(R, rows) /\ Whole(R) /\ R \subseteq Daily(rows)
    BY RowsOfOneLevel DEF RowsAreSound, OfOneLevel
  <1>2. \A r \in R : AdsIn(r) \subseteq Ads /\ r.start \in 1 .. Today
    BY <1>1, AdsOfRows DEF RowsAreSound, RowsHaveDays, Daily, DaysAreTyped
  <1>3. RowsHaveDays(rows, today) /\ RowsAreReal(rows) /\ OneRowADay(rows)
    BY DEF RowsAreSound
  <1>4. /\ SpendOf(Inside(w, R)) \in Nat
        /\ SpendOf(Inside(w, R)) <= SumFor(Ads, w, "spend")
        /\ Whole(R) /\ (\A d \in DaysOf(w) : \E r \in R : r.start = d)
              => SpendOf(Inside(w, R)) = SumFor(Ads, w, "spend")
    BY <1>1, <1>2, <1>3, SpendOfRows
  <1>5. ASSUME \A d \in DaysOf(w) : \E r \in R : r.start = d
        PROVE  /\ DaysOf(w) \subseteq 1 .. Today
               /\ ResultsAreCurrent(rows) => ResultsOf(Inside(w, R)) = ResultsFor(Ads, w)
    <2>1. DaysOf(w) \subseteq 1 .. Today
      BY <1>2, <1>5
    <2>2. ResultsAreCurrent(rows) => ResultsOf(Inside(w, R)) = ResultsFor(Ads, w)
      BY <1>1, <1>3, <1>5, ResultsOfRows
    <2>3. QED BY <2>1, <2>2
  <1>6. QED
    BY <1>1, <1>4, <1>5

LEMMA CompareShows ==
    ASSUME DaysAreTyped, NEW rows, NEW today, today \in 0 .. Today, RowsHaveDays(rows, today),
           NEW n \in Nat, NEW end \in {None} \cup 1 .. n, NEW boundary \in {None} \cup 1 .. n,
           NEW days \in Nat \ {0}, NEW event, NEW attribution \in {None, AttributionDays}, NEW level,
           NEW r, r = Compare(rows, days, end, boundary, event, attribution, level, Today)
    PROVE  /\ r.kind \in {"refused", "compare"} /\ PeriodsMeet(r)
           /\ RowsAreSound(rows, today) =>
                 /\ ComparisonShows(r) /\ OthersShow(r)
                 /\ ResultsAreCurrent(rows) => ResultsAreIn(r)
  <1> DEFINE R == OneLevel(Daily(rows), level)
             w == PeriodOf(R, days, end, boundary)
             p == Before(w)
  <1>1. \/ R = {} /\ r = Refused
        \/ R # {} /\ IsComparison(r, R, w, event, attribution, Today)
    BY PartsOfCompare
  <1>2. CASE R = {} /\ r = Refused
    BY <1>2 DEF Refused, PeriodsMeet, ComparisonShows, OthersShow, ResultsAreIn
  <1>3. CASE R # {} /\ IsComparison(r, R, w, event, attribution, Today)
    <2>1. R \subseteq rows /\ today \in Nat /\ Today \in Nat
      BY DEF OneLevel, Daily, DaysAreTyped
    <2>2. /\ w.start \in Int /\ w.end \in Int /\ w.start <= w.end
          /\ p.start \in Int /\ p.end \in Int /\ Length(p) = Length(w) /\ p.end + 1 = w.start
      <3> HIDE DEF R
      <3>1. QED BY <1>3, <2>1, PeriodOfRows
    <2> HIDE DEF w, R, p
    <2>3. /\ r.kind = "compare" /\ r.current = w /\ r.previous = p
          /\ r.now.spend = SpendOf(Inside(w, R)) /\ r.before.spend = SpendOf(Inside(p, R))
          /\ r.now.results \subseteq {ResultsOf(Inside(w, R))}
          /\ r.before.results \subseteq {ResultsOf(Inside(p, R))}
          /\ r.notes = Notes(w, p, R, event, attribution, Today)
      BY <1>3 DEF IsComparison, p
    <2>4. PeriodsMeet(r)
      BY <2>2, <2>3 DEF PeriodsMeet
    <2>5. /\ "INCOMPLETE current" \notin r.notes => \A d \in DaysOf(w) : \E x \in R : x.start = d
          /\ "INCOMPLETE previous" \notin r.notes => \A d \in DaysOf(p) : \E x \in R : x.start = d
          /\ Settled(r.notes) => attribution # None /\ ~ Open(w, attribution, Today)
      <3> DEFINE notes == Notes(w, p, R, event, attribution, Today)
      <3>1. /\ "INCOMPLETE current" \notin notes => \A d \in DaysOf(w) : \E x \in R : x.start = d
            /\ "INCOMPLETE previous" \notin notes => \A d \in DaysOf(p) : \E x \in R : x.start = d
            /\ Settled(notes) => attribution # None /\ ~ Open(w, attribution, Today)
        BY WhatNotesTell
      <3>2. r.notes = notes
        BY <2>3
      <3> HIDE DEF notes
      <3>3. QED BY <3>1, <3>2
    <2>6. ASSUME RowsAreSound(rows, today) PROVE ComparisonShows(r)
      <3>1. \A v : v.start \in Int /\ v.end \in Int =>
                /\ SpendOf(Inside(v, R)) \in Nat
                /\ SpendOf(Inside(v, R)) <= SumFor(Ads, v, "spend")
                /\ (\A d \in DaysOf(v) : \E x \in R : x.start = d) =>
                      /\ DaysOf(v) \subseteq 1 .. Today
                      /\ SpendOf(Inside(v, R)) = SumFor(Ads, v, "spend")
        BY <2>6, LevelIsShown DEF R
      <3>2. IsShown(r.now.spend, r.current, "INCOMPLETE current" \notin r.notes)
        <4>1. /\ SpendOf(Inside(w, R)) \in Nat
              /\ SpendOf(Inside(w, R)) <= SumFor(Ads, w, "spend")
              /\ (\A d \in DaysOf(w) : \E x \in R : x.start = d) =>
                    /\ DaysOf(w) \subseteq 1 .. Today
                    /\ SpendOf(Inside(w, R)) = SumFor(Ads, w, "spend")
          BY <2>2, <3>1
        <4>2. r.now.spend = SpendOf(Inside(w, R)) /\ r.current = w
          BY <2>3
        <4>3. QED BY <2>5, <4>1, <4>2 DEF IsShown
      <3>3. IsShown(r.before.spend, r.previous, "INCOMPLETE previous" \notin r.notes)
        <4>1. /\ SpendOf(Inside(p, R)) \in Nat
              /\ SpendOf(Inside(p, R)) <= SumFor(Ads, p, "spend")
              /\ (\A d \in DaysOf(p) : \E x \in R : x.start = d) =>
                    /\ DaysOf(p) \subseteq 1 .. Today
                    /\ SpendOf(Inside(p, R)) = SumFor(Ads, p, "spend")
          BY <2>2, <3>1
        <4>2. r.before.spend = SpendOf(Inside(p, R)) /\ r.previous = p
          BY <2>3
        <4>3. QED BY <2>5, <4>1, <4>2 DEF IsShown
      <3>4. QED BY <3>2, <3>3 DEF ComparisonShows
    <2>7. ASSUME RowsAreSound(rows, today), ResultsAreCurrent(rows) PROVE ResultsAreIn(r)
      <3>1. \A v : (/\ v.start \in Int /\ v.end \in Int
                   /\ \A d \in DaysOf(v) : \E x \in R : x.start = d)
                => ResultsOf(Inside(v, R)) = ResultsFor(Ads, v)
        BY <2>7, LevelIsShown DEF R
      <3>2. Settled(r.notes) => w.end + AttributionDays < Today /\ p.end + AttributionDays < Today
        <4>1. AttributionDays \in Nat
          BY ReportsAssumption
        <4>2. Settled(r.notes) => attribution = AttributionDays /\ ~ (w.end - (Today - attribution) >= 0)
          BY <2>5 DEF Open
        <4>3. p.end < w.end
          BY <2>2
        <4>4. QED BY <2>1, <2>2, <4>1, <4>2, <4>3
      <3>3. QED BY <2>2, <2>3, <2>5, <3>1, <3>2 DEF ResultsAreIn
    <2>8. OthersShow(r)
      BY <2>3 DEF OthersShow
    <2>9. QED BY <2>3, <2>4, <2>6, <2>7, <2>8
  <1>4. QED
    BY <1>1, <1>2, <1>3

LEMMA PartsOfAssess ==
    ASSUME NEW rows, NEW w, NEW covering
    PROVE  AssessOne(rows, w, covering).now.spend = SpendOf(Inside(w, rows))
  <1> DEFINE now == TotalsOf(Inside(w, rows), FALSE, FALSE, covering)
             baseline == Baseline(rows, w)
             best == CtrOf(rows, baseline)
             change == PctChange(best, Rate(now, "ctr"))
             declined == {Leq(c, Dec(-DeclinePct)) : c \in change}
             started == IF TRUE \in declined
                        THEN UNION {DeclineStart(rows, baseline, w, c) : c \in best} ELSE {}
             frequent == {Less(Dec(Ceiling), f) :
                             f \in IF Ceiling = None THEN {} ELSE Rate(now, "frequency")}
             since == {MapThenSumSet(LAMBDA r : r.spend, {r \in rows : r.start >= d}) : d \in started}
             few == now.clicks < MinClicks \/ Eligible(rows, w) = {}
  <1>1. AssessOne(rows, w, covering) =
            IF few THEN Unassessed(now)
            ELSE [status |-> "assessed", now |-> now, baseline |-> {baseline}, declined |-> declined,
                  frequent |-> frequent, started |-> started, since |-> since]
    BY Zenon DEF AssessOne
  <1>2. now.spend = SpendOf(Inside(w, rows))
    BY PartsOfTotals
  <1> HIDE DEF now, baseline, declined, frequent, started, since, few
  <1>3. AssessOne(rows, w, covering).now = now
    BY <1>1 DEF Unassessed
  <1>4. QED
    BY <1>2, <1>3

LEMMA FatigueShows ==
    ASSUME DaysAreTyped, NEW rows, NEW today, today \in 0 .. Today, RowsAreSound(rows, today),
           NEW n \in Nat, NEW end \in {None} \cup 1 .. n, NEW days \in Nat \ {0},
           NEW r, r = Fatigue(rows, days, end)
    PROVE  OthersShow(r)
  <1> DEFINE about == {x \in rows : x.ad # None}
             daily == Daily(about)
             w == WindowEnding(EndOf(end, daily), days)
             names == {x.ad : x \in daily}
             Of(a) == {x \in daily : x.ad = a}
             ads == [a \in names |-> AssessOne(Of(a), w, Covering(about, w, a))]
             setOf == [a \in names |-> (CHOOSE x \in daily : x.ad = a).adset]
             siblings == Siblings(ads, setOf)
  <1>1. r = IF daily = {} THEN Refused
            ELSE [kind |-> "fatigue", current |-> w, ads |-> ads, siblings |-> siblings]
    BY Zenon DEF Fatigue
  <1>2. CASE daily = {}
    <2> HIDE DEF daily, ads, w, siblings
    <2>1. QED BY <1>1, <1>2 DEF OthersShow, Refused
  <1>3. CASE daily # {}
    <2>1. r.kind = "fatigue" /\ r.current = w /\ r.ads = ads
      <3> HIDE DEF daily, ads, w, siblings
      <3>1. QED BY <1>1, <1>3
    <2>2. daily \subseteq Daily(rows) /\ Daily(rows) \subseteq rows
      BY DEF Daily
    <2>3. w.start \in Int /\ w.end \in Int
      <3>1. today \in Nat /\ RowsHaveDays(rows, today) /\ daily \subseteq rows
        BY <2>2 DEF DaysAreTyped, RowsAreSound
      <3> HIDE DEF daily
      <3>2. EndOf(end, daily) \in Nat
        BY <1>3, <3>1, EndsAreDays
      <3>3. QED BY <3>2 DEF WindowEnding, Window
    <2>4. ASSUME NEW a \in names PROVE a \in Ads /\ ads[a].now.spend <= SumFor({a}, w, "spend")
      <3>1. a \in Ads /\ a # None
        BY <2>2 DEF RowsAreSound, RowsAreReal, Daily
      <3>2. OfOneLevel(Of(a), rows) /\ \A x \in Of(a) : AdsIn(x) \subseteq {a}
        BY <2>2, <3>1 DEF OfOneLevel, AdsIn
      <3>3. ads[a].now.spend = SpendOf(Inside(w, Of(a)))
        BY PartsOfAssess
      <3>4. RowsHaveDays(rows, today) /\ RowsAreReal(rows) /\ OneRowADay(rows)
        BY DEF RowsAreSound
      <3> HIDE DEF w, Of, ads
      <3>5. SpendOf(Inside(w, Of(a))) <= SumFor({a}, w, "spend")
        BY <2>3, <3>1, <3>2, <3>4, SpendOfRows
      <3>6. QED BY <3>1, <3>3, <3>5
    <2>5. DOMAIN r.ads = names
      BY <2>1
    <2> HIDE DEF names, ads, w
    <2>6. QED BY <2>1, <2>4, <2>5 DEF OthersShow
  <1>4. QED
    BY <1>2, <1>3

LEMMA BreakdownShows ==
    ASSUME DaysAreTyped, NEW rows, NEW today, today \in 0 .. Today, RowsAreSound(rows, today),
           NEW n \in Nat, NEW end \in {None} \cup 1 .. n, NEW days, days = None \/ days \in Nat \ {0},
           NEW event, NEW level, NEW r, r = Breakdown(rows, days, end, event, level)
    PROVE  OthersShow(r)
  <1> DEFINE R == OneLevel(rows, level)
             w == IF days = None THEN Window(FirstOf(R), LastOf(R))
                                 ELSE WindowEnding(EndOf(end, R), days)
             kept == Inside(w, R)
             Sum(S) == TotalsOf(S, event, ActionsReported(kept), {})
             m == IF event /\ Total(Sum(kept).results) > 0 THEN "cpa" ELSE "cpc"
             places == [p \in {x.place : x \in kept} |->
                            LET t == Sum({x \in kept : x.place = p})
                            IN [totals |-> t, reading |-> PlacementReading(t, Sum(kept), m)]]
             refused == (\E x \in rows : x.place = None) \/ R = {} \/ kept = {}
             now == Sum(kept)
  <1>1. r = IF refused THEN Refused
            ELSE [kind |-> "breakdown", current |-> w, now |-> now, metric |-> m, places |-> places]
    BY Zenon DEF Breakdown
  <1>2. now.spend = SpendOf(Inside(w, R))
    BY PartsOfTotals
  <1>3. CASE refused
    <2> HIDE DEF refused, w, now, m, places
    <2>1. QED BY <1>1, <1>3 DEF OthersShow, Refused
  <1>4. CASE ~ refused
    <2>1. r.kind = "breakdown" /\ r.current = w /\ r.now = now
      <3> HIDE DEF refused, w, now, m, places
      <3>1. QED BY <1>1, <1>4
    <2>2. Daily(rows) = rows
      BY <1>4 DEF RowsAreSound, PlacesAreDaily, Daily
    <2>3. R = OneLevel(Daily(rows), level) /\ R \subseteq rows /\ R # {} /\ R \subseteq Daily(rows)
      BY <1>4, <2>2 DEF OneLevel
    <2>4. w.start \in Int /\ w.end \in Int
      <3>1. today \in Nat /\ RowsHaveDays(rows, today)
        BY DEF DaysAreTyped, RowsAreSound
      <3> HIDE DEF R
      <3>2. FirstOf(R) \in Int /\ LastOf(R) \in Int /\ EndOf(end, R) \in Int
        BY <2>3, <3>1, DatesOfRows, EndsAreDays
      <3>3. QED BY <3>2 DEF WindowEnding, Window
    <2> HIDE DEF w, R, now
    <2>5. SpendOf(Inside(w, R)) <= SumFor(Ads, w, "spend")
      BY <2>3, <2>4, LevelIsShown
    <2>6. QED BY <1>2, <2>1, <2>5 DEF OthersShow
  <1>5. QED
    BY <1>3, <1>4

LEMMA PaceDailyShows ==
    ASSUME DaysAreTyped, NEW rows, NEW today, today \in 0 .. Today, RowsAreSound(rows, today),
           NEW n \in Nat, NEW start \in {None} \cup 1 .. n, NEW end \in {None} \cup 1 .. n,
           NEW budget, NEW level, NEW r, r = PaceDaily(rows, budget, start, end, level)
    PROVE  OthersShow(r)
  <1> DEFINE R == OneLevel(Daily(rows), level)
             w == Window(IF start = None THEN FirstOf(R) ELSE start, EndOf(end, R))
             spent == [d \in {x.start : x \in Inside(w, R)} |-> SpendIn(Window(d, d), R)]
             share(d) == Times(Over(Dec(spent[d]), Dec(budget)), Dec(100))
             refused == R = {} \/ Length(w) < 1
             spend == SpendIn(w, R)
             allowed == budget * Length(w)
             low == {d \in DOMAIN spent : Less(share(d), Dec(50))}
             high == {d \in DOMAIN spent : Less(Dec(150), share(d))}
             missing == DaysOf(w) \ DOMAIN spent
  <1>1. r = IF refused THEN Refused
            ELSE [kind |-> "daily", current |-> w, spend |-> spend, allowed |-> allowed,
                  low |-> low, high |-> high, missing |-> missing]
    BY Zenon DEF PaceDaily
  <1>2. spend = SpendOf(Inside(w, R))
    BY DEF SpendIn, SpendOf
  <1>3. CASE refused
    <2> HIDE DEF refused, w, spend, allowed, low, high, missing
    <2>1. QED BY <1>1, <1>3 DEF OthersShow, Refused
  <1>4. CASE ~ refused
    <2>1. r.kind = "daily" /\ r.current = w /\ r.spend = spend
      <3> HIDE DEF refused, w, spend, allowed, low, high, missing
      <3>1. QED BY <1>1, <1>4
    <2>2. R \subseteq Daily(rows) /\ R \subseteq rows /\ R # {}
      BY <1>4 DEF OneLevel, Daily
    <2>3. w.start \in Int /\ w.end \in Int
      <3>1. today \in Nat /\ RowsHaveDays(rows, today)
        BY DEF DaysAreTyped, RowsAreSound
      <3> HIDE DEF R
      <3>2. FirstOf(R) \in Int /\ EndOf(end, R) \in Int
        BY <2>2, <3>1, DatesOfRows, EndsAreDays
      <3>3. QED BY <3>2 DEF Window
    <2> HIDE DEF w, R, spend
    <2>4. SpendOf(Inside(w, R)) <= SumFor(Ads, w, "spend")
      BY <2>3, LevelIsShown DEF R
    <2>5. QED BY <1>2, <2>1, <2>4 DEF OthersShow
  <1>5. QED
    BY <1>3, <1>4

LEMMA PaceLifetimeShows ==
    ASSUME DaysAreTyped, NEW rows, NEW today, today \in 0 .. Today, RowsAreSound(rows, today),
           rows # {}, NEW n \in Nat, NEW given \in {None} \cup 1 .. n, NEW v \in Schedules,
           NEW budget, NEW level, NEW r, r = PaceLifetime(rows, budget, v, EndOf(given, rows), level)
    PROVE  OthersShow(r)
  <1> DEFINE as_of == EndOf(given, rows)
             R == OneLevel(Daily(rows), level)
             w == Window(v.start, Lower(v.end, as_of))
             spend == SpendIn(w, R)
             gone == Elapsed(v, as_of)
             expected == Over(Times(Dec(budget), Dec(gone)), Dec(Length(v)))
             pace == {Times(Over(Dec(spend), x), Dec(100)) : x \in {y \in {expected} : y.n # 0}}
             projected == {Times(Over(Dec(spend), Dec(g)), Dec(Length(v))) : g \in {gone} \ {0}}
             to_finish == {Over(Dec(budget - spend), Dec(l)) : l \in {Length(v) - gone} \ {0}}
             refused == R = {} \/ Length(v) < 1
             days == Length(v)
  <1>1. r = IF refused THEN Refused
            ELSE [kind |-> "lifetime", current |-> w, spend |-> spend, days |-> days,
                  pace |-> pace, projected |-> projected, to_finish |-> to_finish]
    BY Zenon DEF PaceLifetime
  <1>2. spend = SpendOf(Inside(w, R))
    BY DEF SpendIn, SpendOf
  <1>3. CASE refused
    <2> HIDE DEF refused, w, spend, days, pace, projected, to_finish
    <2>1. QED BY <1>1, <1>3 DEF OthersShow, Refused
  <1>4. CASE ~ refused
    <2>1. r.kind = "lifetime" /\ r.current = w /\ r.spend = spend
      <3> HIDE DEF refused, w, spend, days, pace, projected, to_finish
      <3>1. QED BY <1>1, <1>4
    <2>2. w.start \in Int /\ w.end \in Int
      <3>1. today \in Nat /\ RowsHaveDays(rows, today)
        BY DEF DaysAreTyped, RowsAreSound
      <3>2. as_of \in Int
        BY <3>1, EndsAreDays
      <3>3. v.start \in Int /\ v.end \in Int
        BY ReportsAssumption
      <3> HIDE DEF as_of
      <3>4. QED BY <3>2, <3>3 DEF Window, Lower
    <2> HIDE DEF w, R, spend
    <2>3. SpendOf(Inside(w, R)) <= SumFor(Ads, w, "spend")
      BY <2>2, LevelIsShown DEF R
    <2>4. QED BY <1>2, <2>1, <2>3 DEF OthersShow
  <1>5. QED
    BY <1>3, <1>4

-----------------------------------------------------------------------------
(* The inductive invariant.  An export is of the days up to its own, and a *)
(* report of one that is up to date counts what its rows count; a kept     *)
(* comparison is of days that nothing changes any more.                    *)

DeliveriesAreKnown ==
    \A a \in Ads, d \in 1 .. Today :
        delivered[a][d] \in Outcomes[a][d] /\ results[a][d] \in 0 .. MaxResults[a]

FileIsSound ==
    /\ exported \in 0 .. Today
    /\ RowsHaveDays(file, exported)
    /\ 1 \notin ReachLengths => RowsAreSound(file, exported)
    /\ 1 \notin ReachLengths /\ ~ OldExports => ResultsAreCurrent(file)

ReportIsSound ==
    /\ report.kind \in {"none", "refused", "compare", "fatigue", "breakdown", "daily", "lifetime"}
    /\ PeriodsMeet(report)
    /\ 1 \notin ReachLengths => ComparisonShows(report) /\ OthersShow(report)
    /\ 1 \notin ReachLengths /\ ~ OldExports => ResultsAreIn(report)

IInv == DaysAreTyped /\ DeliveriesAreKnown /\ FileIsSound /\ ReportIsSound

LEMMA TodayIsADay ==
    (CHOOSE a \in Ads : TRUE) \in Ads
  BY ReportsAssumption

LEMMA OutcomesAreCounts ==
    ASSUME NEW a \in Ads, NEW d \in 1 .. LastDay
    PROVE  Outcomes[a][d] \subseteq Counts
  BY ReportsAssumption DEF Counts

LEMMA EmptyIsSound ==
    /\ \A n : RowsHaveDays({}, n)
    /\ RowsAreReal({}) /\ OneRowADay({}) /\ NoneIsMissing({}) /\ PlacesAreDaily({})
    /\ ResultsAreCurrent({})
  BY FS_EmptySet DEF RowsHaveDays, RowsAreReal, OneRowADay, NoneIsMissing, PlacesAreDaily,
                     ResultsAreCurrent, Daily

LEMMA InitInv == Init => IInv
  <1> SUFFICES ASSUME Init PROVE IInv
    OBVIOUS
  <1>1. Today = 0
    BY TodayIsADay DEF Init, Today
  <1>2. DaysAreTyped
    BY <1>1, ReportsAssumption DEF Init, DaysAreTyped
  <1>3. DeliveriesAreKnown
    BY <1>1 DEF DeliveriesAreKnown
  <1>4. FileIsSound
    BY <1>1, EmptyIsSound DEF Init, FileIsSound, RowsAreSound
  <1>5. ReportIsSound
    BY DEF Init, ReportIsSound, NoReport, PeriodsMeet, ComparisonShows, OthersShow, ResultsAreIn
  <1>6. QED
    BY <1>2, <1>3, <1>4, <1>5 DEF IInv

LEMMA SumsAreNumbersNext ==
    DaysAreTyped' =>
        \A ads \in SUBSET Ads : \A w : SumFor(ads, w, "spend")' \in Nat
  BY SumsAreUnitsNext, FS_CardinalityType

(* Rows stay what they are while the days they are of do.                  *)
LEMMA RowsStay ==
    ASSUME DaysAreTyped, DaysAreTyped', PastIsKept, NEW rows, NEW today, today \in 0 .. Today,
           RowsHaveDays(rows, today), file' = rows, exported' = today
    PROVE  /\ exported' \in 0 .. Today' /\ RowsHaveDays(file, exported)'
           /\ RowsAreSound(rows, today) => RowsAreSound(file, exported)'
           /\ RowsAreReal(rows) /\ ResultsAreCurrent(rows)
                 /\ (\A a \in Ads, d \in 1 .. Today : results'[a][d] = results[a][d])
                 => ResultsAreCurrent(file)'
  <1>1. Today \in Nat /\ Today' \in Nat /\ Today <= Today' /\ today \in Nat
    BY DEF DaysAreTyped, PastIsKept
  <1>2. RowsHaveDays(file, exported)'
    BY DEF RowsHaveDays
  <1>3. \A r \in Daily(rows) : r.start \in 1 .. Today /\ DaysOf(Day(r)) = {r.start}
    BY <1>1 DEF RowsHaveDays, Daily, DaysOf, Day, Window
  <1>4. \A r \in Daily(rows) : DaysOf(Day(r)) \cap (1 .. Today') \subseteq 1 .. Today
    BY <1>3
  <1>5. RowsAreReal(rows) => \A r \in Daily(rows) : AdsIn(r) \in SUBSET Ads
    BY AdsOfRows
  <1>6. ASSUME RowsAreReal(rows) PROVE RowsAreReal(file)'
    <2>1. \A r \in Daily(rows) : SumFor(AdsIn(r), Day(r), "spend")' = SumFor(AdsIn(r), Day(r), "spend")
      BY <1>4, <1>5, <1>6, SpendGrows
    <2>2. QED BY <1>6, <2>1 DEF RowsAreReal
  <1>7. ASSUME NoneIsMissing(rows) PROVE NoneIsMissing(file)'
    <2>1. \A r \in Daily(rows), a \in Ads : Live(a, Day(r))' # {} => Live(a, Day(r)) # {}
      <3> SUFFICES ASSUME NEW r \in Daily(rows), NEW a \in Ads, NEW d \in Live(a, Day(r))'
                   PROVE  d \in Live(a, Day(r))
        OBVIOUS
      <3>1. d \in DaysOf(Day(r)) /\ d \in 1 .. Today /\ delivered'[a][d] # Nothing
        BY <1>3 DEF Live
      <3>2. QED BY <3>1 DEF Live, PastIsKept
    <2>2. QED BY <1>7, <2>1 DEF NoneIsMissing
  <1>8. ASSUME RowsAreReal(rows), ResultsAreCurrent(rows),
               \A a \in Ads, d \in 1 .. Today : results'[a][d] = results[a][d]
        PROVE  ResultsAreCurrent(file)'
    <2>1. \A r \in Daily(rows) : ResultsFor(AdsIn(r), Day(r))' = ResultsFor(AdsIn(r), Day(r))
      BY <1>4, <1>5, <1>8, ResultsAreKept
    <2>2. QED BY <1>8, <2>1 DEF ResultsAreCurrent
  <1>9. RowsAreSound(rows, today) => RowsAreSound(file, exported)'
    BY <1>2, <1>6, <1>7 DEF RowsAreSound, OneRowADay, PlacesAreDaily
  <1>10. QED
    BY <1>1, <1>2, <1>8, <1>9

(* A report of days that do not change is as sound as it was.              *)
LEMMA ReportIsSet ==
    ASSUME DaysAreTyped, DaysAreTyped', UNCHANGED <<delivered, results>>, NEW r, report' = r,
           r.kind \in {"none", "refused", "compare", "fatigue", "breakdown", "daily", "lifetime"},
           PeriodsMeet(r),
           1 \notin ReachLengths => ComparisonShows(r) /\ OthersShow(r),
           1 \notin ReachLengths /\ ~ OldExports => ResultsAreIn(r)
    PROVE  ReportIsSound'
  <1>1. Today' = Today /\ PastIsKept
    BY DEF Today, PastIsKept, DaysAreTyped
  <1>2. \A w : /\ \A ads \in SUBSET Ads : SumFor(ads, w, "spend")' = SumFor(ads, w, "spend")
              /\ ResultsFor(Ads, w)' = ResultsFor(Ads, w)
    BY <1>1, SpendGrows, ResultsAreKept
  <1>3. PeriodsMeet(report)'
    BY DEF PeriodsMeet
  <1>4. ASSUME ComparisonShows(r) PROVE ComparisonShows(report)'
    BY <1>1, <1>2, <1>4 DEF ComparisonShows, IsShown
  <1>5. ASSUME OthersShow(r) PROVE OthersShow(report)'
    <2>1. \A a \in Ads : \A w : SumFor({a}, w, "spend")' = SumFor({a}, w, "spend")
      BY <1>2
    <2>2. QED BY <1>2, <1>5, <2>1 DEF OthersShow
  <1>6. ASSUME ResultsAreIn(r) PROVE ResultsAreIn(report)'
    BY <1>1, <1>2, <1>6 DEF ResultsAreIn
  <1>7. QED
    BY <1>3, <1>4, <1>5, <1>6 DEF ReportIsSound

(* A comparison that is kept is of days that stay what they are.           *)
LEMMA ReportIsKept ==
    ASSUME IInv, DaysAreTyped', PastIsKept, report' = Kept,
           \A a \in Ads, d \in 1 .. Today : d + AttributionDays < Today => results'[a][d] = results[a][d]
    PROVE  ReportIsSound'
  <1>1. Today \in Nat /\ Today' \in Nat /\ Today <= Today' /\ AttributionDays \in Nat /\ DaysAreTyped
    BY ReportsAssumption DEF IInv, DaysAreTyped, PastIsKept
  <1>2. \/ report' = NoReport
        \/ report' = report /\ report.kind = "compare" /\ Settled(report.notes)
    BY DEF Kept
  <1>3. CASE report' = NoReport
    BY <1>3 DEF ReportIsSound, NoReport, PeriodsMeet, ComparisonShows, OthersShow, ResultsAreIn
  <1>4. CASE report' = report /\ report.kind = "compare" /\ Settled(report.notes)
    <2> DEFINE c == report.current
               p == report.previous
    <2>1. /\ c.start \in Int /\ c.end \in Int /\ p.start \in Int /\ p.end \in Int
          /\ PeriodsMeet(report)'
      BY <1>4 DEF IInv, ReportIsSound, PeriodsMeet
    <2>2. OthersShow(report)'
      BY <1>4 DEF OthersShow
    <2>3. ASSUME NEW spend, NEW w, NEW complete \in BOOLEAN, IsShown(spend, w, complete)
          PROVE  /\ spend \in Nat /\ spend <= SumFor(Ads, w, "spend")'
                 /\ complete => DaysOf(w) \subseteq 1 .. Today' /\ spend = SumFor(Ads, w, "spend")'
      <3>1. SumFor(Ads, w, "spend") \in Nat /\ SumFor(Ads, w, "spend")' \in Nat
        BY <1>1, SumsAreNumbers, SumsAreNumbersNext
      <3>2. /\ SumFor(Ads, w, "spend") <= SumFor(Ads, w, "spend")'
            /\ DaysOf(w) \cap (1 .. Today') \subseteq 1 .. Today
                  => SumFor(Ads, w, "spend")' = SumFor(Ads, w, "spend")
        BY <1>1, SpendGrows
      <3>3. QED BY <1>1, <2>3, <3>1, <3>2 DEF IsShown
    <2>4. ASSUME ComparisonShows(report) PROVE ComparisonShows(report)'
      <3>1. IsShown(report.now.spend, c, "INCOMPLETE current" \notin report.notes)
        BY <1>4, <2>4 DEF ComparisonShows
      <3>2. IsShown(report.before.spend, p, "INCOMPLETE previous" \notin report.notes)
        BY <1>4, <2>4 DEF ComparisonShows
      <3>3. QED BY <1>4, <2>3, <3>1, <3>2 DEF ComparisonShows, IsShown
    <2>5. ASSUME ComparisonShows(report), ResultsAreIn(report) PROVE ResultsAreIn(report)'
      <3>1. c.end + AttributionDays < Today /\ p.end + AttributionDays < Today
        BY <1>4, <2>5 DEF ResultsAreIn
      <3>2. ASSUME NEW w, w.start \in Int, w.end \in Int, w.end + AttributionDays < Today,
                   DaysOf(w) \subseteq 1 .. Today
            PROVE  ResultsFor(Ads, w)' = ResultsFor(Ads, w)
        <4>1. \A d \in (1 .. Today) \cap DaysOf(w) : d + AttributionDays < Today
          BY <1>1, <3>2 DEF DaysOf
        <4>2. \A a \in Ads, d \in (1 .. Today) \cap DaysOf(w) : results'[a][d] = results[a][d]
          BY <4>1
        <4>3. QED BY <1>1, <3>2, <4>2, ResultsAreKept
      <3>3. "INCOMPLETE current" \notin report.notes =>
                DaysOf(c) \subseteq 1 .. Today /\ ResultsFor(Ads, c)' = ResultsFor(Ads, c)
        BY <1>4, <2>1, <2>5, <3>1, <3>2 DEF ComparisonShows, IsShown
      <3>4. "INCOMPLETE previous" \notin report.notes =>
                DaysOf(p) \subseteq 1 .. Today /\ ResultsFor(Ads, p)' = ResultsFor(Ads, p)
        BY <1>4, <2>1, <2>5, <3>1, <3>2 DEF ComparisonShows, IsShown
      <3>5. c.end + AttributionDays < Today' /\ p.end + AttributionDays < Today'
        BY <1>1, <2>1, <3>1
      <3>6. "INCOMPLETE current" \notin report.notes => report.now.results \subseteq {ResultsFor(Ads, c)'}
        BY <1>4, <2>5, <3>3 DEF ResultsAreIn
      <3>7. "INCOMPLETE previous" \notin report.notes => report.before.results \subseteq {ResultsFor(Ads, p)'}
        BY <1>4, <2>5, <3>4 DEF ResultsAreIn
      <3>8. QED BY <1>4, <3>5, <3>6, <3>7 DEF ResultsAreIn
    <2>6. QED BY <1>4, <2>1, <2>2, <2>4, <2>5 DEF IInv, ReportIsSound
  <1>5. QED
    BY <1>2, <1>3, <1>4

-----------------------------------------------------------------------------
(* The steps.                                                              *)

LEMMA FileIsAged ==
    ASSUME IInv, DaysAreTyped', PastIsKept, Age
    PROVE  FileIsSound'
  <1>1. CASE OldExports
    <2>1. file' = file /\ exported' = exported
      BY <1>1 DEF Age
    <2>2. /\ exported' \in 0 .. Today' /\ RowsHaveDays(file, exported)'
          /\ RowsAreSound(file, exported) => RowsAreSound(file, exported)'
      BY <2>1, RowsStay DEF IInv, FileIsSound
    <2>3. QED BY <1>1, <2>2 DEF IInv, FileIsSound
  <1>2. CASE ~ OldExports
    <2>1. file' = {} /\ exported' = 0
      BY <1>2 DEF Age
    <2>2. Today' \in Nat
      BY DEF DaysAreTyped
    <2>3. RowsHaveDays(file, exported)' /\ RowsAreReal(file)' /\ OneRowADay(file)' /\ NoneIsMissing(file)'
          /\ PlacesAreDaily(file)' /\ ResultsAreCurrent(file)'
      BY <2>1, FS_EmptySet DEF RowsHaveDays, RowsAreReal, OneRowADay, NoneIsMissing, PlacesAreDaily,
                               ResultsAreCurrent, Daily
    <2>4. QED BY <2>1, <2>2, <2>3 DEF FileIsSound, RowsAreSound
  <1>3. QED
    BY <1>1, <1>2

LEMMA InvDeliver ==
    ASSUME IInv, Deliver
    PROVE  IInv'
  <1> DEFINE c == CHOOSE a \in Ads : TRUE
  <1>1. /\ Today \in Nat /\ Today < LastDay /\ LastDay \in Nat
        /\ delivered \in [Ads -> Seq(Counts)] /\ results \in [Ads -> Seq(Nat)]
        /\ \A a \in Ads : Len(delivered[a]) = Today /\ Len(results[a]) = Today
    <2>1. Today < LastDay /\ LastDay \in Nat
      BY ReportsAssumption DEF Deliver
    <2>2. QED BY <2>1 DEF IInv, DaysAreTyped
  <1>2. PICK new \in [Ads -> UNION {Outcomes[a][Today + 1] : a \in Ads}] :
            /\ \A a \in Ads : new[a] \in Outcomes[a][Today + 1]
            /\ delivered' = [a \in Ads |-> Append(delivered[a], new[a])]
    BY DEF Deliver
  <1>3. results' = [a \in Ads |-> Append(results[a], 0)] /\ Age /\ report' = Kept
    BY DEF Deliver
  <1>4. \A a \in Ads : new[a] \in Counts
    <2>1. Today + 1 \in 1 .. LastDay
      BY <1>1
    <2>2. \A a \in Ads : Outcomes[a][Today + 1] \subseteq Counts
      BY <2>1, OutcomesAreCounts
    <2>3. QED BY <1>2, <2>2
  <1>5. \A a \in Ads :
            /\ delivered'[a] \in Seq(Counts) /\ Len(delivered'[a]) = Today + 1
            /\ results'[a] \in Seq(Nat) /\ Len(results'[a]) = Today + 1
            /\ \A d \in 1 .. Today : delivered'[a][d] = delivered[a][d] /\ results'[a][d] = results[a][d]
            /\ delivered'[a][Today + 1] = new[a] /\ results'[a][Today + 1] = 0
    <2> SUFFICES ASSUME NEW a \in Ads
                 PROVE  /\ delivered'[a] \in Seq(Counts) /\ Len(delivered'[a]) = Today + 1
                        /\ results'[a] \in Seq(Nat) /\ Len(results'[a]) = Today + 1
                        /\ \A d \in 1 .. Today :
                              delivered'[a][d] = delivered[a][d] /\ results'[a][d] = results[a][d]
                        /\ delivered'[a][Today + 1] = new[a] /\ results'[a][Today + 1] = 0
      OBVIOUS
    <2>1. delivered'[a] = Append(delivered[a], new[a]) /\ results'[a] = Append(results[a], 0)
      BY <1>2, <1>3
    <2>2. /\ delivered[a] \in Seq(Counts) /\ new[a] \in Counts /\ Len(delivered[a]) = Today
          /\ results[a] \in Seq(Nat) /\ Len(results[a]) = Today /\ Today \in Nat
      BY <1>1, <1>4
    <2>3. QED BY <2>1, <2>2
  <1>6. Today' = Today + 1
    <2>1. Today' = Len(delivered'[c])
      BY DEF Today
    <2> HIDE DEF c
    <2>2. QED BY <1>5, <2>1, TodayIsADay DEF c
  <1>7. DaysAreTyped'
    BY <1>1, <1>2, <1>3, <1>5, <1>6 DEF DaysAreTyped
  <1>8. PastIsKept
    BY <1>1, <1>5, <1>6 DEF PastIsKept
  <1>9. DeliveriesAreKnown'
    <2>1. \A a \in Ads : MaxResults[a] \in Nat
      BY ReportsAssumption
    <2>2. \A a \in Ads, d \in 1 .. Today + 1 :
              delivered'[a][d] \in Outcomes[a][d] /\ results'[a][d] \in 0 .. MaxResults[a]
      <3> SUFFICES ASSUME NEW a \in Ads, NEW d \in 1 .. Today + 1
                   PROVE  delivered'[a][d] \in Outcomes[a][d] /\ results'[a][d] \in 0 .. MaxResults[a]
        OBVIOUS
      <3>1. CASE d \in 1 .. Today
        BY <1>5, <3>1 DEF IInv, DeliveriesAreKnown
      <3>2. CASE d = Today + 1
        BY <1>2, <1>5, <2>1, <3>2
      <3>3. QED BY <1>1, <3>1, <3>2
    <2>3. QED BY <1>6, <2>2 DEF DeliveriesAreKnown
  <1>10. FileIsSound'
    BY <1>3, <1>7, <1>8, FileIsAged
  <1>11. ReportIsSound'
    BY <1>3, <1>5, <1>7, <1>8, ReportIsKept
  <1>12. QED
    BY <1>7, <1>9, <1>10, <1>11 DEF IInv

LEMMA InvLateResult ==
    ASSUME IInv, NEW a \in Ads, NEW d \in 1 .. Today, LateResult(a, d)
    PROVE  IInv'
  <1>1. /\ Today \in Nat /\ results \in [Ads -> Seq(Nat)] /\ Len(results[a]) = Today
        /\ delivered' = delivered /\ Today' = Today
        /\ Today <= d + AttributionDays /\ results[a][d] < MaxResults[a]
        /\ results' = [results EXCEPT ![a][d] = @ + 1] /\ Age /\ report' = Kept
    BY DEF IInv, DaysAreTyped, LateResult, Today
  <1>2. /\ results[a] \in Seq(Nat) /\ results[a][d] \in Nat /\ MaxResults[a] \in Nat
        /\ results' = [results EXCEPT ![a] = [results[a] EXCEPT ![d] = results[a][d] + 1]]
    <2>1. results[a] \in Seq(Nat) /\ MaxResults[a] \in Nat
      BY <1>1, ReportsAssumption
    <2>2. results[a][d] \in Nat
      BY <1>1, <2>1
    <2>3. results' = [results EXCEPT ![a] = [results[a] EXCEPT ![d] = results[a][d] + 1]]
      BY <1>1
    <2>4. QED BY <2>1, <2>2, <2>3
  <1>3. /\ results'[a] \in Seq(Nat) /\ Len(results'[a]) = Today
        /\ results'[a][d] = results[a][d] + 1
        /\ \A e \in 1 .. Today : e # d => results'[a][e] = results[a][e]
        /\ \A b \in Ads : b # a => results'[b] = results[b]
    BY <1>1, <1>2
  <1>4. DaysAreTyped'
    BY <1>1, <1>2, <1>3 DEF IInv, DaysAreTyped
  <1>5. PastIsKept
    BY <1>1 DEF PastIsKept
  <1>6. DeliveriesAreKnown'
    BY <1>1, <1>2, <1>3 DEF IInv, DeliveriesAreKnown
  <1>7. \A b \in Ads, e \in 1 .. Today : e + AttributionDays < Today => results'[b][e] = results[b][e]
    <2>1. AttributionDays \in Nat
      BY ReportsAssumption
    <2>2. \A e \in 1 .. Today : e + AttributionDays < Today => e # d
      BY <1>1, <2>1
    <2>3. QED BY <1>3, <2>2
  <1>8. FileIsSound'
    BY <1>1, <1>4, <1>5, FileIsAged
  <1>9. ReportIsSound'
    BY <1>1, <1>4, <1>5, <1>7, ReportIsKept
  <1>10. QED
    BY <1>4, <1>6, <1>8, <1>9 DEF IInv

LEMMA DaysStay ==
    ASSUME IInv, UNCHANGED <<delivered, results>>
    PROVE  /\ DaysAreTyped' /\ DeliveriesAreKnown' /\ PastIsKept /\ Today' = Today
           /\ \A a \in Ads, d \in 1 .. Today : results'[a][d] = results[a][d]
  BY DEF IInv, DaysAreTyped, DeliveriesAreKnown, PastIsKept, Today

LEMMA InvExport ==
    ASSUME IInv, NEW first \in FirstDays, Export(first)
    PROVE  IInv'
  <1>1. PICK rows \in Exports(first) : file' = rows
    BY DEF Export
  <1>2. exported' = Today /\ report' = NoReport /\ UNCHANGED <<delivered, results>>
    BY DEF Export
  <1>3. /\ DaysAreTyped /\ DaysAreTyped' /\ DeliveriesAreKnown' /\ PastIsKept /\ Today' = Today
        /\ \A a \in Ads, d \in 1 .. Today : results'[a][d] = results[a][d]
    BY <1>2, DaysStay DEF IInv
  <1>4. /\ RowsHaveDays(rows, Today)
        /\ 1 \notin ReachLengths => RowsAreSound(rows, Today) /\ ResultsAreCurrent(rows)
    BY <1>3, ExportIsReal DEF RowsAreSound
  <1>5. Today \in 0 .. Today
    BY DEF IInv, DaysAreTyped
  <1>6. /\ exported' \in 0 .. Today' /\ RowsHaveDays(file, exported)'
        /\ RowsAreSound(rows, Today) => RowsAreSound(file, exported)'
        /\ RowsAreReal(rows) /\ ResultsAreCurrent(rows) => ResultsAreCurrent(file)'
    BY <1>1, <1>2, <1>3, <1>4, <1>5, RowsStay
  <1>7. FileIsSound'
    BY <1>4, <1>6 DEF FileIsSound, RowsAreSound
  <1>8. ReportIsSound'
    BY <1>2 DEF ReportIsSound, NoReport, PeriodsMeet, ComparisonShows, OthersShow, ResultsAreIn
  <1>9. QED
    BY <1>3, <1>7, <1>8 DEF IInv

(* A report of the file at hand leaves all else as it is.                  *)
LEMMA InvRan ==
    ASSUME IInv, UNCHANGED <<delivered, results, file, exported>>, NEW r, report' = r,
           r.kind \in {"none", "refused", "compare", "fatigue", "breakdown", "daily", "lifetime"},
           PeriodsMeet(r),
           1 \notin ReachLengths => ComparisonShows(r) /\ OthersShow(r),
           1 \notin ReachLengths /\ ~ OldExports => ResultsAreIn(r)
    PROVE  IInv'
  <1>1. /\ DaysAreTyped /\ DaysAreTyped' /\ DeliveriesAreKnown' /\ PastIsKept
        /\ \A a \in Ads, d \in 1 .. Today : results'[a][d] = results[a][d]
    BY DaysStay DEF IInv
  <1>2. ReportIsSound'
    BY <1>1, ReportIsSet
  <1>3. /\ exported' \in 0 .. Today' /\ RowsHaveDays(file, exported)'
        /\ RowsAreSound(file, exported) => RowsAreSound(file, exported)'
        /\ RowsAreReal(file) /\ ResultsAreCurrent(file) => ResultsAreCurrent(file)'
    BY <1>1, RowsStay DEF IInv, FileIsSound
  <1>4. FileIsSound'
    BY <1>3 DEF IInv, FileIsSound, RowsAreSound
  <1>5. QED
    BY <1>1, <1>2, <1>4 DEF IInv

LEMMA KindsOfReports ==
    /\ \A f, days, end : Fatigue(f, days, end).kind \in {"refused", "fatigue"}
    /\ \A f, days, end, event, level : Breakdown(f, days, end, event, level).kind \in {"refused", "breakdown"}
    /\ \A f, budget, start, end, level : PaceDaily(f, budget, start, end, level).kind \in {"refused", "daily"}
    /\ \A f, budget, w, as_of, level : PaceLifetime(f, budget, w, as_of, level).kind \in {"refused", "lifetime"}
  <1>1. \A f, days, end : Fatigue(f, days, end).kind \in {"refused", "fatigue"}
    BY DEF Fatigue, Refused
  <1>2. \A f, days, end, event, level : Breakdown(f, days, end, event, level).kind \in {"refused", "breakdown"}
    BY DEF Breakdown, Refused
  <1>3. \A f, budget, start, end, level : PaceDaily(f, budget, start, end, level).kind \in {"refused", "daily"}
    BY DEF PaceDaily, Refused
  <1>4. \A f, budget, w, as_of, level :
            PaceLifetime(f, budget, w, as_of, level).kind \in {"refused", "lifetime"}
    BY DEF PaceLifetime, Refused
  <1>5. QED
    BY <1>1, <1>2, <1>3, <1>4

(* A report that is no comparison says nothing of two periods.             *)
LEMMA NoComparison ==
    ASSUME NEW r, r.kind # "compare"
    PROVE  PeriodsMeet(r) /\ ComparisonShows(r) /\ ResultsAreIn(r)
  BY DEF PeriodsMeet, ComparisonShows, ResultsAreIn

LEMMA FileAtHand ==
    ASSUME IInv
    PROVE  /\ DaysAreTyped /\ Today \in Nat /\ exported \in 0 .. Today /\ RowsHaveDays(file, exported)
           /\ 1 \notin ReachLengths => RowsAreSound(file, exported)
           /\ 1 \notin ReachLengths /\ ~ OldExports => ResultsAreCurrent(file)
  BY DEF IInv, FileIsSound, DaysAreTyped

LEMMA InvCompare ==
    ASSUME IInv, NEW days \in Lengths, NEW level \in Levels, RunCompare(days, level)
    PROVE  IInv'
  <1>1. PICK end \in {None} \cup 1 .. Today, boundary \in {None} \cup 1 .. Today,
             attribution \in Attributions, event \in Events :
            Ran(Compare(file, days, end, boundary, event, attribution, level, Today))
    BY DEF RunCompare
  <1> DEFINE r == Compare(file, days, end, boundary, event, attribution, level, Today)
  <1>2. report' = r /\ UNCHANGED <<delivered, results, file, exported>>
    BY <1>1 DEF Ran
  <1>3. days \in Nat \ {0} /\ attribution \in {None, AttributionDays}
    BY ReportsAssumption
  <1> HIDE DEF r
  <1>4. /\ r.kind \in {"refused", "compare"} /\ PeriodsMeet(r)
        /\ RowsAreSound(file, exported) =>
              /\ ComparisonShows(r) /\ OthersShow(r)
              /\ ResultsAreCurrent(file) => ResultsAreIn(r)
    BY <1>3, FileAtHand, CompareShows DEF r
  <1>5. QED
    BY <1>2, <1>4, FileAtHand, InvRan

LEMMA InvFatigue ==
    ASSUME IInv, NEW days \in Lengths, RunFatigue(days)
    PROVE  IInv'
  <1>1. PICK end \in {None} \cup 1 .. Today : Ran(Fatigue(file, days, end))
    BY DEF RunFatigue
  <1> DEFINE r == Fatigue(file, days, end)
  <1>2. report' = r /\ UNCHANGED <<delivered, results, file, exported>>
    BY <1>1 DEF Ran
  <1>3. r.kind \in {"refused", "fatigue"} /\ days \in Nat \ {0}
    BY KindsOfReports, ReportsAssumption
  <1> HIDE DEF r
  <1>4. RowsAreSound(file, exported) => OthersShow(r)
    BY <1>3, FileAtHand, FatigueShows DEF r
  <1>5. QED
    BY <1>2, <1>3, <1>4, FileAtHand, NoComparison, InvRan

LEMMA InvBreakdown ==
    ASSUME IInv, NEW days \in Lengths \cup {None}, NEW level \in Levels, RunBreakdown(days, level)
    PROVE  IInv'
  <1>1. PICK end \in {None} \cup 1 .. Today, event \in Events : Ran(Breakdown(file, days, end, event, level))
    BY DEF RunBreakdown
  <1> DEFINE r == Breakdown(file, days, end, event, level)
  <1>2. report' = r /\ UNCHANGED <<delivered, results, file, exported>>
    BY <1>1 DEF Ran
  <1>3. r.kind \in {"refused", "breakdown"} /\ (days = None \/ days \in Nat \ {0})
    BY KindsOfReports, ReportsAssumption
  <1> HIDE DEF r
  <1>4. RowsAreSound(file, exported) => OthersShow(r)
    BY <1>3, FileAtHand, BreakdownShows DEF r
  <1>5. QED
    BY <1>2, <1>3, <1>4, FileAtHand, NoComparison, InvRan

LEMMA InvPacing ==
    ASSUME IInv, NEW level \in Levels, RunPacing(level)
    PROVE  IInv'
  <1>1. file # {}
    BY DEF RunPacing
  <1>2. \/ \E start, end \in {None} \cup 1 .. Today : Ran(PaceDaily(file, Budget, start, end, level))
        \/ \E w \in Schedules, as_of \in {None} \cup 1 .. Today :
              Ran(PaceLifetime(file, Budget, w, EndOf(as_of, file), level))
    BY DEF RunPacing
  <1>3. ASSUME NEW start \in {None} \cup 1 .. Today, NEW end \in {None} \cup 1 .. Today,
               Ran(PaceDaily(file, Budget, start, end, level))
        PROVE  IInv'
    <2> DEFINE r == PaceDaily(file, Budget, start, end, level)
    <2>1. report' = r /\ UNCHANGED <<delivered, results, file, exported>>
      BY <1>3 DEF Ran
    <2>2. r.kind \in {"refused", "daily"}
      BY KindsOfReports
    <2> HIDE DEF r
    <2>3. RowsAreSound(file, exported) => OthersShow(r)
      BY FileAtHand, PaceDailyShows DEF r
    <2>4. QED
      BY <2>1, <2>2, <2>3, FileAtHand, NoComparison, InvRan
  <1>4. ASSUME NEW w \in Schedules, NEW as_of \in {None} \cup 1 .. Today,
               Ran(PaceLifetime(file, Budget, w, EndOf(as_of, file), level))
        PROVE  IInv'
    <2> DEFINE r == PaceLifetime(file, Budget, w, EndOf(as_of, file), level)
    <2>1. report' = r /\ UNCHANGED <<delivered, results, file, exported>>
      BY <1>4 DEF Ran
    <2>2. r.kind \in {"refused", "lifetime"}
      BY KindsOfReports
    <2> HIDE DEF r
    <2>3. RowsAreSound(file, exported) => OthersShow(r)
      BY <1>1, FileAtHand, PaceLifetimeShows DEF r
    <2>4. QED
      BY <2>1, <2>2, <2>3, FileAtHand, NoComparison, InvRan
  <1>5. QED
    BY <1>2, <1>3, <1>4

LEMMA NextInv == IInv /\ [Next]_vars => IInv'
  <1> SUFFICES ASSUME IInv, [Next]_vars PROVE IInv'
    OBVIOUS
  <1>1. CASE Deliver
    BY <1>1, InvDeliver
  <1>2. CASE \E a \in Ads, d \in 1 .. Today : LateResult(a, d)
    BY <1>2, InvLateResult
  <1>3. CASE \E first \in FirstDays : Export(first)
    BY <1>3, InvExport
  <1>4. CASE \E days \in Lengths, level \in Levels : RunCompare(days, level)
    BY <1>4, InvCompare
  <1>5. CASE \E days \in Lengths : RunFatigue(days)
    BY <1>5, InvFatigue
  <1>6. CASE \E days \in Lengths \cup {None}, level \in Levels : RunBreakdown(days, level)
    BY <1>6, InvBreakdown
  <1>7. CASE \E level \in Levels : RunPacing(level)
    BY <1>7, InvPacing
  <1>8. CASE UNCHANGED vars
    <2>1. UNCHANGED <<delivered, results, file, exported>> /\ report' = report
      BY <1>8 DEF vars
    <2>2. /\ report.kind \in {"none", "refused", "compare", "fatigue", "breakdown", "daily", "lifetime"}
          /\ PeriodsMeet(report)
          /\ 1 \notin ReachLengths => ComparisonShows(report) /\ OthersShow(report)
          /\ 1 \notin ReachLengths /\ ~ OldExports => ResultsAreIn(report)
      BY DEF IInv, ReportIsSound
    <2>3. QED BY <2>1, <2>2, InvRan
  <1>9. QED
    BY <1>1, <1>2, <1>3, <1>4, <1>5, <1>6, <1>7, <1>8 DEF Next

(* In every reachable state the export is of the days up to its own and    *)
(* counts each of them once, and what a report shows is what was delivered.*)
THEOREM InvariantHolds == Spec => []IInv
  <1>1. Init => IInv
    BY InitInv
  <1>2. IInv /\ [Next]_vars => IInv'
    BY NextInv
  <1>3. QED
    BY <1>1, <1>2, PTL DEF Spec

(* TypeOK holds for any ads and deliveries: a day that is over has what    *)
(* each ad delivered on it, no more results than are to come, and the two  *)
(* periods of a comparison are of one length and meet (compare.py:121-125).*)
THEOREM TypesAreKept == Spec => []TypeOK
  <1>1. IInv => TypeOK
    <2> SUFFICES ASSUME IInv PROVE TypeOK
      OBVIOUS
    <2>1. \A a \in Ads : /\ Len(delivered[a]) = Today /\ results[a] \in Seq(Nat) /\ Len(results[a]) = Today
      BY DEF IInv, DaysAreTyped
    <2>2. \A a \in Ads, d \in 1 .. Today :
              delivered[a][d] \in Outcomes[a][d] /\ results[a][d] \in 0 .. MaxResults[a]
      BY DEF IInv, DeliveriesAreKnown
    <2>3. \A a \in Ads : results[a] \in [1 .. Today -> 0 .. MaxResults[a]]
      BY <2>1, <2>2
    <2>4. QED BY <2>1, <2>2, <2>3 DEF IInv, FileIsSound, ReportIsSound, PeriodsMeet, TypeOK
  <1>2. QED
    BY <1>1, InvariantHolds, PTL

(* No report shows more spend than was delivered, and a comparison that is *)
(* not marked incomplete shows all of it, for any ads, deliveries, windows *)
(* and levels, as long as no row of reach is over a single day: such a row *)
(* passes for one of that day's (is_daily; insights.py:317-318).           *)
THEOREM SpendIsCountedOnce ==
    ASSUME 1 \notin ReachLengths
    PROVE  Spec => []NothingCountedTwice
  <1>1. IInv => NothingCountedTwice
    BY DEF IInv, ReportIsSound, ComparisonShows, OthersShow, IsShown, NothingCountedTwice
  <1>2. QED
    BY <1>1, InvariantHolds, PTL

(* Results that a comparison shows without a warning are final, whatever   *)
(* the attribution window and however late they arrive within it, when the *)
(* comparison is made of an export of its day (compare.py:224-240).        *)
THEOREM SettledIsFinal ==
    ASSUME 1 \notin ReachLengths, ~ OldExports
    PROVE  Spec => []ReportIsFinal
  <1>1. IInv => ReportIsFinal
    BY DEF IInv, ReportIsSound, ResultsAreIn, ReportIsFinal
  <1>2. QED
    BY <1>1, InvariantHolds, PTL

-----------------------------------------------------------------------------
(* Decimals, of any number of digits.  Each operation is off by less than  *)
(* one part in 2 * 10^(Precision - 1); what is calculated with them is     *)
(* compared with the fractions it stands for.                              *)

(* A part of a whole, in percent.                                          *)
RateOf(c, i) == Over(Times(Dec(c), Dec(100)), Dec(i))

(* The rate that is left of one that fell by the threshold.                *)
FloorOf(ctr) == Times(ctr, Minus(Dec(1), Over(Dec(DeclinePct), Dec(100))))

(* What defines the powers of ten.  (The provers calculate small powers,   *)
(* but know no law of them.)                                               *)
PowersOfTen == \A k \in Nat : 10^(k + 1) = 10 * 10^k

IsDecimal(x) == x.n \in Int /\ x.e \in Int

(* The decimal as a number of units of 10^e.                               *)
InUnits(x, e) == x.n * 10^(x.e - e)

LEMMA PowersArePositive ==
    ASSUME PowersOfTen
    PROVE  \A k \in Nat : 10^k \in Nat \ {0}
  <1> DEFINE T == {k \in Nat : 10^k \notin Nat \ {0}}
  <1>1. SUFFICES ASSUME T # {} PROVE FALSE
    OBVIOUS
  <1>2. T \subseteq Nat
    OBVIOUS
  <1>3. PICK k \in T : \A y \in T : k <= y
    <2> HIDE DEF T
    <2>1. QED BY <1>1, <1>2, LeastMember
  <1>4. k \in Nat /\ 10^k \notin Nat \ {0}
    OBVIOUS
  <1>5. k # 0
    <2>1. 10^0 \in Nat \ {0}
      OBVIOUS
    <2>2. QED BY <1>4, <2>1
  <1> DEFINE h == k - 1
  <1>6. h \in Nat /\ h + 1 = k
    BY <1>4, <1>5
  <1>7. h \notin T
    BY <1>3, <1>4
  <1>8. 10^h \in Nat \ {0} /\ 10^(h + 1) = 10 * 10^h
    BY <1>6, <1>7 DEF PowersOfTen
  <1> HIDE DEF h, T
  <1>9. QED
    BY <1>4, <1>6, <1>8

LEMMA PowersAdd ==
    ASSUME PowersOfTen, NEW j \in Nat, NEW k \in Nat
    PROVE  10^(j + k) = 10^j * 10^k
  <1> DEFINE T == {i \in Nat : 10^(j + i) # 10^j * 10^i}
  <1>1. SUFFICES ASSUME T # {} PROVE FALSE
    OBVIOUS
  <1>2. T \subseteq Nat
    OBVIOUS
  <1>3. PICK i \in T : \A y \in T : i <= y
    <2> HIDE DEF T
    <2>1. QED BY <1>1, <1>2, LeastMember
  <1>4. i \in Nat /\ 10^(j + i) # 10^j * 10^i
    OBVIOUS
  <1>5. i # 0
    <2>1. 10^j \in Nat /\ 10^0 = 1 /\ j + 0 = j
      BY PowersArePositive
    <2> HIDE DEF T
    <2>2. 10^(j + 0) = 10^j * 10^0
      BY <2>1
    <2>3. QED BY <1>4, <2>2
  <1> DEFINE h == i - 1
  <1>6. h \in Nat /\ h + 1 = i /\ j + h \in Nat /\ (j + h) + 1 = j + i
    BY <1>4, <1>5
  <1>7. h \notin T
    BY <1>3, <1>4
  <1>8. 10^(j + h) = 10^j * 10^h
    BY <1>6, <1>7
  <1> HIDE DEF h, T
  <1>9. 10^(j + i) = 10 * 10^(j + h) /\ 10^i = 10 * 10^h
    BY <1>6 DEF PowersOfTen
  <1>10. 10^j \in Nat /\ 10^h \in Nat
    BY <1>6, PowersArePositive
  <1>11. QED
    BY <1>4, <1>8, <1>9, <1>10

(* Two decimals compare as their numbers of units do.                      *)
LEMMA LeqInUnits ==
    ASSUME PowersOfTen, NEW a, NEW b, IsDecimal(a), IsDecimal(b), NEW d \in Int, d <= a.e, d <= b.e
    PROVE  /\ InUnits(a, d) \in Int /\ InUnits(b, d) \in Int
           /\ Leq(a, b) <=> InUnits(a, d) <= InUnits(b, d)
  <1> DEFINE e == Lower(a.e, b.e)
             t == 10^(e - d)
             x == 10^(a.e - e)
             y == 10^(b.e - e)
             m == a.n
             n == b.n
  <1>1. /\ e - d \in Nat /\ a.e - e \in Nat /\ b.e - e \in Nat
        /\ (a.e - e) + (e - d) = a.e - d /\ (b.e - e) + (e - d) = b.e - d
    <2>1. a.e \in Int /\ b.e \in Int /\ e \in {a.e, b.e} /\ e <= a.e /\ e <= b.e
      BY DEF IsDecimal, Lower
    <2> HIDE DEF e
    <2>2. QED BY <2>1
  <1>2. m \in Int /\ n \in Int
    BY DEF IsDecimal
  <1>3. Leq(a, b) <=> m * x <= n * y
    BY DEF Leq
  <1> HIDE DEF e
  <1>4. t \in Nat \ {0} /\ x \in Nat /\ y \in Nat
    BY <1>1, PowersArePositive
  <1>5. 10^(a.e - d) = x * t /\ 10^(b.e - d) = y * t
    <2>1. 10^((a.e - e) + (e - d)) = x * t
      BY <1>1, PowersAdd
    <2>2. 10^((b.e - e) + (e - d)) = y * t
      BY <1>1, PowersAdd
    <2>3. QED BY <1>1, <2>1, <2>2
  <1>6. InUnits(a, d) = m * (x * t) /\ InUnits(b, d) = n * (y * t)
    BY <1>5 DEF InUnits
  <1> HIDE DEF t, x, y, m, n
  <1>7. m * x <= n * y <=> m * (x * t) <= n * (y * t)
    BY <1>2, <1>4
  <1>8. m * (x * t) \in Int /\ n * (y * t) \in Int
    BY <1>2, <1>4
  <1>9. QED
    BY <1>3, <1>6, <1>7, <1>8

LEMMA DecimalsAreOrdered ==
    ASSUME PowersOfTen, NEW a, NEW b, NEW c, IsDecimal(a), IsDecimal(b), IsDecimal(c)
    PROVE  /\ Leq(a, b) \/ Leq(b, a)
           /\ Leq(a, b) /\ Leq(b, c) => Leq(a, c)
  <1>1. PICK d \in Int : d <= a.e /\ d <= b.e /\ d <= c.e
    <2> DEFINE d == Lower(a.e, Lower(b.e, c.e))
    <2>1. d \in Int /\ d <= a.e /\ d <= b.e /\ d <= c.e
      BY DEF Lower, IsDecimal
    <2>2. QED BY <2>1
  <1> DEFINE x == InUnits(a, d)
             y == InUnits(b, d)
             z == InUnits(c, d)
  <1>2. /\ x \in Int /\ y \in Int /\ z \in Int
        /\ Leq(a, b) <=> x <= y
        /\ Leq(b, a) <=> y <= x
        /\ Leq(b, c) <=> y <= z
        /\ Leq(a, c) <=> x <= z
    BY <1>1, LeqInUnits
  <1> HIDE DEF x, y, z
  <1>3. QED
    BY <1>2

LEMMA PowersGrow ==
    ASSUME PowersOfTen, NEW j \in Nat, NEW k \in Nat, j <= k
    PROVE  10^j <= 10^k
  <1> DEFINE h == k - j
             x == 10^j
             y == 10^h
  <1>1. h \in Nat /\ j + h = k
    OBVIOUS
  <1>2. x \in Nat /\ y \in Nat \ {0}
    BY <1>1, PowersArePositive
  <1>3. 10^(j + h) = x * y
    BY <1>1, PowersAdd
  <1> HIDE DEF h, x, y
  <1>4. x <= x * y
    BY <1>2
  <1>5. QED
    BY <1>1, <1>3, <1>4 DEF x

LEMMA PowersPass ==
    ASSUME PowersOfTen
    PROVE  \A k \in Nat : 10^k > k
  <1> DEFINE T == {k \in Nat : ~ (10^k > k)}
  <1>1. SUFFICES ASSUME T # {} PROVE FALSE
    OBVIOUS
  <1>2. T \subseteq Nat
    OBVIOUS
  <1>3. PICK k \in T : \A y \in T : k <= y
    <2> HIDE DEF T
    <2>1. QED BY <1>1, <1>2, LeastMember
  <1>4. k \in Nat /\ ~ (10^k > k)
    OBVIOUS
  <1>5. k # 0
    <2>1. 10^0 > 0
      OBVIOUS
    <2>2. QED BY <1>4, <2>1
  <1> DEFINE h == k - 1
  <1>6. h \in Nat /\ h + 1 = k
    BY <1>4, <1>5
  <1>7. h \notin T
    BY <1>3, <1>4
  <1>8. 10^h > h /\ 10^(h + 1) = 10 * 10^h /\ 10^h \in Nat
    BY <1>6, <1>7, PowersArePositive DEF PowersOfTen
  <1> HIDE DEF h, T
  <1>9. QED
    BY <1>4, <1>6, <1>8

HasDigits(n, k) == n < 10^k /\ (k > 1 => n >= 10^(k - 1))

(* Every number has its digits, however many.                              *)
LEMMA DigitsOfNumber ==
    ASSUME PowersOfTen, NEW n \in Nat
    PROVE  Digits(n) \in Nat \ {0} /\ HasDigits(n, Digits(n))
  <1> DEFINE K == 1 .. 9 + (n \div 10^9)
             P(k) == Abs(n) < 10^k /\ (k > 1 => Abs(n) >= 10^(k - 1))
             T == {k \in Nat \ {0} : n < 10^k}
  <1>1. Abs(n) = n
    BY DEF Abs
  <1>2. T \subseteq Nat /\ T # {}
    <2>1. n + 1 \in Nat \ {0} /\ n < 10^(n + 1)
      <3>1. 10^(n + 1) > n + 1 /\ 10^(n + 1) \in Nat
        BY PowersPass, PowersArePositive
      <3>2. QED BY <3>1
    <2>2. QED BY <2>1
  <1>3. PICK k \in T : \A y \in T : k <= y
    <2> HIDE DEF T
    <2>1. QED BY <1>2, LeastMember
  <1>4. k \in Nat \ {0} /\ n < 10^k
    OBVIOUS
  <1>5. k > 1 => n >= 10^(k - 1)
    <2>1. SUFFICES ASSUME k > 1 PROVE n >= 10^(k - 1)
      OBVIOUS
    <2>2. k - 1 \in Nat \ {0} /\ k - 1 \notin T
      BY <1>3, <1>4, <2>1
    <2>3. 10^(k - 1) \in Nat
      BY <2>2, PowersArePositive
    <2>4. QED BY <2>2, <2>3
  <1>6. k \in K
    <2>1. n \div 10^9 \in Nat
      OBVIOUS
    <2>2. CASE k <= 9
      BY <1>4, <2>1, <2>2
    <2>3. CASE k > 9
      <3> DEFINE j == k - 10
                 x == 10^9
                 y == 10^j
                 q == n \div x
      <3>1. j \in Nat /\ 9 + j = k - 1
        BY <1>4, <2>3
      <3>2. x \in Nat \ {0} /\ y \in Nat /\ y > j
        BY <3>1, PowersPass, PowersArePositive
      <3>3. 10^(9 + j) = x * y
        BY <3>1, PowersAdd
      <3>4. n >= x * y
        BY <1>4, <1>5, <2>3, <3>1, <3>3
      <3> HIDE DEF x, y, j
      <3>5. n = x * q + (n % x) /\ n % x < x /\ q \in Int
        BY <3>2
      <3> HIDE DEF q
      <3>6. q >= y
        <4>1. SUFFICES ASSUME q < y PROVE FALSE
          BY <3>2, <3>5
        <4>2. q + 1 <= y
          BY <3>2, <3>5, <4>1
        <4>3. x * (q + 1) <= x * y
          BY <3>2, <3>5, <4>2
        <4>4. x * (q + 1) = x * q + x
          BY <3>2, <3>5
        <4>5. n % x \in Int /\ x * q \in Int /\ x * y \in Int
          BY <3>2, <3>5
        <4>6. QED BY <3>2, <3>4, <3>5, <4>3, <4>4, <4>5
      <3>7. k <= 9 + q
        BY <1>4, <3>1, <3>2, <3>5, <3>6 DEF j
      <3>8. QED BY <1>4, <3>7 DEF q, x
    <2>4. QED BY <1>4, <2>2, <2>3
  <1>7. P(k)
    BY <1>1, <1>4, <1>5
  <1>8. Digits(n) = CHOOSE i \in K : P(i)
    BY <1>1 DEF Digits
  <1>9. K \subseteq Nat \ {0}
    OBVIOUS
  <1>10. \A i : P(i) => HasDigits(n, i)
    BY <1>1 DEF HasDigits
  <1> HIDE DEF P, K
  <1>11. QED
    BY <1>6, <1>7, <1>8, <1>9, <1>10

LEMMA DigitsAreCounted ==
    ASSUME PowersOfTen, NEW n \in Nat, NEW k \in Nat \ {0}, HasDigits(n, k)
    PROVE  Digits(n) = k
  <1> DEFINE i == Digits(n)
  <1>1. i \in Nat \ {0} /\ HasDigits(n, i)
    BY DigitsOfNumber
  <1> HIDE DEF i
  <1>2. ASSUME NEW x \in Nat \ {0}, NEW y \in Nat \ {0}, HasDigits(n, x), HasDigits(n, y), x < y
        PROVE  FALSE
    <2>1. y - 1 \in Nat /\ x <= y - 1
      BY <1>2
    <2>2. 10^x <= 10^(y - 1) /\ 10^x \in Nat /\ 10^(y - 1) \in Nat
      BY <2>1, PowersGrow, PowersArePositive
    <2>3. n < 10^x /\ n >= 10^(y - 1)
      BY <1>2 DEF HasDigits
    <2>4. QED BY <2>2, <2>3
  <1>3. QED
    BY <1>1, <1>2 DEF i

(* A quotient is rounded to a nearest whole number.                        *)
LEMMA HalfEvenIsNear ==
    ASSUME NEW num \in Nat, NEW den \in Nat \ {0}
    PROVE  /\ HalfEven(num, den) \in Nat
           /\ 2 * (den * HalfEven(num, den)) <= 2 * num + den
           /\ 2 * num <= 2 * (den * HalfEven(num, den)) + den
  <1> DEFINE q == num \div den
             m == num % den
             h == HalfEven(num, den)
  <1>1. num = den * q + m /\ m \in 0 .. den - 1 /\ q \in Int
    OBVIOUS
  <1>2. \/ h = q /\ 2 * m <= den
        \/ h = q + 1 /\ 2 * m >= den
    <2>1. Abs(num) = num /\ ~ num < 0
      BY DEF Abs
    <2>2. h = IF 2 * m > den \/ (2 * m = den /\ q % 2 = 1) THEN q + 1 ELSE q
      BY <2>1 DEF HalfEven
    <2> HIDE DEF h, m, q
    <2>3. QED BY <1>1, <2>2
  <1> HIDE DEF q, m, h
  <1>3. q \in Nat
    <2>1. SUFFICES ASSUME q <= -1 PROVE FALSE
      BY <1>1
    <2>2. den * q <= -den
      BY <1>1, <2>1
    <2>3. QED BY <1>1, <2>2
  <1>4. den * (q + 1) = den * q + den /\ den * q \in Int
    BY <1>1
  <1>5. h \in Nat /\ 2 * (den * h) <= 2 * num + den /\ 2 * num <= 2 * (den * h) + den
    BY <1>1, <1>2, <1>3, <1>4
  <1>6. QED
    BY <1>5 DEF h

(* Twice the least number that fills the digits.                           *)
Sharp == 2 * 10^(Precision - 1)

(* As near to x as a rounding leaves a number: within half a unit of the   *)
(* last digit that is kept.                                                *)
IsNear(y, x) == (Sharp - 1) * x <= Sharp * y /\ Sharp * y <= (Sharp + 1) * x

LEMMA SharpIsEven ==
    ASSUME PowersOfTen
    PROVE  10^(Precision - 1) \in Nat \ {0} /\ Sharp \in Nat /\ Sharp >= 2
  <1>1. Precision - 1 \in Nat
    BY PrecisionAssumption
  <1>2. 10^(Precision - 1) \in Nat \ {0}
    BY <1>1, PowersArePositive
  <1>3. QED
    BY <1>2 DEF Sharp

LEMMA ExactIsNear ==
    ASSUME PowersOfTen, NEW x \in Nat
    PROVE  IsNear(x, x)
  <1>1. Sharp \in Nat
    BY SharpIsEven
  <1>2. QED
    BY <1>1 DEF IsNear

(* What is scaled up stays as near.                                        *)
LEMMA ScaledIsNear ==
    ASSUME PowersOfTen, NEW y \in Nat, NEW x \in Nat, NEW u \in Nat, IsNear(y, x)
    PROVE  IsNear(y * u, x * u)
  <1> DEFINE p == (Sharp - 1) * x
             q == Sharp * y
             r == (Sharp + 1) * x
  <1>1. Sharp \in Nat
    BY SharpIsEven
  <1>2. p \in Int /\ q \in Int /\ r \in Int /\ p <= q /\ q <= r
    BY <1>1 DEF IsNear
  <1>3. p * u = (Sharp - 1) * (x * u) /\ q * u = Sharp * (y * u) /\ r * u = (Sharp + 1) * (x * u)
    BY <1>1
  <1> HIDE DEF p, q, r
  <1>4. p * u <= q * u /\ q * u <= r * u
    BY <1>2
  <1>5. QED
    BY <1>3, <1>4 DEF IsNear

(* A quotient of enough digits is rounded to one that is near.             *)
LEMMA RoundedIsNear ==
    ASSUME PowersOfTen, NEW num \in Nat, NEW den \in Nat \ {0}, den * 10^(Precision - 1) <= num
    PROVE  HalfEven(num, den) \in Nat /\ IsNear(HalfEven(num, den) * den, num)
  <1> DEFINE h == HalfEven(num, den)
             t == 10^(Precision - 1)
             v == h * den
  <1>1. h \in Nat /\ 2 * (den * h) <= 2 * num + den /\ 2 * num <= 2 * (den * h) + den
    BY HalfEvenIsNear
  <1>2. t \in Nat \ {0} /\ Sharp = 2 * t /\ den * t <= num
    BY SharpIsEven DEF Sharp
  <1> HIDE DEF h, t
  <1>3. v \in Nat /\ den * h = v
    BY <1>1
  <1> HIDE DEF v
  <1>4. 2 * v <= 2 * num + den /\ 2 * num <= 2 * v + den
    BY <1>1, <1>3
  <1>5. t * (2 * v) <= t * (2 * num + den) /\ t * (2 * num) <= t * (2 * v + den)
    <2> DEFINE a == 2 * v
               b == 2 * num
    <2>1. a \in Nat /\ b \in Nat /\ a <= b + den /\ b <= a + den
      BY <1>3, <1>4
    <2> HIDE DEF a, b
    <2>2. t * a <= t * (b + den) /\ t * b <= t * (a + den)
      BY <1>2, <2>1
    <2>3. QED BY <2>2 DEF a, b
  <1>6. /\ t * (2 * v) = Sharp * v /\ t * (2 * num + den) = Sharp * num + den * t
        /\ t * (2 * num) = Sharp * num /\ t * (2 * v + den) = Sharp * v + den * t
    BY <1>2, <1>3
  <1>7. /\ Sharp * v \in Int /\ Sharp * num \in Int /\ den * t \in Int
        /\ (Sharp - 1) * num = Sharp * num - num /\ (Sharp + 1) * num = Sharp * num + num
    BY <1>2, <1>3
  <1>8. (Sharp - 1) * num <= Sharp * v /\ Sharp * v <= (Sharp + 1) * num
    BY <1>2, <1>5, <1>6, <1>7
  <1>9. QED
    BY <1>1, <1>8 DEF IsNear, h, v

FitsNear(r, n, e) ==
    /\ r.n \in Nat /\ r.e \in Int /\ e <= r.e
    /\ \A d \in Int : d <= e => IsNear(InUnits(r, d), n * 10^(e - d))

LEMMA FitIsNear ==
    ASSUME PowersOfTen, NEW n \in Nat, NEW e \in Int
    PROVE  FitsNear(Fit(n, e), n, e)
  <1> DEFINE over == Digits(n) - Precision
             r == Fit(n, e)
  <1>1. Digits(n) \in Nat \ {0} /\ HasDigits(n, Digits(n))
    BY DigitsOfNumber
  <1>2. over \in Int
    BY <1>1, PrecisionAssumption
  <1>3. r = IF over <= 0 THEN [n |-> n, e |-> e] ELSE [n |-> HalfEven(n, 10^over), e |-> e + over]
    BY DEF Fit
  <1> HIDE DEF r
  <1>4. CASE over <= 0
    <2>1. r.n = n /\ r.e = e
      BY <1>3, <1>4
    <2>2. ASSUME NEW d \in Int, d <= e PROVE IsNear(InUnits(r, d), n * 10^(e - d))
      <3>1. 10^(e - d) \in Nat
        BY <2>2, PowersArePositive
      <3>2. n * 10^(e - d) \in Nat
        BY <3>1
      <3>3. QED BY <2>1, <3>2, ExactIsNear DEF InUnits
    <2>3. QED BY <2>1, <2>2 DEF FitsNear, r
  <1>5. CASE over > 0
    <2> DEFINE ten == 10^over
               t == 10^(Precision - 1)
    <2>1. over \in Nat /\ Precision - 1 \in Nat /\ over + (Precision - 1) = Digits(n) - 1 /\ Digits(n) > 1
      BY <1>1, <1>2, <1>5, PrecisionAssumption
    <2>2. ten \in Nat \ {0} /\ t \in Nat \ {0}
      BY <2>1, PowersArePositive
    <2>3. 10^(over + (Precision - 1)) = ten * t
      BY <2>1, PowersAdd
    <2>4. ten * t <= n
      <3>1. n >= 10^(Digits(n) - 1)
        BY <1>1, <2>1 DEF HasDigits
      <3> HIDE DEF over
      <3>2. n >= ten * t
        BY <2>1, <2>3, <3>1
      <3> HIDE DEF ten, t
      <3>3. QED BY <2>2, <3>2
    <2> DEFINE h == HalfEven(n, ten)
    <2>5. h \in Nat /\ IsNear(h * ten, n)
      <3> HIDE DEF ten
      <3>1. QED BY <2>2, <2>4, RoundedIsNear
    <2>6. r.n = h /\ r.e = e + over
      <3> HIDE DEF h
      <3>1. r = [n |-> h, e |-> e + over]
        BY <1>2, <1>3, <1>5 DEF h
      <3>2. QED BY <3>1
    <2> HIDE DEF h, over
    <2>7. ASSUME NEW d \in Int, d <= e PROVE IsNear(InUnits(r, d), n * 10^(e - d))
      <3> DEFINE u == 10^(e - d)
      <3>1. e - d \in Nat /\ over + (e - d) = (e + over) - d
        BY <2>1, <2>7
      <3>2. u \in Nat
        BY <3>1, PowersArePositive
      <3>3. 10^(over + (e - d)) = ten * u
        BY <2>1, <3>1, PowersAdd
      <3>4. InUnits(r, d) = h * (ten * u)
        BY <2>6, <3>1, <3>3 DEF InUnits
      <3> HIDE DEF u, ten
      <3>5. h * ten \in Nat /\ (h * ten) * u = h * (ten * u)
        BY <2>2, <2>5, <3>2
      <3>6. IsNear((h * ten) * u, n * u)
        BY <2>5, <3>2, <3>5, ScaledIsNear
      <3>7. QED BY <3>4, <3>5, <3>6 DEF u
    <2>8. QED BY <2>1, <2>5, <2>6, <2>7 DEF FitsNear, r
  <1>6. QED
    BY <1>2, <1>4, <1>5

(* The two sides of a division when the quotient is to have k more digits. *)
Sides(n, i, k) == IF k >= 0 THEN <<n * 10^k, i>> ELSE <<n, i * 10^(-k)>>

LEMMA SidesAreNumbers ==
    ASSUME PowersOfTen, NEW n \in Nat, NEW i \in Nat \ {0}, NEW k \in Int
    PROVE  Sides(n, i, k)[1] \in Nat /\ Sides(n, i, k)[2] \in Nat \ {0}
  <1>1. CASE k >= 0
    <2>1. 10^k \in Nat
      BY <1>1, PowersArePositive
    <2>2. n * 10^k \in Nat
      BY <2>1
    <2>3. QED BY <1>1, <2>2 DEF Sides
  <1>2. CASE k < 0
    <2>1. -k \in Nat /\ 10^(-k) \in Nat \ {0}
      BY <1>2, PowersArePositive
    <2> DEFINE x == 10^(-k)
    <2>2. x \in Nat \ {0}
      BY <2>1
    <2> HIDE DEF x
    <2>3. i * x \in Nat \ {0}
      BY <2>2
    <2>4. QED BY <1>2, <2>3 DEF Sides, x
  <1>3. QED
    BY <1>1, <1>2

(* One digit more is ten times the quotient.                               *)
LEMMA SidesShift ==
    ASSUME PowersOfTen, NEW n \in Nat, NEW i \in Nat \ {0}, NEW k \in Int
    PROVE  Sides(n, i, k + 1)[1] * Sides(n, i, k)[2] = 10 * (Sides(n, i, k)[1] * Sides(n, i, k + 1)[2])
  <1>1. CASE k >= 0
    <2> DEFINE x == 10^k
    <2>1. x \in Nat /\ 10^(k + 1) = 10 * x
      BY <1>1, PowersArePositive DEF PowersOfTen
    <2>2. /\ Sides(n, i, k + 1)[1] = n * (10 * x) /\ Sides(n, i, k)[2] = i
          /\ Sides(n, i, k)[1] = n * x /\ Sides(n, i, k + 1)[2] = i
      BY <1>1, <2>1 DEF Sides
    <2> HIDE DEF x
    <2>3. (n * (10 * x)) * i = 10 * ((n * x) * i)
      BY <2>1
    <2>4. QED BY <2>2, <2>3
  <1>2. CASE k + 1 = 0
    <2>1. Sides(n, i, 0)[1] = n /\ Sides(n, i, 0)[2] = i
      <3>1. 10^0 = 1 /\ n * 1 = n
        OBVIOUS
      <3>2. Sides(n, i, 0) = <<n * 10^0, i>>
        BY DEF Sides
      <3>3. QED BY <3>1, <3>2
    <2>2. Sides(n, i, k)[1] = n /\ Sides(n, i, k)[2] = i * 10
      <3>1. ~ k >= 0 /\ -k = 1
        BY <1>2
      <3>2. Sides(n, i, k) = <<n, i * 10^(-k)>>
        BY <3>1 DEF Sides
      <3>3. 10^1 = 10
        OBVIOUS
      <3>4. 10^(-k) = 10^1
        BY <3>1
      <3>5. 10^(-k) = 10
        BY <3>3, <3>4
      <3> DEFINE x == 10^(-k)
      <3>6. Sides(n, i, k) = <<n, i * x>> /\ x = 10
        BY <3>2, <3>5
      <3> HIDE DEF x
      <3>7. QED BY <3>6
    <2>3. n * (i * 10) = 10 * (n * i)
      OBVIOUS
    <2>4. k + 1 = 0
      BY <1>2
    <2>5. QED BY <1>2, <2>1, <2>2, <2>3, <2>4
  <1>3. CASE k < -1
    <2> DEFINE j == -(k + 1)
               x == 10^j
    <2>1. j \in Nat /\ j + 1 = -k
      BY <1>3
    <2>2. x \in Nat /\ 10^(j + 1) = 10 * x
      BY <2>1, PowersArePositive DEF PowersOfTen
    <2>3. /\ Sides(n, i, k + 1)[1] = n /\ Sides(n, i, k)[2] = i * (10 * x)
          /\ Sides(n, i, k)[1] = n /\ Sides(n, i, k + 1)[2] = i * x
      BY <1>3, <2>1, <2>2 DEF Sides
    <2> HIDE DEF x
    <2>4. n * (i * (10 * x)) = 10 * (n * (i * x))
      BY <2>2
    <2>5. QED BY <2>3, <2>4
  <1>4. QED
    BY <1>1, <1>2, <1>3

Widest(n, i) == Precision + Digits(i) - Digits(n)

(* By how many digits the quotient is scaled.                              *)
Scale(n, i) ==
    LET s == Sides(n, i, Widest(n, i))
    IN IF s[1] >= s[2] * 10^Precision THEN Widest(n, i) - 1 ELSE Widest(n, i)

(* At the widest scale the quotient has the digits to fill, or one more.   *)
LEMMA WidestIsFull ==
    ASSUME PowersOfTen, NEW n \in Nat \ {0}, NEW i \in Nat \ {0}
    PROVE  /\ Widest(n, i) \in Int
           /\ Sides(n, i, Widest(n, i))[2] * 10^(Precision - 1) <= Sides(n, i, Widest(n, i))[1]
  <1> DEFINE w == Widest(n, i)
             t == 10^(Precision - 1)
             dn == Digits(n)
             di == Digits(i)
             lead == 10^(dn - 1)
             top == 10^di
  <1>1. dn \in Nat \ {0} /\ di \in Nat \ {0} /\ HasDigits(n, dn) /\ HasDigits(i, di)
    BY DigitsOfNumber
  <1>2. w = Precision + di - dn
    BY DEF Widest
  <1>3. Precision \in Nat \ {0}
    BY PrecisionAssumption
  <1> HIDE DEF w, dn, di
  <1>4. w \in Int /\ Precision - 1 \in Nat /\ dn - 1 \in Nat
    BY <1>1, <1>2, <1>3
  <1>5. t \in Nat \ {0} /\ lead \in Nat \ {0} /\ top \in Nat \ {0}
    BY <1>1, <1>4, PowersArePositive
  <1>6. lead <= n /\ i < top
    <2>1. dn = 1 => lead = 1
      OBVIOUS
    <2>2. dn > 1 => lead <= n
      <3>1. dn > 1 => n >= 10^(dn - 1)
        BY <1>1 DEF HasDigits
      <3>2. QED BY <1>5, <3>1
    <2>3. QED BY <1>1, <1>5, <2>1, <2>2 DEF HasDigits
  <1>7. CASE w >= 0
    <2> DEFINE x == 10^w
    <2>1. x \in Nat \ {0}
      BY <1>4, <1>7, PowersArePositive
    <2>2. Sides(n, i, w)[1] = n * x /\ Sides(n, i, w)[2] = i
      BY <1>7 DEF Sides
    <2>3. lead * x = top * t
      <3>1. (dn - 1) + w = di + (Precision - 1) /\ w \in Nat
        BY <1>1, <1>2, <1>3, <1>7
      <3>2. 10^((dn - 1) + w) = lead * x
        BY <1>4, <3>1, PowersAdd
      <3>3. 10^(di + (Precision - 1)) = top * t
        BY <1>1, <1>4, PowersAdd
      <3>4. QED BY <3>1, <3>2, <3>3
    <2> HIDE DEF x, lead, top, t
    <2>4. lead * x <= n * x /\ i * t <= top * t
      BY <1>5, <1>6, <2>1
    <2>5. n * x \in Int /\ i * t \in Int /\ lead * x \in Int
      BY <1>5, <2>1
    <2>6. i * t <= n * x
      BY <2>3, <2>4, <2>5
    <2>7. QED BY <1>4, <2>2, <2>6 DEF w, t
  <1>8. CASE w < 0
    <2> DEFINE x == 10^(-w)
    <2>1. -w \in Nat /\ x \in Nat \ {0}
      BY <1>4, <1>8, PowersArePositive
    <2>2. Sides(n, i, w)[1] = n /\ Sides(n, i, w)[2] = i * x
      BY <1>4, <1>8 DEF Sides
    <2>3. lead = top * (t * x)
      <3>1. (Precision - 1) + (-w) \in Nat /\ di + ((Precision - 1) + (-w)) = dn - 1
        BY <1>1, <1>2, <1>3, <1>4, <2>1
      <3>2. 10^((Precision - 1) + (-w)) = t * x
        BY <1>4, <2>1, PowersAdd
      <3>3. 10^(di + ((Precision - 1) + (-w))) = top * 10^((Precision - 1) + (-w))
        BY <1>1, <3>1, PowersAdd
      <3>4. QED BY <3>1, <3>2, <3>3
    <2> HIDE DEF x, lead, top, t
    <2>4. t * x \in Nat
      BY <1>5, <2>1
    <2>5. i * (t * x) <= top * (t * x)
      <3> DEFINE z == t * x
      <3>1. z \in Nat
        BY <2>4
      <3> HIDE DEF z
      <3>2. i * z <= top * z
        BY <1>5, <1>6, <3>1
      <3>3. QED BY <3>2 DEF z
    <2>6. (i * x) * t = i * (t * x) /\ i * (t * x) \in Int
      BY <1>5, <2>1
    <2>7. (i * x) * t <= n
      BY <1>5, <1>6, <2>3, <2>5, <2>6
    <2>8. QED BY <1>4, <2>2, <2>7 DEF w, t
  <1>9. QED
    BY <1>4, <1>7, <1>8

LEMMA QuotientIsFull ==
    ASSUME PowersOfTen, NEW n \in Nat \ {0}, NEW i \in Nat \ {0}
    PROVE  /\ Scale(n, i) \in Int
           /\ Sides(n, i, Scale(n, i))[2] * 10^(Precision - 1) <= Sides(n, i, Scale(n, i))[1]
  <1> DEFINE w == Widest(n, i)
             t == 10^(Precision - 1)
             x == Sides(n, i, w)[1]
             y == Sides(n, i, w)[2]
             u == Sides(n, i, w - 1)[1]
             v == Sides(n, i, w - 1)[2]
  <1>1. w \in Int /\ y * t <= x
    BY WidestIsFull
  <1>2. Precision - 1 \in Nat /\ (Precision - 1) + 1 = Precision
    BY PrecisionAssumption
  <1>3. t \in Nat \ {0} /\ 10^Precision = 10 * t
    <2>1. 10^((Precision - 1) + 1) = 10 * t
      BY <1>2 DEF PowersOfTen
    <2>2. QED BY <1>2, <2>1, PowersArePositive
  <1>4. Scale(n, i) = IF x >= y * (10 * t) THEN w - 1 ELSE w
    BY <1>3 DEF Scale
  <1> HIDE DEF w
  <1>5. w - 1 \in Int /\ (w - 1) + 1 = w
    BY <1>1
  <1>6. x \in Nat /\ y \in Nat \ {0} /\ u \in Nat /\ v \in Nat \ {0}
    BY <1>1, <1>5, SidesAreNumbers
  <1>7. x * v = 10 * (u * y)
    <2>1. Sides(n, i, (w - 1) + 1)[1] * v = 10 * (u * Sides(n, i, (w - 1) + 1)[2])
      BY <1>5, SidesShift
    <2>2. QED BY <1>5, <2>1
  <1> HIDE DEF x, y, u, v, t
  <1>8. ASSUME x >= y * (10 * t) PROVE v * t <= u
    <2>1. SUFFICES ASSUME u < v * t PROVE FALSE
      BY <1>3, <1>6
    <2>2. u * y < (v * t) * y
      <3> DEFINE z == v * t
      <3>1. z \in Nat
        BY <1>3, <1>6
      <3>2. u < z
        BY <2>1
      <3> HIDE DEF z
      <3>3. u * y < z * y
        BY <1>6, <3>1, <3>2
      <3>4. QED BY <3>3 DEF z
    <2>3. x * v >= (y * (10 * t)) * v
      <3> DEFINE z == y * (10 * t)
      <3>1. z \in Nat /\ x >= z
        BY <1>3, <1>6, <1>8
      <3> HIDE DEF z
      <3>2. x * v >= z * v
        BY <1>6, <3>1
      <3>3. QED BY <3>2 DEF z
    <2>4. (y * (10 * t)) * v = 10 * ((v * t) * y)
      BY <1>3, <1>6
    <2>5. (v * t) * y \in Int /\ u * y \in Int
      BY <1>3, <1>6
    <2>6. QED BY <1>7, <2>2, <2>3, <2>4, <2>5
  <1>9. QED
    BY <1>1, <1>4, <1>5, <1>8 DEF x, y, u, v, t

DividesNear(r, a, i) ==
    /\ r.n \in Nat /\ r.e \in Int
    /\ \A d \in Int : d <= a.e /\ d <= r.e => IsNear(InUnits(r, d) * i, InUnits(a, d))

LEMMA OverIsRounded ==
    ASSUME PowersOfTen, NEW a, a.n \in Nat, a.e \in Int, NEW i \in Nat \ {0}
    PROVE  Over(a, Dec(i)) =
               IF a.n = 0 THEN Dec(0)
               ELSE LET s == Sides(a.n, i, Scale(a.n, i))
                    IN [n |-> HalfEven(s[1], s[2]), e |-> a.e - Scale(a.n, i)]
  <1> DEFINE b == Dec(i)
             Scaled(k) == IF k >= 0 THEN <<Abs(a.n) * 10^k, Abs(b.n)>>
                               ELSE <<Abs(a.n), Abs(b.n) * 10^(-k)>>
             widest == Precision + Digits(b.n) - Digits(a.n)
             k == IF Scaled(widest)[1] >= Scaled(widest)[2] * 10^Precision
                  THEN widest - 1 ELSE widest
             q == HalfEven(Scaled(k)[1], Scaled(k)[2])
             sign == IF (a.n < 0) = (b.n < 0) THEN 1 ELSE -1
  <1>1. Over(a, b) = IF a.n = 0 THEN Dec(0) ELSE [n |-> sign * q, e |-> a.e - b.e - k]
    BY Zenon DEF Over
  <1>2. b.n = i /\ b.e = 0
    BY DEF Dec
  <1>3. Abs(a.n) = a.n /\ Abs(b.n) = i
    BY <1>2 DEF Abs
  <1>4. sign = 1
    BY <1>2
  <1> HIDE DEF sign, b
  <1>5. \A j : Scaled(j) = Sides(a.n, i, j)
    BY <1>3, Zenon DEF Sides
  <1>6. widest = Widest(a.n, i)
    BY <1>2 DEF Widest
  <1> HIDE DEF widest, Scaled
  <1>7. k = Scale(a.n, i)
    BY <1>5, <1>6 DEF Scale
  <1> HIDE DEF k
  <1>8. q = HalfEven(Sides(a.n, i, k)[1], Sides(a.n, i, k)[2])
    BY <1>5
  <1>9. a.n # 0 => q \in Nat
    <2>1. SUFFICES ASSUME a.n # 0 PROVE q \in Nat
      OBVIOUS
    <2>2. Scale(a.n, i) \in Int
      BY <2>1, QuotientIsFull
    <2>3. Sides(a.n, i, k)[1] \in Nat /\ Sides(a.n, i, k)[2] \in Nat \ {0}
      BY <1>7, <2>2, SidesAreNumbers
    <2>4. QED BY <1>8, <2>3, HalfEvenIsNear
  <1> HIDE DEF q
  <1>10. a.n # 0 => sign * q = q /\ a.e - b.e - k = a.e - k
    <2>1. SUFFICES ASSUME a.n # 0 PROVE sign * q = q /\ a.e - b.e - k = a.e - k
      OBVIOUS
    <2>2. k \in Int
      BY <1>7, <2>1, QuotientIsFull
    <2>3. QED BY <1>2, <1>4, <1>9, <2>1, <2>2
  <1>11. Over(a, b) = IF a.n = 0 THEN Dec(0) ELSE [n |-> q, e |-> a.e - k]
    BY <1>1, <1>10
  <1>12. QED
    BY <1>7, <1>8, <1>11 DEF b

LEMMA OverIsNear ==
    ASSUME PowersOfTen, NEW a, a.n \in Nat, a.e \in Int, NEW i \in Nat \ {0}
    PROVE  DividesNear(Over(a, Dec(i)), a, i)
  <1> DEFINE r == Over(a, Dec(i))
             k == Scale(a.n, i)
             x == Sides(a.n, i, k)[1]
             y == Sides(a.n, i, k)[2]
             q == HalfEven(x, y)
  <1>1. r = IF a.n = 0 THEN Dec(0) ELSE [n |-> q, e |-> a.e - k]
    BY OverIsRounded
  <1>2. CASE a.n = 0
    <2>1. r.n = 0 /\ r.e = 0
      BY <1>1, <1>2 DEF Dec
    <2> HIDE DEF r
    <2>2. ASSUME NEW d \in Int, d <= a.e, d <= r.e
          PROVE  IsNear(InUnits(r, d) * i, InUnits(a, d))
      <3>1. a.e - d \in Nat /\ r.e - d \in Nat
        BY <2>1, <2>2
      <3>2. 10^(a.e - d) \in Nat /\ 10^(r.e - d) \in Nat
        BY <3>1, PowersArePositive
      <3>3. InUnits(r, d) = 0 /\ InUnits(a, d) = 0
        BY <1>2, <2>1, <3>2 DEF InUnits
      <3>4. IsNear(0, 0)
        BY ExactIsNear
      <3>5. QED BY <3>3, <3>4
    <2>3. QED BY <2>1, <2>2 DEF DividesNear, r
  <1>3. CASE a.n # 0
    <2>1. k \in Int /\ y * 10^(Precision - 1) <= x
      BY <1>3, QuotientIsFull
    <2>2. x \in Nat /\ y \in Nat \ {0}
      BY <2>1, SidesAreNumbers
    <2>3. q \in Nat /\ IsNear(q * y, x)
      <3> HIDE DEF x, y
      <3>1. QED BY <2>1, <2>2, RoundedIsNear
    <2>4. r.n = q /\ r.e = a.e - k
      <3> HIDE DEF q, k
      <3>1. QED BY <1>1, <1>3
    <2> HIDE DEF q, r
    <2>5. ASSUME NEW d \in Int, d <= a.e, d <= r.e
          PROVE  IsNear(InUnits(r, d) * i, InUnits(a, d))
      <3> DEFINE u == 10^(IF k >= 0 THEN r.e - d ELSE a.e - d)
      <3>1. u \in Nat
        <4> HIDE DEF k
        <4>1. (IF k >= 0 THEN r.e - d ELSE a.e - d) \in Nat
          BY <2>1, <2>4, <2>5
        <4>2. QED BY <4>1, PowersArePositive
      <3>2. InUnits(r, d) * i = (q * y) * u /\ InUnits(a, d) = x * u
        <4>1. CASE k >= 0
          <5> DEFINE ten == 10^k
          <5>1. x = a.n * ten /\ y = i
            BY <4>1 DEF Sides
          <5> HIDE DEF x, y, k
          <5>2. k \in Nat /\ r.e - d \in Nat /\ k + (r.e - d) = a.e - d
            BY <2>1, <2>4, <2>5, <4>1
          <5>3. 10^(k + (r.e - d)) = ten * u
            BY <4>1, <5>2, PowersAdd
          <5>4. ten \in Nat
            BY <5>2, PowersArePositive
          <5>5. InUnits(r, d) = q * u /\ InUnits(a, d) = a.n * (ten * u)
            BY <2>4, <4>1, <5>2, <5>3 DEF InUnits
          <5> HIDE DEF u, ten
          <5>6. (q * u) * i = (q * i) * u /\ a.n * (ten * u) = (a.n * ten) * u
            BY <2>3, <3>1, <5>4
          <5>7. QED BY <5>1, <5>5, <5>6
        <4>2. CASE k < 0
          <5> DEFINE ten == 10^(-k)
          <5>0. ~ k >= 0
            <6> HIDE DEF k
            <6>1. QED BY <2>1, <4>2
          <5>1. x = a.n /\ y = i * ten
            BY <5>0 DEF Sides
          <5> HIDE DEF x, y, k
          <5>2. -k \in Nat /\ a.e - d \in Nat /\ (-k) + (a.e - d) = r.e - d
            BY <2>1, <2>4, <2>5, <4>2
          <5>3. 10^((-k) + (a.e - d)) = ten * u
            BY <5>0, <5>2, PowersAdd
          <5>4. ten \in Nat
            BY <5>2, PowersArePositive
          <5>5. InUnits(r, d) = q * (ten * u) /\ InUnits(a, d) = a.n * u
            BY <2>4, <5>0, <5>2, <5>3 DEF InUnits
          <5> HIDE DEF u, ten
          <5>6. (q * (ten * u)) * i = (q * (i * ten)) * u
            BY <2>3, <3>1, <5>4
          <5>7. QED BY <5>1, <5>5, <5>6
        <4>3. QED
          <5> HIDE DEF k
          <5>1. QED BY <2>1, <4>1, <4>2
      <3>3. IsNear((q * y) * u, x * u)
        <4> HIDE DEF x, y, u
        <4>1. q * y \in Nat
          BY <2>2, <2>3
        <4>2. QED BY <2>2, <2>3, <3>1, <4>1, ScaledIsNear
      <3>4. QED BY <3>2, <3>3
    <2>6. a.e - k \in Int
      <3> HIDE DEF k
      <3>1. QED BY <2>1
    <2>7. QED BY <2>3, <2>4, <2>5, <2>6 DEF DividesNear, r
  <1>4. QED
    BY <1>2, <1>3

LEMMA HalfEvenIsExact ==
    ASSUME NEW m \in Nat, NEW den \in Nat \ {0}
    PROVE  HalfEven(m * den, den) = m
  <1> DEFINE h == HalfEven(m * den, den)
  <1>1. m * den \in Nat
    OBVIOUS
  <1>2. h \in Nat /\ 2 * (den * h) <= 2 * (m * den) + den /\ 2 * (m * den) <= 2 * (den * h) + den
    BY <1>1, HalfEvenIsNear
  <1> HIDE DEF h
  <1>3. ASSUME h >= m + 1 PROVE FALSE
    <2>1. den * h >= den * (m + 1) /\ den * (m + 1) = m * den + den
      BY <1>2, <1>3
    <2>2. den * h \in Int /\ m * den \in Int
      BY <1>2
    <2>3. QED BY <1>2, <2>1, <2>2
  <1>4. ASSUME h + 1 <= m PROVE FALSE
    <2>1. den * m >= den * (h + 1) /\ den * (h + 1) = den * h + den /\ den * m = m * den
      BY <1>2, <1>4
    <2>2. den * h \in Int /\ m * den \in Int
      BY <1>2
    <2>3. QED BY <1>2, <2>1, <2>2
  <1>5. QED
    BY <1>2, <1>3, <1>4 DEF h

LEMMA FitKeeps ==
    ASSUME PowersOfTen, NEW n \in Nat, NEW e \in Int, n < 10^Precision
    PROVE  Fit(n, e) = [n |-> n, e |-> e]
  <1> DEFINE k == Digits(n)
  <1>1. k \in Nat \ {0} /\ HasDigits(n, k)
    BY DigitsOfNumber
  <1>2. k - Precision <= 0
    <2>1. SUFFICES ASSUME k > Precision PROVE FALSE
      BY <1>1, PrecisionAssumption
    <2>2. n >= 10^(k - 1)
      BY <1>1, <2>1, PrecisionAssumption DEF HasDigits
    <2> HIDE DEF k
    <2>3. k - 1 \in Nat /\ Precision \in Nat /\ Precision <= k - 1
      BY <1>1, <2>1, PrecisionAssumption
    <2>4. 10^Precision <= 10^(k - 1) /\ 10^Precision \in Nat /\ 10^(k - 1) \in Nat
      BY <2>3, PowersGrow, PowersArePositive
    <2>5. QED BY <2>2, <2>4
  <1>3. QED
    BY <1>2 DEF Fit

LEMMA PowersNear ==
    ASSUME PowersOfTen, Precision >= 2
    PROVE  LET t == 10^(Precision - 2)
           IN /\ t \in Nat \ {0} /\ 10^(Precision - 1) = 10 * t /\ 10^Precision = 100 * t
              /\ 10^(Precision + 1) = 1000 * t /\ 10^(Precision + 2) = 10000 * t
  <1> DEFINE t == 10^(Precision - 2)
  <1>1. /\ Precision - 2 \in Nat /\ (Precision - 2) + 1 = Precision - 1 /\ Precision - 1 \in Nat
        /\ (Precision - 1) + 1 = Precision /\ Precision \in Nat /\ Precision + 1 \in Nat
        /\ (Precision + 1) + 1 = Precision + 2
    BY PrecisionAssumption
  <1>2. t \in Nat \ {0}
    BY <1>1, PowersArePositive
  <1>3. 10^((Precision - 2) + 1) = 10 * t
    BY <1>1 DEF PowersOfTen
  <1>4. 10^((Precision - 1) + 1) = 10 * 10^(Precision - 1)
    BY <1>1 DEF PowersOfTen
  <1>5. 10^(Precision + 1) = 10 * 10^Precision
    BY <1>1 DEF PowersOfTen
  <1>6. 10^((Precision + 1) + 1) = 10 * 10^(Precision + 1)
    BY <1>1 DEF PowersOfTen
  <1> HIDE DEF t
  <1>7. 10^(Precision - 1) = 10 * t
    BY <1>1, <1>3
  <1>8. 10^Precision = 100 * t
    BY <1>1, <1>2, <1>4, <1>7
  <1>9. 10^(Precision + 1) = 1000 * t
    BY <1>1, <1>2, <1>5, <1>8
  <1>10. 10^(Precision + 2) = 10000 * t
    BY <1>1, <1>2, <1>6, <1>9
  <1>11. QED
    BY <1>2, <1>7, <1>8, <1>9, <1>10 DEF t

(* The hundredths of a whole number below 100.                             *)
LEMMA HundredthsAreExact ==
    ASSUME PowersOfTen, Precision >= 2, NEW x \in 1 .. 99
    PROVE  LET t == 10^(Precision - 2)
           IN Over(Dec(x), Dec(100)) =
                  IF x < 10 THEN [n |-> (x * 10) * t, e |-> -(Precision + 1)] ELSE [n |-> x * t, e |-> -Precision]
  <1> DEFINE t == 10^(Precision - 2)
             k == Scale(x, 100)
  <1>1. t \in Nat \ {0} /\ 10^Precision = 100 * t /\ 10^(Precision + 1) = 1000 * t /\ 10^(Precision + 2) = 10000 * t
    BY PowersNear
  <1>2. Precision \in Nat /\ x \in Nat \ {0}
    BY PrecisionAssumption
  <1>3. Digits(100) = 3
    <2>1. HasDigits(100, 3)
      BY DEF HasDigits
    <2>2. QED BY <2>1, DigitsAreCounted
  <1>4. Over(Dec(x), Dec(100)) = [n |-> HalfEven(Sides(x, 100, k)[1], Sides(x, 100, k)[2]), e |-> 0 - k]
    <2>1. Dec(x).n = x /\ Dec(x).e = 0 /\ x # 0
      BY DEF Dec
    <2> DEFINE a == Dec(x)
    <2> HIDE DEF a
    <2>2. a.n = x /\ a.e = 0 /\ a.n \in Nat /\ a.e \in Int /\ a.n # 0
      BY <1>2, <2>1 DEF a
    <2>3. 100 \in Nat \ {0}
      OBVIOUS
    <2>4. Over(a, Dec(100)) = [n |-> HalfEven(Sides(a.n, 100, Scale(a.n, 100))[1], Sides(a.n, 100, Scale(a.n, 100))[2]),
                               e |-> a.e - Scale(a.n, 100)]
      BY <2>2, <2>3, OverIsRounded
    <2>5. QED BY <2>2, <2>4 DEF a
  <1> HIDE DEF t
  <1>5. CASE x < 10
    <2>1. Digits(x) = 1
      <3>1. HasDigits(x, 1)
        BY <1>2, <1>5 DEF HasDigits
      <3>2. QED BY <1>2, <3>1, DigitsAreCounted
    <2>2. Widest(x, 100) = Precision + 2
      BY <1>2, <1>3, <2>1 DEF Widest
    <2>3. Sides(x, 100, Precision + 2)[1] = x * (10000 * t) /\ Sides(x, 100, Precision + 2)[2] = 100
      BY <1>1, <1>2 DEF Sides
    <2>4. x * (10000 * t) >= 100 * (100 * t)
      BY <1>1, <1>2
    <2>5. k = Precision + 1
      BY <1>1, <1>2, <2>2, <2>3, <2>4 DEF Scale
    <2>6. Sides(x, 100, Precision + 1)[1] = x * (1000 * t) /\ Sides(x, 100, Precision + 1)[2] = 100
      BY <1>1, <1>2 DEF Sides
    <2>7. x * (1000 * t) = ((x * 10) * t) * 100 /\ (x * 10) * t \in Nat
      BY <1>1, <1>2
    <2>8. HalfEven(((x * 10) * t) * 100, 100) = (x * 10) * t
      BY <2>7, HalfEvenIsExact
    <2>9. 0 - k = -(Precision + 1)
      BY <1>2, <2>5
    <2> HIDE DEF k
    <2>10. Over(Dec(x), Dec(100)) = [n |-> (x * 10) * t, e |-> -(Precision + 1)]
      <3>1. HalfEven(Sides(x, 100, k)[1], Sides(x, 100, k)[2]) = HalfEven(((x * 10) * t) * 100, 100)
        BY <2>5, <2>6, <2>7
      <3>2. QED BY <1>4, <2>8, <2>9, <3>1
    <2>11. QED BY <1>5, <2>10 DEF t
  <1>6. CASE ~ x < 10
    <2>1. Digits(x) = 2
      <3>1. HasDigits(x, 2)
        BY <1>2, <1>6 DEF HasDigits
      <3>2. QED BY <1>2, <3>1, DigitsAreCounted
    <2>2. Widest(x, 100) = Precision + 1
      BY <1>2, <1>3, <2>1 DEF Widest
    <2>3. Sides(x, 100, Precision + 1)[1] = x * (1000 * t) /\ Sides(x, 100, Precision + 1)[2] = 100
      BY <1>1, <1>2 DEF Sides
    <2>4. x * (1000 * t) >= 100 * (100 * t)
      BY <1>1, <1>2, <1>6
    <2>5. k = Precision
      BY <1>1, <1>2, <2>2, <2>3, <2>4 DEF Scale
    <2>6. Sides(x, 100, Precision)[1] = x * (100 * t) /\ Sides(x, 100, Precision)[2] = 100
      BY <1>1, <1>2 DEF Sides
    <2>7. x * (100 * t) = (x * t) * 100 /\ x * t \in Nat
      BY <1>1, <1>2
    <2>8. HalfEven((x * t) * 100, 100) = x * t
      BY <2>7, HalfEvenIsExact
    <2>9. 0 - k = -Precision
      BY <1>2, <2>5
    <2> HIDE DEF k
    <2>10. Over(Dec(x), Dec(100)) = [n |-> x * t, e |-> -Precision]
      <3>1. HalfEven(Sides(x, 100, k)[1], Sides(x, 100, k)[2]) = HalfEven((x * t) * 100, 100)
        BY <2>5, <2>6, <2>7
      <3>2. QED BY <1>4, <2>8, <2>9, <3>1
    <2>11. QED BY <1>6, <2>10 DEF t
  <1>7. QED
    BY <1>5, <1>6

(* What is left after a fall by x percent.                                 *)
LEMMA KeptIsExact ==
    ASSUME PowersOfTen, Precision >= 2, NEW x \in 1 .. 99
    PROVE  Minus(Dec(1), Over(Dec(x), Dec(100))) =
               [n |-> (100 - x) * 10^(Precision - 2), e |-> -Precision]
  <1> DEFINE t == 10^(Precision - 2)
             z == Over(Dec(x), Dec(100))
             m == (100 - x) * t
  <1>1. t \in Nat \ {0} /\ 10^Precision = 100 * t /\ 10^(Precision + 1) = 1000 * t
    BY PowersNear
  <1>2. Precision \in Nat /\ x \in Nat \ {0} /\ 100 - x \in 1 .. 99
    BY PrecisionAssumption
  <1>3. z = IF x < 10 THEN [n |-> (x * 10) * t, e |-> -(Precision + 1)] ELSE [n |-> x * t, e |-> -Precision]
    BY HundredthsAreExact
  <1> HIDE DEF z, t
  <1>4. m \in Nat /\ m < 100 * t
    BY <1>1, <1>2
  <1>5. \A k \in Nat : z.e = -k => Minus(Dec(1), z) = Fit(1 * 10^k - z.n * 10^0, -k)
    <2> SUFFICES ASSUME NEW k \in Nat, z.e = -k PROVE Minus(Dec(1), z) = Fit(1 * 10^k - z.n * 10^0, -k)
      OBVIOUS
    <2>1. Dec(1).n = 1 /\ Dec(1).e = 0
      BY DEF Dec
    <2> DEFINE o == Dec(1)
    <2>2. o.n = 1 /\ o.e = 0
      BY <2>1
    <2> HIDE DEF o
    <2>3. Lower(o.e, z.e) = -k
      BY <2>2 DEF Lower
    <2>4. o.e - (-k) = k /\ z.e - (-k) = 0
      BY <2>2
    <2>5. Minus(o, z) = Fit(o.n * 10^(o.e - (-k)) - z.n * 10^(z.e - (-k)), -k)
      BY <2>3 DEF Minus
    <2>6. QED BY <2>2, <2>4, <2>5 DEF o
  <1>6. CASE x < 10
    <2> DEFINE k == Precision + 1
    <2>1. z.n = (x * 10) * t /\ z.e = -k /\ k \in Nat
      BY <1>2, <1>3, <1>6
    <2>2. 1 * 10^k - z.n * 10^0 = m * 10
      <3>1. 10^0 = 1 /\ 10^k = 1000 * t
        BY <1>1
      <3> DEFINE one == 10^0
      <3>2. one = 1
        BY <3>1
      <3> HIDE DEF one, k
      <3>3. 1 * (1000 * t) - ((x * 10) * t) * 1 = ((100 - x) * t) * 10
        BY <1>1, <1>2
      <3>4. QED BY <2>1, <3>1, <3>2, <3>3 DEF one
    <2>3. Minus(Dec(1), z) = Fit(m * 10, -k)
      <3> HIDE DEF k, m
      <3>1. QED BY <1>5, <2>1, <2>2
    <2>4. Digits(m * 10) = k
      <3>1. HasDigits(m * 10, k)
        <4>1. k > 1 /\ k - 1 = Precision
          BY <1>2, PrecisionAssumption
        <4>2. m * 10 < 1000 * t /\ m * 10 >= 100 * t
          BY <1>1, <1>2, <1>6
        <4> HIDE DEF m
        <4>3. QED BY <1>1, <4>1, <4>2 DEF HasDigits
      <3>2. m * 10 \in Nat /\ k \in Nat \ {0}
        BY <1>2, <1>4
      <3> HIDE DEF k, m
      <3>3. QED BY <3>1, <3>2, DigitsAreCounted
    <2>5. Fit(m * 10, -k) = [n |-> m, e |-> -Precision]
      <3>1. k - Precision = 1 /\ -k + 1 = -Precision
        BY <1>2
      <3>2. HalfEven(m * 10, 10) = m
        BY <1>4, HalfEvenIsExact
      <3>3. 10^1 = 10
        OBVIOUS
      <3> DEFINE over == Digits(m * 10) - Precision
      <3>4. over = 1
        <4> HIDE DEF k, m
        <4>1. QED BY <2>4, <3>1
      <3>5. Fit(m * 10, -k) = IF over <= 0 THEN [n |-> m * 10, e |-> -k]
                              ELSE [n |-> HalfEven(m * 10, 10^over), e |-> -k + over]
        <4> HIDE DEF k, m
        <4>1. QED BY DEF Fit
      <3> HIDE DEF over, m, k
      <3> DEFINE ten == 10^over
      <3>6. ten = 10
        BY <3>3, <3>4
      <3>7. ~ over <= 0 /\ -k + over = -Precision
        BY <3>1, <3>4
      <3> HIDE DEF ten
      <3>8. Fit(m * 10, -k) = [n |-> HalfEven(m * 10, ten), e |-> -Precision]
        BY <3>5, <3>7 DEF ten
      <3>9. QED BY <3>2, <3>6, <3>8
    <2>6. QED BY <2>3, <2>5 DEF t, z
  <1>7. CASE ~ x < 10
    <2>1. z.n = x * t /\ z.e = -Precision
      BY <1>3, <1>7
    <2>2. 1 * 10^Precision - z.n * 10^0 = m
      <3>1. 10^0 = 1
        OBVIOUS
      <3> DEFINE one == 10^0
      <3>2. one = 1
        BY <3>1
      <3> HIDE DEF one
      <3>3. 1 * (100 * t) - (x * t) * 1 = (100 - x) * t
        BY <1>1, <1>2
      <3>4. QED BY <1>1, <2>1, <3>2, <3>3 DEF one
    <2>3. Minus(Dec(1), z) = Fit(m, -Precision)
      <3> HIDE DEF m
      <3>1. QED BY <1>2, <1>5, <2>1, <2>2
    <2>4. Fit(m, -Precision) = [n |-> m, e |-> -Precision]
      <3> HIDE DEF m
      <3>1. QED BY <1>1, <1>2, <1>4, FitKeeps
    <2>5. QED BY <2>3, <2>4 DEF t, z
  <1>8. QED
    BY <1>6, <1>7

LEMMA ScaledLeq ==
    ASSUME NEW x \in Int, NEW y \in Int, NEW u \in Nat, x <= y
    PROVE  x * u <= y * u
  OBVIOUS

LEMMA ScaledLess ==
    ASSUME NEW x \in Int, NEW y \in Int, NEW u \in Nat \ {0}, x < y
    PROVE  x * u < y * u
  OBVIOUS

(* What is near to what is near.                                           *)
LEMMA NearTwice ==
    ASSUME PowersOfTen, NEW z \in Nat, NEW y \in Nat, NEW x \in Nat, IsNear(y, x), IsNear(z, y)
    PROVE  /\ ((Sharp - 1) * (Sharp - 1)) * x <= (Sharp * Sharp) * z
           /\ (Sharp * Sharp) * z <= ((Sharp + 1) * (Sharp + 1)) * x
  <1> DEFINE m == Sharp - 1
             t == Sharp
             s == Sharp + 1
  <1>1. m \in Nat /\ t \in Nat /\ s \in Nat
    BY SharpIsEven
  <1>2. m * x <= t * y /\ t * y <= s * x /\ m * y <= t * z /\ t * z <= s * y
    BY DEF IsNear
  <1> HIDE DEF m, t, s
  <1>3. (m * x) * m <= (t * y) * m
    BY <1>1, <1>2, ScaledLeq
  <1>4. (t * y) * s <= (s * x) * s
    BY <1>1, <1>2, ScaledLeq
  <1>5. (m * y) * t <= (t * z) * t
    BY <1>1, <1>2, ScaledLeq
  <1>6. (t * z) * t <= (s * y) * t
    BY <1>1, <1>2, ScaledLeq
  <1>7. /\ (m * x) * m = (m * m) * x /\ (t * y) * m = (m * y) * t
        /\ (t * z) * t = (t * t) * z /\ (s * y) * t = (t * y) * s /\ (s * x) * s = (s * s) * x
    BY <1>1
  <1>8. /\ (m * m) * x \in Int /\ (m * y) * t \in Int /\ (t * t) * z \in Int
        /\ (t * y) * s \in Int /\ (s * s) * x \in Int
    BY <1>1
  <1>9. (m * m) * x <= (t * t) * z /\ (t * t) * z <= (s * s) * x
    BY <1>3, <1>4, <1>5, <1>6, <1>7, <1>8
  <1>10. QED
    BY <1>9 DEF m, t, s

(* r stands for c of i, in percent: u is what one is in units of 10^d.     *)
StandsFor(r, c, i) ==
    /\ r.n \in Nat /\ r.e \in Int
    /\ \A d \in Int : d <= 0 /\ d <= r.e =>
          LET u == 10^(-d)
          IN /\ u \in Nat \ {0} /\ InUnits(r, d) \in Nat
             /\ ((Sharp - 1) * (Sharp - 1)) * ((c * 100) * u) <= (Sharp * Sharp) * (InUnits(r, d) * i)
             /\ (Sharp * Sharp) * (InUnits(r, d) * i) <= ((Sharp + 1) * (Sharp + 1)) * ((c * 100) * u)

LEMMA RateStands ==
    ASSUME PowersOfTen, NEW c \in Nat, NEW i \in Nat \ {0}
    PROVE  StandsFor(RateOf(c, i), c, i)
  <1> DEFINE p == Times(Dec(c), Dec(100))
             r == Over(p, Dec(i))
             n == c * 100
  <1>1. n \in Nat /\ p = Fit(n, 0)
    BY DEF Times, Dec
  <1> HIDE DEF n, p
  <1>2. FitsNear(p, n, 0)
    BY <1>1, FitIsNear
  <1>3. p.n \in Nat /\ p.e \in Int /\ 0 <= p.e
    BY <1>2 DEF FitsNear
  <1>4. DividesNear(r, p, i)
    BY <1>3, OverIsNear
  <1> HIDE DEF r
  <1>5. r.n \in Nat /\ r.e \in Int
    BY <1>4 DEF DividesNear
  <1>6. ASSUME NEW d \in Int, d <= 0, d <= r.e
        PROVE  LET u == 10^(-d)
               IN /\ u \in Nat \ {0} /\ InUnits(r, d) \in Nat
                  /\ ((Sharp - 1) * (Sharp - 1)) * (n * u) <= (Sharp * Sharp) * (InUnits(r, d) * i)
                  /\ (Sharp * Sharp) * (InUnits(r, d) * i) <= ((Sharp + 1) * (Sharp + 1)) * (n * u)
    <2> DEFINE u == 10^(-d)
               x == n * u
               y == InUnits(p, d)
               v == InUnits(r, d)
               z == v * i
    <2>1. -d \in Nat /\ 0 - d = -d /\ p.e - d \in Nat /\ r.e - d \in Nat /\ d <= p.e
      BY <1>3, <1>5, <1>6
    <2>2. u \in Nat \ {0} /\ 10^(p.e - d) \in Nat /\ 10^(r.e - d) \in Nat
      BY <2>1, PowersArePositive
    <2>3. y \in Nat /\ v \in Nat
      BY <1>3, <1>5, <2>2 DEF InUnits
    <2>4. IsNear(y, x)
      <3>1. IsNear(InUnits(p, d), n * 10^(0 - d))
        BY <1>2, <1>6 DEF FitsNear
      <3>2. QED BY <2>1, <3>1
    <2>5. IsNear(z, y)
      BY <1>4, <1>6, <2>1 DEF DividesNear
    <2> HIDE DEF u, y, v
    <2>6. x \in Nat /\ z \in Nat
      BY <1>1, <2>2, <2>3
    <2> HIDE DEF x, z
    <2>7. /\ ((Sharp - 1) * (Sharp - 1)) * x <= (Sharp * Sharp) * z
          /\ (Sharp * Sharp) * z <= ((Sharp + 1) * (Sharp + 1)) * x
      BY <2>3, <2>4, <2>5, <2>6, NearTwice
    <2>8. QED BY <2>2, <2>3, <2>7 DEF u, v, x, z
  <1>7. QED
    BY <1>5, <1>6 DEF StandsFor, RateOf, r, p, n

LEMMA FloorIsNear ==
    ASSUME PowersOfTen, Precision >= 2, NEW b, b.n \in Nat, b.e \in Int
    PROVE  LET f == FloorOf(b)
           IN /\ f.n \in Nat /\ f.e \in Int
              /\ \A d \in Int : d <= b.e - Precision =>
                    /\ d <= f.e /\ InUnits(f, d) \in Nat
                    /\ IsNear(InUnits(f, d) * 100, (100 - DeclinePct) * InUnits(b, d))
  <1> DEFINE t == 10^(Precision - 2)
             f == FloorOf(b)
             k == 100 - DeclinePct
             n == b.n * (k * t)
             e == b.e + -Precision
             kept == Minus(Dec(1), Over(Dec(DeclinePct), Dec(100)))
  <1>1. Precision \in Nat /\ k \in Nat /\ Precision - 2 \in Nat
    BY PrecisionAssumption, ThresholdsAssumption
  <1>2. t \in Nat \ {0} /\ 10^Precision = 100 * t
    BY PowersNear
  <1>3. f = Fit(n, e)
    <2>1. kept = [n |-> k * t, e |-> -Precision]
      BY KeptIsExact, ThresholdsAssumption
    <2> HIDE DEF kept, k, t
    <2>2. kept.n = k * t /\ kept.e = -Precision
      BY <2>1
    <2>3. f = Fit(b.n * kept.n, b.e + kept.e)
      BY DEF FloorOf, Times, kept
    <2>4. QED BY <2>2, <2>3
  <1> HIDE DEF f, k, t
  <1>4. n \in Nat /\ e \in Int /\ e = b.e - Precision
    BY <1>1, <1>2
  <1> HIDE DEF n, e
  <1>5. FitsNear(f, n, e)
    BY <1>3, <1>4, FitIsNear
  <1>6. f.n \in Nat /\ f.e \in Int /\ e <= f.e
    BY <1>5 DEF FitsNear
  <1>7. ASSUME NEW d \in Int, d <= e
        PROVE  /\ d <= f.e /\ InUnits(f, d) \in Nat
               /\ IsNear(InUnits(f, d) * 100, k * InUnits(b, d))
    <2> DEFINE u == 10^(e - d)
               v == InUnits(f, d)
    <2>1. e - d \in Nat /\ f.e - d \in Nat /\ d <= f.e /\ Precision + (e - d) = b.e - d
      BY <1>1, <1>4, <1>6, <1>7
    <2>2. u \in Nat /\ 10^(f.e - d) \in Nat
      BY <2>1, PowersArePositive
    <2>3. v \in Nat
      BY <1>6, <2>2 DEF InUnits
    <2>4. IsNear(v, n * u)
      BY <1>5, <1>7 DEF FitsNear
    <2>5. 10^(Precision + (e - d)) = 10^Precision * u
      BY <1>1, <2>1, PowersAdd
    <2>6. InUnits(b, d) = b.n * ((100 * t) * u)
      BY <1>2, <2>1, <2>5 DEF InUnits
    <2> HIDE DEF u, v
    <2>7. n * u \in Nat
      BY <1>4, <2>2
    <2>8. IsNear(v * 100, (n * u) * 100)
      <3>1. 100 \in Nat
        OBVIOUS
      <3>2. QED BY <2>3, <2>4, <2>7, <3>1, ScaledIsNear
    <2>9. (n * u) * 100 = k * InUnits(b, d)
      <3>1. ((b.n * (k * t)) * u) * 100 = k * (b.n * ((100 * t) * u))
        BY <1>1, <1>2, <2>2
      <3>2. QED BY <2>6, <3>1 DEF n
    <2>10. QED BY <2>1, <2>3, <2>8, <2>9 DEF v
  <1>8. QED
    BY <1>4, <1>6, <1>7 DEF f, k

LEMMA CancelLeq ==
    ASSUME NEW x \in Int, NEW y \in Int, NEW u \in Nat \ {0}, x * u <= y * u
    PROVE  x <= y
  <1>1. SUFFICES ASSUME y < x PROVE FALSE
    OBVIOUS
  <1>2. y * u < x * u
    BY <1>1, ScaledLess
  <1>3. x * u \in Int /\ y * u \in Int
    OBVIOUS
  <1>4. QED
    BY <1>2, <1>3

LEMMA CancelLess ==
    ASSUME NEW x \in Int, NEW y \in Int, NEW u \in Nat \ {0}, x * u < y * u
    PROVE  x < y
  <1>1. SUFFICES ASSUME y <= x PROVE FALSE
    OBVIOUS
  <1>2. y * u <= x * u
    BY <1>1, ScaledLeq
  <1>3. x * u \in Int /\ y * u \in Int
    OBVIOUS
  <1>4. QED
    BY <1>2, <1>3

(* c of i and g of j, before rounding: by how much one is below the other. *)
BelowNearly(c, i, g, j, k) ==
    (c * j * 100) * (((Sharp - 1) * (Sharp - 1)) * Sharp) <= (g * i * k) * (((Sharp + 1) * (Sharp + 1)) * (Sharp + 1))

AboveNearly(c, i, g, j, k) ==
    (g * i * k) * (((Sharp - 1) * (Sharp - 1)) * (Sharp - 1)) < (c * j * 100) * (((Sharp + 1) * (Sharp + 1)) * Sharp)

(* The inequalities behind it, between whole numbers.                      *)
LEMMA ChainUp ==
    ASSUME NEW m \in Nat, NEW t \in Nat, NEW s \in Nat, NEW u \in Nat \ {0},
           NEW c \in Nat, NEW i \in Nat, NEW g \in Nat, NEW j \in Nat, NEW k \in Nat,
           NEW W \in Nat, NEW B \in Nat, NEW F \in Nat,
           (m * m) * ((c * 100) * u) <= (t * t) * (W * i),
           (t * t) * (B * j) <= (s * s) * ((g * 100) * u),
           t * (F * 100) <= s * (k * B),
           W <= F
    PROVE  (c * j * 100) * ((m * m) * t) <= (g * i * k) * ((s * s) * s)
  <1> DEFINE a == (m * m) * ((c * 100) * u)
             b == (t * t) * (W * i)
             p == (t * t) * (B * j)
             q == (s * s) * ((g * 100) * u)
             x == t * (F * 100)
             y == s * (k * B)
             e == j * (t * 100)
             f == (t * t) * (i * j)
             h == s * (k * i)
             n == 100 * u
             left == (c * j * 100) * ((m * m) * t)
             right == (g * i * k) * ((s * s) * s)
  <1>1. a \in Int /\ b \in Int /\ p \in Int /\ q \in Int /\ x \in Int /\ y \in Int
    OBVIOUS
  <1>2. e \in Nat /\ f \in Nat /\ h \in Nat /\ f * (t * 100) \in Nat /\ n \in Nat \ {0}
    OBVIOUS
  <1>3. left \in Int /\ right \in Int
    OBVIOUS
  <1>4. a * e = left * n
    OBVIOUS
  <1>5. b * e = W * (f * (t * 100))
    OBVIOUS
  <1>6. F * (f * (t * 100)) = x * f
    OBVIOUS
  <1>7. y * f = p * h
    OBVIOUS
  <1>8. q * h = right * n
    OBVIOUS
  <1>9. a <= b /\ p <= q /\ x <= y
    OBVIOUS
  <1> HIDE DEF a, b, p, q, x, y, e, f, h, n, left, right
  <1>10. a * e <= b * e
    BY <1>1, <1>2, <1>9, ScaledLeq
  <1>11. W * (f * (t * 100)) <= F * (f * (t * 100))
    BY <1>2, ScaledLeq
  <1>12. x * f <= y * f
    BY <1>1, <1>2, <1>9, ScaledLeq
  <1>13. p * h <= q * h
    BY <1>1, <1>2, <1>9, ScaledLeq
  <1>14. a * e \in Int /\ b * e \in Int /\ x * f \in Int /\ y * f \in Int /\ p * h \in Int /\ q * h \in Int
    BY <1>1, <1>2
  <1>15. left * n <= right * n
    BY <1>4, <1>5, <1>6, <1>7, <1>8, <1>10, <1>11, <1>12, <1>13, <1>14
  <1>16. left <= right
    BY <1>2, <1>3, <1>15, CancelLeq
  <1>17. QED
    BY <1>16 DEF left, right

LEMMA ChainDown ==
    ASSUME NEW m \in Nat, NEW t \in Nat \ {0}, NEW s \in Nat, NEW u \in Nat \ {0},
           NEW c \in Nat, NEW i \in Nat \ {0}, NEW g \in Nat, NEW j \in Nat \ {0}, NEW k \in Nat,
           NEW W \in Nat, NEW B \in Nat, NEW F \in Nat,
           (t * t) * (W * i) <= (s * s) * ((c * 100) * u),
           (m * m) * ((g * 100) * u) <= (t * t) * (B * j),
           m * (k * B) <= t * (F * 100),
           F < W
    PROVE  (g * i * k) * ((m * m) * m) < (c * j * 100) * ((s * s) * t)
  <1> DEFINE b == (t * t) * (W * i)
             a == (s * s) * ((c * 100) * u)
             q == (m * m) * ((g * 100) * u)
             p == (t * t) * (B * j)
             y == m * (k * B)
             x == t * (F * 100)
             e == j * (t * 100)
             f == (t * t) * (i * j)
             z == f * (t * 100)
             h == m * (k * i)
             n == 100 * u
             left == (g * i * k) * ((m * m) * m)
             right == (c * j * 100) * ((s * s) * t)
  <1>1. a \in Int /\ b \in Int /\ p \in Int /\ q \in Int /\ x \in Int /\ y \in Int
    OBVIOUS
  <1>2. e \in Nat /\ f \in Nat /\ h \in Nat /\ n \in Nat \ {0}
    OBVIOUS
  <1>3. z \in Nat \ {0}
    <2>1. t * t \in Nat \ {0} /\ i * j \in Nat \ {0} /\ t * 100 \in Nat \ {0}
      OBVIOUS
    <2> DEFINE v == t * t
               w == i * j
               r == t * 100
    <2>2. v \in Nat \ {0} /\ w \in Nat \ {0} /\ r \in Nat \ {0}
      BY <2>1
    <2> HIDE DEF v, w, r
    <2>3. v * w \in Nat \ {0}
      BY <2>2
    <2> DEFINE o == v * w
    <2>4. o \in Nat \ {0}
      BY <2>3
    <2> HIDE DEF o
    <2>5. o * r \in Nat \ {0}
      BY <2>2, <2>4
    <2>6. QED BY <2>5 DEF o, v, w, r
  <1>4. left \in Int /\ right \in Int
    OBVIOUS
  <1>5. left * n = q * h
    OBVIOUS
  <1>6. p * h = y * f
    OBVIOUS
  <1>7. x * f = F * z
    OBVIOUS
  <1>8. W * z = b * e
    OBVIOUS
  <1>9. a * e = right * n
    OBVIOUS
  <1>10. b <= a /\ q <= p /\ y <= x
    OBVIOUS
  <1> HIDE DEF a, b, p, q, x, y, z, e, f, h, n, left, right
  <1>11. q * h <= p * h
    BY <1>1, <1>2, <1>10, ScaledLeq
  <1>12. y * f <= x * f
    BY <1>1, <1>2, <1>10, ScaledLeq
  <1>13. F * z < W * z
    BY <1>3, ScaledLess
  <1>14. b * e <= a * e
    BY <1>1, <1>2, <1>10, ScaledLeq
  <1>15. a * e \in Int /\ b * e \in Int /\ x * f \in Int /\ y * f \in Int /\ p * h \in Int /\ q * h \in Int
    BY <1>1, <1>2
  <1>16. left * n < right * n
    BY <1>5, <1>6, <1>7, <1>8, <1>9, <1>11, <1>12, <1>13, <1>14, <1>15
  <1>17. left < right
    BY <1>2, <1>4, <1>16, CancelLess
  <1>18. QED
    BY <1>17 DEF left, right

LEMMA FallsAreNear ==
    ASSUME PowersOfTen, Precision >= 2,
           NEW c \in Nat, NEW i \in Nat \ {0}, NEW g \in Nat, NEW j \in Nat \ {0}
    PROVE  IF Leq(RateOf(c, i), FloorOf(RateOf(g, j)))
           THEN BelowNearly(c, i, g, j, 100 - DeclinePct) ELSE AboveNearly(c, i, g, j, 100 - DeclinePct)
  <1> DEFINE r == RateOf(c, i)
             b == RateOf(g, j)
             f == FloorOf(b)
             k == 100 - DeclinePct
             m == Sharp - 1
             t == Sharp
             s == Sharp + 1
  <1>1. StandsFor(r, c, i) /\ StandsFor(b, g, j)
    BY RateStands
  <1> HIDE DEF r, b
  <1>2. r.n \in Nat /\ r.e \in Int /\ b.n \in Nat /\ b.e \in Int
    BY <1>1 DEF StandsFor
  <1>3. /\ f.n \in Nat /\ f.e \in Int
        /\ \A d \in Int : d <= b.e - Precision =>
              d <= f.e /\ InUnits(f, d) \in Nat /\ IsNear(InUnits(f, d) * 100, k * InUnits(b, d))
    BY <1>2, FloorIsNear
  <1>4. m \in Nat /\ t \in Nat \ {0} /\ s \in Nat /\ k \in Nat
    BY SharpIsEven, ThresholdsAssumption
  <1>5. PICK d \in Int : d <= 0 /\ d <= r.e /\ d <= b.e /\ d <= b.e - Precision
    <2> DEFINE v == Lower(Lower(0, r.e), b.e - Precision)
    <2>1. Precision \in Nat
      BY PrecisionAssumption
    <2>2. v \in Int /\ v <= 0 /\ v <= r.e /\ v <= b.e /\ v <= b.e - Precision
      BY <1>2, <2>1 DEF Lower
    <2>3. QED BY <2>2
  <1> DEFINE u == 10^(-d)
             W == InUnits(r, d)
             B == InUnits(b, d)
             F == InUnits(f, d)
  <1>6. /\ u \in Nat \ {0} /\ W \in Nat
        /\ (m * m) * ((c * 100) * u) <= (t * t) * (W * i)
        /\ (t * t) * (W * i) <= (s * s) * ((c * 100) * u)
    BY <1>1, <1>5 DEF StandsFor
  <1>7. /\ B \in Nat
        /\ (m * m) * ((g * 100) * u) <= (t * t) * (B * j)
        /\ (t * t) * (B * j) <= (s * s) * ((g * 100) * u)
    BY <1>1, <1>5 DEF StandsFor
  <1>8. d <= f.e /\ F \in Nat /\ IsNear(F * 100, k * B)
    BY <1>3, <1>5
  <1>9. m * (k * B) <= t * (F * 100) /\ t * (F * 100) <= s * (k * B)
    BY <1>8 DEF IsNear
  <1>10. Leq(r, f) <=> W <= F
    <2> HIDE DEF f
    <2>1. IsDecimal(r) /\ IsDecimal(f)
      BY <1>2, <1>3 DEF IsDecimal
    <2>2. QED BY <1>5, <1>8, <2>1, LeqInUnits
  <1>11. BelowNearly(c, i, g, j, k) <=> (c * j * 100) * ((m * m) * t) <= (g * i * k) * ((s * s) * s)
    BY DEF BelowNearly
  <1>12. AboveNearly(c, i, g, j, k) <=> (g * i * k) * ((m * m) * m) < (c * j * 100) * ((s * s) * t)
    BY DEF AboveNearly
  <1> HIDE DEF u, W, B, F, m, t, s, k, f
  <1>13. CASE W <= F
    <2>1. (c * j * 100) * ((m * m) * t) <= (g * i * k) * ((s * s) * s)
      BY <1>4, <1>6, <1>7, <1>8, <1>9, <1>13, ChainUp
    <2>2. QED BY <1>10, <1>11, <1>13, <2>1 DEF r, b, f, k
  <1>14. CASE F < W
    <2>1. (g * i * k) * ((m * m) * m) < (c * j * 100) * ((s * s) * t)
      BY <1>4, <1>6, <1>7, <1>8, <1>9, <1>14, ChainDown
    <2>2. ~ Leq(r, f)
      BY <1>6, <1>8, <1>10, <1>14
    <2>3. QED BY <1>12, <2>1, <2>2 DEF r, b, f, k
  <1>15. QED
    BY <1>6, <1>8, <1>13, <1>14

(* With digits to spare no whole number lies between.                      *)
LEMMA NearIsExact ==
    ASSUME NEW t \in Nat, t >= 20, NEW x \in Nat, NEW y \in Nat, 8 * y <= t
    PROVE  /\ x * (((t - 1) * (t - 1)) * t) <= y * (((t + 1) * (t + 1)) * (t + 1)) => x <= y
           /\ y * (((t - 1) * (t - 1)) * (t - 1)) < x * (((t + 1) * (t + 1)) * t) => y <= x
  <1> DEFINE a == ((t - 1) * (t - 1)) * t
             b == ((t + 1) * (t + 1)) * (t + 1)
             c == ((t - 1) * (t - 1)) * (t - 1)
             d == ((t + 1) * (t + 1)) * t
             q == t * t
  <1>1. q \in Nat /\ q >= 20 * t
    OBVIOUS
  <1>2. a = t * q - 2 * q + t /\ b = t * q + 3 * q + 3 * t + 1
    OBVIOUS
  <1>3. c = t * q - 3 * q + 3 * t - 1 /\ d = t * q + 2 * q + t
    OBVIOUS
  <1>4. a \in Nat /\ b \in Nat /\ c \in Nat /\ d \in Nat
    <2> DEFINE o == t - 1
               p == t + 1
    <2>1. o \in Nat /\ p \in Nat
      OBVIOUS
    <2> HIDE DEF o, p
    <2>2. (o * o) * t \in Nat /\ (p * p) * p \in Nat /\ (o * o) * o \in Nat /\ (p * p) * t \in Nat
      BY <2>1
    <2>3. QED BY <2>2 DEF o, p
  <1>5. t * q \in Nat /\ t * q >= 20 * q
    <2> HIDE DEF q
    <2>1. QED BY <1>1
  <1> HIDE DEF a, b, c, d, q
  <1>6. ASSUME x * a <= y * b, y + 1 <= x PROVE FALSE
    <2>1. (y + 1) * a <= x * a
      BY <1>4, <1>6, ScaledLeq
    <2>2. (y + 1) * a = y * a + a /\ y * a \in Int /\ y * b \in Int /\ x * a \in Int
      BY <1>4
    <2>3. y * b - y * a = y * (b - a)
      BY <1>4
    <2>4. a <= y * (b - a)
      BY <1>4, <1>6, <2>1, <2>2, <2>3
    <2>5. b - a = 5 * q + 2 * t + 1 /\ b - a \in Nat
      BY <1>1, <1>2, <1>5
    <2>6. (8 * y) * (b - a) <= t * (b - a)
      BY <2>5, ScaledLeq
    <2>7. 8 * a <= t * (b - a)
      <3> DEFINE e == b - a
      <3>1. e \in Nat /\ a <= y * e /\ (8 * y) * e <= t * e
        BY <2>4, <2>5, <2>6
      <3> HIDE DEF e
      <3>2. (8 * y) * e = 8 * (y * e) /\ y * e \in Int /\ t * e \in Int
        BY <3>1
      <3>3. 8 * a <= t * e
        BY <1>4, <3>1, <3>2
      <3>4. QED BY <3>3 DEF e
    <2>8. t * (5 * q + 2 * t + 1) = 5 * (t * q) + 2 * q + t
      <3>1. t * (5 * q + 2 * t + 1) = 5 * (t * q) + 2 * (t * t) + t
        BY <1>1
      <3>2. QED BY <3>1 DEF q
    <2>9. 8 * (t * q - 2 * q + t) <= 5 * (t * q) + 2 * q + t
      BY <1>2, <2>5, <2>7, <2>8
    <2>10. QED BY <1>1, <1>5, <2>9
  <1>7. ASSUME y * c < x * d, x + 1 <= y PROVE FALSE
    <2>1. (x + 1) * d <= y * d
      BY <1>4, <1>7, ScaledLeq
    <2>2. (x + 1) * d = x * d + d /\ x * d \in Int /\ y * d \in Int /\ y * c \in Int
      BY <1>4
    <2>3. y * d - y * c = y * (d - c)
      BY <1>4
    <2>4. d <= y * (d - c)
      BY <1>4, <1>7, <2>1, <2>2, <2>3
    <2>5. d - c = 5 * q - 2 * t + 1 /\ d - c \in Nat
      BY <1>1, <1>3, <1>5
    <2>6. (8 * y) * (d - c) <= t * (d - c)
      BY <2>5, ScaledLeq
    <2>7. 8 * d <= t * (d - c)
      <3> DEFINE e == d - c
      <3>1. e \in Nat /\ d <= y * e /\ (8 * y) * e <= t * e
        BY <2>4, <2>5, <2>6
      <3> HIDE DEF e
      <3>2. (8 * y) * e = 8 * (y * e) /\ y * e \in Int /\ t * e \in Int
        BY <3>1
      <3>3. 8 * d <= t * e
        BY <1>4, <3>1, <3>2
      <3>4. QED BY <3>3 DEF e
    <2>8. t * (5 * q - 2 * t + 1) = 5 * (t * q) - 2 * q + t
      <3>1. t * (5 * q - 2 * t + 1) = 5 * (t * q) - 2 * (t * t) + t
        BY <1>1
      <3>2. QED BY <3>1 DEF q
    <2>9. 8 * (t * q + 2 * q + t) <= 5 * (t * q) - 2 * q + t
      BY <1>3, <2>5, <2>7, <2>8
    <2>10. QED BY <1>1, <1>5, <2>9
  <1>8. x * a <= y * b => x <= y
    BY <1>6
  <1>9. y * c < x * d => y <= x
    BY <1>7
  <1>10. QED
    BY <1>8, <1>9 DEF a, b, c, d

LEMMA SharpIsSharp ==
    ASSUME PowersOfTen, Precision >= 2
    PROVE  Sharp \in Nat /\ Sharp >= 20
  <1> DEFINE t == 10^(Precision - 2)
  <1>1. t \in Nat \ {0} /\ 10^(Precision - 1) = 10 * t
    BY PowersNear
  <1> HIDE DEF t
  <1>2. QED
    BY <1>1 DEF Sharp

-----------------------------------------------------------------------------
(* The change of a rate, which is negative where it fell.                  *)

Negated(x) == [n |-> -x.n, e |-> x.e]

LEMMA FitNegates ==
    ASSUME PowersOfTen, NEW n \in Nat, NEW e \in Int
    PROVE  Fit(-n, e) = Negated(Fit(n, e))
  <1> DEFINE k == Digits(n)
             over == k - Precision
             ten == 10^over
  <1>1. Abs(-n) = n /\ Abs(n) = n
    BY DEF Abs
  <1>2. Digits(-n) = k
    BY <1>1 DEF Digits
  <1>3. k \in Nat \ {0} /\ over \in Int
    BY DigitsOfNumber, PrecisionAssumption
  <1>4. /\ Fit(-n, e) = IF over <= 0 THEN [n |-> -n, e |-> e] ELSE [n |-> HalfEven(-n, ten), e |-> e + over]
        /\ Fit(n, e) = IF over <= 0 THEN [n |-> n, e |-> e] ELSE [n |-> HalfEven(n, ten), e |-> e + over]
    BY <1>2 DEF Fit
  <1>5. over > 0 => HalfEven(-n, ten) = -HalfEven(n, ten)
    <2>1. SUFFICES ASSUME over > 0 PROVE HalfEven(-n, ten) = -HalfEven(n, ten)
      OBVIOUS
    <2>2. ten \in Nat \ {0}
      BY <1>3, <2>1, PowersArePositive
    <2> HIDE DEF ten, over
    <2> DEFINE q == n \div ten
               twice == 2 * (n % ten)
               up == twice > ten \/ (twice = ten /\ q % 2 = 1)
               r == IF up THEN q + 1 ELSE q
    <2>3. HalfEven(n, ten) = IF n < 0 THEN -r ELSE r
      BY <1>1 DEF HalfEven
    <2>4. HalfEven(-n, ten) = IF -n < 0 THEN -r ELSE r
      BY <1>1 DEF HalfEven
    <2>5. n = 0 => r = 0
      <3>1. n = 0 => q = 0 /\ n % ten = 0
        BY <2>2
      <3> HIDE DEF q
      <3>2. n = 0 => twice = 0 /\ ~ up
        BY <2>2, <3>1
      <3> HIDE DEF up, twice
      <3>3. QED BY <3>1, <3>2
    <2> HIDE DEF r
    <2>6. CASE n = 0
      BY <2>3, <2>4, <2>5, <2>6
    <2>7. CASE n > 0
      BY <2>3, <2>4, <2>7
    <2>8. QED BY <2>6, <2>7
  <1> HIDE DEF over, ten
  <1>6. QED
    BY <1>3, <1>4, <1>5 DEF Negated

(* The quotient of decimals is one by a whole number.                      *)
LEMMA OverShifts ==
    ASSUME PowersOfTen, NEW a, a.n \in Nat, a.e \in Int, NEW b, b.n \in Nat \ {0}, b.e \in Int
    PROVE  /\ Over(a, b) = Over([n |-> a.n, e |-> a.e - b.e], Dec(b.n))
           /\ Over(Negated(a), b) = Negated(Over(a, b))
  <1> DEFINE Scaled(k, x) == IF k >= 0 THEN <<Abs(x) * 10^k, Abs(b.n)>>
                                  ELSE <<Abs(x), Abs(b.n) * 10^(-k)>>
             widest(x) == Precision + Digits(b.n) - Digits(x)
             k(x) == IF Scaled(widest(x), x)[1] >= Scaled(widest(x), x)[2] * 10^Precision
                     THEN widest(x) - 1 ELSE widest(x)
             q(x) == HalfEven(Scaled(k(x), x)[1], Scaled(k(x), x)[2])
             sign(x) == IF (x < 0) = (b.n < 0) THEN 1 ELSE -1
             N(x) == IF x = 0 THEN 0 ELSE sign(x) * q(x)
             o == Dec(b.n)
             s == [n |-> a.n, e |-> a.e - b.e]
             t == Negated(a)
  <1>1. o.n = b.n /\ o.e = 0 /\ s.n = a.n /\ s.e = a.e - b.e /\ t.n = -a.n /\ t.e = a.e
    BY DEF Dec, Negated
  <1> HIDE DEF o, s, t
  <1>2. Over(a, b) = IF a.n = 0 THEN Dec(0) ELSE [n |-> sign(a.n) * q(a.n), e |-> a.e - b.e - k(a.n)]
    BY Zenon DEF Over
  <1>3. Over(s, o) = IF a.n = 0 THEN Dec(0) ELSE [n |-> sign(a.n) * q(a.n), e |-> (a.e - b.e) - 0 - k(a.n)]
    BY <1>1, Zenon DEF Over
  <1>4. Over(t, b) = IF -a.n = 0 THEN Dec(0) ELSE [n |-> sign(-a.n) * q(-a.n), e |-> a.e - b.e - k(-a.n)]
    BY <1>1, Zenon DEF Over
  <1>5. Abs(-a.n) = Abs(a.n)
    BY DEF Abs
  <1>6. Digits(-a.n) = Digits(a.n)
    BY <1>5 DEF Digits
  <1>7. widest(-a.n) = widest(a.n) /\ \A j : Scaled(j, -a.n) = Scaled(j, a.n)
    BY <1>5, <1>6
  <1>8. k(-a.n) = k(a.n) /\ q(-a.n) = q(a.n)
    <2> HIDE DEF widest, Scaled
    <2>1. k(-a.n) = k(a.n)
      BY <1>7
    <2> HIDE DEF k
    <2>2. QED BY <1>7, <2>1
  <1>9. a.n # 0 => sign(a.n) = 1 /\ sign(-a.n) = -1
    OBVIOUS
  <1>10. a.n # 0 => q(a.n) \in Nat /\ k(a.n) \in Int
    <2>1. SUFFICES ASSUME a.n # 0 PROVE q(a.n) \in Nat /\ k(a.n) \in Int
      OBVIOUS
    <2>2. Abs(a.n) = a.n /\ Abs(b.n) = b.n
      BY DEF Abs
    <2>3. \A j : Scaled(j, a.n) = Sides(a.n, b.n, j)
      BY <2>2, Zenon DEF Sides
    <2>4. widest(a.n) = Widest(a.n, b.n)
      BY DEF Widest
    <2> HIDE DEF widest, Scaled
    <2>5. k(a.n) = Scale(a.n, b.n)
      BY <2>3, <2>4 DEF Scale
    <2> HIDE DEF k
    <2>6. Scale(a.n, b.n) \in Int
      BY <2>1, QuotientIsFull
    <2>7. Sides(a.n, b.n, k(a.n))[1] \in Nat /\ Sides(a.n, b.n, k(a.n))[2] \in Nat \ {0}
      BY <2>5, <2>6, SidesAreNumbers
    <2>8. q(a.n) = HalfEven(Sides(a.n, b.n, k(a.n))[1], Sides(a.n, b.n, k(a.n))[2])
      BY <2>3
    <2>9. QED BY <2>5, <2>6, <2>7, <2>8, HalfEvenIsNear
  <1> HIDE DEF k, q, sign, widest, Scaled
  <1>11. CASE a.n = 0
    <2>1. Over(a, b) = Dec(0) /\ Over(s, o) = Dec(0) /\ Over(t, b) = Dec(0)
      <3> DEFINE x == a.n
      <3>1. x \in Nat /\ x < 1
        BY <1>11
      <3> HIDE DEF x
      <3>2. -x = 0
        BY <3>1
      <3>3. QED BY <1>2, <1>3, <1>4, <1>11, <3>2 DEF x
    <2>2. Negated(Dec(0)) = Dec(0)
      BY DEF Negated, Dec
    <2>3. QED BY <2>1, <2>2 DEF s, o, t
  <1>12. CASE a.n # 0
    <2>1. -a.n # 0 /\ a.e - b.e - 0 = a.e - b.e /\ a.e - b.e \in Int
      BY <1>12
    <2>2. Over(a, b) = [n |-> q(a.n), e |-> a.e - b.e - k(a.n)]
      BY <1>2, <1>9, <1>10, <1>12
    <2>3. Over(s, o) = [n |-> q(a.n), e |-> a.e - b.e - k(a.n)]
      BY <1>3, <1>9, <1>10, <1>12, <2>1
    <2>4. Over(t, b) = [n |-> -q(a.n), e |-> a.e - b.e - k(a.n)]
      BY <1>4, <1>8, <1>9, <1>10, <1>12, <2>1
    <2>5. QED BY <2>2, <2>3, <2>4 DEF Negated, s, o, t
  <1>13. QED
    BY <1>11, <1>12

(* By how many percent of b the rate r is above it.                        *)
ChangeOf(r, b) == Times(Over(Minus(r, b), b), Dec(100))

LEMMA ChainChange ==
    ASSUME NEW t \in Nat, NEW s \in Nat, NEW k \in Nat, NEW u \in Nat, NEW n \in Nat,
           NEW z \in Nat, NEW o \in Nat, NEW f \in Nat, NEW g \in Nat,
           k * u <= z, t * z <= s * (o * 100), t * (o * n) <= s * f, t * f <= s * g
    PROVE  ((t * t) * t) * (k * (n * u)) <= ((s * s) * s) * (100 * g)
  <1> DEFINE a == k * u
             b == t * z
             c == s * (o * 100)
             d == t * (o * n)
             e == s * f
             h == t * f
             i == s * g
             p == (t * t) * n
             x == t * (s * 100)
             y == (s * s) * 100
             left == ((t * t) * t) * (k * (n * u))
             right == ((s * s) * s) * (100 * g)
  <1>1. a \in Nat /\ b \in Nat /\ c \in Nat /\ d \in Nat /\ e \in Nat /\ h \in Nat /\ i \in Nat
    OBVIOUS
  <1>2. p \in Nat /\ x \in Nat /\ y \in Nat /\ p * t \in Nat
    OBVIOUS
  <1>3. left = a * (p * t) /\ z * (p * t) = b * p
    OBVIOUS
  <1>4. c * p = d * x
    OBVIOUS
  <1>5. e * x = h * y
    OBVIOUS
  <1>6. i * y = right
    OBVIOUS
  <1>7. a <= z /\ b <= c /\ d <= e /\ h <= i
    OBVIOUS
  <1> HIDE DEF a, b, c, d, e, h, i, p, x, y, left, right
  <1>8. a * (p * t) <= z * (p * t)
    BY <1>1, <1>2, <1>7, ScaledLeq
  <1>9. b * p <= c * p
    BY <1>1, <1>2, <1>7, ScaledLeq
  <1>10. d * x <= e * x
    BY <1>1, <1>2, <1>7, ScaledLeq
  <1>11. h * y <= i * y
    BY <1>1, <1>2, <1>7, ScaledLeq
  <1>12. /\ a * (p * t) \in Int /\ z * (p * t) \in Int /\ b * p \in Int /\ c * p \in Int
         /\ d * x \in Int /\ e * x \in Int /\ h * y \in Int /\ i * y \in Int
    BY <1>1, <1>2
  <1>13. left <= right
    BY <1>3, <1>4, <1>5, <1>6, <1>8, <1>9, <1>10, <1>11, <1>12
  <1>14. QED
    BY <1>13 DEF left, right

(* Of two decimals the one less the other, in units.                       *)
LEMMA MinusIsRounded ==
    ASSUME PowersOfTen, NEW r, r.n \in Nat, r.e \in Int, NEW b, b.n \in Nat, b.e \in Int
    PROVE  \E e \in Int, v \in Int :
              /\ e <= r.e /\ e <= b.e /\ Minus(r, b) = Fit(v, e)
              /\ \A d \in Int : d <= e => v * 10^(e - d) = InUnits(r, d) - InUnits(b, d)
  <1> DEFINE e == Lower(r.e, b.e)
             x == 10^(r.e - e)
             y == 10^(b.e - e)
             v == r.n * x - b.n * y
  <1>1. e \in Int /\ e <= r.e /\ e <= b.e
    BY DEF Lower
  <1>2. Minus(r, b) = Fit(v, e)
    BY DEF Minus
  <1> HIDE DEF e
  <1>3. r.e - e \in Nat /\ b.e - e \in Nat /\ x \in Nat /\ y \in Nat
    BY <1>1, PowersArePositive
  <1>4. v \in Int
    <2> HIDE DEF x, y
    <2>1. r.n * x \in Int /\ b.n * y \in Int
      BY <1>3
    <2>2. QED BY <2>1
  <1>5. ASSUME NEW d \in Int, d <= e PROVE v * 10^(e - d) = InUnits(r, d) - InUnits(b, d)
    <2> DEFINE u == 10^(e - d)
    <2>1. e - d \in Nat /\ (r.e - e) + (e - d) = r.e - d /\ (b.e - e) + (e - d) = b.e - d
      BY <1>1, <1>5
    <2>2. 10^((r.e - e) + (e - d)) = x * u
      BY <1>3, <2>1, PowersAdd
    <2>3. 10^((b.e - e) + (e - d)) = y * u
      BY <1>3, <2>1, PowersAdd
    <2>4. u \in Nat
      BY <2>1, PowersArePositive
    <2>5. InUnits(r, d) = r.n * (x * u) /\ InUnits(b, d) = b.n * (y * u)
      BY <2>1, <2>2, <2>3 DEF InUnits
    <2> HIDE DEF x, y, u
    <2>6. (r.n * x - b.n * y) * u = r.n * (x * u) - b.n * (y * u)
      <3> DEFINE p == r.n * x
                 q == b.n * y
      <3>1. p \in Int /\ q \in Int /\ p * u = r.n * (x * u) /\ q * u = b.n * (y * u)
        BY <1>3, <2>4
      <3> HIDE DEF p, q
      <3>2. (p - q) * u = p * u - q * u
        BY <2>4, <3>1
      <3>3. QED BY <3>1, <3>2 DEF p, q
    <2>7. QED BY <2>5, <2>6 DEF u
  <1>6. QED
    BY <1>1, <1>2, <1>4, <1>5

(* r is below b by nearly the threshold at least.                          *)
FellNearly(r, b, d) ==
    /\ InUnits(r, d) \in Nat /\ InUnits(b, d) \in Nat /\ InUnits(r, d) <= InUnits(b, d)
    /\ ((Sharp * Sharp) * Sharp) * (DeclinePct * InUnits(b, d))
          <= (((Sharp + 1) * (Sharp + 1)) * (Sharp + 1)) * (100 * (InUnits(b, d) - InUnits(r, d)))

LEMMA NotAboveIsDown ==
    ASSUME PowersOfTen, NEW v \in Nat, NEW e \in Int, NEW b, b.n \in Nat \ {0}, b.e \in Int
    PROVE  ~ Leq(Times(Over(Fit(v, e), b), Dec(100)), Dec(-DeclinePct))
  <1> DEFINE f == Fit(v, e)
             s == [n |-> f.n, e |-> f.e - b.e]
             o == Over(f, b)
             z == Times(o, Dec(100))
             low == Dec(-DeclinePct)
  <1>1. f.n \in Nat /\ f.e \in Int
    BY FitIsNear DEF FitsNear
  <1> HIDE DEF f
  <1>2. s.n \in Nat /\ s.e \in Int
    BY <1>1
  <1>3. o = Over(s, Dec(b.n))
    BY <1>1, OverShifts
  <1> HIDE DEF s, o
  <1>4. o.n \in Nat /\ o.e \in Int
    BY <1>2, <1>3, OverIsNear DEF DividesNear
  <1>5. z = Fit(o.n * 100, o.e)
    BY <1>4 DEF Times, Dec
  <1>6. o.n * 100 \in Nat
    BY <1>4
  <1> HIDE DEF z
  <1>7. z.n \in Nat /\ z.e \in Int
    BY <1>4, <1>5, <1>6, FitIsNear DEF FitsNear
  <1>8. low.n = -DeclinePct /\ low.e = 0
    BY DEF Dec
  <1> HIDE DEF low
  <1> DEFINE h == Lower(z.e, low.e)
             x == 10^(z.e - h)
             y == 10^(low.e - h)
  <1>9. z.e - h \in Nat /\ low.e - h \in Nat
    BY <1>7, <1>8 DEF Lower
  <1>10. x \in Nat \ {0} /\ y \in Nat \ {0}
    BY <1>9, PowersArePositive
  <1>11. Leq(z, low) <=> z.n * x <= low.n * y
    BY DEF Leq
  <1> HIDE DEF x, y
  <1>12. z.n * x >= 0
    BY <1>7, <1>10
  <1>13. low.n * y < 0
    <2> DEFINE k == DeclinePct
    <2>1. k \in Nat \ {0} /\ low.n = -k
      BY <1>8, ThresholdsAssumption
    <2> HIDE DEF k
    <2>2. k * y \in Nat \ {0} /\ (-k) * y = -(k * y)
      BY <1>10, <2>1
    <2>3. QED BY <2>1, <2>2
  <1>14. z.n * x \in Int /\ low.n * y \in Int
    BY <1>7, <1>8, <1>10, ThresholdsAssumption
  <1>15. ~ Leq(z, low)
    BY <1>11, <1>12, <1>13, <1>14
  <1>16. QED
    BY <1>15 DEF z, o, f, low

LEMMA ChangesAreNear ==
    ASSUME PowersOfTen, NEW r, r.n \in Nat, r.e \in Int, NEW b, b.n \in Nat \ {0}, b.e \in Int,
           Leq(ChangeOf(r, b), Dec(-DeclinePct))
    PROVE  \E low \in Int : \A d \in Int : d <= low => FellNearly(r, b, d)
  <1>1. PICK e \in Int, v \in Int :
            /\ e <= r.e /\ e <= b.e /\ Minus(r, b) = Fit(v, e)
            /\ \A d \in Int : d <= e => v * 10^(e - d) = InUnits(r, d) - InUnits(b, d)
    BY MinusIsRounded
  <1>2. v < 0
    <2>1. SUFFICES ASSUME v \in Nat PROVE FALSE
      OBVIOUS
    <2>2. ~ Leq(Times(Over(Fit(v, e), b), Dec(100)), Dec(-DeclinePct))
      BY <2>1, NotAboveIsDown
    <2>3. QED BY <1>1, <2>2 DEF ChangeOf
  <1> DEFINE y == -v
             f == Fit(y, e)
             s == [n |-> f.n, e |-> f.e - b.e]
             o == Over(f, b)
             z == Fit(o.n * 100, o.e)
  <1>3. y \in Nat \ {0} /\ -y = v
    BY <1>2
  <1> HIDE DEF y
  <1>4. FitsNear(f, y, e)
    BY <1>3, FitIsNear
  <1> HIDE DEF f
  <1>5. f.n \in Nat /\ f.e \in Int /\ e <= f.e
    BY <1>4 DEF FitsNear
  <1>6. s.n = f.n /\ s.e = f.e - b.e /\ s.n \in Nat /\ s.e \in Int
    BY <1>5
  <1>7. o = Over(s, Dec(b.n)) /\ Over(Negated(f), b) = Negated(o)
    BY <1>5, OverShifts
  <1> HIDE DEF s, o
  <1>8. DividesNear(o, s, b.n)
    BY <1>6, <1>7, OverIsNear
  <1>9. o.n \in Nat /\ o.e \in Int /\ o.n * 100 \in Nat
    <2>1. o.n \in Nat /\ o.e \in Int
      BY <1>8 DEF DividesNear
    <2>2. QED BY <2>1
  <1>10. FitsNear(z, o.n * 100, o.e)
    BY <1>9, FitIsNear
  <1>11. ChangeOf(r, b) = Negated(z)
    <2>1. Minus(r, b) = Negated(f)
      BY <1>1, <1>3, FitNegates DEF f
    <2>2. ChangeOf(r, b) = Times(Negated(o), Dec(100))
      BY <1>7, <2>1 DEF ChangeOf
    <2>3. Times(Negated(o), Dec(100)) = Fit((-o.n) * 100, o.e + 0)
      BY DEF Times, Negated, Dec
    <2>4. (-o.n) * 100 = -(o.n * 100) /\ o.e + 0 = o.e
      BY <1>9
    <2>5. Fit(-(o.n * 100), o.e) = Negated(z)
      BY <1>9, FitNegates
    <2> HIDE DEF z
    <2>6. QED BY <2>2, <2>3, <2>4, <2>5
  <1> HIDE DEF z
  <1>12. z.n \in Nat /\ z.e \in Int
    BY <1>10 DEF FitsNear
  <1>13. PICK h \in Int : h <= 0 /\ h <= z.e /\ h <= o.e /\ h <= s.e /\ h <= e - b.e
    <2> DEFINE l == Lower(Lower(0, z.e), Lower(o.e, Lower(s.e, e - b.e)))
    <2>1. l \in Int /\ l <= 0 /\ l <= z.e /\ l <= o.e /\ l <= s.e /\ l <= e - b.e
      BY <1>6, <1>9, <1>12 DEF Lower
    <2>2. QED BY <2>1
  <1>14. ASSUME NEW c \in Int, c <= b.e + h PROVE FellNearly(r, b, c)
    <2> DEFINE d == c - b.e
               u == 10^(-d)
               W == InUnits(r, c)
               B == InUnits(b, c)
               Z == InUnits(z, d)
               O == InUnits(o, d)
               F == InUnits(f, c)
               g == y * 10^(e - c)
               k == DeclinePct
               n == b.n
    <2>1. /\ d \in Int /\ d <= 0 /\ d <= z.e /\ d <= o.e /\ d <= s.e /\ d <= e - b.e
          /\ c <= e /\ c <= r.e /\ c <= b.e /\ c <= f.e
          /\ -d \in Nat /\ -d = b.e - c /\ s.e - d = f.e - c /\ e - c \in Nat /\ r.e - c \in Nat
          /\ z.e - d \in Nat /\ o.e - d \in Nat /\ f.e - c \in Nat
      BY <1>1, <1>5, <1>6, <1>9, <1>12, <1>13, <1>14
    <2> HIDE DEF d
    <2>2. /\ u \in Nat \ {0} /\ 10^(e - c) \in Nat /\ 10^(r.e - c) \in Nat /\ 10^(z.e - d) \in Nat
          /\ 10^(o.e - d) \in Nat /\ 10^(f.e - c) \in Nat
      BY <2>1, PowersArePositive
    <2>3. W \in Nat /\ Z \in Nat /\ O \in Nat /\ F \in Nat /\ g \in Nat /\ k \in Nat \ {0} /\ n \in Nat \ {0}
      BY <1>3, <1>5, <1>9, <1>12, <2>2, ThresholdsAssumption DEF InUnits
    <2>4. B = n * u /\ B \in Nat
      BY <2>1, <2>2 DEF InUnits
    <2>5. g = B - W
      <3> DEFINE p == 10^(e - c)
      <3>1. v * p = W - B
        BY <1>1, <2>1
      <3>2. p \in Nat
        BY <2>2
      <3> HIDE DEF p, W, B
      <3>3. y * p = -(v * p) /\ v * p \in Int
        BY <1>3, <3>2
      <3>4. y * p = B - W
        BY <2>3, <2>4, <3>1, <3>3
      <3>5. QED BY <3>4 DEF p
    <2>6. k * u <= Z
      <3> DEFINE x == Negated(z)
                 w == Dec(-k)
      <3>1. x.n = -z.n /\ x.e = z.e /\ w.n = -k /\ w.e = 0
        BY DEF Negated, Dec
      <3> HIDE DEF x, w
      <3>2. IsDecimal(x) /\ IsDecimal(w)
        BY <1>12, <2>3, <3>1 DEF IsDecimal
      <3>3. Leq(x, w)
        BY <1>11 DEF x, w
      <3>4. InUnits(x, d) <= InUnits(w, d)
        BY <2>1, <3>1, <3>2, <3>3, LeqInUnits
      <3>5. InUnits(x, d) = (-z.n) * 10^(z.e - d) /\ InUnits(w, d) = (-k) * u
        <4>1. 0 - d = -d
          BY <2>1
        <4>2. QED BY <3>1, <4>1 DEF InUnits
      <3>6. (-z.n) * 10^(z.e - d) = -Z
        <4> DEFINE p == 10^(z.e - d)
        <4>1. p \in Nat
          BY <2>2
        <4>2. Z = z.n * p
          BY DEF InUnits
        <4> HIDE DEF p, Z
        <4>3. (-z.n) * p = -(z.n * p)
          BY <1>12, <4>1
        <4>4. QED BY <4>2, <4>3 DEF p
      <3> HIDE DEF u, Z, k
      <3>7. (-k) * u = -(k * u) /\ k * u \in Int
        BY <2>2, <2>3
      <3>8. QED BY <2>3, <3>4, <3>5, <3>6, <3>7
    <2>7. IsNear(Z, O * 100)
      <3>1. IsNear(Z, (o.n * 100) * 10^(o.e - d))
        BY <1>10, <2>1 DEF FitsNear
      <3> DEFINE p == 10^(o.e - d)
      <3>2. p \in Nat /\ O = o.n * p
        BY <2>2 DEF InUnits
      <3> HIDE DEF p, O
      <3>3. (o.n * 100) * p = O * 100
        BY <1>9, <3>2
      <3>4. QED BY <3>1, <3>3 DEF p
    <2>8. IsNear(O * n, F)
      <3>1. IsNear(O * n, InUnits(s, d))
        BY <1>8, <2>1 DEF DividesNear
      <3>2. InUnits(s, d) = F
        BY <1>6, <2>1 DEF InUnits
      <3>3. QED BY <3>1, <3>2
    <2>9. IsNear(F, g)
      BY <1>4, <2>1 DEF FitsNear
    <2> HIDE DEF W, B, Z, O, F, g, k, n, u
    <2> DEFINE t == Sharp
               q == Sharp + 1
    <2>10. t \in Nat /\ q \in Nat
      BY SharpIsEven
    <2>11. t * Z <= q * (O * 100) /\ t * (O * n) <= q * F /\ t * F <= q * g
      BY <2>7, <2>8, <2>9 DEF IsNear
    <2> HIDE DEF t, q
    <2>12. ((t * t) * t) * (k * (n * u)) <= ((q * q) * q) * (100 * g)
      BY <2>2, <2>3, <2>6, <2>10, <2>11, ChainChange
    <2>13. ((t * t) * t) * (k * B) <= ((q * q) * q) * (100 * (B - W))
      BY <2>4, <2>5, <2>12
    <2>14. W <= B
      BY <2>3, <2>4, <2>5
    <2>15. QED BY <2>3, <2>4, <2>13, <2>14 DEF FellNearly, W, B, k, t, q
  <1>15. b.e + h \in Int
    OBVIOUS
  <1>16. QED
    BY <1>14, <1>15

LEMMA ChainDecline ==
    ASSUME NEW m \in Nat, NEW t \in Nat, NEW s \in Nat \ {0}, t <= s, NEW u \in Nat \ {0},
           NEW c \in Nat, NEW i \in Nat, NEW g \in Nat, NEW j \in Nat, NEW k \in 0 .. 100,
           NEW W \in Nat, NEW B \in Nat,
           (m * m) * ((c * 100) * u) <= (t * t) * (W * i),
           (t * t) * (B * j) <= (s * s) * ((g * 100) * u),
           W <= B, ((t * t) * t) * (k * B) <= ((s * s) * s) * (100 * (B - W))
    PROVE  (c * j * 100) * ((m * m) * s) <= (g * i) * (100 * ((s * s) * s) - k * ((t * t) * t))
  <1> DEFINE ss == (s * s) * s
             tt == (t * t) * t
             E == 100 * ss - k * tt
             a == (m * m) * ((c * 100) * u)
             b == (t * t) * (W * i)
             p == (t * t) * (B * j)
             q == (s * s) * ((g * 100) * u)
             e == j * (ss * 100)
             f == (t * t) * (i * j)
             n == (100 * u) * (s * s)
             left == (c * j * 100) * ((m * m) * s)
             right == (g * i) * E
  <1>1. ss \in Nat /\ tt \in Nat /\ k * tt \in Nat
    <2>1. ss \in Nat /\ tt \in Nat
      OBVIOUS
    <2> HIDE DEF ss, tt
    <2>2. QED BY <2>1
  <1>2. E \in Nat
    <2>1. tt <= ss
      <3> DEFINE x == t * t
                 y == s * s
      <3>1. t * t <= s * t /\ t * s <= s * s /\ s * t = t * s
        BY ScaledLeq
      <3>2. x \in Nat /\ y \in Nat /\ x <= y
        BY <3>1
      <3> HIDE DEF x, y
      <3>3. x * t <= y * t /\ t * y <= s * y
        BY <3>2, ScaledLeq
      <3>4. t * y = y * t /\ s * y = y * s /\ x * t \in Int /\ y * t \in Int /\ y * s \in Int
        BY <3>2
      <3>5. x * t <= y * s
        BY <3>3, <3>4
      <3>6. QED BY <3>5 DEF x, y
    <2> HIDE DEF ss, tt
    <2>2. k * tt <= 100 * tt /\ k \in Nat
      BY <1>1, ScaledLeq
    <2>3. QED BY <1>1, <2>1, <2>2
  <1>3. W * (ss * 100) <= E * B
    <2>1. tt * (k * B) <= ss * (100 * (B - W))
      OBVIOUS
    <2> HIDE DEF ss, tt
    <2>2. ss * (100 * (B - W)) = (100 * ss) * B - W * (ss * 100)
      BY <1>1
    <2>3. E * B = (100 * ss) * B - tt * (k * B)
      <3> DEFINE x == 100 * ss
                 y == k * tt
      <3>1. x \in Int /\ y \in Int /\ E = x - y /\ y * B = tt * (k * B)
        BY <1>1
      <3> HIDE DEF x, y, E
      <3>2. (x - y) * B = x * B - y * B
        BY <3>1
      <3>3. QED BY <3>1, <3>2 DEF x
    <2>4. tt * (k * B) \in Int /\ (100 * ss) * B \in Int /\ W * (ss * 100) \in Int
      BY <1>1
    <2> HIDE DEF E
    <2>5. QED BY <2>1, <2>2, <2>3, <2>4
  <1>4. a \in Int /\ b \in Int /\ p \in Int /\ q \in Int /\ a <= b /\ p <= q
    OBVIOUS
  <1>5. e \in Nat /\ f \in Nat
    <2> HIDE DEF ss
    <2>1. QED BY <1>1
  <1>6. n \in Nat \ {0}
    <2> DEFINE x == 100 * u
               y == s * s
    <2>1. x \in Nat \ {0} /\ y \in Nat \ {0}
      OBVIOUS
    <2> HIDE DEF x, y
    <2>2. x * y \in Nat \ {0}
      BY <2>1
    <2>3. QED BY <2>2 DEF x, y
  <1>7. a * e = left * n
    OBVIOUS
  <1>8. b * e = (W * (ss * 100)) * f
    <2> HIDE DEF ss
    <2>1. QED BY <1>1
  <1> HIDE DEF E
  <1>9. (E * B) * f = p * (i * E)
    BY <1>2
  <1>10. q * (i * E) = right * n
    BY <1>2
  <1>11. left \in Int /\ right \in Int
    BY <1>2
  <1>12. i * E \in Nat /\ (W * (ss * 100)) \in Int /\ E * B \in Int
    <2> HIDE DEF ss
    <2>1. QED BY <1>1, <1>2
  <1> HIDE DEF a, b, p, q, ss, e, f, n, left, right
  <1>13. a * e <= b * e
    BY <1>4, <1>5, ScaledLeq
  <1>14. (W * (ss * 100)) * f <= (E * B) * f
    BY <1>3, <1>5, <1>12, ScaledLeq
  <1>15. p * (i * E) <= q * (i * E)
    BY <1>4, <1>12, ScaledLeq
  <1>16. a * e \in Int /\ b * e \in Int /\ (E * B) * f \in Int /\ q * (i * E) \in Int
    BY <1>4, <1>5, <1>12
  <1>17. left * n <= right * n
    BY <1>7, <1>8, <1>9, <1>10, <1>13, <1>14, <1>15, <1>16
  <1>18. left <= right
    BY <1>6, <1>11, <1>17, CancelLeq
  <1>19. QED
    BY <1>18 DEF left, right, E, ss

(* With digits to spare, a decline that is said to be one is one.          *)
LEMMA DeclineIsExact ==
    ASSUME NEW t \in Nat, t >= 20, NEW x \in Nat, NEW z \in Nat, NEW k \in 0 .. 100, 8 * (z * 100) <= t,
           x * (((t - 1) * (t - 1)) * (t + 1)) <= z * (100 * (((t + 1) * (t + 1)) * (t + 1)) - k * ((t * t) * t))
    PROVE  x <= z * (100 - k)
  <1> DEFINE q == t * t
             o == t * q
             a == ((t - 1) * (t - 1)) * (t + 1)
             b == ((t + 1) * (t + 1)) * (t + 1)
             y == z * (100 - k)
             w == z * k
  <1>1. q \in Nat /\ q >= 20 * t
    OBVIOUS
  <1>2. a = o - q - t + 1 /\ b = o + 3 * q + 3 * t + 1 /\ (t * t) * t = o
    OBVIOUS
  <1>3. x * a <= z * (100 * b - k * o)
    BY <1>2
  <1>4. o \in Nat /\ o >= 20 * q
    <2> HIDE DEF q
    <2>1. QED BY <1>1
  <1>5. y \in Nat /\ w \in Nat /\ y + w = z * 100
    <2>1. 100 - k \in Nat
      OBVIOUS
    <2>2. z * (100 - k) = z * 100 - z * k
      OBVIOUS
    <2>3. QED BY <2>1, <2>2
  <1> HIDE DEF q, o, a, b
  <1>6. a \in Nat /\ b \in Nat
    BY <1>1, <1>2, <1>4
  <1>7. z * (100 * b - k * o) = (z * 100) * b - w * o
    <2> DEFINE p == 100 * b
               r == k * o
    <2>1. p \in Int /\ r \in Int /\ z * p = (z * 100) * b /\ z * r = w * o
      BY <1>4, <1>6
    <2> HIDE DEF p, r
    <2>2. z * (p - r) = z * p - z * r
      BY <2>1
    <2>3. QED BY <2>1, <2>2 DEF p, r
  <1> DEFINE v == z * 100
  <1>8. v \in Nat /\ 8 * v <= t /\ y + w = v /\ x * a <= v * b - w * o
    BY <1>3, <1>5, <1>7
  <1> HIDE DEF y, w, v
  <1>9. ASSUME y + 1 <= x PROVE FALSE
    <2>1. (y + 1) * a <= x * a
      BY <1>5, <1>6, <1>9, ScaledLeq
    <2>2. (y + 1) * a = y * a + a /\ v * b = y * b + w * b
      BY <1>5, <1>6, <1>8
    <2>3. y * b = y * o + 3 * (y * q) + 3 * (y * t) + y
      BY <1>1, <1>2, <1>4, <1>5
    <2>4. w * b = w * o + 3 * (w * q) + 3 * (w * t) + w
      BY <1>1, <1>2, <1>4, <1>5
    <2>5. y * a = y * o - y * q - y * t + y
      BY <1>1, <1>2, <1>4, <1>5
    <2>6. /\ y * o \in Int /\ y * q \in Int /\ y * t \in Int /\ w * o \in Int /\ w * q \in Nat /\ w * t \in Nat
          /\ w <= w * t /\ x * a \in Int
      BY <1>1, <1>4, <1>5, <1>6
    <2>7. a <= 4 * (y * q) + 4 * (y * t) + 4 * (w * q) + 4 * (w * t)
      <3> DEFINE yo == y * o
                 yq == y * q
                 yt == y * t
                 wo == w * o
                 wq == w * q
                 wt == w * t
                 xa == x * a
                 vb == v * b
                 ya == y * a
      <3>1. /\ yo \in Int /\ yq \in Int /\ yt \in Int /\ wo \in Int /\ wq \in Nat /\ wt \in Nat
            /\ xa \in Int /\ w <= wt
        BY <2>6
      <3>2. xa <= vb - wo
        BY <1>8
      <3>3. ya + a <= xa
        BY <2>1, <2>2
      <3>4. vb = (yo + 3 * yq + 3 * yt + y) + (wo + 3 * wq + 3 * wt + w)
        BY <2>2, <2>3, <2>4
      <3>5. ya = yo - yq - yt + y
        BY <2>5
      <3> HIDE DEF yo, yq, yt, wo, wq, wt, xa, vb, ya
      <3>6. a <= 4 * yq + 4 * yt + 4 * wq + 4 * wt
        BY <1>5, <1>6, <3>1, <3>2, <3>3, <3>4, <3>5
      <3>7. QED BY <3>6 DEF yq, yt, wq, wt
    <2>8. v * q = y * q + w * q /\ v * t = y * t + w * t
      BY <1>1, <1>5, <1>8
    <2>9. a <= 4 * (v * q) + 4 * (v * t)
      BY <1>1, <1>5, <1>6, <1>8, <2>6, <2>7, <2>8
    <2>10. (8 * v) * q <= t * q /\ (8 * v) * t <= t * t
      BY <1>1, <1>8, ScaledLeq
    <2>11. (8 * v) * q = 8 * (v * q) /\ (8 * v) * t = 8 * (v * t) /\ v * q \in Int /\ v * t \in Int
      BY <1>1, <1>8
    <2>12. 8 * (v * q) <= o /\ 8 * (v * t) <= q
      BY <2>10, <2>11 DEF o, q
    <2>13. 8 * a <= 4 * o + 4 * q
      BY <1>1, <1>4, <1>6, <2>9, <2>11, <2>12
    <2>14. QED BY <1>1, <1>2, <1>4, <2>13
  <1>10. x <= y
    BY <1>5, <1>9
  <1>11. QED
    BY <1>10 DEF y

(* With digits to spare, a rate that is at the floor of another or below   *)
(* has fallen by the threshold, and one above it by no more.               *)
LEMMA FallsAreExact ==
    ASSUME PowersOfTen, Precision >= 2,
           NEW c \in Nat, NEW i \in Nat \ {0}, NEW g \in Nat, NEW j \in Nat \ {0}, 800 * (g * i) <= Sharp
    PROVE  IF Leq(RateOf(c, i), FloorOf(RateOf(g, j)))
           THEN c * j * 100 <= g * i * (100 - DeclinePct) ELSE g * i * (100 - DeclinePct) <= c * j * 100
  <1> DEFINE x == c * j * 100
             z == g * i
             k == 100 - DeclinePct
             y == z * k
  <1>1. Sharp \in Nat /\ Sharp >= 20
    BY SharpIsSharp
  <1>2. k \in 0 .. 100
    BY ThresholdsAssumption
  <1>3. x \in Nat /\ z \in Nat
    OBVIOUS
  <1>4. 800 * z <= Sharp
    OBVIOUS
  <1>5. IF Leq(RateOf(c, i), FloorOf(RateOf(g, j))) THEN BelowNearly(c, i, g, j, k) ELSE AboveNearly(c, i, g, j, k)
    BY FallsAreNear
  <1> HIDE DEF x, z, k
  <1>6. y \in Nat /\ 8 * y <= Sharp
    <2>1. k * z <= 100 * z
      BY <1>2, <1>3, ScaledLeq
    <2>2. y = k * z /\ k * z \in Nat
      BY <1>2, <1>3
    <2> HIDE DEF y
    <2>3. QED BY <1>1, <1>3, <1>4, <2>1, <2>2
  <1>7. /\ BelowNearly(c, i, g, j, k) =>
              x * (((Sharp - 1) * (Sharp - 1)) * Sharp) <= y * (((Sharp + 1) * (Sharp + 1)) * (Sharp + 1))
        /\ AboveNearly(c, i, g, j, k) =>
              y * (((Sharp - 1) * (Sharp - 1)) * (Sharp - 1)) < x * (((Sharp + 1) * (Sharp + 1)) * Sharp)
    BY DEF BelowNearly, AboveNearly, x, z
  <1> HIDE DEF y
  <1>8. /\ BelowNearly(c, i, g, j, k) => x <= y
        /\ AboveNearly(c, i, g, j, k) => y <= x
    BY <1>1, <1>3, <1>6, <1>7, NearIsExact
  <1>9. IF Leq(RateOf(c, i), FloorOf(RateOf(g, j))) THEN x <= y ELSE y <= x
    BY <1>5, <1>8
  <1>10. QED
    BY <1>9 DEF x, y, z, k

(* And one that is said to have changed by the threshold has.              *)
LEMMA ChangesAreExact ==
    ASSUME PowersOfTen, Precision >= 2,
           NEW c \in Nat, NEW i \in Nat \ {0}, NEW g \in Nat, NEW j \in Nat \ {0}, 800 * (g * i) <= Sharp,
           RateOf(g, j).n # 0, Leq(ChangeOf(RateOf(c, i), RateOf(g, j)), Dec(-DeclinePct))
    PROVE  c * j * 100 <= g * i * (100 - DeclinePct)
  <1> DEFINE r == RateOf(c, i)
             b == RateOf(g, j)
             m == Sharp - 1
             t == Sharp
             s == Sharp + 1
             k == DeclinePct
             x == c * j * 100
             z == g * i
  <1>1. t \in Nat /\ t >= 20
    BY SharpIsSharp
  <1>2. StandsFor(r, c, i) /\ StandsFor(b, g, j)
    BY RateStands
  <1>3. r.n \in Nat /\ r.e \in Int /\ b.n \in Nat \ {0} /\ b.e \in Int
    BY <1>2 DEF StandsFor
  <1>4. Leq(ChangeOf(r, b), Dec(-DeclinePct))
    OBVIOUS
  <1>5. k \in 0 .. 100
    BY ThresholdsAssumption
  <1>6. x \in Nat /\ z \in Nat /\ 800 * z <= t
    BY <1>1
  <1> HIDE DEF r, b
  <1>7. PICK low \in Int : \A d \in Int : d <= low => FellNearly(r, b, d)
    BY <1>3, <1>4, ChangesAreNear
  <1> DEFINE d == Lower(Lower(low, 0), Lower(r.e, b.e))
             u == 10^(-d)
             W == InUnits(r, d)
             B == InUnits(b, d)
  <1>8. d \in Int /\ d <= low /\ d <= 0 /\ d <= r.e /\ d <= b.e
    BY <1>3 DEF Lower
  <1> HIDE DEF d
  <1>9. /\ W \in Nat /\ B \in Nat /\ W <= B
        /\ ((t * t) * t) * (k * B) <= ((s * s) * s) * (100 * (B - W))
    BY <1>7, <1>8 DEF FellNearly
  <1>10. u \in Nat \ {0} /\ (m * m) * ((c * 100) * u) <= (t * t) * (W * i)
    BY <1>2, <1>8 DEF StandsFor
  <1>11. (t * t) * (B * j) <= (s * s) * ((g * 100) * u)
    BY <1>2, <1>8 DEF StandsFor
  <1>12. m \in Nat /\ t \in Nat /\ s \in Nat \ {0} /\ t <= s
    BY <1>1
  <1> HIDE DEF m, t, s, u, W, B, k
  <1>13. (c * j * 100) * ((m * m) * s) <= (g * i) * (100 * ((s * s) * s) - k * ((t * t) * t))
    BY <1>5, <1>9, <1>10, <1>11, <1>12, ChainDecline
  <1>14. 8 * (z * 100) <= t
    <2> HIDE DEF z
    <2>1. QED BY <1>1, <1>6
  <1>15. x * (((t - 1) * (t - 1)) * (t + 1)) <= z * (100 * (((t + 1) * (t + 1)) * (t + 1)) - k * ((t * t) * t))
    BY <1>13 DEF m, s, t, x, z
  <1> HIDE DEF x, z
  <1>16. x <= z * (100 - k)
    BY <1>1, <1>5, <1>6, <1>14, <1>15, DeclineIsExact
  <1>17. QED
    BY <1>16 DEF x, z, k

-----------------------------------------------------------------------------
(* The date of a decline.  What a report of fatigue says of it is compared *)
(* with the deliveries through the rows of one ad.                         *)

Ctr(a, w) == RateOf(SumFor({a}, w, "clicks"), SumFor({a}, w, "impressions"))

(* The windows of n days in which the ad was seen.                         *)
Seen(a, n) == {w \in {WindowEnding(e, n) : e \in n .. Today} : SumFor({a}, w, "impressions") > 0}

(* Of two of its rates one is the lower, and the lower of the lower is so: *)
(* among its windows there is a best.                                      *)
CtrsAreOrdered ==
    \A a \in Ads, n \in Lengths : \A u, v, w \in Seen(a, n) :
        /\ Leq(Ctr(a, u), Ctr(a, v)) \/ Leq(Ctr(a, v), Ctr(a, u))
        /\ Leq(Ctr(a, u), Ctr(a, v)) /\ Leq(Ctr(a, v), Ctr(a, w)) => Leq(Ctr(a, u), Ctr(a, w))

(* The rows of one ad, from the first day of the export.                   *)
DailyOf(rows, a) == {x \in Daily({y \in rows : y.ad # None}) : x.ad = a}

AreDaysOf(R, a, first) ==
    /\ IsFiniteSet(R)
    /\ \A r \in R : /\ r.start \in first .. Today /\ r.stop = r.start
                    /\ \A count \in CountNames : r[count] = SumFor({a}, Day(r), count)
    /\ \A r, s \in R : r.start = s.start => r = s
    /\ \A d \in first .. Today : Live(a, Window(d, d)) # {} => \E r \in R : r.start = d

LEMMA CountsOfRow ==
    ASSUME NEW ads, NEW w, NEW about, NEW query, NEW count \in CountNames
    PROVE  RowOf(ads, w, about, query)[count] = SumFor(ads, w, count)
  <1> DEFINE clicks == SumFor(ads, w, "clicks")
             spend == SumFor(ads, w, "spend")
             impressions == SumFor(ads, w, "impressions")
             r == RowOf(ads, w, about, query)
  <1>1. r.clicks = clicks /\ r.spend = spend /\ r.impressions = impressions
    <2> HIDE DEF clicks, spend, impressions
    <2>1. QED BY DEF RowOf, clicks, spend, impressions
  <1> HIDE DEF r
  <1>2. /\ r["clicks"] = SumFor(ads, w, "clicks") /\ r["spend"] = SumFor(ads, w, "spend")
        /\ r["impressions"] = SumFor(ads, w, "impressions")
    BY <1>1
  <1>3. r[count] = SumFor(ads, w, count)
    BY <1>2 DEF CountNames
  <1>4. QED
    BY <1>3 DEF r

(* An export has a row for each day on which an ad delivered.              *)
LEMMA RowsOfAnAd ==
    ASSUME DaysAreTyped, 1 \notin ReachLengths, NEW first \in FirstDays, NEW rows \in Exports(first),
           NEW a \in Ads
    PROVE  AreDaysOf(DailyOf(rows, a), a, first)
  <1> DEFINE R == DailyOf(rows, a)
  <1>1. PICK query \in {"ads", "placements"} : OfRequest(rows, first, query)
    BY RequestOfExport
  <1>2. /\ first \in Int /\ Today \in Nat /\ a # None /\ a # Campaign
        /\ RowsHaveDays(rows, Today) /\ OneRowADay(rows)
    BY ReportsAssumption, ExportIsReal DEF DaysAreTyped
  <1>3. \A r \in R : r \in rows /\ r \in Daily(rows) /\ r.ad = a /\ r.stop = r.start
    BY DEF DailyOf, Daily
  <1>4. IsFiniteSet(R)
    BY <1>2, <1>3, FS_Subset DEF RowsHaveDays
  <1>5. ASSUME NEW r \in R
        PROVE  /\ r.start \in first .. Today
               /\ \A count \in CountNames : r[count] = SumFor({a}, Day(r), count)
    <2>1. ~ OfReach(r)
      <3> SUFFICES ASSUME NEW b \in Ads, NEW n \in ReachLengths,
                          IsRowOf(r, {b}, WindowEnding(Today, n), b, "reach")
                   PROVE  FALSE
        BY DEF OfReach
      <3>1. r.start = Today - n + 1 /\ r.stop = Today /\ n \in Nat \ {0} /\ n # 1
        BY ReportsAssumption DEF IsRowOf, WindowEnding, Window
      <3>2. QED BY <1>2, <1>3, <3>1
    <2>2. ~ OfCampaign(r, first)
      BY <1>2, <1>3 DEF OfCampaign, IsRowOf
    <2>3. OfAd(r, first, query)
      BY <1>1, <1>3, <2>1, <2>2 DEF OfRequest
    <2>4. PICK b \in Ads, d \in first .. Today : IsRowOf(r, {b}, Window(d, d), b, query)
      BY <2>3 DEF OfAd
    <2>5. b # Campaign
      BY ReportsAssumption
    <2>6. b = a /\ r.start = d /\ Day(r) = Window(d, d) /\ r = RowOf({a}, Window(d, d), a, query)
      BY <1>3, <2>4, <2>5 DEF IsRowOf, Window, Day
    <2>7. \A count \in CountNames : r[count] = SumFor({a}, Window(d, d), count)
      BY <2>6, CountsOfRow
    <2>8. QED BY <2>6, <2>7
  <1>6. \A r, s \in R : r.start = s.start => r = s
    BY <1>2, <1>3 DEF OneRowADay
  <1>7. ASSUME NEW d \in first .. Today, Live(a, Window(d, d)) # {}
        PROVE  \E r \in R : r.start = d
    <2>1. PICK r \in rows : IsRowOf(r, {a}, Window(d, d), a, query)
      BY <1>1, <1>7 DEF OfRequest
    <2>2. r.start = d /\ r.stop = d /\ r.ad = a
      BY <1>2, <2>1 DEF IsRowOf, Window
    <2>3. QED BY <1>2, <2>1, <2>2 DEF DailyOf, Daily
  <1>8. QED
    BY <1>3, <1>4, <1>5, <1>6, <1>7 DEF AreDaysOf

(* Over a window within the export they add up to what was delivered.      *)
LEMMA CountsOfDays ==
    ASSUME DaysAreTyped, NEW a \in Ads, NEW first \in Int, NEW R, AreDaysOf(R, a, first),
           NEW w, w.start \in Int, w.end \in Int, first <= w.start, NEW count \in CountNames
    PROVE  CountOf(Inside(w, R), count) = SumFor({a}, w, count)
  <1> DEFINE X == Inside(w, R)
             n == Delivered(count)
             C == [r \in X |-> Units(n, {a}, Day(r))]
             f == [r \in X |-> r[count]]
  <1>1. \A r \in R : /\ r.start \in Int /\ r.start \in first .. Today /\ r.stop = r.start
                     /\ DaysOf(Day(r)) = {r.start} /\ Day(r) = Window(r.start, r.start)
    <2>1. Today \in Int
      BY DEF DaysAreTyped
    <2>2. \A r \in R : r.start \in first .. Today /\ r.stop = r.start
      BY DEF AreDaysOf
    <2>3. \A r \in R : r.start \in Int
      BY <2>1, <2>2
    <2>4. \A r \in R : Day(r) = Window(r.start, r.start)
      BY DEF Day
    <2>5. \A d \in Int : DaysOf(Window(d, d)) = {d}
      BY DEF DaysOf, Window
    <2>6. QED BY <2>2, <2>3, <2>4, <2>5
  <1>2. \A r \in R : r \in X <=> r.start \in DaysOf(w)
    BY <1>1 DEF Inside, Contains, DaysOf
  <1>3. X \subseteq R /\ IsFiniteSet(X)
    <2>1. X \subseteq R
      BY DEF Inside
    <2>2. QED BY <2>1, FS_Subset DEF AreDaysOf
  <1>4. \A r \in X : IsFiniteSet(C[r]) /\ f[r] = Cardinality(C[r])
    <2> SUFFICES ASSUME NEW r \in X PROVE IsFiniteSet(C[r]) /\ f[r] = Cardinality(C[r])
      OBVIOUS
    <2>1. r[count] = SumFor({a}, Day(r), count)
      BY <1>3 DEF AreDaysOf
    <2>2. IsFiniteSet(Units(n, {a}, Day(r))) /\ SumFor({a}, Day(r), count) = Cardinality(Units(n, {a}, Day(r)))
      BY CountsAreUnits
    <2>3. QED BY <2>1, <2>2
  <1>5. \A r \in R : \A u \in Units(n, {a}, Day(r)) : u[2] = r.start /\ u[1] = a
    BY <1>1 DEF Units, Live
  <1>6. ASSUME NEW r \in X, NEW s \in X, r # s PROVE C[r] \cap C[s] = {}
    <2>1. r.start # s.start
      BY <1>3, <1>6 DEF AreDaysOf
    <2>2. QED BY <1>3, <1>5, <2>1
  <1>7. ASSUME NEW u \in UnitsOf(C, X) PROVE u \in Units(n, {a}, w)
    <2>1. PICK r \in X : u \in Units(n, {a}, Day(r))
      BY DEF UnitsOf
    <2>2. u[2] = r.start /\ u[1] = a /\ r.start \in DaysOf(w)
      BY <1>2, <1>3, <1>5, <2>1
    <2>3. u[2] \in Live(u[1], w)
      BY <2>1, <2>2 DEF Units, Live
    <2>4. QED BY <2>1, <2>3 DEF Units
  <1>8. ASSUME NEW u \in Units(n, {a}, w) PROVE u \in UnitsOf(C, X)
    <2>1. /\ u[1] = a /\ u[2] \in Live(a, w) /\ u[2] \in DaysOf(w) /\ u[2] \in 1 .. Today
          /\ delivered[a][u[2]] # Nothing
      BY DEF Units, Live
    <2> DEFINE d == u[2]
    <2>2. d \in first .. Today /\ d \in Int
      BY <2>1 DEF DaysOf, DaysAreTyped
    <2>3. d \in Live(a, Window(d, d))
      BY <2>1, <2>2 DEF Live, DaysOf, Window
    <2>4. PICK r \in R : r.start = d
      <3> HIDE DEF d
      <3>1. QED BY <2>2, <2>3 DEF AreDaysOf
    <2>5. r \in X /\ Day(r) = Window(d, d)
      BY <1>1, <1>2, <2>1, <2>4
    <2>6. u \in Units(n, {a}, Day(r))
      BY <2>1, <2>3, <2>5 DEF Units
    <2>7. QED BY <2>5, <2>6 DEF UnitsOf
  <1>9. Stands(C, f, X)
    BY <1>3, <1>4, <1>6 DEF Stands
  <1>10. UnitsOf(C, X) = Units(n, {a}, w)
    BY <1>7, <1>8
  <1> HIDE DEF C, X
  <1>11. CountOf(X, count) = Cardinality(UnitsOf(C, X))
    BY <1>9, CountsAreCounted
  <1>12. SumFor({a}, w, count) = Cardinality(Units(n, {a}, w))
    BY CountsAreUnits
  <1>13. QED
    BY <1>10, <1>11, <1>12 DEF X

LEMMA CountsAreNumbers ==
    ASSUME DaysAreTyped, NEW a \in Ads, NEW w, NEW count \in CountNames
    PROVE  SumFor({a}, w, count) \in Nat
  BY CountsAreUnits, FS_CardinalityType

(* So the rate of the rows is that of the ad, if it was seen.              *)
LEMMA CtrOfDays ==
    ASSUME DaysAreTyped, NEW a \in Ads, NEW first \in Int, NEW R, AreDaysOf(R, a, first),
           NEW w, w.start \in Int, w.end \in Int, first <= w.start
    PROVE  CtrOf(R, w) = IF SumFor({a}, w, "impressions") > 0 THEN {Ctr(a, w)} ELSE {}
  <1> DEFINE clicks == SumFor({a}, w, "clicks")
             impressions == SumFor({a}, w, "impressions")
             X == Inside(w, R)
             t == Plain(X)
             p == Parts(t, "ctr")
  <1>1. clicks = CountOf(X, "clicks") /\ impressions = CountOf(X, "impressions") /\ impressions \in Nat
    BY CountsOfDays, CountsAreNumbers DEF CountNames
  <1>2. t.clicks = CountOf(X, "clicks") /\ t.impressions = CountOf(X, "impressions")
    BY DEF Plain, TotalsOf, CountOf
  <1>3. p = <<{t.clicks}, {t.impressions}, 100>>
    BY DEF Parts
  <1>4. CtrOf(R, w) = {Over(Times(Dec(x), Dec(p[3])), Dec(d)) : x \in p[1], d \in p[2] \ {0}}
    BY DEF CtrOf, Rate
  <1> HIDE DEF clicks, impressions, X, t, p
  <1>5. p[1] = {clicks} /\ p[2] = {impressions} /\ p[3] = 100
    BY <1>1, <1>2, <1>3
  <1>6. CtrOf(R, w) = {Over(Times(Dec(x), Dec(100)), Dec(d)) : x \in {clicks}, d \in {impressions} \ {0}}
    BY <1>4, <1>5
  <1>7. CtrOf(R, w) = IF impressions > 0 THEN {Over(Times(Dec(clicks), Dec(100)), Dec(impressions))} ELSE {}
    BY <1>1, <1>6
  <1>8. QED
    BY <1>7 DEF Ctr, RateOf, clicks, impressions

LEMMA CtrsAreDecimals ==
    ASSUME DaysAreTyped, PowersOfTen, NEW a \in Ads, NEW n \in Lengths, NEW w \in Seen(a, n)
    PROVE  IsDecimal(Ctr(a, w))
  <1> DEFINE c == SumFor({a}, w, "clicks")
             i == SumFor({a}, w, "impressions")
  <1>1. c \in Nat /\ i \in Nat
    BY CountsAreNumbers DEF CountNames
  <1>2. i > 0
    BY DEF Seen
  <1>3. Ctr(a, w) = RateOf(c, i)
    BY DEF Ctr
  <1> HIDE DEF c, i
  <1>4. StandsFor(RateOf(c, i), c, i)
    BY <1>1, <1>2, RateStands
  <1>5. QED
    BY <1>3, <1>4 DEF StandsFor, IsDecimal

(* Of two rates of an ad one is the lower, and the lower of the lower is.  *)
LEMMA CtrsOrder ==
    ASSUME DaysAreTyped, PowersOfTen
    PROVE  CtrsAreOrdered
  <1> SUFFICES ASSUME NEW a \in Ads, NEW n \in Lengths,
                      NEW u \in Seen(a, n), NEW v \in Seen(a, n), NEW w \in Seen(a, n)
               PROVE  /\ Leq(Ctr(a, u), Ctr(a, v)) \/ Leq(Ctr(a, v), Ctr(a, u))
                      /\ Leq(Ctr(a, u), Ctr(a, v)) /\ Leq(Ctr(a, v), Ctr(a, w)) => Leq(Ctr(a, u), Ctr(a, w))
    BY DEF CtrsAreOrdered
  <1>1. IsDecimal(Ctr(a, u)) /\ IsDecimal(Ctr(a, v)) /\ IsDecimal(Ctr(a, w))
    BY CtrsAreDecimals
  <1>2. QED
    BY <1>1, DecimalsAreOrdered
(* A finite set with an order on it, total and transitive, has a greatest  *)
(* member: of the subsets without one, take a smallest.                    *)
LEMMA GreatestExists ==
    ASSUME NEW S, IsFiniteSet(S), S # {}, NEW G,
           \A u, v \in S : <<u, v>> \in G \/ <<v, u>> \in G,
           \A u, v, w \in S : <<u, v>> \in G /\ <<v, w>> \in G => <<u, w>> \in G
    PROVE  \E v \in S : \A u \in S : <<u, v>> \in G
  <1> DEFINE Has(T) == \E v \in T : \A u \in T : <<u, v>> \in G
             Wrong == {T \in SUBSET S : T # {} /\ ~ Has(T)}
             Sizes == {Cardinality(T) : T \in Wrong}
  <1>1. \A T \in SUBSET S : IsFiniteSet(T) /\ Cardinality(T) \in Nat
    BY FS_Subset, FS_CardinalityType
  <1>2. ASSUME Wrong # {} PROVE FALSE
    <2>1. Sizes \subseteq Nat /\ Sizes # {}
      BY <1>1, <1>2
    <2>2. PICK n \in Sizes : \A k \in Sizes : n <= k
      <3> HIDE DEF Sizes
      <3>1. QED BY <2>1, LeastMember
    <2>3. PICK T \in Wrong : n = Cardinality(T)
      BY <2>2
    <2>4. PICK x \in T : TRUE
      BY <2>3
    <2> DEFINE U == T \ {x}
    <2>5. T \in SUBSET S /\ U \in SUBSET S /\ x \in S
      BY <2>3, <2>4
    <2>6. Cardinality(U) = Cardinality(T) - 1
      BY <1>1, <2>4, <2>5, FS_RemoveElement
    <2>7. U \notin Wrong
      <3>1. ~ (n <= Cardinality(U))
        BY <1>1, <2>3, <2>5, <2>6
      <3>2. U \in Wrong => Cardinality(U) \in Sizes
        <4> HIDE DEF Wrong, U
        <4>1. QED OBVIOUS
      <3> HIDE DEF Wrong, Sizes, U
      <3>3. QED BY <2>2, <3>1, <3>2
    <2>8. CASE U = {}
      <3>1. \A u \in T : u = x
        BY <2>8
      <3>2. Has(T)
        BY <2>4, <2>5, <3>1
      <3>3. QED BY <2>3, <3>2
    <2>9. CASE U # {}
      <3>1. PICK m \in U : \A u \in U : <<u, m>> \in G
        BY <2>5, <2>7, <2>9
      <3>2. CASE <<x, m>> \in G
        <4>1. \A u \in T : u = x \/ u \in U
          OBVIOUS
        <4>2. Has(T)
          BY <3>1, <3>2, <4>1
        <4>3. QED BY <2>3, <4>2
      <3>3. CASE <<m, x>> \in G
        <4>1. \A u \in T : u = x \/ u \in U
          OBVIOUS
        <4>2. \A u \in T : <<u, x>> \in G
          BY <2>5, <3>1, <3>3, <4>1
        <4>3. Has(T)
          BY <2>4, <4>2
        <4>4. QED BY <2>3, <4>3
      <3>4. QED BY <2>5, <3>1, <3>2, <3>3
    <2>10. QED BY <2>8, <2>9
  <1>3. Has(S)
    BY <1>2
  <1>4. QED
    BY <1>3

LEMMA FirstOfDays ==
    ASSUME DaysAreTyped, NEW a, NEW first \in Nat, NEW R, AreDaysOf(R, a, first), R # {}
    PROVE  FirstOf(R) \in first .. Today
  <1> DEFINE starts == {r.start : r \in R}
  <1>1. FirstOf(R) = CHOOSE x \in starts : \A y \in starts : x =< y
    BY DEF FirstOf, Min
  <1>2. starts \subseteq first .. Today /\ starts # {}
    BY DEF AreDaysOf
  <1>3. first .. Today \subseteq Nat
    BY DEF DaysAreTyped
  <1> HIDE DEF starts
  <1>4. PICK e \in starts : \A y \in starts : e <= y
    BY <1>2, <1>3, LeastMember
  <1>5. FirstOf(R) \in starts
    BY <1>1, <1>4
  <1>6. QED
    BY <1>2, <1>5

(* A window before another has a rate only if the ad was seen in it.       *)
LEMMA EligibleAreSeen ==
    ASSUME DaysAreTyped, NEW a \in Ads, NEW first \in Nat \ {0}, NEW R, AreDaysOf(R, a, first), R # {},
           NEW n \in Nat \ {0}, NEW end \in 0 .. Today, NEW w, w = WindowEnding(end, n),
           NEW v \in Eligible(R, w)
    PROVE  /\ v = WindowEnding(v.end, n) /\ v.end \in Int /\ v.start = v.end - n + 1
           /\ first <= v.start /\ v.end < w.start /\ n <= v.end /\ v \in Seen(a, n)
           /\ CtrOf(R, v) = {Ctr(a, v)}
  <1>1. /\ Today \in Nat /\ FirstOf(R) \in Int /\ first <= FirstOf(R)
        /\ w.start = end - n + 1 /\ Length(w) = n
    BY FirstOfDays DEF DaysAreTyped, WindowEnding, Window, Length
  <1>2. v \in PriorWindows(R, w) /\ CtrOf(R, v) # {}
    BY DEF Eligible
  <1>3. PICK e \in FirstOf(R) .. (w.start - 1) : v = WindowEnding(e, n) /\ v.start >= FirstOf(R)
    BY <1>1, <1>2 DEF PriorWindows
  <1>4. e \in Int /\ v.end = e /\ v.start = e - n + 1
    BY <1>1, <1>3 DEF WindowEnding, Window
  <1>5. first <= v.start /\ v.end < w.start /\ n <= v.end /\ e \in n .. Today
    BY <1>1, <1>3, <1>4
  <1>6. CtrOf(R, v) = IF SumFor({a}, v, "impressions") > 0 THEN {Ctr(a, v)} ELSE {}
    BY <1>4, <1>5, CtrOfDays
  <1>7. SumFor({a}, v, "impressions") > 0 /\ CtrOf(R, v) = {Ctr(a, v)}
    BY <1>2, <1>6
  <1>8. v \in Seen(a, n)
    BY <1>3, <1>5, <1>7 DEF Seen
  <1>9. QED
    BY <1>3, <1>4, <1>5, <1>7, <1>8

(* There is a best of them, and the baseline is one.                       *)
LEMMA BaselineIsEligible ==
    ASSUME DaysAreTyped, CtrsAreOrdered, NEW a \in Ads, NEW first \in Nat \ {0}, NEW R,
           AreDaysOf(R, a, first), R # {},
           NEW n \in Lengths, NEW end \in 0 .. Today, NEW w, w = WindowEnding(end, n), Eligible(R, w) # {}
    PROVE  Baseline(R, w) \in Eligible(R, w)
  <1> DEFINE S == Eligible(R, w)
             Best(v, u) == \A x \in CtrOf(R, v), y \in CtrOf(R, u) : Less(y, x) \/ (Leq(y, x) /\ u.end <= v.end)
             G == {p \in S \X S : Best(p[2], p[1])}
  <1>1. /\ n \in Nat \ {0} /\ Today \in Nat /\ FirstOf(R) \in Int
        /\ w.start = end - n + 1 /\ Length(w) = n
    BY FirstOfDays, ReportsAssumption DEF DaysAreTyped, WindowEnding, Window, Length
  <1>2. \A v \in S : v.end \in Int /\ v \in Seen(a, n) /\ CtrOf(R, v) = {Ctr(a, v)}
    BY <1>1, EligibleAreSeen
  <1>3. \A u, v \in S : Best(v, u) <=> (~ Leq(Ctr(a, v), Ctr(a, u)) \/ (Leq(Ctr(a, u), Ctr(a, v)) /\ u.end <= v.end))
    BY <1>2 DEF Less
  <1>4. /\ \A u, v \in S : Leq(Ctr(a, u), Ctr(a, v)) \/ Leq(Ctr(a, v), Ctr(a, u))
        /\ \A u, v, x \in S :
              Leq(Ctr(a, u), Ctr(a, v)) /\ Leq(Ctr(a, v), Ctr(a, x)) => Leq(Ctr(a, u), Ctr(a, x))
    BY <1>2 DEF CtrsAreOrdered
  <1>5. IsFiniteSet(S)
    <2> DEFINE ends == FirstOf(R) .. (w.start - 1)
               T == {WindowEnding(e, n) : e \in ends}
               h == [e \in ends |-> WindowEnding(e, n)]
    <2>1. w.start - 1 \in Int
      BY <1>1
    <2>2. IsFiniteSet(ends)
      BY <1>1, <2>1, FS_Interval
    <2>3. h \in [ends -> T] /\ \A t \in T : \E e \in ends : h[e] = t
      BY Zenon
    <2>4. S \subseteq T
      BY <1>1 DEF Eligible, PriorWindows
    <2> HIDE DEF ends, T, h, S
    <2>5. IsFiniteSet(T)
      BY <2>2, <2>3, ImageIsFinite
    <2>6. QED BY <2>4, <2>5, FS_Subset
  <1>6. Baseline(R, w) = CHOOSE v \in S : \A u \in S : Best(v, u)
    BY DEF Baseline
  <1> HIDE DEF S, Best
  <1>7. \A u, v \in S : <<u, v>> \in G <=> Best(v, u)
    OBVIOUS
  <1> HIDE DEF G
  <1>8. \A u, v \in S : <<u, v>> \in G \/ <<v, u>> \in G
    <2> SUFFICES ASSUME NEW u \in S, NEW v \in S PROVE Best(v, u) \/ Best(u, v)
      BY <1>7
    <2>1. u.end \in Int /\ v.end \in Int
      BY <1>2
    <2>2. Leq(Ctr(a, u), Ctr(a, v)) \/ Leq(Ctr(a, v), Ctr(a, u))
      BY <1>4
    <2>3. u.end <= v.end \/ v.end <= u.end
      BY <2>1
    <2>4. QED BY <1>3, <2>2, <2>3
  <1>9. \A u, v, x \in S : <<u, v>> \in G /\ <<v, x>> \in G => <<u, x>> \in G
    <2> SUFFICES ASSUME NEW u \in S, NEW v \in S, NEW x \in S, Best(v, u), Best(x, v)
                 PROVE  Best(x, u)
      BY <1>7
    <2>1. u.end \in Int /\ v.end \in Int /\ x.end \in Int
      BY <1>2
    <2>2. /\ Leq(Ctr(a, u), Ctr(a, v)) \/ Leq(Ctr(a, v), Ctr(a, u))
          /\ Leq(Ctr(a, x), Ctr(a, v)) \/ Leq(Ctr(a, v), Ctr(a, x))
          /\ Leq(Ctr(a, u), Ctr(a, v)) /\ Leq(Ctr(a, v), Ctr(a, x)) => Leq(Ctr(a, u), Ctr(a, x))
          /\ Leq(Ctr(a, x), Ctr(a, u)) /\ Leq(Ctr(a, u), Ctr(a, v)) => Leq(Ctr(a, x), Ctr(a, v))
          /\ Leq(Ctr(a, v), Ctr(a, x)) /\ Leq(Ctr(a, x), Ctr(a, u)) => Leq(Ctr(a, v), Ctr(a, u))
      BY <1>4
    <2>3. /\ ~ Leq(Ctr(a, v), Ctr(a, u)) \/ (Leq(Ctr(a, u), Ctr(a, v)) /\ u.end <= v.end)
          /\ ~ Leq(Ctr(a, x), Ctr(a, v)) \/ (Leq(Ctr(a, v), Ctr(a, x)) /\ v.end <= x.end)
      BY <1>3
    <2>4. ~ Leq(Ctr(a, x), Ctr(a, u)) \/ (Leq(Ctr(a, u), Ctr(a, x)) /\ u.end <= x.end)
      BY <2>1, <2>2, <2>3
    <2>5. QED BY <1>3, <2>4
  <1>10. S # {}
    BY DEF S
  <1>11. \E v \in S : \A u \in S : <<u, v>> \in G
    BY <1>5, <1>8, <1>9, <1>10, GreatestExists
  <1>12. \E v \in S : \A u \in S : Best(v, u)
    BY <1>7, <1>11
  <1>13. QED
    BY <1>6, <1>12 DEF S

(* The ad was down by the threshold, in rates as they are rounded.         *)
FellAsShown(a, n, w, base) == w \in Seen(a, n) /\ Leq(Ctr(a, w), FloorOf(Ctr(a, base)))

(* The date of a decline, of an ad over n days, that ends today at end.    *)
IsDateOf(s, a, n, end, base) ==
    /\ s \in Int /\ base \in Seen(a, n) /\ n <= base.end /\ base.end < s /\ s + n - 1 <= end
    /\ \A e \in (s + n - 1) .. end : FellAsShown(a, n, WindowEnding(e, n), base)
    /\ s + n - 1 > base.end + n => ~ FellAsShown(a, n, WindowEnding(s + n - 2, n), base)

LEMMA DeclineOfDays ==
    ASSUME DaysAreTyped, CtrsAreOrdered, NEW a \in Ads, NEW first \in Nat \ {0}, NEW R,
           AreDaysOf(R, a, first), R # {},
           NEW n \in Lengths, NEW end \in 0 .. Today, NEW w, w = WindowEnding(end, n), Eligible(R, w) # {},
           NEW base, base = Baseline(R, w)
    PROVE  \E s \in Int :
              /\ \A c \in CtrOf(R, base) : DeclineStart(R, base, w, c) \subseteq {s}
              /\ (\E c \in CtrOf(R, base) : DeclineStart(R, base, w, c) # {}) =>
                    IsDateOf(s, a, n, end, base) /\ first <= s
              /\ (\A c \in CtrOf(R, base) : DeclineStart(R, base, w, c) = {}) => ~ FellAsShown(a, n, w, base)
  <1>1. n \in Nat \ {0} /\ Today \in Nat /\ end \in Int /\ Length(w) = n /\ w.end = end /\ w.start = end - n + 1
    BY ReportsAssumption DEF DaysAreTyped, WindowEnding, Window, Length
  <1>2. /\ base.end \in Int /\ base.start = base.end - n + 1 /\ first <= base.start /\ n <= base.end
        /\ base.end < w.start /\ base \in Seen(a, n) /\ CtrOf(R, base) = {Ctr(a, base)}
    <2>1. base \in Eligible(R, w)
      BY BaselineIsEligible
    <2>2. QED BY <1>1, <2>1, EligibleAreSeen
  <1> DEFINE floor == FloorOf(Ctr(a, base))
             start == base.end + n
             fallen == {e \in start .. end : \E c \in CtrOf(R, WindowEnding(e, n)) : Leq(c, floor)}
             stayed == {e \in fallen : e .. end \subseteq fallen}
             s == Min(stayed) - n + 1
  <1>3. DeclineStart(R, base, w, Ctr(a, base)) = IF stayed = {} THEN {} ELSE {WindowEnding(Min(stayed), n).start}
    BY <1>1 DEF DeclineStart, StayedFallen, FloorOf
  <1>4. \A e \in start .. end : e \in fallen <=> FellAsShown(a, n, WindowEnding(e, n), base)
    <2> SUFFICES ASSUME NEW e \in start .. end
                 PROVE  e \in fallen <=> FellAsShown(a, n, WindowEnding(e, n), base)
      OBVIOUS
    <2> DEFINE v == WindowEnding(e, n)
    <2>1. e \in Int /\ v.start = e - n + 1 /\ v.end = e
      BY <1>1, <1>2 DEF WindowEnding, Window
    <2>2. v.start \in Int /\ v.end \in Int /\ first <= v.start /\ e \in n .. Today
      BY <1>1, <1>2, <2>1
    <2> HIDE DEF v
    <2>3. CtrOf(R, v) = IF SumFor({a}, v, "impressions") > 0 THEN {Ctr(a, v)} ELSE {}
      BY <2>2, CtrOfDays
    <2>4. v \in Seen(a, n) <=> SumFor({a}, v, "impressions") > 0
      BY <2>2 DEF Seen, v
    <2>5. e \in fallen <=> \E c \in CtrOf(R, v) : Leq(c, floor)
      BY DEF v
    <2> HIDE DEF floor, fallen
    <2>6. QED BY <2>3, <2>4, <2>5 DEF FellAsShown, v, floor
  <1> HIDE DEF floor, fallen
  <1>5. fallen \subseteq start .. end
    BY DEF fallen
  <1>6. CASE stayed = {}
    <2>1. \A c \in CtrOf(R, base) : DeclineStart(R, base, w, c) = {}
      BY <1>2, <1>3, <1>6
    <2>2. end \in start .. end
      BY <1>1, <1>2
    <2>3. end \notin fallen
      <3>1. end .. end = {end}
        BY <1>1
      <3>2. QED BY <1>6, <3>1
    <2>4. ~ FellAsShown(a, n, w, base)
      BY <1>4, <2>2, <2>3
    <2>5. QED BY <2>1, <2>4
  <1>7. CASE stayed # {}
    <2>1. start \in Nat /\ stayed \subseteq Nat /\ stayed \subseteq start .. end
      <3>1. start \in Nat
        BY <1>1, <1>2
      <3>2. stayed \subseteq start .. end
        BY <1>5
      <3> HIDE DEF start, stayed
      <3>3. start .. end \subseteq Nat
        BY <1>1, <3>1
      <3>4. QED BY <3>1, <3>2, <3>3
    <2>2. PICK m \in stayed : \A y \in stayed : m <= y
      <3> HIDE DEF stayed, start
      <3>1. QED BY <1>7, <2>1, LeastMember
    <2>3. Min(stayed) \in stayed /\ \A y \in stayed : Min(stayed) <= y
      <3>1. Min(stayed) = CHOOSE x \in stayed : \A y \in stayed : x =< y
        BY DEF Min
      <3> HIDE DEF stayed
      <3>2. QED BY <2>2, <3>1
    <2> DEFINE k == Min(stayed)
    <2>4. k \in fallen /\ k .. end \subseteq fallen /\ \A y \in stayed : k <= y
      BY <2>3
    <2>5. k \in start .. end /\ k \in Int /\ start \in Int
      BY <1>5, <2>1, <2>4
    <2> HIDE DEF k
    <2>6. k - 1 \notin stayed
      BY <2>4, <2>5
    <2>7. s \in Int /\ s = k - n + 1 /\ s + n - 1 = k /\ s + n - 2 = k - 1
      BY <1>1, <2>5 DEF k
    <2>8. WindowEnding(k, n).start = s
      BY <2>7 DEF WindowEnding, Window
    <2>9. \A c \in CtrOf(R, base) : DeclineStart(R, base, w, c) = {s}
      BY <1>2, <1>3, <1>7, <2>8 DEF k
    <2>10. \A e \in k .. end : FellAsShown(a, n, WindowEnding(e, n), base)
      BY <1>4, <1>5, <2>4
    <2>11. ASSUME k > start, FellAsShown(a, n, WindowEnding(k - 1, n), base)
           PROVE  FALSE
      <3>1. k - 1 \in start .. end
        BY <1>1, <2>5, <2>11
      <3>2. k - 1 \in fallen
        BY <1>4, <2>11, <3>1
      <3>3. (k - 1) .. end \subseteq fallen
        <4>1. \A e \in (k - 1) .. end : e = k - 1 \/ e \in k .. end
          BY <1>1, <2>5
        <4>2. QED BY <2>4, <3>2, <4>1
      <3>4. QED BY <2>6, <3>2, <3>3
    <2>12. base.end < s /\ first <= s /\ s + n - 1 <= end
      BY <1>1, <1>2, <2>5, <2>7
    <2>13. IsDateOf(s, a, n, end, base)
      <3> HIDE DEF s
      <3>1. \A e \in (s + n - 1) .. end : FellAsShown(a, n, WindowEnding(e, n), base)
        BY <2>7, <2>10
      <3>2. s + n - 1 > base.end + n => ~ FellAsShown(a, n, WindowEnding(s + n - 2, n), base)
        BY <2>7, <2>11
      <3>3. QED BY <1>2, <2>7, <2>12, <3>1, <3>2 DEF IsDateOf
    <2> HIDE DEF s
    <2>14. \E c \in CtrOf(R, base) : DeclineStart(R, base, w, c) # {}
      BY <1>2, <2>9
    <2>15. QED BY <2>7, <2>9, <2>12, <2>13, <2>14
  <1>8. QED
    BY <1>6, <1>7

(* What was spent since the days that started.                             *)
SinceOf(rows, started) == {CountOf({r \in rows : r.start >= d}, "spend") : d \in started}

LEMMA PartsOfDecline ==
    ASSUME NEW rows, NEW w, NEW covering, NEW x, x = AssessOne(rows, w, covering),
           NEW base, base = Baseline(rows, w)
    PROVE  \/ x.started = {}
           \/ /\ Eligible(rows, w) # {} /\ x.baseline = {base}
              /\ \A s \in x.started : \E c \in CtrOf(rows, base) : s \in DeclineStart(rows, base, w, c)
              /\ x.since = SinceOf(rows, x.started)
  <1> DEFINE now == TotalsOf(Inside(w, rows), FALSE, FALSE, covering)
             baseline == Baseline(rows, w)
             best == CtrOf(rows, baseline)
             change == PctChange(best, Rate(now, "ctr"))
             declined == {Leq(c, Dec(-DeclinePct)) : c \in change}
             started == IF TRUE \in declined
                        THEN UNION {DeclineStart(rows, baseline, w, c) : c \in best} ELSE {}
             frequent == {Less(Dec(Ceiling), f) :
                             f \in IF Ceiling = None THEN {} ELSE Rate(now, "frequency")}
             since == {MapThenSumSet(LAMBDA r : r.spend, {r \in rows : r.start >= d}) : d \in started}
             few == now.clicks < MinClicks \/ Eligible(rows, w) = {}
  <1>1. x = IF few THEN Unassessed(now)
            ELSE [status |-> "assessed", now |-> now, baseline |-> {baseline}, declined |-> declined,
                  frequent |-> frequent, started |-> started, since |-> since]
    BY Zenon DEF AssessOne
  <1>2. \A s \in started : \E c \in CtrOf(rows, base) : s \in DeclineStart(rows, base, w, c)
    <2> HIDE DEF declined
    <2>1. started \subseteq UNION {DeclineStart(rows, baseline, w, c) : c \in best}
      OBVIOUS
    <2> HIDE DEF started
    <2>2. QED BY <2>1
  <1>3. since = SinceOf(rows, started)
    <2> HIDE DEF started
    <2>1. since = {SpendOf({r \in rows : r.start >= d}) : d \in started}
      BY Zenon DEF SpendOf
    <2> HIDE DEF since
    <2>2. QED BY <2>1, SpendIsACount DEF SinceOf
  <1>4. ~ few => Eligible(rows, w) # {}
    OBVIOUS
  <1> HIDE DEF now, baseline, declined, frequent, started, since, few
  <1>5. CASE few
    BY <1>1, <1>5 DEF Unassessed
  <1>6. CASE ~ few
    <2>1. x.started = started /\ x.since = since /\ x.baseline = {baseline}
      BY <1>1, <1>6
    <2>2. QED BY <1>2, <1>3, <1>4, <1>6, <2>1 DEF baseline
  <1>7. QED
    BY <1>5, <1>6

(* And what it says of the change of the rate.                             *)
DatesOf(rows, base, w) == UNION {DeclineStart(rows, base, w, c) : c \in CtrOf(rows, base)}

SaidDown(x) == TRUE \in x.declined

ChangeIsOf(x, rows, w, base) ==
    /\ Eligible(rows, w) # {} /\ x.baseline = {base}
    /\ \E c \in PctChange(CtrOf(rows, base), CtrOf(rows, w)) : Leq(c, Dec(-DeclinePct))
    /\ x.started = DatesOf(rows, base, w)

LEMMA PartsOfChange ==
    ASSUME NEW rows, NEW w, NEW covering, NEW x, x = AssessOne(rows, w, covering), SaidDown(x),
           NEW base, base = Baseline(rows, w)
    PROVE  ChangeIsOf(x, rows, w, base)
  <1> DEFINE now == TotalsOf(Inside(w, rows), FALSE, FALSE, covering)
             baseline == Baseline(rows, w)
             best == CtrOf(rows, baseline)
             change == PctChange(best, Rate(now, "ctr"))
             declined == {Leq(c, Dec(-DeclinePct)) : c \in change}
             dates == UNION {DeclineStart(rows, baseline, w, c) : c \in best}
             started == IF TRUE \in declined THEN dates ELSE {}
             frequent == {Less(Dec(Ceiling), f) :
                             f \in IF Ceiling = None THEN {} ELSE Rate(now, "frequency")}
             since == {MapThenSumSet(LAMBDA r : r.spend, {r \in rows : r.start >= d}) : d \in started}
             few == now.clicks < MinClicks \/ Eligible(rows, w) = {}
  <1>1. x = IF few THEN Unassessed(now)
            ELSE [status |-> "assessed", now |-> now, baseline |-> {baseline}, declined |-> declined,
                  frequent |-> frequent, started |-> started, since |-> since]
    BY Zenon DEF AssessOne
  <1>2. Rate(now, "ctr") = CtrOf(rows, w)
    <2> DEFINE t == Plain(Inside(w, rows))
    <2>1. t.clicks = now.clicks /\ t.impressions = now.impressions
      BY DEF Plain, TotalsOf
    <2> HIDE DEF t, now
    <2>2. Parts(t, "ctr") = Parts(now, "ctr")
      BY <2>1 DEF Parts
    <2>3. Rate(t, "ctr") = Rate(now, "ctr")
      BY <2>2 DEF Rate
    <2>4. QED BY <2>3 DEF CtrOf, t
  <1>3. ~ few => Eligible(rows, w) # {}
    OBVIOUS
  <1>4. TRUE \in declined => (\E c \in change : Leq(c, Dec(-DeclinePct))) /\ started = dates
    <2> HIDE DEF change, dates
    <2>1. QED OBVIOUS
  <1> HIDE DEF few, declined, started, since, frequent, now
  <1>5. ~ few
    <2>1. Unassessed(now).declined = {}
      BY DEF Unassessed
    <2>2. few => x = Unassessed(now)
      BY <1>1
    <2>3. QED BY <2>1, <2>2 DEF SaidDown
  <1>6. x.declined = declined /\ x.started = started /\ x.baseline = {baseline}
    BY <1>1, <1>5
  <1>7. change = PctChange(CtrOf(rows, base), CtrOf(rows, w)) /\ baseline = base
    BY <1>2
  <1>8. dates = DatesOf(rows, base, w)
    BY Zenon DEF DatesOf
  <1> HIDE DEF change, baseline, dates
  <1>9. QED
    BY <1>3, <1>4, <1>5, <1>6, <1>7, <1>8 DEF ChangeIsOf, SaidDown
(* The decline of an ad has a date, and the spend since is what was spent. *)
Dated(x, a, n, end) ==
    \A s \in x.started, base \in x.baseline :
        IsDateOf(s, a, n, end, base) /\ x.since = {SumFor({a}, Window(s, Today), "spend")}

(* An ad is said to be down over w only if it changed by the threshold, as *)
(* the change is rounded; a decline that has no date is none by its rate.  *)
IsDown(x, a, n, w) ==
    TRUE \in x.declined =>
        \E base \in Seen(a, n) :
            /\ x.baseline = {base} /\ w \in Seen(a, n) /\ Ctr(a, base).n # 0
            /\ Leq(ChangeOf(Ctr(a, w), Ctr(a, base)), Dec(-DeclinePct))
            /\ x.started = {} => ~ FellAsShown(a, n, w, base)

(* What a report of fatigue says of declines.                              *)
DeclinesAreDated(r) ==
    r.kind = "fatigue" =>
        /\ r.current.end \in 0 .. Today /\ Length(r.current) \in Lengths
        /\ \A a \in DOMAIN r.ads :
              /\ a \in Ads /\ Dated(r.ads[a], a, Length(r.current), r.current.end)
              /\ IsDown(r.ads[a], a, Length(r.current), r.current)

LEMMA DeclineOfAd ==
    ASSUME DaysAreTyped, CtrsAreOrdered, NEW a \in Ads, NEW first \in Nat \ {0}, NEW R,
           AreDaysOf(R, a, first), R # {},
           NEW n \in Lengths, NEW end \in 0 .. Today, NEW w, w = WindowEnding(end, n), NEW covering,
           NEW x, x = AssessOne(R, w, covering)
    PROVE  Dated(x, a, n, end)
  <1> SUFFICES ASSUME NEW s \in x.started, NEW base \in x.baseline
               PROVE  IsDateOf(s, a, n, end, base) /\ x.since = {SumFor({a}, Window(s, Today), "spend")}
    BY DEF Dated
  <1>1. /\ Eligible(R, w) # {} /\ base = Baseline(R, w)
        /\ \A d \in x.started : \E c \in CtrOf(R, base) : d \in DeclineStart(R, base, w, c)
        /\ x.since = SinceOf(R, x.started)
    <2> DEFINE b == Baseline(R, w)
    <2>1. \/ x.started = {}
          \/ /\ Eligible(R, w) # {} /\ x.baseline = {b}
             /\ \A d \in x.started : \E c \in CtrOf(R, b) : d \in DeclineStart(R, b, w, c)
             /\ x.since = SinceOf(R, x.started)
      BY PartsOfDecline
    <2> HIDE DEF b
    <2>2. x.started # {} /\ base \in x.baseline
      OBVIOUS
    <2>3. base = b
      BY <2>1, <2>2
    <2>4. QED BY <2>1, <2>2, <2>3 DEF b
  <1>2. PICK t \in Int :
            /\ \A c \in CtrOf(R, base) : DeclineStart(R, base, w, c) \subseteq {t}
            /\ (\E c \in CtrOf(R, base) : DeclineStart(R, base, w, c) # {}) =>
                  IsDateOf(t, a, n, end, base) /\ first <= t
    <2>1. \E t \in Int :
              /\ \A c \in CtrOf(R, base) : DeclineStart(R, base, w, c) \subseteq {t}
              /\ (\E c \in CtrOf(R, base) : DeclineStart(R, base, w, c) # {}) =>
                    IsDateOf(t, a, n, end, base) /\ first <= t
              /\ (\A c \in CtrOf(R, base) : DeclineStart(R, base, w, c) = {}) => ~ FellAsShown(a, n, w, base)
      BY <1>1, DeclineOfDays
    <2>2. QED BY <2>1
  <1>3. \A d \in x.started : d = t
    BY <1>1, <1>2
  <1>4. s = t /\ x.started = {t}
    BY <1>3
  <1>5. IsDateOf(t, a, n, end, base) /\ first <= t
    BY <1>1, <1>2, <1>4
  <1>6. {r \in R : r.start >= t} = Inside(Window(t, Today), R)
    <2>1. \A r \in R : r.start \in first .. Today /\ r.stop = r.start
      BY DEF AreDaysOf
    <2>2. \A r \in R : r.start >= t <=> Contains(Window(t, Today), r)
      <3>1. Today \in Int /\ first \in Int
        BY DEF DaysAreTyped
      <3>2. \A r \in R : r.start \in Int /\ r.start <= Today
        BY <2>1, <3>1
      <3>3. QED BY <2>1, <3>2 DEF Contains, Window
    <2>3. QED BY <2>2 DEF Inside
  <1>7. CountOf(Inside(Window(t, Today), R), "spend") = SumFor({a}, Window(t, Today), "spend")
    <2> DEFINE v == Window(t, Today)
    <2>1. v.start = t /\ v.end = Today /\ Today \in Int
      BY DEF Window, DaysAreTyped
    <2> HIDE DEF v
    <2>2. CountOf(Inside(v, R), "spend") = SumFor({a}, v, "spend")
      BY <1>5, <2>1, CountsOfDays DEF CountNames
    <2>3. QED BY <2>2 DEF v
  <1>8. x.since = {CountOf({r \in R : r.start >= t}, "spend")}
    BY <1>1, <1>4 DEF SinceOf
  <1>9. QED
    BY <1>4, <1>5, <1>6, <1>7, <1>8

LEMMA ChangeOfAd ==
    ASSUME DaysAreTyped, CtrsAreOrdered, NEW a \in Ads, NEW first \in Nat \ {0}, NEW R,
           AreDaysOf(R, a, first), R # {},
           NEW n \in Lengths, NEW end \in 0 .. Today, NEW w, w = WindowEnding(end, n), NEW covering,
           NEW x, x = AssessOne(R, w, covering)
    PROVE  IsDown(x, a, n, w)
  <1> SUFFICES ASSUME TRUE \in x.declined
               PROVE  \E base \in Seen(a, n) :
                         /\ x.baseline = {base} /\ w \in Seen(a, n) /\ Ctr(a, base).n # 0
                         /\ Leq(ChangeOf(Ctr(a, w), Ctr(a, base)), Dec(-DeclinePct))
                         /\ x.started = {} => ~ FellAsShown(a, n, w, base)
    BY DEF IsDown
  <1>0. PICK base : base = Baseline(R, w)
    OBVIOUS
  <1>1. /\ Eligible(R, w) # {} /\ x.baseline = {base}
        /\ \E c \in PctChange(CtrOf(R, base), CtrOf(R, w)) : Leq(c, Dec(-DeclinePct))
        /\ x.started = DatesOf(R, base, w)
    <2>1. SaidDown(x)
      BY DEF SaidDown
    <2>2. ChangeIsOf(x, R, w, base)
      BY <1>0, <2>1, PartsOfChange
    <2>3. QED BY <2>2 DEF ChangeIsOf
  <1>2. /\ n \in Nat \ {0} /\ Today \in Nat /\ end \in Int /\ end <= Today
        /\ w.end = end /\ w.start = end - n + 1
    BY ReportsAssumption DEF DaysAreTyped, WindowEnding, Window
  <1>3. /\ base.end \in Int /\ base.start = base.end - n + 1 /\ first <= base.start /\ n <= base.end
        /\ base.end < w.start /\ base \in Seen(a, n) /\ CtrOf(R, base) = {Ctr(a, base)}
    <2>1. base \in Eligible(R, w)
      BY <1>0, <1>1, BaselineIsEligible
    <2>2. QED BY <1>2, <2>1, EligibleAreSeen
  <1>4. x.started = {} => ~ FellAsShown(a, n, w, base)
    <2>1. \E t \in Int :
              /\ \A c \in CtrOf(R, base) : DeclineStart(R, base, w, c) \subseteq {t}
              /\ (\E c \in CtrOf(R, base) : DeclineStart(R, base, w, c) # {}) =>
                    IsDateOf(t, a, n, end, base) /\ first <= t
              /\ (\A c \in CtrOf(R, base) : DeclineStart(R, base, w, c) = {}) => ~ FellAsShown(a, n, w, base)
      BY <1>0, <1>1, DeclineOfDays
    <2>2. x.started = {} => \A c \in CtrOf(R, base) : DeclineStart(R, base, w, c) = {}
      BY <1>1 DEF DatesOf
    <2>3. QED BY <2>1, <2>2
  <1>5. CtrOf(R, w) = IF SumFor({a}, w, "impressions") > 0 THEN {Ctr(a, w)} ELSE {}
    <2>1. first <= w.start /\ w.start \in Int /\ w.end \in Int
      BY <1>2, <1>3
    <2>2. QED BY <2>1, CtrOfDays
  <1>6. PICK b \in {c \in CtrOf(R, base) : c.n # 0}, r \in CtrOf(R, w) : Leq(ChangeOf(r, b), Dec(-DeclinePct))
    BY <1>1 DEF PctChange, ChangeOf
  <1>7. b = Ctr(a, base) /\ r = Ctr(a, w) /\ SumFor({a}, w, "impressions") > 0
    BY <1>3, <1>5, <1>6
  <1>8. w \in Seen(a, n)
    <2>1. end \in n .. Today
      BY <1>2, <1>3
    <2>2. QED BY <1>7, <2>1 DEF Seen
  <1>9. QED
    BY <1>1, <1>3, <1>4, <1>6, <1>7, <1>8

(* The export is of the ads, day by day.                                   *)
FileIsOf(rows, first) ==
    /\ RowsHaveDays(rows, Today)
    /\ \A r \in rows : r.ad \in Ads \cup {None}
    /\ \A a \in Ads : AreDaysOf(DailyOf(rows, a), a, first)

LEMMA ExportIsOf ==
    ASSUME DaysAreTyped, 1 \notin ReachLengths, NEW first \in FirstDays, NEW rows \in Exports(first)
    PROVE  FileIsOf(rows, first)
  <1>1. \A a \in Ads : AreDaysOf(DailyOf(rows, a), a, first)
    BY RowsOfAnAd
  <1>2. RowsHaveDays(rows, Today)
    BY ExportIsReal
  <1>3. ASSUME NEW r \in rows PROVE r.ad \in Ads \cup {None}
    <2>1. OfAd(r, first, "ads") \/ OfAd(r, first, "placements") \/ OfCampaign(r, first) \/ OfReach(r)
      BY RowsOfExport
    <2>2. QED BY <2>1 DEF OfAd, OfCampaign, OfReach, IsRowOf
  <1>4. QED
    BY <1>1, <1>2, <1>3 DEF FileIsOf

LEMMA FatigueIsDated ==
    ASSUME DaysAreTyped, CtrsAreOrdered, NEW first \in Nat \ {0}, NEW rows, FileIsOf(rows, first),
           NEW days \in Lengths, NEW end \in {None} \cup 1 .. Today, NEW r, r = Fatigue(rows, days, end)
    PROVE  DeclinesAreDated(r)
  <1> DEFINE about == {x \in rows : x.ad # None}
             daily == Daily(about)
             last == EndOf(end, daily)
             w == WindowEnding(last, days)
             names == {x.ad : x \in daily}
             Of(a) == {x \in daily : x.ad = a}
             ads == [a \in names |-> AssessOne(Of(a), w, Covering(about, w, a))]
             setOf == [a \in names |-> (CHOOSE x \in daily : x.ad = a).adset]
             siblings == Siblings(ads, setOf)
  <1>1. r = IF daily = {} THEN Refused
            ELSE [kind |-> "fatigue", current |-> w, ads |-> ads, siblings |-> siblings]
    BY Zenon DEF Fatigue
  <1>2. CASE daily = {}
    <2> HIDE DEF daily, ads, w, siblings
    <2>1. QED BY <1>1, <1>2 DEF DeclinesAreDated, Refused
  <1>3. CASE daily # {}
    <2>1. r.kind = "fatigue" /\ r.current = w /\ r.ads = ads
      <3> HIDE DEF daily, ads, w, siblings
      <3>1. QED BY <1>1, <1>3
    <2>2. \A a : Of(a) = DailyOf(rows, a)
      BY DEF DailyOf
    <2>3. \A x \in daily : x.ad \in Ads /\ Of(x.ad) # {}
      BY DEF FileIsOf, Daily
    <2>4. last \in 0 .. Today /\ Today \in Nat /\ days \in Nat \ {0}
      <3>1. Today \in Nat /\ RowsHaveDays(rows, Today) /\ daily \subseteq rows
        BY DEF DaysAreTyped, FileIsOf, Daily
      <3> HIDE DEF daily
      <3>2. LastOf(daily) \in 1 .. Today
        BY <1>3, <3>1, DatesOfRows
      <3>3. last \in 0 .. Today
        BY <3>1, <3>2 DEF EndOf
      <3> HIDE DEF last
      <3>4. QED BY <3>1, <3>3, ReportsAssumption
    <2> HIDE DEF last
    <2>5. w.end = last /\ Length(w) = days
      BY <2>4 DEF WindowEnding, Window, Length
    <2>6. ASSUME NEW a \in names
          PROVE  a \in Ads /\ Dated(ads[a], a, days, last) /\ IsDown(ads[a], a, days, w)
      <3>1. a \in Ads
        BY <2>3
      <3>2. Of(a) # {} /\ AreDaysOf(Of(a), a, first)
        BY <2>2, <2>3 DEF FileIsOf
      <3> DEFINE R == Of(a)
                 covering == Covering(about, w, a)
      <3>3. ads[a] = AssessOne(R, w, covering) /\ w = WindowEnding(last, days)
        OBVIOUS
      <3> HIDE DEF R, covering, ads, w, names
      <3>4. R # {} /\ AreDaysOf(R, a, first) /\ last \in 0 .. Today
        BY <2>4, <3>2 DEF R
      <3>5. Dated(ads[a], a, days, last)
        BY <3>1, <3>3, <3>4, DeclineOfAd
      <3>6. IsDown(ads[a], a, days, w)
        BY <3>1, <3>3, <3>4, ChangeOfAd
      <3>7. QED BY <3>1, <3>5, <3>6
    <2>7. DOMAIN r.ads = names
      BY <2>1
    <2> HIDE DEF names, ads, w
    <2>8. r.current.end = last /\ Length(r.current) = days
      BY <2>1, <2>5
    <2>9. r.current.end \in 0 .. Today /\ Length(r.current) \in Lengths
      BY <2>4, <2>8
    <2>10. \A a \in DOMAIN r.ads :
              /\ a \in Ads /\ Dated(r.ads[a], a, Length(r.current), r.current.end)
              /\ IsDown(r.ads[a], a, Length(r.current), r.current)
      BY <2>1, <2>6, <2>7, <2>8
    <2>11. QED BY Zenon, <2>9, <2>10 DEF DeclinesAreDated
  <1>4. QED
    BY <1>2, <1>3

(* The export is of the ads, day by day, and a report of fatigue is made   *)
(* of the export at hand.                                                  *)
ReportIsOfFile ==
    /\ file # {} => \E first \in FirstDays : FileIsOf(file, first)
    /\ report.kind = "fatigue" =>
          file # {} /\ \E days \in Lengths, end \in {None} \cup 1 .. Today : report = Fatigue(file, days, end)

LEMMA CountsAreUnitsNext ==
    DaysAreTyped' =>
        \A ads \in SUBSET Ads : \A w, count :
            count \in CountNames => SumFor(ads, w, count)' = Cardinality(Units(Delivered(count), ads, w)')
  <1>1. DaysAreTyped =>
            \A ads \in SUBSET Ads : \A w, count :
                count \in CountNames => SumFor(ads, w, count) = Cardinality(Units(Delivered(count), ads, w))
    BY CountsAreUnits
  <1>2. (DaysAreTyped =>
            \A ads \in SUBSET Ads : \A w, count :
                count \in CountNames => SumFor(ads, w, count) = Cardinality(Units(Delivered(count), ads, w)))'
    BY <1>1, PTL
  <1>3. QED
    BY <1>2

LEMMA DaysOfAdStay ==
    ASSUME DaysAreTyped, DaysAreTyped', UNCHANGED delivered, NEW R, NEW a \in Ads, NEW first,
           AreDaysOf(R, a, first)
    PROVE  AreDaysOf(R, a, first)'
  <1>1. Today' = Today /\ \A w : Live(a, w)' = Live(a, w)
    BY DEF Today, Live
  <1>2. \A w, count : count \in CountNames => SumFor({a}, w, count)' = SumFor({a}, w, count)
    <2> SUFFICES ASSUME NEW w, NEW count, count \in CountNames
                 PROVE  SumFor({a}, w, count)' = SumFor({a}, w, count)
      OBVIOUS
    <2> DEFINE U == Units(Delivered(count), {a}, w)
    <2>1. Delivered(count)' = Delivered(count)
      BY <1>1 DEF Delivered
    <2>2. U' = U
      <3>1. \A b : Live(b, w)' = Live(b, w)
        BY <1>1 DEF Live
      <3>2. QED BY <1>1, <2>1, <3>1 DEF Units
    <2>3. {a} \in SUBSET Ads
      OBVIOUS
    <2>4. SumFor({a}, w, count) = Cardinality(U)
      BY <2>3, CountsAreUnits
    <2>5. SumFor({a}, w, count)' = Cardinality(U')
      BY <2>3, CountsAreUnitsNext
    <2> HIDE DEF U
    <2>6. QED BY <2>2, <2>4, <2>5
  <1>3. QED
    BY <1>1, <1>2 DEF AreDaysOf

LEMMA FileStays ==
    ASSUME DaysAreTyped, DaysAreTyped', UNCHANGED delivered, NEW rows, NEW first, FileIsOf(rows, first),
           file' = rows
    PROVE  FileIsOf(file, first)'
  <1>1. Today' = Today
    BY DEF Today
  <1>2. \A a \in Ads : AreDaysOf(DailyOf(rows, a), a, first)'
    BY DaysOfAdStay DEF FileIsOf
  <1>3. \A a \in Ads : AreDaysOf(DailyOf(file, a), a, first)'
    BY <1>2
  <1>4. RowsHaveDays(file, Today)' /\ \A r \in file' : r.ad \in Ads \cup {None}
    BY <1>1 DEF FileIsOf, RowsHaveDays
  <1>5. QED
    BY <1>3, <1>4 DEF FileIsOf

LEMMA OfFileInit == Init => ReportIsOfFile
  BY DEF Init, ReportIsOfFile, NoReport

(* With the file comes the end of every report made of it but one.         *)
LEMMA OfFileAged ==
    ASSUME ~ OldExports, Age, report' = Kept
    PROVE  ReportIsOfFile'
  BY DEF Age, Kept, NoReport, ReportIsOfFile

LEMMA OfFileRan ==
    ASSUME DaysAreTyped, DaysAreTyped', ReportIsOfFile, UNCHANGED <<delivered, file>>,
           report'.kind = "fatigue" =>
               file # {} /\ \E days \in Lengths, end \in {None} \cup 1 .. Today :
                                report' = Fatigue(file, days, end)
    PROVE  ReportIsOfFile'
  <1>1. Today' = Today
    BY DEF Today
  <1>2. (file # {} => \E first \in FirstDays : FileIsOf(file, first))'
    BY FileStays DEF ReportIsOfFile
  <1>3. QED
    BY <1>1, <1>2 DEF ReportIsOfFile

LEMMA OfFileNext ==
    ASSUME 1 \notin ReachLengths, ~ OldExports, IInv, IInv', ReportIsOfFile, [Next]_vars
    PROVE  ReportIsOfFile'
  <1>1. DaysAreTyped /\ DaysAreTyped'
    BY DEF IInv
  <1>2. ASSUME Deliver PROVE ReportIsOfFile'
    BY <1>2, OfFileAged DEF Deliver
  <1>3. ASSUME NEW a \in Ads, NEW d \in 1 .. Today, LateResult(a, d) PROVE ReportIsOfFile'
    BY <1>3, OfFileAged DEF LateResult
  <1>4. ASSUME NEW first \in FirstDays, Export(first) PROVE ReportIsOfFile'
    <2>1. PICK rows \in Exports(first) : file' = rows
      BY <1>4 DEF Export
    <2>2. report' = NoReport /\ UNCHANGED delivered
      BY <1>4 DEF Export
    <2>3. FileIsOf(rows, first)
      BY <1>1, ExportIsOf
    <2>4. FileIsOf(file, first)'
      BY <1>1, <2>1, <2>2, <2>3, FileStays
    <2>5. QED BY <2>2, <2>4 DEF ReportIsOfFile, NoReport
  <1>5. ASSUME NEW days \in Lengths, RunFatigue(days) PROVE ReportIsOfFile'
    <2>1. PICK end \in {None} \cup 1 .. Today : Ran(Fatigue(file, days, end))
      BY <1>5 DEF RunFatigue
    <2>2. file # {} /\ report' = Fatigue(file, days, end) /\ UNCHANGED <<delivered, file>>
      BY <1>5, <2>1 DEF Ran, RunFatigue
    <2>3. QED BY <1>1, <2>2, OfFileRan
  <1>6. ASSUME UNCHANGED <<delivered, file>>, report'.kind # "fatigue" PROVE ReportIsOfFile'
    BY <1>1, <1>6, OfFileRan
  <1>7. ASSUME NEW days \in Lengths, NEW level \in Levels, RunCompare(days, level) PROVE ReportIsOfFile'
    <2>1. PICK end \in {None} \cup 1 .. Today, boundary \in {None} \cup 1 .. Today,
               attribution \in Attributions, event \in Events :
              Ran(Compare(file, days, end, boundary, event, attribution, level, Today))
      BY <1>7 DEF RunCompare
    <2> DEFINE r == Compare(file, days, end, boundary, event, attribution, level, Today)
    <2>2. r.kind \in {"refused", "compare"}
      BY DEF Compare, Refused
    <2>3. report' = r /\ UNCHANGED <<delivered, file>>
      BY <2>1 DEF Ran
    <2> HIDE DEF r
    <2>4. QED BY <1>6, <2>2, <2>3
  <1>8. ASSUME NEW days \in Lengths \cup {None}, NEW level \in Levels, RunBreakdown(days, level)
        PROVE  ReportIsOfFile'
    <2>1. PICK end \in {None} \cup 1 .. Today, event \in Events : Ran(Breakdown(file, days, end, event, level))
      BY <1>8 DEF RunBreakdown
    <2>2. report'.kind \in {"refused", "breakdown"} /\ UNCHANGED <<delivered, file>>
      BY <2>1, KindsOfReports DEF Ran
    <2>3. QED BY <1>6, <2>2
  <1>9. ASSUME NEW level \in Levels, RunPacing(level) PROVE ReportIsOfFile'
    <2>1. report'.kind \in {"refused", "daily", "lifetime"} /\ UNCHANGED <<delivered, file>>
      BY <1>9, KindsOfReports DEF Ran, RunPacing
    <2>2. QED BY <1>6, <2>1
  <1>10. ASSUME UNCHANGED vars PROVE ReportIsOfFile'
    BY <1>1, <1>10, OfFileRan DEF vars, ReportIsOfFile
  <1>11. QED
    BY <1>2, <1>3, <1>4, <1>5, <1>7, <1>8, <1>9, <1>10 DEF Next

(* The decline that an export of the day shows has a date: the last day to *)
(* start a window that was down in rates as they are rounded, with every   *)
(* window from there to the end down too and the one before it not; and    *)
(* what was spent since is what was delivered since, for any ads and       *)
(* deliveries and any number of digits (fatigue.py:242-263).               *)
THEOREM DeclineIsDated ==
    ASSUME 1 \notin ReachLengths, ~ OldExports, PowersOfTen
    PROVE  Spec => []DeclinesAreDated(report)
  <1>1. Init => ReportIsOfFile
    BY OfFileInit
  <1>2. IInv /\ IInv' /\ ReportIsOfFile /\ [Next]_vars => ReportIsOfFile'
    BY OfFileNext
  <1>3. IInv /\ ReportIsOfFile => DeclinesAreDated(report)
    <2> SUFFICES ASSUME IInv, ReportIsOfFile PROVE DeclinesAreDated(report)
      OBVIOUS
    <2>1. CASE report.kind # "fatigue"
      BY <2>1 DEF DeclinesAreDated
    <2>2. CASE report.kind = "fatigue"
      <3>1. PICK first \in FirstDays : FileIsOf(file, first)
        BY <2>2 DEF ReportIsOfFile
      <3>2. PICK days \in Lengths, end \in {None} \cup 1 .. Today : report = Fatigue(file, days, end)
        BY <2>2 DEF ReportIsOfFile
      <3>3. first \in Nat \ {0} /\ DaysAreTyped /\ CtrsAreOrdered
        BY ReportsAssumption, CtrsOrder DEF IInv
      <3>4. QED BY <3>1, <3>2, <3>3, FatigueIsDated
    <2>3. QED BY <2>1, <2>2
  <1>4. QED
    BY <1>1, <1>2, <1>3, InvariantHolds, PTL DEF Spec

(* The clicks of a window times the impressions of another, of one ad,     *)
(* have two digits less than the decimals, and a bit: with Python's 28,    *)
(* they are 2.5 * 10^24 at most.                                           *)
EnoughDigits ==
    \A a \in Ads, n \in Lengths : \A u, v \in Seen(a, n) :
        400 * (SumFor({a}, u, "clicks") * SumFor({a}, v, "impressions")) <= 10^(Precision - 1)

(* Then what is down in rates as they are rounded is down, and what is not *)
(* is at the threshold at worst.                                           *)
LEMMA ShownIsSo ==
    ASSUME DaysAreTyped, PowersOfTen, Precision >= 2, EnoughDigits,
           NEW a \in Ads, NEW n \in Lengths, NEW base \in Seen(a, n), NEW w \in Seen(a, n)
    PROVE  /\ FellAsShown(a, n, w, base) => Fell(a, w, base)
           /\ ~ FellAsShown(a, n, w, base) => ~ FellFurther(a, w, base)
           /\ Ctr(a, base).n # 0 /\ Leq(ChangeOf(Ctr(a, w), Ctr(a, base)), Dec(-DeclinePct)) => Fell(a, w, base)
  <1> DEFINE c == SumFor({a}, w, "clicks")
             i == SumFor({a}, w, "impressions")
             g == SumFor({a}, base, "clicks")
             j == SumFor({a}, base, "impressions")
  <1>1. c \in Nat /\ i \in Nat \ {0} /\ g \in Nat /\ j \in Nat \ {0}
    <2>1. c \in Nat /\ i \in Nat /\ g \in Nat /\ j \in Nat
      BY CountsAreNumbers DEF CountNames
    <2>2. i > 0 /\ j > 0
      BY DEF Seen
    <2> HIDE DEF c, i, g, j
    <2>3. QED BY <2>1, <2>2
  <1>2. 400 * (g * i) <= 10^(Precision - 1)
    BY DEF EnoughDigits
  <1>3. Ctr(a, w) = RateOf(c, i) /\ Ctr(a, base) = RateOf(g, j)
    BY DEF Ctr
  <1>4. Fell(a, w, base) <=> c * j * 100 <= g * i * (100 - DeclinePct)
    <2>1. i > 0
      BY <1>1
    <2>2. QED BY <2>1 DEF Fell
  <1>5. FellFurther(a, w, base) <=> c * j * 100 < g * i * (100 - DeclinePct)
    BY DEF FellFurther
  <1>6. FellAsShown(a, n, w, base) <=> Leq(RateOf(c, i), FloorOf(RateOf(g, j)))
    BY <1>3 DEF FellAsShown
  <1> HIDE DEF c, i, g, j
  <1>7. 800 * (g * i) <= Sharp
    <2> DEFINE z == g * i
               t == 10^(Precision - 1)
    <2>1. z \in Nat /\ 400 * z <= t /\ Sharp = 2 * t
      BY <1>1, <1>2 DEF Sharp
    <2>2. t \in Nat
      <3>1. Precision - 1 \in Nat
        BY PrecisionAssumption
      <3>2. QED BY <3>1, PowersArePositive
    <2> HIDE DEF z, t
    <2>3. 800 * z <= Sharp
      BY <2>1, <2>2
    <2>4. QED BY <2>3 DEF z
  <1>8. IF Leq(RateOf(c, i), FloorOf(RateOf(g, j)))
        THEN c * j * 100 <= g * i * (100 - DeclinePct) ELSE g * i * (100 - DeclinePct) <= c * j * 100
    BY <1>1, <1>7, FallsAreExact
  <1>9. RateOf(g, j).n # 0 /\ Leq(ChangeOf(RateOf(c, i), RateOf(g, j)), Dec(-DeclinePct)) =>
            c * j * 100 <= g * i * (100 - DeclinePct)
    BY <1>1, <1>7, ChangesAreExact
  <1> DEFINE x == c * j * 100
             y == g * i * (100 - DeclinePct)
  <1>10. x \in Int /\ y \in Int
    <2>1. 100 - DeclinePct \in Int
      BY ThresholdsAssumption
    <2>2. QED BY <1>1, <2>1
  <1>11. IF Leq(RateOf(c, i), FloorOf(RateOf(g, j))) THEN x <= y ELSE y <= x
    BY <1>8
  <1>12. /\ Fell(a, w, base) <=> x <= y
         /\ FellFurther(a, w, base) <=> x < y
         /\ RateOf(g, j).n # 0 /\ Leq(ChangeOf(RateOf(c, i), RateOf(g, j)), Dec(-DeclinePct)) => x <= y
    BY <1>4, <1>5, <1>9
  <1> HIDE DEF x, y
  <1>13. QED
    BY <1>3, <1>6, <1>10, <1>11, <1>12

(* The same in whole numbers: however the rates are rounded, every window  *)
(* from the date to the end was down from the baseline by the threshold or *)
(* more, the one before the date by the threshold at most, and the spend   *)
(* is that since the date, whatever recovered in between                   *)
(* (fatigue.py:242-263, "the decline that counts is the one still going"). *)
THEOREM DatedDeclineGoesOn ==
    ASSUME 1 \notin ReachLengths, ~ OldExports, PowersOfTen, Precision >= 2
    PROVE  Spec /\ []EnoughDigits => []DatedGoesOn
  <1>1. IInv /\ EnoughDigits /\ DeclinesAreDated(report) => DatedGoesOn
    <2> SUFFICES ASSUME DaysAreTyped, EnoughDigits, DeclinesAreDated(report), report.kind = "fatigue",
                        NEW a \in DOMAIN report.ads,
                        NEW s \in report.ads[a].started, NEW base \in report.ads[a].baseline
                 PROVE  LET n == Length(report.current)
                            First == s + n - 1
                        IN /\ \A e \in First .. report.current.end : Fell(a, WindowEnding(e, n), base)
                           /\ First > base.end + n => ~ FellFurther(a, WindowEnding(First - 1, n), base)
                           /\ report.ads[a].since = {SumFor({a}, Window(s, Today), "spend")}
      BY DEF DatedGoesOn, IInv
    <2> DEFINE n == Length(report.current)
               end == report.current.end
               First == s + n - 1
    <2>1. end \in 0 .. Today /\ n \in Lengths /\ a \in Ads /\ Dated(report.ads[a], a, n, end)
      BY DEF DeclinesAreDated
    <2>2. IsDateOf(s, a, n, end, base) /\ report.ads[a].since = {SumFor({a}, Window(s, Today), "spend")}
      <3> HIDE DEF n, end
      <3>1. QED BY <2>1 DEF Dated
    <2>3. n \in Nat \ {0} /\ end \in Int /\ Today \in Nat /\ end <= Today
      <3> HIDE DEF n, end
      <3>1. n \in Nat \ {0}
        BY <2>1, ReportsAssumption
      <3>2. QED BY <2>1, <3>1 DEF DaysAreTyped
    <2> HIDE DEF n, end
    <2>4. /\ s \in Int /\ base \in Seen(a, n) /\ n <= base.end /\ base.end < s /\ First <= end
          /\ \A e \in First .. end : FellAsShown(a, n, WindowEnding(e, n), base)
          /\ First > base.end + n => ~ FellAsShown(a, n, WindowEnding(First - 1, n), base)
      <3>1. s + n - 2 = First - 1
        BY <2>2, <2>3 DEF IsDateOf
      <3>2. QED BY <2>2, <3>1 DEF IsDateOf
    <2>5. base.end \in Int
      BY <2>3, <2>4 DEF Seen, WindowEnding, Window
    <2>6. ASSUME NEW w, FellAsShown(a, n, w, base) PROVE Fell(a, w, base)
      <3>1. w \in Seen(a, n)
        BY <2>6 DEF FellAsShown
      <3>2. QED BY <2>1, <2>4, <2>6, <3>1, ShownIsSo
    <2>7. ASSUME First > base.end + n, FellFurther(a, WindowEnding(First - 1, n), base)
          PROVE  FALSE
      <3> DEFINE w == WindowEnding(First - 1, n)
      <3>1. First - 1 \in n .. Today
        BY <2>3, <2>4, <2>5, <2>7
      <3>2. ~ FellAsShown(a, n, w, base) /\ FellFurther(a, w, base)
        BY <2>4, <2>7
      <3>3. w \in Seen(a, n)
        <4>1. SumFor({a}, w, "impressions") \in Nat /\ SumFor({a}, base, "impressions") \in Nat
              /\ SumFor({a}, w, "clicks") \in Nat /\ SumFor({a}, base, "clicks") \in Nat
          BY <2>1, CountsAreNumbers DEF CountNames
        <4>2. SumFor({a}, w, "impressions") # 0
          <5> HIDE DEF w
          <5> DEFINE i == SumFor({a}, w, "impressions")
                     j == SumFor({a}, base, "impressions")
                     c == SumFor({a}, w, "clicks")
                     g == SumFor({a}, base, "clicks")
                     k == 100 - DeclinePct
          <5>1. c * j * 100 < g * i * k
            BY <3>2 DEF FellFurther
          <5>2. k \in Int
            BY ThresholdsAssumption
          <5>3. i \in Nat /\ j \in Nat /\ c \in Nat /\ g \in Nat
            BY <4>1
          <5> HIDE DEF i, j, c, g, k
          <5>4. c * j * 100 \in Nat
            BY <5>3
          <5>5. ASSUME i = 0 PROVE g * i * k = 0
            BY <5>2, <5>3, <5>5
          <5>6. i # 0
            BY <5>1, <5>4, <5>5
          <5>7. QED BY <5>6 DEF i
        <4>3. SumFor({a}, w, "impressions") > 0
          <5> HIDE DEF w
          <5>1. QED BY <4>1, <4>2
        <4>4. QED BY <3>1, <4>3 DEF Seen
      <3> HIDE DEF w
      <3>4. QED BY <2>1, <2>4, <3>2, <3>3, ShownIsSo
    <2>8. QED BY <2>2, <2>4, <2>6, <2>7 DEF n, end
  <1>2. QED
    BY <1>1, DeclineIsDated, InvariantHolds, PTL

(* What becomes of DeclineHasADate, which ReportsDecline refutes: with any *)
(* number of digits an ad that a report calls declined is down by the      *)
(* threshold, and a decline without a date is one of the threshold and no  *)
(* more, so that is the only case the comment of fatigue.py:256-258 has    *)
(* not got right.                                                          *)
THEOREM DeclineHasADateBelow ==
    ASSUME 1 \notin ReachLengths, ~ OldExports, PowersOfTen, Precision >= 2
    PROVE  Spec /\ []EnoughDigits => []UndatedIsAtThreshold
  <1>1. IInv /\ EnoughDigits /\ DeclinesAreDated(report) => UndatedIsAtThreshold
    <2> SUFFICES ASSUME DaysAreTyped, EnoughDigits, DeclinesAreDated(report), report.kind = "fatigue",
                        NEW a \in DOMAIN report.ads, TRUE \in report.ads[a].declined,
                        NEW base \in report.ads[a].baseline
                 PROVE  /\ Fell(a, report.current, base)
                        /\ report.ads[a].started = {} => ~ FellFurther(a, report.current, base)
      BY DEF UndatedIsAtThreshold, IInv
    <2> DEFINE n == Length(report.current)
               w == report.current
               x == report.ads[a]
    <2>1. n \in Lengths /\ a \in Ads /\ IsDown(x, a, n, w)
      BY DEF DeclinesAreDated
    <2> HIDE DEF n, w
    <2>2. PICK b \in Seen(a, n) :
              /\ x.baseline = {b} /\ w \in Seen(a, n) /\ Ctr(a, b).n # 0
              /\ Leq(ChangeOf(Ctr(a, w), Ctr(a, b)), Dec(-DeclinePct))
              /\ x.started = {} => ~ FellAsShown(a, n, w, b)
      BY <2>1 DEF IsDown
    <2>3. b = base
      BY <2>2
    <2>4. Fell(a, w, base) /\ (x.started = {} => ~ FellFurther(a, w, base))
      BY <2>1, <2>2, <2>3, ShownIsSo
    <2>5. QED BY <2>4 DEF w
  <1>2. QED
    BY <1>1, DeclineIsDated, InvariantHolds, PTL

(* The two together, for any ads and deliveries: a decline that is         *)
(* reported is one, is still going since its date, and lacks a date only   *)
(* where it is exactly at the threshold (fatigue.py:242-263).              *)
THEOREM DeclineGoesOn ==
    ASSUME 1 \notin ReachLengths, ~ OldExports, PowersOfTen, Precision >= 2
    PROVE  Spec /\ []EnoughDigits => []DeclineIsOngoing
  BY DatedDeclineGoesOn, DeclineHasADateBelow, PTL DEF DeclineIsOngoing
=============================================================================
