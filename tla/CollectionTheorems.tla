------------------------- MODULE CollectionTheorems -------------------------
(* Facts about the two recursive operators the models are built from: the     *)
(* deletion from a sequence and the sum over a finite set.  Each is shown by  *)
(* a minimal counterexample: the place in the sequence, or the subset, where  *)
(* the recursion would first go wrong.                                        *)
EXTENDS Subsequences, Integers, FiniteSets, FiniteSetsExt, FiniteSetTheorems,
        WellFoundedInduction, TLAPS

\* A nonempty set of naturals has a least element.
LEMMA LeastNatural ==
  ASSUME NEW T \in SUBSET Nat, T # {}
  PROVE  \E n \in T : \A m \in T : n <= m
<1>1. PICK n \in T : \A m \in T : ~(<<m, n>> \in OpToRel(<, Nat))
  BY NatLessThanWellFounded, WFMin, Zenon
<1>2. \A m \in T : m < n => <<m, n>> \in OpToRel(<, Nat)
  BY DEF OpToRel
<1>3. \A m \in T : ~(m < n)
  BY <1>1, <1>2, Zenon
<1> QED
  BY <1>3

\* A nonempty collection of subsets of a finite set has a minimal one.
LEMMA MinimalSubset ==
  ASSUME NEW S, IsFiniteSet(S), NEW T \in SUBSET (SUBSET S), T # {}
  PROVE  \E x \in T : \A y \in T : y \subseteq x => y = x
<1>1. T \subseteq FiniteSubsetsOf(S)
  BY FS_Subset DEF FiniteSubsetsOf
<1>2. PICK x \in T : \A y \in T : ~(<<y, x>> \in StrictSubsetOrdering(S))
  BY <1>1, FS_StrictSubsetOrderingWellFounded, WFMin, Zenon
<1>3. \A y \in T : y \subseteq x /\ y # x => <<y, x>> \in StrictSubsetOrdering(S)
  BY DEF StrictSubsetOrdering
<1>4. \A y \in T : y \subseteq x => y = x
  BY <1>2, <1>3
<1> QED
  BY <1>4

-----------------------------------------------------------------------------
(* Deletion from a sequence.                                                 *)

\* No entry is listed twice.
Distinct(seq) == \A i, j \in 1..Len(seq) : seq[i] = seq[j] => i = j

\* The recursion of Dropping, up to place n.
Keeps(g, seq, S, n) ==
  g = [i \in 0..n |-> IF i = 0 THEN <<>>
                      ELSE IF seq[i] \in S THEN g[i - 1] ELSE Append(g[i - 1], seq[i])]
Kept(seq, S) == CHOOSE g : Keeps(g, seq, S, Len(seq))

\* Dropping is the last value of that recursion.
LEMMA DroppingIsKept == ASSUME NEW seq, NEW S PROVE Dropping(seq, S) = Kept(seq, S)[Len(seq)]
BY Zenon DEF Dropping, Kept, Keeps

\* The recursion has a solution.
LEMMA KeptExists ==
  ASSUME NEW seq, NEW S, NEW n \in Nat
  PROVE  \E g : Keeps(g, seq, S, n)
<1> DEFINE Bad == {k \in Nat : ~\E g : Keeps(g, seq, S, k)}
<1> SUFFICES ASSUME Bad # {} PROVE FALSE
  OBVIOUS
<1>1. PICK k \in Bad : \A m \in Bad : k <= m
  BY LeastNatural
<1>2. k # 0
  <2> DEFINE g == [i \in 0..0 |-> <<>>]
  <2>1. Keeps(g, seq, S, 0)
    BY DEF Keeps
  <2> QED
    BY <2>1
<1>3. PICK g : Keeps(g, seq, S, k - 1)
  BY <1>1, <1>2
<1> DEFINE h == [i \in 0..k |-> IF i < k THEN g[i]
                                ELSE IF seq[k] \in S THEN g[k - 1] ELSE Append(g[k - 1], seq[k])]
<1>4. Keeps(h, seq, S, k)
  <2>1. /\ \A i \in 0..(k - 1) : h[i] = g[i]
        /\ h[k] = IF seq[k] \in S THEN g[k - 1] ELSE Append(g[k - 1], seq[k])
        /\ h = [i \in 0..k |-> h[i]]
    OBVIOUS
  <2>2. \A i \in 0..(k - 1) : g[i] = IF i = 0 THEN <<>> ELSE IF seq[i] \in S THEN g[i - 1]
                                     ELSE Append(g[i - 1], seq[i])
    BY <1>3 DEF Keeps
  <2> HIDE DEF h
  <2>3. ASSUME NEW i \in 0..k
        PROVE  h[i] = IF i = 0 THEN <<>> ELSE IF seq[i] \in S THEN h[i - 1]
                      ELSE Append(h[i - 1], seq[i])
    <3>1. CASE i = k
      BY <1>2, <2>1, <3>1
    <3>2. CASE i # k
      <4>1. i \in 0..(k - 1) /\ (i # 0 => i - 1 \in 0..(k - 1))
        BY <3>2
      <4>2. h[i] = g[i] /\ (i # 0 => h[i - 1] = g[i - 1])
        BY <2>1, <4>1, Zenon
      <4> QED
        BY <4>1, <4>2, <2>2, Zenon
    <3> QED
      BY <3>1, <3>2
  <2> QED
    BY <2>1, <2>3, Zenon DEF Keeps
<1> QED
  BY <1>4
\* Kept solves it.
LEMMA KeptStep ==
  ASSUME NEW seq, Len(seq) \in Nat, NEW S, NEW i \in 0..Len(seq)
  PROVE  Kept(seq, S)[i] = IF i = 0 THEN <<>> ELSE IF seq[i] \in S THEN Kept(seq, S)[i - 1]
                           ELSE Append(Kept(seq, S)[i - 1], seq[i])
<1>1. Keeps(Kept(seq, S), seq, S, Len(seq))
  BY KeptExists, Zenon DEF Kept
<1> QED
  BY <1>1, Zenon DEF Keeps

\* What is left of the first n entries: a sequence of those not in S.
LEMMA KeptEntries ==
  ASSUME NEW H, NEW seq \in Seq(H), NEW S, NEW n \in 0..Len(seq)
  PROVE  LET k == Kept(seq, S)[n]
         IN /\ k \in Seq(H) /\ Len(k) <= n
            /\ Entries(k) = {seq[i] : i \in 1..n} \ S
            /\ Distinct(seq) => Distinct(k)
<1> DEFINE K(m) == Kept(seq, S)[m]
           Good(m) == /\ K(m) \in Seq(H) /\ Len(K(m)) <= m
                      /\ Entries(K(m)) = {seq[i] : i \in 1..m} \ S
                      /\ Distinct(seq) => Distinct(K(m))
           Bad == {m \in 0..Len(seq) : ~Good(m)}
<1> SUFFICES ASSUME Bad # {} PROVE FALSE
  BY Zenon
<1>1. PICK m \in Bad : \A i \in Bad : m <= i
  <2>1. Bad \in SUBSET Nat
    OBVIOUS
  <2> HIDE DEF Bad
  <2> QED
    BY <2>1, LeastNatural
<1>2. m # 0
  <2>1. K(0) = <<>>
    BY KeptStep
  <2>2. Len(<<>>) = 0 /\ <<>> \in Seq(H) /\ 1..0 = {}
    OBVIOUS
  <2>3. Entries(<<>>) = {} /\ Distinct(<<>>)
    BY <2>2 DEF Entries, Distinct
  <2>4. Good(0)
    <3>1. {seq[i] : i \in 1..0} \ S = {}
      BY <2>2
    <3>2. Len(<<>>) <= 0
      OBVIOUS
    <3> HIDE DEF K
    <3> QED
      BY <2>1, <2>2, <2>3, <3>1, <3>2, Zenon
  <2> QED
    BY <2>4, Zenon
<1>3. Good(m - 1) /\ m - 1 \in 0..Len(seq) /\ seq[m] \in H
  <2>1. m - 1 \in 0..Len(seq) /\ ~(m <= m - 1) /\ m \in 1..Len(seq)
    BY <1>2
  <2>2. m - 1 \notin Bad
    <3> HIDE DEF Bad
    <3> QED
      BY <1>1, <2>1, Zenon
  <2> HIDE DEF Good
  <2> QED
    BY <2>1, <2>2
<1>4. K(m) = IF seq[m] \in S THEN K(m - 1) ELSE Append(K(m - 1), seq[m])
  BY <1>2, KeptStep
<1> HIDE DEF K
<1>5. CASE seq[m] \in S
  <2>1. Entries(K(m)) = {seq[i] : i \in 1..m} \ S
    BY <1>2, <1>3, <1>4, <1>5
  <2> QED
    BY <1>2, <1>3, <1>4, <1>5, <2>1
<1>6. CASE seq[m] \notin S
  <2>1. /\ K(m) = Append(K(m - 1), seq[m]) /\ K(m) \in Seq(H) /\ Len(K(m)) = Len(K(m - 1)) + 1
        /\ \A i \in 1..Len(K(m - 1)) : K(m)[i] = K(m - 1)[i]
        /\ K(m)[Len(K(m))] = seq[m]
    BY <1>3, <1>4, <1>6
  <2>2. Entries(K(m)) = Entries(K(m - 1)) \cup {seq[m]}
    BY <2>1, <1>3 DEF Entries
  <2>3. Entries(K(m)) = {seq[i] : i \in 1..m} \ S
    BY <2>2, <1>2, <1>3, <1>6
  <2>4. ASSUME Distinct(seq) PROVE Distinct(K(m))
    <3>1. seq[m] \notin Entries(K(m - 1))
      BY <1>2, <1>3, <2>4 DEF Distinct
    <3> QED
      BY <3>1, <2>1, <2>4, <1>3 DEF Distinct, Entries
  <2>5. Len(K(m)) <= m
    BY <2>1, <1>2, <1>3
  <2> QED
    BY <2>1, <2>3, <2>4, <2>5, Zenon
<1> QED
  BY <1>5, <1>6

\* Deletion keeps the entries that are not in S, each once if it was there once.
THEOREM DroppingEntries ==
  ASSUME NEW H, NEW seq \in Seq(H), NEW S
  PROVE  /\ Dropping(seq, S) \in Seq(H) /\ Len(Dropping(seq, S)) <= Len(seq)
         /\ Entries(Dropping(seq, S)) = Entries(seq) \ S
         /\ Distinct(seq) => Distinct(Dropping(seq, S))
<1>1. Len(seq) \in 0..Len(seq)
  OBVIOUS
<1> DEFINE k == Kept(seq, S)[Len(seq)]
<1>2. /\ k \in Seq(H) /\ Len(k) <= Len(seq)
      /\ Entries(k) = {seq[i] : i \in 1..Len(seq)} \ S
      /\ Distinct(seq) => Distinct(k)
  BY <1>1, KeptEntries, Zenon
<1>3. Dropping(seq, S) = k
  BY DroppingIsKept, Zenon
<1>4. Entries(seq) = {seq[i] : i \in 1..Len(seq)}
  BY DEF Entries
<1> QED
  BY <1>2, <1>3, <1>4, Zenon

\* A sequence without repetitions is as long as it has entries.
LEMMA DistinctLength ==
  ASSUME NEW H, NEW seq \in Seq(H)
  PROVE  /\ IsFiniteSet(Entries(seq)) /\ Cardinality(Entries(seq)) \in Nat
         /\ Distinct(seq) => Cardinality(Entries(seq)) = Len(seq)
<1> DEFINE f == [i \in 1..Len(seq) |-> seq[i]]
<1>1. IsFiniteSet(1..Len(seq)) /\ Cardinality(1..Len(seq)) = Len(seq)
  <2>1. Len(seq) \in Nat /\ 1 \in Int /\ Len(seq) \in Int
    OBVIOUS
  <2>2. /\ IsFiniteSet(1..Len(seq))
        /\ Cardinality(1..Len(seq)) = IF 1 > Len(seq) THEN 0 ELSE Len(seq) - 1 + 1
    BY <2>1, FS_Interval, Zenon
  <2> QED
    BY <2>1, <2>2
<1>2. f \in Surjection(1..Len(seq), Entries(seq))
  BY DEF Entries, Surjection
<1>3. IsFiniteSet(Entries(seq))
  BY <1>1, <1>2, FS_Surjection
<1>4. Cardinality(Entries(seq)) \in Nat
  BY <1>3, FS_CardinalityType
<1>5. Distinct(seq) => f \in Injection(1..Len(seq), Entries(seq))
  BY DEF Distinct, Entries, Injection, IsInjective
<1> QED
  BY <1>1, <1>2, <1>3, <1>4, <1>5, FS_Surjection
-----------------------------------------------------------------------------
(* The sum of a function over a finite set.                                  *)

\* The recursion of MapThenSumSet, on the subsets of S.
Pick(s) == CHOOSE x \in s : TRUE
Sums(g, f, S) ==
  g = [s \in SUBSET S |-> IF s = {} THEN 0 ELSE f[Pick(s)] + g[s \ {Pick(s)}]]
SumTable(f, S) == CHOOSE g : Sums(g, f, S)
Total(f, S) == SumTable(f, S)[S]

\* MapThenSumSet over a function is that sum.
LEMMA SumIsTotal ==
  ASSUME NEW f, NEW S
  PROVE  MapThenSumSet(LAMBDA x : f[x], S) = Total(f, S)
BY Zenon DEF MapThenSumSet, MapThenFoldSet, Total, SumTable, Sums, Pick

\* The element the recursion takes out leaves a smaller set.
LEMMA PickShrinks ==
  ASSUME NEW s, s # {}
  PROVE  /\ Pick(s) \in s /\ s \ {Pick(s)} \subseteq s /\ s \ {Pick(s)} # s
<1>1. Pick(s) \in s
  BY DEF Pick
<1> QED
  BY <1>1

\* One step of a table of sums.
LEMMA SumsStep ==
  ASSUME NEW g, NEW f, NEW S, Sums(g, f, S), NEW s \in SUBSET S
  PROVE  g[s] = IF s = {} THEN 0 ELSE f[Pick(s)] + g[s \ {Pick(s)}]
BY Zenon DEF Sums

\* Two tables agree on the sets both know.
LEMMA SumsUnique ==
  ASSUME NEW f, NEW S, IsFiniteSet(S), NEW T, NEW g, NEW h, Sums(g, f, S), Sums(h, f, T),
         NEW s \in (SUBSET S) \cap (SUBSET T)
  PROVE  g[s] = h[s]
<1> DEFINE Bad == {u \in (SUBSET S) \cap (SUBSET T) : g[u] # h[u]}
<1> SUFFICES ASSUME Bad # {} PROVE FALSE
  OBVIOUS
<1>1. PICK u \in Bad : \A v \in Bad : v \subseteq u => v = u
  <2>1. Bad \in SUBSET (SUBSET S)
    OBVIOUS
  <2> HIDE DEF Bad
  <2> QED
    BY <2>1, MinimalSubset
<1>2. u \in SUBSET S /\ u \in SUBSET T /\ g[u] # h[u]
  BY <1>1
<1>3. /\ g[u] = IF u = {} THEN 0 ELSE f[Pick(u)] + g[u \ {Pick(u)}]
      /\ h[u] = IF u = {} THEN 0 ELSE f[Pick(u)] + h[u \ {Pick(u)}]
  <2> HIDE DEF Bad
  <2>1. g[u] = IF u = {} THEN 0 ELSE f[Pick(u)] + g[u \ {Pick(u)}]
    BY ONLY <1>2, Sums(g, f, S), SumsStep, SMTT(30)
  <2>2. h[u] = IF u = {} THEN 0 ELSE f[Pick(u)] + h[u \ {Pick(u)}]
    BY ONLY <1>2, Sums(h, f, T), SumsStep, SMTT(30)
  <2> QED
    BY ONLY <2>1, <2>2
<1>4. u # {}
  BY Zenon, <1>2, <1>3
<1>5. Pick(u) \in u /\ u \ {Pick(u)} \subseteq u /\ u \ {Pick(u)} # u
  BY <1>4, PickShrinks
<1>6. g[u \ {Pick(u)}] = h[u \ {Pick(u)}]
  BY <1>1, <1>2, <1>5
<1>7. g[u] = f[Pick(u)] + g[u \ {Pick(u)}] /\ h[u] = f[Pick(u)] + h[u \ {Pick(u)}]
  BY Zenon, <1>4, <1>3
<1> QED
  BY Zenon, <1>2, <1>6, <1>7

\* Every finite set has a table.
LEMMA SumsExists ==
  ASSUME NEW f, NEW S, IsFiniteSet(S)
  PROVE  \E g : Sums(g, f, S)
<1> DEFINE Bad == {u \in SUBSET S : ~\E g : Sums(g, f, u)}
<1> SUFFICES ASSUME Bad # {} PROVE FALSE
  OBVIOUS
<1>1. PICK T \in Bad : \A v \in Bad : v \subseteq T => v = T
  <2>1. Bad \in SUBSET (SUBSET S)
    OBVIOUS
  <2> HIDE DEF Bad
  <2> QED
    BY <2>1, MinimalSubset
<1>2. T \in SUBSET S /\ ~\E g : Sums(g, f, T)
  BY <1>1
<1>3. ASSUME NEW u \in SUBSET T, u # T PROVE Sums(SumTable(f, u), f, u) /\ IsFiniteSet(u)
  <2>1. \E g : Sums(g, f, u)
    BY <1>1, <1>2, <1>3
  <2>2. IsFiniteSet(u)
    BY <1>2, FS_Subset
  <2> QED
    BY <2>1, <2>2, Zenon DEF SumTable
<1> DEFINE h == [s \in SUBSET T |-> IF s = {} THEN 0
                                    ELSE f[Pick(s)] + Total(f, s \ {Pick(s)})]
<1>4. ASSUME NEW u \in SUBSET T, u # T PROVE h[u] = Total(f, u)
  <2>1. Sums(SumTable(f, u), f, u)
    BY <1>3, <1>4
  <2>2. CASE u = {}
    BY <2>1, <2>2, SumsStep DEF Total
  <2>3. CASE u # {}
    <3> DEFINE v == u \ {Pick(u)}
    <3>1. v \subseteq u /\ v # u /\ v \in SUBSET T /\ v # T
      BY <2>3, PickShrinks
    <3>2. Sums(SumTable(f, v), f, v) /\ IsFiniteSet(v)
      BY <1>3, <3>1
    <3>3. SumTable(f, u)[v] = Total(f, v)
      <4>1. v \in (SUBSET v) \cap (SUBSET u)
        BY <3>1
      <4> HIDE DEF v
      <4> QED
        BY <2>1, <3>2, <4>1, SumsUnique DEF Total
    <3>4. Total(f, u) = f[Pick(u)] + SumTable(f, u)[v]
      BY <2>1, <2>3, SumsStep DEF Total
    <3> QED
      BY <2>3, <3>3, <3>4
  <2> QED
    BY <2>2, <2>3
<1>5. Sums(h, f, T)
  <2>1. ASSUME NEW s \in SUBSET T
        PROVE  h[s] = IF s = {} THEN 0 ELSE f[Pick(s)] + h[s \ {Pick(s)}]
    <3>1. CASE s = {}
      BY <3>1
    <3>2. CASE s # {}
      <4>1. s \ {Pick(s)} \in SUBSET T /\ s \ {Pick(s)} # T
        BY <3>2, PickShrinks
      <4> QED
        BY <3>2, <4>1, <1>4
    <3> QED
      BY <3>1, <3>2
  <2>2. h = [s \in SUBSET T |-> h[s]]
    OBVIOUS
  <2> HIDE DEF h
  <2> QED
    BY <2>1, <2>2, Zenon DEF Sums
<1> QED
  BY <1>2, <1>5

\* The sum over a finite set: nothing over the empty one, and otherwise the
\* picked element's value and the rest.
LEMMA TotalStep ==
  ASSUME NEW f, NEW S, IsFiniteSet(S)
  PROVE  Total(f, S) = IF S = {} THEN 0 ELSE f[Pick(S)] + Total(f, S \ {Pick(S)})
<1>1. Sums(SumTable(f, S), f, S)
  BY SumsExists, Zenon DEF SumTable
<1>2. CASE S = {}
  BY <1>1, <1>2, SumsStep DEF Total
<1>3. CASE S # {}
  <2> DEFINE v == S \ {Pick(S)}
  <2>1. v \subseteq S /\ IsFiniteSet(v)
    BY <1>3, FS_Subset
  <2>2. Sums(SumTable(f, v), f, v)
    BY <2>1, SumsExists, Zenon DEF SumTable
  <2>3. SumTable(f, S)[v] = Total(f, v)
    <3>1. v \in (SUBSET v) \cap (SUBSET S)
      BY <2>1
    <3> HIDE DEF v
    <3> QED
      BY <1>1, <2>1, <2>2, <3>1, SumsUnique DEF Total
  <2>4. Total(f, S) = f[Pick(S)] + SumTable(f, S)[v]
    BY <1>1, <1>3, SumsStep DEF Total
  <2> QED
    BY <1>3, <2>3, <2>4
<1> QED
  BY <1>2, <1>3
\* Natural values have a natural sum.
THEOREM TotalType ==
  ASSUME NEW f, NEW S, IsFiniteSet(S), \A x \in S : f[x] \in Nat
  PROVE  Total(f, S) \in Nat
<1> DEFINE Bad == {u \in SUBSET S : Total(f, u) \notin Nat}
<1> SUFFICES ASSUME Bad # {} PROVE FALSE
  OBVIOUS
<1>1. PICK u \in Bad : \A v \in Bad : v \subseteq u => v = u
  <2>1. Bad \in SUBSET (SUBSET S)
    OBVIOUS
  <2> HIDE DEF Bad
  <2> QED
    BY <2>1, MinimalSubset
<1>2. IsFiniteSet(u)
  BY FS_Subset
<1>3. u # {}
  <2>1. u = {} => Total(f, u) = 0
    BY <1>2, TotalStep
  <2> QED
    BY <1>1, <2>1
<1>4. Pick(u) \in u /\ u \ {Pick(u)} \subseteq u /\ u \ {Pick(u)} # u
  BY <1>3, PickShrinks
<1>5. Total(f, u \ {Pick(u)}) \in Nat
  BY <1>1, <1>4
<1>6. Total(f, u) = f[Pick(u)] + Total(f, u \ {Pick(u)}) /\ f[Pick(u)] \in Nat
  BY <1>2, <1>3, <1>4, TotalStep
<1> QED
  BY <1>5, <1>6

\* Any element may be taken out first: the order of the recursion is irrelevant.
THEOREM TotalRemove ==
  ASSUME NEW f, NEW S, IsFiniteSet(S), \A x \in S : f[x] \in Nat, NEW x \in S
  PROVE  Total(f, S) = f[x] + Total(f, S \ {x})
<1> DEFINE Bad == {u \in SUBSET S : \E y \in u : Total(f, u) # f[y] + Total(f, u \ {y})}
<1> SUFFICES ASSUME Bad # {} PROVE FALSE
  OBVIOUS
<1>1. PICK u \in Bad : \A v \in Bad : v \subseteq u => v = u
  <2>1. Bad \in SUBSET (SUBSET S)
    OBVIOUS
  <2> HIDE DEF Bad
  <2> QED
    BY <2>1, MinimalSubset
<1>2. PICK y \in u : Total(f, u) # f[y] + Total(f, u \ {y})
  BY <1>1
<1> DEFINE p == Pick(u)
           a == u \ {p}
           b == u \ {y}
           c == u \ {p, y}
<1>3. p \in u /\ a # u /\ a \subseteq u /\ b # u /\ b \subseteq u /\ c \subseteq u
  BY <1>2, PickShrinks
<1>4. IsFiniteSet(u) /\ IsFiniteSet(a) /\ IsFiniteSet(b) /\ IsFiniteSet(c)
  BY <1>3, FS_Subset
<1>5. /\ Total(f, u) \in Nat /\ Total(f, a) \in Nat /\ Total(f, b) \in Nat /\ Total(f, c) \in Nat
      /\ f[p] \in Nat /\ f[y] \in Nat
  BY <1>3, <1>4, TotalType
<1>6. Total(f, u) = f[p] + Total(f, a)
  BY <1>3, <1>4, TotalStep
<1>7. p # y
  BY <1>2, <1>6
<1>8. Total(f, a) = f[y] + Total(f, c)
  <2>1. a \notin Bad /\ y \in a /\ a \in SUBSET S /\ a \ {y} = c
    BY <1>1, <1>3, <1>7
  <2> QED
    BY <2>1
<1>9. Total(f, b) = f[p] + Total(f, c)
  <2>1. b \notin Bad /\ p \in b /\ b \in SUBSET S /\ b \ {p} = c
    BY <1>1, <1>3, <1>7
  <2> QED
    BY <2>1
<1> HIDE DEF a, b, c, p
<1>10. Total(f, u) = f[y] + Total(f, b)
  BY <1>5, <1>6, <1>8, <1>9
<1> QED
  BY <1>2, <1>10 DEF b

\* The sum over what is left when U is taken out.
THEOREM TotalMinus ==
  ASSUME NEW f, NEW S, IsFiniteSet(S), \A x \in S : f[x] \in Nat, NEW U \in SUBSET S
  PROVE  /\ Total(f, S \ U) = Total(f, S) - Total(f, U)
         /\ Total(f, S) \in Nat /\ Total(f, U) \in Nat /\ Total(f, U) <= Total(f, S)
<1> DEFINE Bad == {v \in SUBSET S : Total(f, S) # Total(f, S \ v) + Total(f, v)}
<1>1. ASSUME NEW v \in SUBSET S PROVE IsFiniteSet(v) /\ Total(f, v) \in Nat
  BY FS_Subset, TotalType
<1>2. ASSUME Bad # {} PROVE FALSE
  <2>1. PICK v \in Bad : \A w \in Bad : w \subseteq v => w = v
    <3>1. Bad \in SUBSET (SUBSET S)
      OBVIOUS
    <3> HIDE DEF Bad
    <3> QED
      BY <1>2, <3>1, MinimalSubset
  <2>2. v # {}
    <3>1. Total(f, {}) = 0
      BY FS_EmptySet, TotalStep
    <3>2. Total(f, S) \in Nat /\ S \ {} = S
      BY <1>1
    <3> QED
      BY <3>1, <3>2
  <2>3. PICK x \in v : TRUE
    BY <2>2
  <2>4. Total(f, v) = f[x] + Total(f, v \ {x})
    BY <1>1, TotalRemove
  <2>5. Total(f, S \ (v \ {x})) = f[x] + Total(f, S \ v)
    <3>1. x \in S \ (v \ {x}) /\ (S \ (v \ {x})) \ {x} = S \ v /\ S \ (v \ {x}) \in SUBSET S
      OBVIOUS
    <3>2. IsFiniteSet(S \ (v \ {x}))
      BY <1>1, <3>1
    <3> QED
      BY <3>1, <3>2, TotalRemove
  <2>6. Total(f, S) = Total(f, S \ (v \ {x})) + Total(f, v \ {x})
    BY <2>1
  <2>7. /\ Total(f, S \ v) \in Nat /\ Total(f, v) \in Nat /\ Total(f, v \ {x}) \in Nat
        /\ f[x] \in Nat
    BY <1>1
  <2>8. Total(f, S) # Total(f, S \ v) + Total(f, v)
    BY <2>1
  <2> QED
    BY <2>4, <2>5, <2>6, <2>7, <2>8
<1>3. Total(f, S) = Total(f, S \ U) + Total(f, U)
  BY <1>2
<1>4. Total(f, S) \in Nat /\ Total(f, S \ U) \in Nat /\ Total(f, U) \in Nat
  BY <1>1
<1> QED
  BY <1>3, <1>4

\* One more element adds its value.
THEOREM TotalAdd ==
  ASSUME NEW f, NEW S, IsFiniteSet(S), \A x \in S : f[x] \in Nat, NEW y, y \notin S, f[y] \in Nat
  PROVE  Total(f, S \cup {y}) = Total(f, S) + f[y]
<1>1. IsFiniteSet(S \cup {y}) /\ (S \cup {y}) \ {y} = S
  BY FS_AddElement
<1>2. Total(f, S \cup {y}) = f[y] + Total(f, S) /\ Total(f, S) \in Nat
  BY <1>1, TotalRemove, TotalType
<1> QED
  BY <1>2

\* The sum depends only on the values at the elements.
THEOREM TotalAgree ==
  ASSUME NEW f, NEW g, NEW S, IsFiniteSet(S), \A x \in S : f[x] = g[x]
  PROVE  Total(f, S) = Total(g, S)
<1> DEFINE Bad == {u \in SUBSET S : Total(f, u) # Total(g, u)}
<1> SUFFICES ASSUME Bad # {} PROVE FALSE
  OBVIOUS
<1>1. PICK u \in Bad : \A v \in Bad : v \subseteq u => v = u
  <2>1. Bad \in SUBSET (SUBSET S)
    OBVIOUS
  <2> HIDE DEF Bad
  <2> QED
    BY <2>1, MinimalSubset
<1>2. IsFiniteSet(u)
  BY FS_Subset
<1>3. u # {}
  BY <1>2, TotalStep
<1>4. Pick(u) \in u /\ u \ {Pick(u)} \subseteq u /\ u \ {Pick(u)} # u
  BY <1>3, PickShrinks
<1>5. Total(f, u \ {Pick(u)}) = Total(g, u \ {Pick(u)})
  BY <1>1, <1>4
<1>6. /\ Total(f, u) = f[Pick(u)] + Total(f, u \ {Pick(u)}) /\ f[Pick(u)] = g[Pick(u)]
      /\ Total(g, u) = g[Pick(u)] + Total(g, u \ {Pick(u)})
  BY <1>2, <1>3, <1>4, TotalStep
<1> QED
  BY <1>1, <1>5, <1>6

\* Changing one value changes the sum by the difference.
THEOREM TotalExcept ==
  ASSUME NEW f, NEW S, f \in [S -> Nat], IsFiniteSet(S), NEW x \in S, NEW n \in Nat
  PROVE  /\ Total([f EXCEPT ![x] = n], S) = Total(f, S) - f[x] + n
         /\ f[x] <= Total(f, S)
<1> DEFINE g == [f EXCEPT ![x] = n]
           R == S \ {x}
<1>1. IsFiniteSet(R)
  BY FS_Subset
<1>2. Total(f, S) = f[x] + Total(f, R) /\ Total(f, R) \in Nat /\ f[x] \in Nat
  BY <1>1, TotalRemove, TotalType
<1>3. Total(g, S) = n + Total(g, R)
  <2>1. g[x] = n /\ \A y \in S : g[y] \in Nat
    OBVIOUS
  <2> HIDE DEF g
  <2> QED
    BY <2>1, TotalRemove
<1>4. Total(f, R) = Total(g, R)
  <2>1. \A y \in R : f[y] = g[y]
    OBVIOUS
  <2> HIDE DEF g, R
  <2> QED
    BY <1>1, <2>1, TotalAgree
<1> HIDE DEF g
<1>5. Total(g, S) = Total(f, S) - f[x] + n /\ f[x] <= Total(f, S)
  BY <1>2, <1>3, <1>4
<1> QED
  BY <1>5 DEF g


\* Zeros sum to zero.
THEOREM TotalZero ==
  ASSUME NEW f, NEW S, IsFiniteSet(S), \A x \in S : f[x] = 0
  PROVE  Total(f, S) = 0
<1> DEFINE Bad == {u \in SUBSET S : Total(f, u) # 0}
<1> SUFFICES ASSUME Bad # {} PROVE FALSE
  OBVIOUS
<1>1. PICK u \in Bad : \A v \in Bad : v \subseteq u => v = u
  <2>1. Bad \in SUBSET (SUBSET S)
    OBVIOUS
  <2> HIDE DEF Bad
  <2> QED
    BY <2>1, MinimalSubset
<1>2. IsFiniteSet(u)
  BY FS_Subset
<1>3. u # {}
  <2>1. u = {} => Total(f, u) = 0
    BY <1>2, TotalStep
  <2> QED
    BY <1>1, <2>1
<1>4. Pick(u) \in u /\ u \ {Pick(u)} \subseteq u /\ u \ {Pick(u)} # u
  BY <1>3, PickShrinks
<1>5. Total(f, u \ {Pick(u)}) = 0
  BY <1>1, <1>4
<1>6. Total(f, u) = f[Pick(u)] + Total(f, u \ {Pick(u)}) /\ f[Pick(u)] = 0
  BY <1>2, <1>3, <1>4, TotalStep
<1> QED
  BY <1>1, <1>5, <1>6


\* A new last entry.
LEMMA AppendEntries ==
  ASSUME NEW H, NEW seq \in Seq(H), NEW x \in H
  PROVE  /\ Append(seq, x) \in Seq(H) /\ Entries(Append(seq, x)) = Entries(seq) \cup {x}
         /\ Distinct(seq) /\ x \notin Entries(seq) => Distinct(Append(seq, x))
<1> DEFINE a == Append(seq, x)
           n == Len(seq)
<1>1. /\ a \in Seq(H) /\ Len(a) = n + 1 /\ n \in Nat /\ a[n + 1] = x
      /\ \A i \in 1..n : a[i] = seq[i]
  OBVIOUS
<1> HIDE DEF a, n
<1>2. Entries(a) = Entries(seq) \cup {x}
  <2>1. 1..(n + 1) = (1..n) \cup {n + 1}
    BY <1>1
  <2> QED
    BY <1>1, <2>1 DEF Entries, n
<1>3. Distinct(seq) /\ x \notin Entries(seq) => Distinct(a)
  BY <1>1 DEF Distinct, Entries, n
<1> QED
  BY <1>1, <1>2, <1>3 DEF a

\* The rest after the first entry.
LEMMA TailEntries ==
  ASSUME NEW H, NEW seq \in Seq(H), seq # <<>>
  PROVE  /\ Tail(seq) \in Seq(H) /\ Head(seq) \in Entries(seq) /\ Head(seq) \in H
         /\ Entries(Tail(seq)) \subseteq Entries(seq)
         /\ Distinct(seq) => /\ Distinct(Tail(seq))
                             /\ Entries(Tail(seq)) = Entries(seq) \ {Head(seq)}
<1> DEFINE t == Tail(seq)
           n == Len(seq)
<1>1. /\ n \in Nat /\ n >= 1 /\ t \in Seq(H) /\ Len(t) = n - 1 /\ Head(seq) = seq[1]
      /\ \A i \in 1..(n - 1) : t[i] = seq[i + 1] /\ i + 1 \in 1..n
      /\ \A i \in 1..n : seq[i] \in H
  OBVIOUS
<1> HIDE DEF t, n
<1>2. Head(seq) \in Entries(seq) /\ Entries(t) \subseteq Entries(seq)
  BY <1>1 DEF Entries, n
<1>3. ASSUME Distinct(seq) PROVE Distinct(t) /\ Entries(t) = Entries(seq) \ {Head(seq)}
  <2>1. Distinct(t)
    BY <1>1, <1>3 DEF Distinct, n
  <2>2. \A i \in 1..n : i # 1 => i - 1 \in 1..(n - 1) /\ t[i - 1] = seq[i]
    BY <1>1
  <2>3. Entries(seq) \ {Head(seq)} \subseteq Entries(t)
    <3> SUFFICES ASSUME NEW e \in Entries(seq), e # Head(seq) PROVE e \in Entries(t)
      OBVIOUS
    <3>1. PICK i \in 1..n : e = seq[i]
      BY DEF Entries, n
    <3>2. i # 1 /\ i - 1 \in 1..(n - 1) /\ t[i - 1] = e
      BY <1>1, <2>2, <3>1
    <3> QED
      BY <1>1, <3>2 DEF Entries
  <2>4. Head(seq) \notin Entries(t)
    BY <1>1, <1>3 DEF Entries, Distinct, n
  <2> QED
    BY <1>2, <2>1, <2>3, <2>4
<1>4. Head(seq) \in H
  BY <1>1
<1> QED
  BY <1>1, <1>2, <1>3, <1>4 DEF t
=============================================================================
