-------------------------- MODULE PrefillJobsProofs --------------------------
(* The safety properties of PrefillJobs and of the cache under it, for any    *)
(* hashes, sizes, budgets, jobs, requests and limits.  The cache part is one  *)
(* lemma per method of the store: it keeps CacheInv, and says what it does to *)
(* the bytes, the leases and the reservations.                                *)
EXTENDS PrefillJobs, CollectionTheorems

CacheStates == [max : Nat, lru : Seq(Hash), content : [Hash -> Payload \cup {None}], used : Nat,
                res : [Job -> Nat], leases : [LeaseIds -> [h : Hash \cup {None}, live : BOOLEAN]]]

\* The table, the order and the byte counter tell the same story.
Consistent(st) == /\ Distinct(st.lru) /\ Blocks(st) = {h \in Hash : st.content[h] # None}
                  /\ st.used = Bytes(Blocks(st))

\* A live lease names a block that is there.
LeasesHold(st) == \A l \in LeaseIds : st.leases[l].live =>
                     st.leases[l].h \in Hash /\ st.content[st.leases[l].h] # None

\* What is stored fits the budget; with one writer, what is reserved as well.
WithinBudget(st) == /\ st.used <= st.max
                    /\ OneWriter => st.used + Reserved(st) <= st.max

CacheInv(st) == /\ st \in CacheStates /\ Consistent(st) /\ LeasesHold(st) /\ WithinBudget(st)

-----------------------------------------------------------------------------
(* Bytes and reservations.                                                   *)

\* The two sums of the model, as sums over a function.
LEMMA BytesIsTotal == \A S : Bytes(S) = Total(Size, S)
BY Zenon DEF Bytes, MapThenSumSet, MapThenFoldSet, Total, SumTable, Sums, Pick

\* The sum over the table of reservations.
LEMMA ReservedIsTotal == \A st : Reserved(st) = Total(st.res, Job)
BY Zenon DEF Reserved, MapThenSumSet, MapThenFoldSet, Total, SumTable, Sums, Pick

\* Bytes is a measure on finite sets of hashes.
LEMMA BytesMeasure ==
  ASSUME NEW S \in SUBSET Hash, IsFiniteSet(S)
  PROVE  /\ Bytes(S) \in Nat
         /\ \A U \in SUBSET S : /\ Bytes(U) \in Nat /\ Bytes(U) <= Bytes(S)
                                /\ Bytes(S \ U) = Bytes(S) - Bytes(U)
         /\ \A h \in Hash \ S : Bytes(S \cup {h}) = Bytes(S) + Size[h]
<1>1. \A h \in Hash : Size[h] \in Nat
  BY HashAssumption
<1>2. \A h \in S : Size[h] \in Nat
  BY <1>1
<1>3. Bytes(S) \in Nat
  BY <1>2, TotalType, BytesIsTotal
<1>4. \A U \in SUBSET S : /\ Total(Size, S \ U) = Total(Size, S) - Total(Size, U)
                          /\ Total(Size, U) \in Nat /\ Total(Size, U) <= Total(Size, S)
  BY <1>2, TotalMinus
<1>5. \A h \in Hash \ S : Total(Size, S \cup {h}) = Total(Size, S) + Size[h]
  BY <1>1, <1>2, TotalAdd
<1> QED
  BY <1>3, <1>4, <1>5, BytesIsTotal

\* Every reservation is part of the total.
LEMMA ReservedFacts ==
  ASSUME NEW st \in CacheStates
  PROVE  /\ Reserved(st) \in Nat
         /\ \A j \in Job, n \in Nat : /\ st.res[j] <= Reserved(st)
                                      /\ Reserved([st EXCEPT !.res[j] = n]) = Reserved(st) - st.res[j] + n
<1>1. st.res \in [Job -> Nat]
  BY DEF CacheStates
<1>2. Reserved(st) \in Nat
  BY <1>1, TotalType, JobAssumption, ReservedIsTotal
<1>3. ASSUME NEW j \in Job, NEW n \in Nat
      PROVE  /\ st.res[j] <= Reserved(st)
             /\ Reserved([st EXCEPT !.res[j] = n]) = Reserved(st) - st.res[j] + n
  <2>1. [st EXCEPT !.res[j] = n].res = [st.res EXCEPT ![j] = n]
    BY DEF CacheStates
  <2>2. /\ Total([st.res EXCEPT ![j] = n], Job) = Total(st.res, Job) - st.res[j] + n
        /\ st.res[j] <= Total(st.res, Job)
    BY <1>1, TotalExcept, JobAssumption
  <2> QED
    BY <2>1, <2>2, ReservedIsTotal
<1> QED
  BY <1>2, <1>3

\* The blocks of a consistent store are a finite set of hashes.
LEMMA BlocksFinite ==
  ASSUME NEW st \in CacheStates
  PROVE  Blocks(st) \in SUBSET Hash /\ IsFiniteSet(Blocks(st))
<1>1. st.lru \in Seq(Hash)
  BY DEF CacheStates
<1>2. Entries(st.lru) \subseteq Hash
  BY <1>1 DEF Entries
<1> QED
  BY <1>1, <1>2, DistinctLength DEF Blocks

-----------------------------------------------------------------------------
(* The store's internals.                                                    *)

\* Dropping blocks keeps the store consistent and frees their bytes.
LEMMA DropFacts ==
  ASSUME NEW st \in CacheStates, Consistent(st), NEW S
  PROVE  /\ Drop(st, S) \in CacheStates /\ Consistent(Drop(st, S))
         /\ Drop(st, S).max = st.max /\ Drop(st, S).res = st.res /\ Drop(st, S).leases = st.leases
         /\ Blocks(Drop(st, S)) = Blocks(st) \ S
         /\ \A h \in Hash : Drop(st, S).content[h] = IF h \in S THEN None ELSE st.content[h]
         /\ Drop(st, S).used = st.used - Bytes(Blocks(st) \cap S) /\ Drop(st, S).used <= st.used
<1> DEFINE d == Drop(st, S)
           B == Blocks(st)
           V == S \cap B
<1>1. B \in SUBSET Hash /\ IsFiniteSet(B) /\ V \in SUBSET B /\ B \ V = B \ S /\ V = B \cap S
  BY BlocksFinite
<1>2. /\ Bytes(B) \in Nat /\ Bytes(V) \in Nat /\ Bytes(V) <= Bytes(B)
      /\ Bytes(B \ V) = Bytes(B) - Bytes(V)
  <2> HIDE DEF B, V
  <2> QED
    BY <1>1, BytesMeasure
<1>3. /\ d.max = st.max /\ d.res = st.res /\ d.leases = st.leases
      /\ d.lru = Dropping(st.lru, S)
      /\ d.content = [h \in Hash |-> IF h \in S THEN None ELSE st.content[h]]
      /\ d.used = st.used - Bytes(V)
      /\ d = [max |-> d.max, lru |-> d.lru, content |-> d.content, used |-> d.used,
              res |-> d.res, leases |-> d.leases]
  <2> DEFINE b == Bytes(S \cap Blocks(st))
             q == Dropping(st.lru, S)
  <2>1. d = [st EXCEPT !.lru = q,
                       !.content = [h \in Hash |-> IF h \in S THEN None ELSE st.content[h]],
                       !.used = st.used - b]
    BY DEF Drop
  <2> HIDE DEF d, b, q
  <2>2. /\ d.max = st.max /\ d.res = st.res /\ d.leases = st.leases /\ d.lru = q
        /\ d.used = st.used - b
    BY <2>1 DEF CacheStates
  <2>3. d.content = [h \in Hash |-> IF h \in S THEN None ELSE st.content[h]]
    BY <2>1 DEF CacheStates
  <2>4. d = [max |-> d.max, lru |-> d.lru, content |-> d.content, used |-> d.used,
             res |-> d.res, leases |-> d.leases]
    BY <2>1 DEF CacheStates
  <2> QED
    BY <2>2, <2>3, <2>4 DEF b, q
<1>4. /\ d.lru \in Seq(Hash) /\ Distinct(d.lru) /\ Blocks(d) = B \ S
  <2>1. st.lru \in Seq(Hash) /\ Distinct(st.lru)
    BY DEF CacheStates, Consistent
  <2> QED
    BY <2>1, <1>3, DroppingEntries DEF Blocks
<1>5. d.used \in Nat /\ d.used = Bytes(B \ S) /\ d.used <= st.used
  <2>1. st.used = Bytes(B)
    BY DEF Consistent
  <2>2. d.used = Bytes(B) - Bytes(V)
    BY <1>3, <2>1
  <2> HIDE DEF B, V, d
  <2> QED
    BY <1>1, <1>2, <2>1, <2>2
<1>6. d.content \in [Hash -> Payload \cup {None}]
  BY <1>3 DEF CacheStates
<1>7. d \in CacheStates
  <2>1. /\ st.max \in Nat /\ st.res \in [Job -> Nat]
        /\ st.leases \in [LeaseIds -> [h : Hash \cup {None}, live : BOOLEAN]]
    BY DEF CacheStates
  <2> HIDE DEF d
  <2> QED
    BY <2>1, <1>3, <1>4, <1>5, <1>6 DEF CacheStates
<1>8. Blocks(d) = {h \in Hash : d.content[h] # None}
  BY <1>3, <1>4 DEF Consistent
<1>9. Consistent(d)
  BY <1>4, <1>5, <1>8 DEF Consistent
<1>10. \A h \in Hash : d.content[h] = IF h \in S THEN None ELSE st.content[h]
  BY <1>3
<1> HIDE DEF d
<1> QED
  BY <1>1, <1>3, <1>4, <1>5, <1>7, <1>9, <1>10 DEF d

\* The number of coldest blocks to go exists, and the scan stops when the rest
\* fits or when only pinned blocks are left.
LEMMA VictimsFacts ==
  ASSUME NEW st \in CacheStates, NEW limit \in Int
  PROVE  /\ Victims(st, limit) \in SUBSET (Blocks(st) \ Pinned(st))
         /\ \/ st.used - Bytes(Victims(st, limit)) <= limit
            \/ Blocks(st) \ Victims(st, limit) \subseteq Pinned(st)
<1> DEFINE n == Len(st.lru)
           fits == {k \in 0..n : st.used - Bytes(Coldest(st, k)) <= limit}
           m == IF fits = {} THEN n ELSE Min(fits)
<1>1. n \in Nat /\ st.lru \in Seq(Hash) /\ st.used \in Nat
  BY DEF CacheStates
<1>2. Victims(st, limit) = Coldest(st, m)
  BY DEF Victims
<1>3. \A k \in 0..n : Coldest(st, k) \in SUBSET (Blocks(st) \ Pinned(st))
  BY <1>1 DEF Coldest, Blocks, Entries
<1>4. fits # {} => m \in fits /\ \A k \in fits : m <= k
  <2>1. fits \in SUBSET Nat
    BY <1>1
  <2> HIDE DEF fits
  <2>2. ASSUME fits # {} PROVE Min(fits) \in fits /\ \A k \in fits : Min(fits) <= k
    BY <2>1, <2>2, LeastNatural DEF Min
  <2> QED
    BY <2>2
<1>5. m \in 0..n
  BY <1>1, <1>4
<1>6. Coldest(st, n) = Blocks(st) \ Pinned(st)
  BY DEF Coldest, Blocks, Entries
<1>7. ASSUME fits # {} PROVE st.used - Bytes(Coldest(st, m)) <= limit
  BY <1>4, <1>7
<1>8. ASSUME fits = {} PROVE Blocks(st) \ Coldest(st, m) \subseteq Pinned(st)
  BY <1>6, <1>8
<1> HIDE DEF m, fits
<1> QED
  BY <1>2, <1>3, <1>5, <1>7, <1>8

\* Evictions free unpinned blocks only, and free enough unless pins forbid it.
LEMMA EvictFacts ==
  ASSUME NEW st \in CacheStates, Consistent(st), NEW limit \in Int
  PROVE  LET ev == Evict(st, limit) IN
         /\ ev \in CacheStates /\ Consistent(ev)
         /\ ev.max = st.max /\ ev.res = st.res /\ ev.leases = st.leases
         /\ Blocks(ev) \in SUBSET Blocks(st)
         /\ \A h \in Hash : ev.content[h] \in {None, st.content[h]}
         /\ \A h \in Hash \cap Pinned(st) : ev.content[h] = st.content[h]
         /\ ev.used <= st.used
         /\ ev.used <= limit \/ Blocks(ev) \subseteq Pinned(st)
<1> DEFINE V == Victims(st, limit)
<1>1. Evict(st, limit) = Drop(st, V)
  BY DEF Evict
<1>2. /\ V \in SUBSET (Blocks(st) \ Pinned(st))
      /\ st.used - Bytes(V) <= limit \/ Blocks(st) \ V \subseteq Pinned(st)
  BY VictimsFacts
<1> HIDE DEF V
<1>3. Blocks(st) \cap V = V
  BY <1>2
<1>4. /\ Drop(st, V) \in CacheStates /\ Consistent(Drop(st, V))
      /\ Drop(st, V).max = st.max /\ Drop(st, V).res = st.res /\ Drop(st, V).leases = st.leases
      /\ Blocks(Drop(st, V)) = Blocks(st) \ V
      /\ \A h \in Hash : Drop(st, V).content[h] = IF h \in V THEN None ELSE st.content[h]
      /\ Drop(st, V).used = st.used - Bytes(V) /\ Drop(st, V).used <= st.used
  BY <1>3, DropFacts
<1> QED
  BY <1>1, <1>2, <1>4

\* Expiring leases changes nothing else, and drops no live lease.
LEMMA ExpireFacts ==
  ASSUME NEW st, CacheInv(st)
  PROVE  LET ex == Expire(st) IN
         /\ CacheInv(ex) /\ ex.max = st.max /\ ex.res = st.res /\ ex.content = st.content
         /\ ex.used = st.used /\ ex.lru = st.lru /\ Reserved(ex) = Reserved(st)
         /\ \A l \in LeaseIds : ex.leases[l] \in {st.leases[l], NoLease}
         /\ \A h \in Hash : h \in Pinned(ex) => st.content[h] # None
<1> DEFINE ex == Expire(st)
<1>0. st \in CacheStates /\ Consistent(st) /\ LeasesHold(st) /\ WithinBudget(st)
  BY DEF CacheInv
<1>1. /\ ex.max = st.max /\ ex.res = st.res /\ ex.content = st.content
      /\ ex.used = st.used /\ ex.lru = st.lru
      /\ ex.leases = [l \in LeaseIds |-> IF st.leases[l].live THEN st.leases[l] ELSE NoLease]
  BY <1>0 DEF Expire, CacheStates
<1>2. ex \in CacheStates
  BY <1>0 DEF Expire, CacheStates, NoLease
<1> HIDE DEF ex
<1>3. Consistent(ex)
  BY <1>0, <1>1 DEF Consistent, Blocks
<1>4. Reserved(ex) = Reserved(st)
  BY <1>1, ReservedIsTotal
<1>5. LeasesHold(ex) /\ WithinBudget(ex)
  BY <1>0, <1>1, <1>4 DEF LeasesHold, WithinBudget, NoLease
<1>6. \A l \in LeaseIds : ex.leases[l] \in {st.leases[l], NoLease}
  BY <1>1
<1>7. \A h \in Hash : h \in Pinned(ex) => st.content[h] # None
  BY <1>0, <1>1, HashAssumption DEF LeasesHold, Pinned, NoLease
<1> QED
  BY <1>1, <1>2, <1>3, <1>4, <1>5, <1>6, <1>7 DEF ex, CacheInv

\* A touched block moves to the hot end.
LEMMA MoveToEndFacts ==
  ASSUME NEW st \in CacheStates, Consistent(st), NEW h \in Hash, st.content[h] # None
  PROVE  LET m == MoveToEnd(st, h) IN
         /\ m \in CacheStates /\ Consistent(m) /\ m.content = st.content /\ m.leases = st.leases
         /\ m.used = st.used /\ m.res = st.res /\ m.max = st.max
<1> DEFINE m == MoveToEnd(st, h)
           q == Dropping(st.lru, {h})
<1>1. /\ q \in Seq(Hash) /\ Entries(q) = Blocks(st) \ {h} /\ Distinct(q)
  <2>1. st.lru \in Seq(Hash) /\ Distinct(st.lru)
    BY DEF CacheStates, Consistent
  <2> QED
    BY <2>1, DroppingEntries DEF Blocks
<1> HIDE DEF q
<1>2. /\ m.lru = Append(q, h) /\ m.content = st.content /\ m.leases = st.leases
      /\ m.used = st.used /\ m.res = st.res /\ m.max = st.max
  BY DEF MoveToEnd, CacheStates, q
<1>3. m \in CacheStates
  <2> DEFINE x == Append(q, h)
  <2>1. x \in Seq(Hash)
    BY <1>1
  <2>2. m = [st EXCEPT !.lru = x]
    BY DEF MoveToEnd, q
  <2> HIDE DEF x, m
  <2> QED
    BY <2>1, <2>2 DEF CacheStates
<1> HIDE DEF m
<1>4. Entries(Append(q, h)) = Entries(q) \cup {h} /\ Distinct(Append(q, h))
  <2>1. /\ Len(q) \in Nat /\ Len(Append(q, h)) = Len(q) + 1
        /\ \A i \in 1..Len(q) : Append(q, h)[i] = q[i]
        /\ Append(q, h)[Len(q) + 1] = h
    BY <1>1
  <2> DEFINE w == Append(q, h)
  <2> HIDE DEF w
  <2>2. Entries(w) = Entries(q) \cup {h}
    BY <2>1 DEF Entries, w
  <2>3. h \notin Entries(q)
    BY <1>1
  <2>4. Distinct(w)
    BY <2>1, <2>3, <1>1 DEF Distinct, Entries, w
  <2> QED
    BY <2>2, <2>4 DEF w
<1>5. h \in Blocks(st)
  BY DEF Consistent
<1>6. Blocks(m) = Blocks(st)
  BY <1>1, <1>2, <1>4, <1>5 DEF Blocks
<1>7. Consistent(m)
  BY <1>2, <1>4, <1>6 DEF Consistent
<1> QED
  BY <1>2, <1>3, <1>7 DEF m

\* A block that does not collide is stored, and charged once.
LEMMA PutLockedFacts ==
  ASSUME NEW st \in CacheStates, Consistent(st), NEW h \in Hash, NEW p \in Payload,
         ~Collides(st, h, p)
  PROVE  LET w == PutLocked(st, h, p) IN
         /\ w \in CacheStates /\ Consistent(w) /\ w.content = [st.content EXCEPT ![h] = p]
         /\ w.leases = st.leases /\ w.res = st.res /\ w.max = st.max
         /\ w.used = st.used + (IF st.content[h] = p THEN 0 ELSE Size[h])
         /\ Blocks(w) = Blocks(st) \cup {h}
<1> DEFINE w == PutLocked(st, h, p)
<1>1. p # None /\ Size[h] \in Nat
  BY HashAssumption
<1>2. CASE st.content[h] = p
  <2> DEFINE m == MoveToEnd(st, h)
  <2>1. w = m
    BY <1>2 DEF PutLocked
  <2>2. /\ m \in CacheStates /\ Consistent(m) /\ m.content = st.content /\ m.leases = st.leases
        /\ m.used = st.used /\ m.res = st.res /\ m.max = st.max
    BY <1>1, <1>2, MoveToEndFacts
  <2>3. st.content = [st.content EXCEPT ![h] = p] /\ st.used + 0 = st.used
    BY <1>2 DEF CacheStates
  <2>4. h \in Blocks(st) /\ Blocks(m) = Blocks(st)
    BY <1>1, <1>2, <2>2 DEF Consistent
  <2> HIDE DEF m, w
  <2> QED
    BY <1>2, <2>1, <2>2, <2>3, <2>4 DEF w
<1>3. CASE st.content[h] # p
  <2>1. st.content[h] = None /\ h \notin Blocks(st)
    BY <1>3 DEF Collides, Consistent
  <2> DEFINE q == st.lru
  <2>2. q \in Seq(Hash) /\ Entries(q) = Blocks(st) /\ Distinct(q) /\ st.used \in Nat
    BY DEF CacheStates, Consistent, Blocks
  <2>3. /\ w.lru = Append(q, h) /\ w.content = [st.content EXCEPT ![h] = p]
        /\ w.leases = st.leases /\ w.res = st.res /\ w.max = st.max
        /\ w.used = st.used + Size[h]
    BY <1>3 DEF PutLocked, CacheStates
  <2>4. w \in CacheStates
    <3> DEFINE x == Append(q, h)
               u == st.used + Size[h]
               c == [st.content EXCEPT ![h] = p]
    <3>1. x \in Seq(Hash) /\ u \in Nat
      BY <1>1, <2>2
    <3>2. c \in [Hash -> Payload \cup {None}]
      BY DEF CacheStates
    <3>3. w = [st EXCEPT !.lru = x, !.content = c, !.used = u]
      BY <1>3 DEF PutLocked, CacheStates
    <3> HIDE DEF x, u, c, w
    <3> QED
      BY <3>1, <3>2, <3>3 DEF CacheStates
  <2> HIDE DEF w, q
  <2>5. Entries(Append(q, h)) = Entries(q) \cup {h} /\ Distinct(Append(q, h))
    <3>1. /\ Len(q) \in Nat /\ Len(Append(q, h)) = Len(q) + 1
          /\ \A i \in 1..Len(q) : Append(q, h)[i] = q[i]
          /\ Append(q, h)[Len(q) + 1] = h
      BY <2>2
    <3> DEFINE x == Append(q, h)
    <3> HIDE DEF x
    <3>2. Entries(x) = Entries(q) \cup {h}
      BY <3>1 DEF Entries, x
    <3>3. Distinct(x)
      BY <3>1, <2>1, <2>2 DEF Distinct, Entries, x
    <3> QED
      BY <3>2, <3>3 DEF x
  <2>6. Blocks(w) = Blocks(st) \cup {h}
    BY <2>2, <2>3, <2>5 DEF Blocks
  <2>7. w.used = Bytes(Blocks(w))
    <3>1. Bytes(Blocks(st) \cup {h}) = Bytes(Blocks(st)) + Size[h]
      BY <2>1, BlocksFinite, BytesMeasure
    <3> QED
      BY <2>3, <2>6, <3>1 DEF Consistent
  <2>8. Blocks(w) = {g \in Hash : w.content[g] # None}
    BY <1>1, <2>3, <2>6 DEF Consistent, CacheStates
  <2>9. Consistent(w)
    BY <2>3, <2>5, <2>7, <2>8 DEF Consistent
  <2> QED
    BY <1>3, <2>3, <2>4, <2>6, <2>9 DEF w
<1> QED
  BY <1>2, <1>3

\* Evictions never take a leased block.
LEMMA EvictHolds ==
  ASSUME NEW st \in CacheStates, Consistent(st), LeasesHold(st), NEW limit \in Int
  PROVE  LeasesHold(Evict(st, limit))
<1> DEFINE ev == Evict(st, limit)
<1>1. /\ ev.leases = st.leases
      /\ \A h \in Hash \cap Pinned(st) : ev.content[h] = st.content[h]
  BY EvictFacts
<1> HIDE DEF ev
<1> SUFFICES ASSUME NEW l \in LeaseIds, st.leases[l].live
             PROVE  st.leases[l].h \in Hash /\ ev.content[st.leases[l].h] # None
  BY <1>1 DEF LeasesHold, ev
<1>2. st.leases[l].h \in Hash /\ st.content[st.leases[l].h] # None
  BY DEF LeasesHold
<1>3. st.leases[l].h \in Pinned(st)
  BY <1>2, HashAssumption DEF Pinned
<1> QED
  BY <1>1, <1>2, <1>3

\* Evictions keep the store's invariant.
LEMMA EvictKeeps ==
  ASSUME NEW st, CacheInv(st), NEW limit \in Int
  PROVE  LET ev == Evict(st, limit) IN
         /\ CacheInv(ev) /\ ev.max = st.max /\ ev.res = st.res /\ ev.leases = st.leases
         /\ ev.used <= st.used /\ Reserved(ev) = Reserved(st)
<1> DEFINE ev == Evict(st, limit)
<1>1. st \in CacheStates /\ Consistent(st) /\ LeasesHold(st) /\ WithinBudget(st)
  BY DEF CacheInv
<1>2. /\ ev \in CacheStates /\ Consistent(ev) /\ ev.max = st.max /\ ev.res = st.res
      /\ ev.leases = st.leases /\ ev.used <= st.used
  BY <1>1, EvictFacts
<1>3. LeasesHold(ev)
  BY <1>1, EvictHolds
<1> HIDE DEF ev
<1>4. Reserved(ev) = Reserved(st) /\ Reserved(st) \in Nat
  BY <1>1, <1>2, ReservedIsTotal, ReservedFacts
<1>5. WithinBudget(ev)
  <2>1. ev.used \in Nat /\ st.used \in Nat /\ st.max \in Nat
    BY <1>1, <1>2 DEF CacheStates
  <2> QED
    BY <2>1, <1>1, <1>2, <1>4 DEF WithinBudget
<1> QED
  BY <1>2, <1>3, <1>4, <1>5 DEF CacheInv, ev

-----------------------------------------------------------------------------
(* The store's methods.                                                      *)

\* put stores the block, or finds every other byte pinned or reserved and lets
\* the new block go again.
LEMMA PutFacts ==
  ASSUME NEW st, CacheInv(st), NEW h \in Hash, NEW p \in Payload
  PROVE  LET w == Put(st, h, p) IN CacheInv(w) /\ w.max = st.max /\ w.res = st.res
<1> DEFINE ex == Expire(st)
           room == st.max - Reserved(st)
           w == PutLocked(ex, h, p)
           ev == Evict(w, room)
<1>1. st \in CacheStates /\ WithinBudget(st) /\ Reserved(st) \in Nat /\ st.max \in Nat /\ room \in Int
  <2>1. st \in CacheStates /\ WithinBudget(st)
    BY DEF CacheInv
  <2>2. Reserved(st) \in Nat
    BY <2>1, ReservedFacts
  <2> QED
    BY <2>1, <2>2 DEF CacheStates
<1>2. /\ CacheInv(ex) /\ ex.max = st.max /\ ex.res = st.res /\ ex.content = st.content
      /\ ex.used = st.used /\ ex.lru = st.lru /\ Reserved(ex) = Reserved(st)
      /\ \A g \in Hash : g \in Pinned(ex) => st.content[g] # None
  BY ExpireFacts
<1> HIDE DEF ex
<1>3. ex \in CacheStates /\ Consistent(ex) /\ LeasesHold(ex) /\ WithinBudget(ex)
  BY <1>2 DEF CacheInv
<1>4. CASE ~Collides(ex, h, p) /\ ex.content[h] = p
  <2> DEFINE m == MoveToEnd(ex, h)
  <2>1. p # None
    BY HashAssumption
  <2>2. /\ m \in CacheStates /\ Consistent(m) /\ m.content = ex.content /\ m.leases = ex.leases
        /\ m.used = ex.used /\ m.res = ex.res /\ m.max = ex.max
    BY <1>3, <1>4, <2>1, MoveToEndFacts
  <2> HIDE DEF m
  <2>3. CacheInv(m)
    BY <1>3, <2>2, ReservedIsTotal DEF CacheInv, LeasesHold, WithinBudget
  <2>4. Size[h] > room \/ Put(st, h, p) = m
    BY <1>4 DEF Put, ex, m
  <2>5. Size[h] > room => Put(st, h, p) = st
    BY DEF Put
  <2> QED
    BY <1>2, <2>2, <2>3, <2>4, <2>5
<1>5. CASE ~Collides(ex, h, p) /\ ex.content[h] # p
  <2>1. /\ w \in CacheStates /\ Consistent(w) /\ w.content = [ex.content EXCEPT ![h] = p]
        /\ w.leases = ex.leases /\ w.res = ex.res /\ w.max = ex.max
        /\ Blocks(w) = Blocks(ex) \cup {h}
    BY <1>3, <1>5, PutLockedFacts
  <2> HIDE DEF w
  <2>2. LeasesHold(w)
    BY <1>3, <2>1, HashAssumption DEF LeasesHold, CacheStates
  <2>3. /\ ev \in CacheStates /\ Consistent(ev) /\ ev.max = w.max /\ ev.res = w.res
        /\ Blocks(ev) \in SUBSET Blocks(w)
        /\ ev.used <= room \/ Blocks(ev) \subseteq Pinned(w)
    BY <1>1, <2>1, EvictFacts
  <2>4. LeasesHold(ev)
    BY <1>1, <2>1, <2>2, EvictHolds
  <2> HIDE DEF ev
  <2>5. ev.used <= room \/ ev.used <= ex.used
    <3>1. CASE Blocks(ev) \subseteq Pinned(w)
      <4>1. h \notin Pinned(ex) /\ Pinned(w) = Pinned(ex)
        BY <1>2, <1>5, <2>1 DEF Collides, Pinned
      <4>2. Blocks(ev) \in SUBSET Blocks(ex)
        BY <3>1, <4>1, <2>1, <2>3
      <4>3. Bytes(Blocks(ev)) <= Bytes(Blocks(ex))
        BY <1>3, <4>2, BlocksFinite, BytesMeasure
      <4>4. ev.used = Bytes(Blocks(ev)) /\ ex.used = Bytes(Blocks(ex))
        BY <1>3, <2>3 DEF Consistent
      <4>5. ev.used \in Nat /\ ex.used \in Nat
        BY <1>3, <2>3 DEF CacheStates
      <4> QED
        BY <4>3, <4>4, <4>5
    <3> QED
      BY <3>1, <2>3
  <2>6. Reserved(ev) = Reserved(st) /\ ev.max = st.max /\ ev.res = st.res /\ ev.used \in Nat
    BY <1>2, <2>1, <2>3, ReservedIsTotal DEF CacheStates
  <2>7. WithinBudget(ev)
    <3>1. ex.used \in Nat /\ ex.used <= st.max /\ (OneWriter => ex.used + Reserved(st) <= st.max)
      BY <1>2, <1>3 DEF WithinBudget, CacheStates
    <3> QED
      BY <1>1, <2>5, <2>6, <3>1 DEF WithinBudget
  <2>8. Size[h] > room \/ Put(st, h, p) = ev
    BY <1>5 DEF Put, ex, w, ev
  <2>9. Size[h] > room => Put(st, h, p) = st
    BY DEF Put
  <2> QED
    BY <2>3, <2>4, <2>6, <2>7, <2>8, <2>9 DEF CacheInv
<1>6. CASE Collides(ex, h, p)
  <2>1. Put(st, h, p) \in {st, ex}
    BY <1>6 DEF Put, ex
  <2> QED
    BY <1>2, <2>1
<1> QED
  BY <1>4, <1>5, <1>6

\* reserve changes only its own entry, and only when the rest makes room.
LEMMA ReserveFacts ==
  ASSUME NEW st, CacheInv(st), NEW j \in Job, NEW n \in Nat
  PROVE  LET w == Reserve(st, j, n) IN
         /\ CacheInv(w) /\ w.res \in {st.res, [st.res EXCEPT ![j] = n]}
<1> DEFINE ex == Expire(st)
           room == Room(st, n)
           ev == Evict(ex, room)
           g == [ev EXCEPT !.res[j] = n]
<1>1. st \in CacheStates /\ Reserved(st) \in Nat /\ st.max \in Nat /\ room \in Int
  <2>1. st \in CacheStates
    BY DEF CacheInv
  <2>2. Reserved(st) \in Nat
    BY <2>1, ReservedFacts
  <2> QED
    BY <2>1, <2>2 DEF CacheStates, Room
<1>2. CacheInv(ex) /\ ex.max = st.max /\ ex.res = st.res /\ Reserved(ex) = Reserved(st)
  BY ExpireFacts
<1>3. Reserve(st, j, n) \in {st, ev} \/ (Reserve(st, j, n) = g /\ ~(ev.used > room))
  BY DEF Reserve
<1> HIDE DEF ex
<1>4. /\ CacheInv(ev) /\ ev.max = st.max /\ ev.res = st.res /\ Reserved(ev) = Reserved(st)
  <2> HIDE DEF room
  <2> QED
    BY <1>1, <1>2, EvictKeeps
<1> HIDE DEF ev
<1>5. ev \in CacheStates /\ Consistent(ev) /\ LeasesHold(ev) /\ ev.used \in Nat
  BY <1>4 DEF CacheInv, CacheStates
<1>6. /\ g \in CacheStates /\ g.max = ev.max /\ g.lru = ev.lru /\ g.content = ev.content
      /\ g.used = ev.used /\ g.leases = ev.leases /\ g.res = [ev.res EXCEPT ![j] = n]
  BY <1>5 DEF CacheStates
<1>7. Reserved(g) = Reserved(ev) - ev.res[j] + n /\ ev.res[j] \in Nat
  BY <1>5, ReservedFacts DEF CacheStates
<1> HIDE DEF g
<1>8. Consistent(g) /\ LeasesHold(g)
  BY <1>5, <1>6 DEF Consistent, LeasesHold, Blocks
<1>9. ~(ev.used > room) => WithinBudget(g)
  BY <1>1, <1>4, <1>5, <1>6, <1>7 DEF WithinBudget, Room
<1> QED
  BY <1>3, <1>4, <1>6, <1>8, <1>9 DEF CacheInv

\* release_reservation gives its own entry back.
LEMMA ReleaseFacts ==
  ASSUME NEW st, CacheInv(st), NEW j \in Job
  PROVE  CacheInv(Release(st, j)) /\ Release(st, j).res = [st.res EXCEPT ![j] = 0]
<1> DEFINE g == [st EXCEPT !.res[j] = 0]
<1>1. st \in CacheStates /\ Consistent(st) /\ LeasesHold(st) /\ WithinBudget(st)
  BY DEF CacheInv
<1>2. /\ g \in CacheStates /\ g.max = st.max /\ g.lru = st.lru /\ g.content = st.content
      /\ g.used = st.used /\ g.leases = st.leases /\ g.res = [st.res EXCEPT ![j] = 0]
  BY <1>1 DEF CacheStates
<1>3. /\ Reserved(g) = Reserved(st) - st.res[j] + 0 /\ st.res[j] \in Nat /\ Reserved(st) \in Nat
      /\ st.used \in Nat /\ st.max \in Nat
  BY <1>1, ReservedFacts DEF CacheStates
<1>4. g = Release(st, j)
  BY DEF Release
<1> HIDE DEF g
<1>5. Consistent(g) /\ LeasesHold(g)
  BY <1>1, <1>2 DEF Consistent, LeasesHold, Blocks
<1>6. WithinBudget(g)
  BY <1>1, <1>2, <1>3 DEF WithinBudget
<1> QED
  BY <1>2, <1>4, <1>5, <1>6 DEF CacheInv

\* The evictions of publish_and_lease.
LEMMA ClearedFacts ==
  ASSUME NEW st, CacheInv(st), NEW h \in Hash
  PROVE  LET cl == Cleared(st, h) IN
         /\ CacheInv(cl) /\ cl.max = st.max /\ cl.res = st.res /\ cl.used <= st.used
         /\ Reserved(cl) = Reserved(st)
<1> DEFINE ex == Expire(st)
           limit == st.max - Size[h]
<1>1. limit \in Int
  BY HashAssumption DEF CacheInv, CacheStates
<1>2. /\ CacheInv(ex) /\ ex.max = st.max /\ ex.res = st.res /\ ex.used = st.used
      /\ Reserved(ex) = Reserved(st)
  BY ExpireFacts
<1>3. Cleared(st, h) = Evict(ex, limit)
  BY DEF Cleared
<1> HIDE DEF ex, limit
<1> QED
  BY <1>1, <1>2, <1>3, EvictKeeps

\* With one writer, a reservation as large as the snapshot guarantees the room
\* for it.
LEMMA ReservationSuffices ==
  ASSUME NEW st, CacheInv(st), NEW j \in Job, NEW h \in Hash, Size[h] <= st.res[j],
         OneWriter
  PROVE  Publishable(st, j, h)
<1>1. /\ Reserved(st) \in Nat /\ st.res[j] <= Reserved(st) /\ st.used + Reserved(st) <= st.max
      /\ st.used \in Nat /\ st.max \in Nat /\ st.res[j] \in Nat /\ Size[h] \in Nat
  BY ReservedFacts, HashAssumption DEF CacheInv, CacheStates, WithinBudget
<1>2. Cleared(st, h).used <= st.used /\ Cleared(st, h).used \in Nat
  BY ClearedFacts DEF CacheInv, CacheStates
<1> QED
  BY <1>1, <1>2 DEF Publishable

\* publish_and_lease turns the reservation into a leased block.
LEMMA PublishFacts ==
  ASSUME NEW st, CacheInv(st), NEW j \in Job, NEW h \in Hash, NEW p \in Payload,
         Publishable(st, j, h), ~Collides(Cleared(st, h), h, p)
  PROVE  LET g == PublishAndLease(st, j, h, p) IN
         CacheInv(g) /\ g.res = [st.res EXCEPT ![j] = 0]
<1> DEFINE cl == Cleared(st, h)
           w == PutLocked(cl, h, p)
           a == [w EXCEPT !.leases[j] = [h |-> h, live |-> TRUE]]
           g == PublishAndLease(st, j, h, p)
<1>1. CacheInv(cl) /\ cl.max = st.max /\ cl.res = st.res /\ Reserved(cl) = Reserved(st)
  BY ClearedFacts
<1> HIDE DEF cl
<1>2. cl \in CacheStates /\ Consistent(cl) /\ LeasesHold(cl) /\ WithinBudget(cl) /\ p # None
  BY <1>1, HashAssumption DEF CacheInv
<1>3. /\ w \in CacheStates /\ Consistent(w) /\ w.content = [cl.content EXCEPT ![h] = p]
      /\ w.leases = cl.leases /\ w.res = cl.res /\ w.max = cl.max
      /\ w.used = cl.used + (IF cl.content[h] = p THEN 0 ELSE Size[h])
  BY <1>2, PutLockedFacts DEF cl
<1>4. g = [w EXCEPT !.leases[j] = [h |-> h, live |-> TRUE], !.res[j] = 0]
  BY DEF PublishAndLease, cl
<1> HIDE DEF w
<1>5. j \in LeaseIds
  BY DEF LeaseIds
<1>6. /\ g.max = w.max /\ g.lru = w.lru /\ g.content = w.content /\ g.used = w.used
      /\ g.leases = [w.leases EXCEPT ![j] = [h |-> h, live |-> TRUE]]
      /\ g.res = [w.res EXCEPT ![j] = 0]
      /\ g = [max |-> g.max, lru |-> g.lru, content |-> g.content, used |-> g.used,
              res |-> g.res, leases |-> g.leases]
  <2> HIDE DEF g
  <2> QED
    BY <1>3, <1>4 DEF CacheStates
<1>7. g \in CacheStates
  <2> HIDE DEF g
  <2>1. /\ g.max \in Nat /\ g.lru \in Seq(Hash) /\ g.used \in Nat
        /\ g.content \in [Hash -> Payload \cup {None}]
    BY <1>3, <1>6 DEF CacheStates
  <2>2. g.res \in [Job -> Nat]
    BY <1>3, <1>6 DEF CacheStates
  <2>3. g.leases \in [LeaseIds -> [h : Hash \cup {None}, live : BOOLEAN]]
    BY <1>3, <1>5, <1>6 DEF CacheStates
  <2> QED
    BY <1>6, <2>1, <2>2, <2>3 DEF CacheStates
<1>8. Reserved(g) = Reserved(w) - w.res[j] + 0 /\ Reserved(w) = Reserved(st)
  <2>1. Reserved(g) = Reserved([w EXCEPT !.res[j] = 0])
    <3>1. [w EXCEPT !.res[j] = 0].res = [w.res EXCEPT ![j] = 0]
      BY <1>3 DEF CacheStates
    <3> QED
      BY <1>6, <3>1, ReservedIsTotal
  <2>2. Reserved(w) = Reserved(st)
    BY <1>1, <1>3, ReservedIsTotal
  <2> QED
    BY <1>3, <2>1, <2>2, ReservedFacts
<1> HIDE DEF g
<1>9. Consistent(g)
  BY <1>3, <1>6 DEF Consistent, Blocks
<1>10. LeasesHold(g)
  <2>1. LeasesHold(w)
    BY <1>2, <1>3 DEF LeasesHold, CacheStates
  <2> QED
    BY <1>2, <1>3, <1>5, <1>6, <2>1 DEF LeasesHold, CacheStates
<1>11. WithinBudget(g)
  <2>1. /\ Reserved(st) \in Nat /\ st.res[j] \in Nat /\ st.res[j] <= Reserved(st)
        /\ Size[h] \in Nat /\ cl.used \in Nat /\ cl.max \in Nat
    BY <1>2, ReservedFacts, HashAssumption DEF CacheInv, CacheStates
  <2>0. Size[h] <= st.res[j] /\ cl.used <= cl.max - Size[h]
    BY <1>1 DEF Publishable, cl
  <2>2. g.used <= cl.used + Size[h] /\ g.max = cl.max /\ w.res[j] = st.res[j] /\ g.used \in Nat
    BY <1>1, <1>3, <1>6, <2>1
  <2> QED
    BY <2>0, <2>1, <2>2, <1>1, <1>2, <1>8 DEF WithinBudget
<1> QED
  BY <1>1, <1>3, <1>6, <1>7, <1>9, <1>10, <1>11 DEF CacheInv, g

\* A boundary is kept within the budget, and where nothing is reserved it takes
\* nobody's room.
LEMMA KeepBoundaryFacts ==
  ASSUME NEW st, CacheInv(st), NEW h \in Hash, NEW p \in Payload,
         Size[h] + st.used <= st.max => ~Collides(st, h, p),
         OneWriter => Reserved(st) = 0
  PROVE  LET w == KeepBoundary(st, h, p) IN CacheInv(w) /\ w.res = st.res
<1> DEFINE w == PutLocked(st, h, p)
<1>1. /\ st \in CacheStates /\ Consistent(st) /\ LeasesHold(st) /\ WithinBudget(st)
      /\ p # None /\ Size[h] \in Nat /\ st.used \in Nat /\ st.max \in Nat
  BY HashAssumption DEF CacheInv, CacheStates
<1>2. CASE Size[h] + st.used > st.max
  BY <1>2 DEF KeepBoundary
<1>3. CASE Size[h] + st.used <= st.max
  <2>1. KeepBoundary(st, h, p) = w
    BY <1>1, <1>3 DEF KeepBoundary
  <2>2. /\ w \in CacheStates /\ Consistent(w) /\ w.content = [st.content EXCEPT ![h] = p]
        /\ w.leases = st.leases /\ w.res = st.res /\ w.max = st.max
        /\ w.used = st.used + (IF st.content[h] = p THEN 0 ELSE Size[h])
    BY <1>1, <1>3, PutLockedFacts
  <2> HIDE DEF w
  <2>3. LeasesHold(w)
    BY <1>1, <2>2 DEF LeasesHold, CacheStates
  <2>4. Reserved(w) = Reserved(st)
    BY <2>2, ReservedIsTotal
  <2>5. WithinBudget(w)
    BY <1>1, <1>3, <2>2, <2>4 DEF WithinBudget
  <2> QED
    BY <2>1, <2>2, <2>3, <2>5 DEF CacheInv
<1> QED
  BY <1>1, <1>2, <1>3

\* A hit is a block of the chain that is present.
LEMMA HitFacts ==
  ASSUME NEW st \in CacheStates, NEW chain \in Seq(Hash), Hit(st, chain) # None
  PROVE  Hit(st, chain) \in Hash /\ st.content[Hit(st, chain)] # None
<1> DEFINE present == {i \in 1..Len(chain) : st.content[chain[i]] # None}
           far == {k \in Nat : \E i \in present : k = Len(chain) - i}
<1>1. present # {} /\ Hit(st, chain) = chain[Max(present)]
  BY DEF Hit
<1>2. far # {} /\ far \in SUBSET Nat
  <2>1. PICK i \in present : TRUE
    BY <1>1
  <2>2. Len(chain) - i \in Nat
    OBVIOUS
  <2> QED
    BY <2>1, <2>2
<1>3. PICK k \in far : \A m \in far : k <= m
  <2> HIDE DEF far
  <2> QED
    BY <1>2, LeastNatural
<1>4. PICK i \in present : k = Len(chain) - i
  OBVIOUS
<1>5. \A m \in present : i >= m
  <2> SUFFICES ASSUME NEW m \in present PROVE i >= m
    OBVIOUS
  <2>1. Len(chain) - m \in far
    OBVIOUS
  <2>2. k <= Len(chain) - m
    BY <1>3, <2>1
  <2> QED
    BY <1>4, <2>2
<1> HIDE DEF present, far
<1>6. Max(present) \in present
  BY <1>4, <1>5 DEF Max
<1> QED
  BY <1>1, <1>6 DEF present

\* The calls of peers and of the node keep the store's invariant, and touch no
\* reservation.
LEMMA CacheCallsKeep ==
  ASSUME CacheInv(cache), CacheCalls
  PROVE  CacheInv(cache') /\ cache'.res = cache.res
<1>0. /\ cache \in CacheStates /\ Consistent(cache) /\ LeasesHold(cache) /\ WithinBudget(cache)
      /\ Reserved(cache) \in Nat /\ cache.max \in Nat /\ cache.used \in Nat
  <2>1. /\ cache \in CacheStates /\ Consistent(cache) /\ LeasesHold(cache) /\ WithinBudget(cache)
    BY DEF CacheInv
  <2> QED
    BY <2>1, ReservedFacts DEF CacheStates
<1>1. CASE PublishBlock
  BY <1>1, PutFacts DEF PublishBlock
<1>2. CASE LookupPrefix
  <2>1. PICK chain \in Chains, l \in Lease :
          cache' = IF Hit(Expire(cache), chain) = None THEN Expire(cache)
                   ELSE [MoveToEnd(Expire(cache), Hit(Expire(cache), chain)) EXCEPT
                           !.leases[l] = [h |-> Hit(Expire(cache), chain), live |-> TRUE]]
    BY <1>2 DEF LookupPrefix
  <2> DEFINE ex == Expire(cache)
             h == Hit(ex, chain)
             m == MoveToEnd(ex, h)
             g == [m EXCEPT !.leases[l] = [h |-> h, live |-> TRUE]]
  <2>2. CacheInv(ex) /\ ex.res = cache.res
    BY ExpireFacts
  <2>3. cache' = IF h = None THEN ex ELSE g
    BY <2>1
  <2>4. chain \in Seq(Hash) /\ l \in LeaseIds
    BY HashAssumption DEF LeaseIds
  <2> HIDE DEF ex
  <2>5. ASSUME h # None PROVE CacheInv(g) /\ g.res = cache.res
    <3>1. ex \in CacheStates /\ Consistent(ex) /\ LeasesHold(ex) /\ WithinBudget(ex)
      BY <2>2 DEF CacheInv
    <3>2. h \in Hash /\ ex.content[h] # None
      BY <2>4, <2>5, <3>1, HitFacts
    <3> HIDE DEF h
    <3>3. /\ m \in CacheStates /\ Consistent(m) /\ m.content = ex.content /\ m.leases = ex.leases
          /\ m.used = ex.used /\ m.res = ex.res /\ m.max = ex.max
      BY <3>1, <3>2, MoveToEndFacts
    <3> HIDE DEF m
    <3>4. /\ g.max = m.max /\ g.lru = m.lru /\ g.content = m.content /\ g.used = m.used
          /\ g.leases = [m.leases EXCEPT ![l] = [h |-> h, live |-> TRUE]] /\ g.res = m.res
      BY <3>3 DEF CacheStates
    <3>5. g \in CacheStates
      BY <2>4, <3>2, <3>3 DEF CacheStates
    <3> HIDE DEF g
    <3>6. Consistent(g)
      BY <3>3, <3>4 DEF Consistent, Blocks
    <3>7. LeasesHold(g)
      BY <2>4, <3>1, <3>2, <3>3, <3>4 DEF LeasesHold, CacheStates
    <3>8. WithinBudget(g)
      BY <3>1, <3>3, <3>4, ReservedIsTotal DEF WithinBudget
    <3> QED
      BY <2>2, <3>3, <3>4, <3>5, <3>6, <3>7, <3>8 DEF CacheInv
  <2> QED
    BY <2>2, <2>3, <2>5
<1>3. CASE FetchBlocks
  BY <1>3, ExpireFacts DEF FetchBlocks
<1>4. CASE LeaseTimesOut
  <2>1. PICK l \in LeaseIds : cache' = [cache EXCEPT !.leases[l].live = FALSE]
    BY <1>4 DEF LeaseTimesOut
  <2>2. /\ cache'.max = cache.max /\ cache'.lru = cache.lru /\ cache'.content = cache.content
        /\ cache'.used = cache.used /\ cache'.res = cache.res
        /\ cache'.leases = [cache.leases EXCEPT ![l].live = FALSE]
        /\ cache' \in CacheStates
    BY <1>0, <2>1 DEF CacheStates
  <2>3. Consistent(cache')
    BY <1>0, <2>2 DEF Consistent, Blocks
  <2>4. LeasesHold(cache')
    BY <1>0, <2>2 DEF LeasesHold, CacheStates
  <2>5. WithinBudget(cache')
    BY <1>0, <2>2, ReservedIsTotal DEF WithinBudget
  <2> QED
    BY <2>2, <2>3, <2>4, <2>5 DEF CacheInv
<1>5. CASE resize
  <2>1. PICK n \in Budgets : /\ n >= Reserved(cache)
                             /\ LET ev == Evict([cache EXCEPT !.max = n], n - Reserved(cache)) IN
                                cache' = IF ev.used <= n - Reserved(cache) THEN ev
                                         ELSE [ev EXCEPT !.max = Max({cache.max, ev.used})]
    BY <1>5 DEF resize
  <2> DEFINE r == [cache EXCEPT !.max = n]
             limit == n - Reserved(cache)
             ev == Evict(r, limit)
  <2>2. n \in Nat /\ limit \in Int
    BY <1>0, BudgetAssumption
  <2>3. /\ r \in CacheStates /\ r.max = n /\ r.lru = cache.lru /\ r.content = cache.content
        /\ r.used = cache.used /\ r.res = cache.res /\ r.leases = cache.leases
    BY <1>0, <2>2 DEF CacheStates
  <2>4. cache' = IF ev.used <= limit THEN ev ELSE [ev EXCEPT !.max = Max({cache.max, ev.used})]
    BY <2>1
  <2> HIDE DEF r, limit
  <2>5. Consistent(r) /\ LeasesHold(r)
    BY <1>0, <2>3 DEF Consistent, LeasesHold, Blocks
  <2>6. /\ ev \in CacheStates /\ Consistent(ev) /\ ev.max = r.max /\ ev.res = r.res
        /\ ev.used <= r.used
    BY <2>2, <2>3, <2>5, EvictFacts
  <2>7. LeasesHold(ev)
    BY <2>2, <2>3, <2>5, EvictHolds
  <2> HIDE DEF ev
  <2>8. ev.used \in Nat /\ Reserved(ev) = Reserved(cache)
    BY <2>3, <2>6, ReservedIsTotal DEF CacheStates
  <2>9. CASE ev.used <= limit
    BY <1>0, <2>2, <2>3, <2>4, <2>6, <2>7, <2>8, <2>9 DEF CacheInv, WithinBudget, limit
  <2>10. CASE ~(ev.used <= limit)
    <3>1. ev.used <= cache.max
      BY <1>0, <2>3, <2>6, <2>8 DEF WithinBudget
    <3>2. Max({cache.max, ev.used}) = cache.max
      BY <1>0, <2>8, <3>1 DEF Max
    <3>3. cache' = [ev EXCEPT !.max = cache.max]
      BY <2>4, <2>10, <3>2
    <3>4. /\ cache' \in CacheStates /\ cache'.max = cache.max /\ cache'.lru = ev.lru
          /\ cache'.content = ev.content /\ cache'.used = ev.used /\ cache'.res = ev.res
          /\ cache'.leases = ev.leases
      BY <1>0, <2>6, <3>3 DEF CacheStates
    <3>5. Consistent(cache') /\ LeasesHold(cache')
      BY <2>6, <2>7, <3>4 DEF Consistent, LeasesHold, Blocks
    <3>6. Reserved(cache') = Reserved(cache)
      BY <2>3, <2>6, <3>4, ReservedIsTotal
    <3>7. WithinBudget(cache')
      BY <1>0, <2>3, <2>6, <2>8, <3>4, <3>6 DEF WithinBudget
    <3> QED
      BY <2>3, <2>6, <3>4, <3>5, <3>7 DEF CacheInv
  <2> QED
    BY <2>9, <2>10
<1>6. CASE invalidate
  <2>1. PICK h \in Blocks(cache) :
          cache' = [Drop(cache, {h}) EXCEPT !.leases = [l \in LeaseIds |->
                      IF cache.leases[l].h = h THEN NoLease ELSE cache.leases[l]]]
    BY <1>6 DEF invalidate
  <2> DEFINE S == {h}
             d == Drop(cache, S)
             ls == [l \in LeaseIds |->
                      IF cache.leases[l].h = h THEN NoLease ELSE cache.leases[l]]
  <2>2. cache' = [d EXCEPT !.leases = ls]
    BY <2>1
  <2>3. ls \in [LeaseIds -> [h : Hash \cup {None}, live : BOOLEAN]]
    BY <1>0 DEF CacheStates, NoLease
  <2> HIDE DEF S, ls
  <2>4. /\ d \in CacheStates /\ Consistent(d) /\ d.max = cache.max /\ d.res = cache.res
        /\ \A g \in Hash : d.content[g] = IF g \in S THEN None ELSE cache.content[g]
        /\ d.used <= cache.used
    <3>1. /\ Drop(cache, S) \in CacheStates /\ Consistent(Drop(cache, S))
          /\ Drop(cache, S).max = cache.max /\ Drop(cache, S).res = cache.res
          /\ Drop(cache, S).leases = cache.leases
          /\ Blocks(Drop(cache, S)) = Blocks(cache) \ S
          /\ \A g \in Hash : Drop(cache, S).content[g] = IF g \in S THEN None ELSE cache.content[g]
          /\ Drop(cache, S).used = cache.used - Bytes(Blocks(cache) \cap S)
          /\ Drop(cache, S).used <= cache.used
      <4>1. cache \in CacheStates /\ Consistent(cache)
        BY <1>0
      <4> HIDE DEF Drop, Blocks, Bytes
      <4> QED
        BY ONLY <4>1, DropFacts
    <3> QED
      BY <3>1
  <2> HIDE DEF d
  <2>5. /\ cache' \in CacheStates /\ cache'.max = d.max /\ cache'.lru = d.lru
        /\ cache'.content = d.content /\ cache'.used = d.used /\ cache'.res = d.res
        /\ cache'.leases = ls
    BY <2>2, <2>3, <2>4 DEF CacheStates
  <2>6. Consistent(cache')
    BY <2>4, <2>5 DEF Consistent, Blocks
  <2>7. LeasesHold(cache')
    BY <1>0, <2>4, <2>5 DEF LeasesHold, S, ls, NoLease
  <2>8. Reserved(cache') = Reserved(cache) /\ d.used \in Nat
    BY <2>4, <2>5, ReservedIsTotal DEF CacheStates
  <2>9. WithinBudget(cache')
    BY <1>0, <2>4, <2>5, <2>8 DEF WithinBudget
  <2> QED
    BY <2>4, <2>5, <2>6, <2>7, <2>9 DEF CacheInv
<1> QED
  BY <1>1, <1>2, <1>3, <1>4, <1>5, <1>6 DEF CacheCalls


-----------------------------------------------------------------------------
(* The job table.                                                            *)

JobRecords == [state : Ended \cup {"none", "QUEUED", "RUNNING"}, pc : Pcs,
               req : Request \cup {None}, cancelled : BOOLEAN, acked : BOOLEAN, left : Nat]

\* The reported state follows the place of the job's thread, only a job between
\* its reservation and its finally block holds bytes (n of them), and a
\* cancelled one is never completed.
JobOK(r, n) ==
  /\ r.state = "none" <=> r.pc = "none"
  /\ r.state = "QUEUED" <=> r.pc \in {"queued", "picked"}
  /\ r.state = "RUNNING" <=> r.pc \in {"reserve", "compute", "publish", "boundaries", "complete"}
  /\ r.state # "none" => r.req \in Request
  /\ n > 0 => r.pc \in {"compute", "publish", "finally"}
  /\ r.pc = "boundaries" => "all" \in Exports /\ r.left \in 1..(Len(ChainOf[r.req]) - 1)
  /\ r.acked => r.cancelled
  /\ r.cancelled => r.state # "COMPLETED"

\* No idempotency key outlives its job.
KeysAreKnown == \A q \in Request : requests[q] # None => jobs[requests[q]].state # "none"

IInv == /\ CacheInv(cache)
        /\ jobs \in [Job -> JobRecords] /\ requests \in [Request -> Job \cup {None}]
        /\ \A j \in Job : JobOK(jobs[j], cache.res[j])
        /\ KeysAreKnown /\ RequestsFindTheirJobs

\* A single executor thread runs one job at a time.
Serial == /\ queue \in Seq(Job)
          /\ Workers = 1 => \A j, k \in Busy : j = k

\* A step of one job that keeps its key keeps the invariant when the cache
\* does and the job's own record is right.
LEMMA OneJobStep ==
  ASSUME IInv, NEW j \in Job, NEW r \in JobRecords, jobs' = [jobs EXCEPT ![j] = r],
         requests' = requests, CacheInv(cache'), r.req = jobs[j].req,
         jobs[j].state # "none", r.state # "none", JobOK(r, cache'.res[j]),
         \A k \in Job \ {j} : cache'.res[k] = cache.res[k]
  PROVE  IInv'
<1>1. jobs \in [Job -> JobRecords] /\ jobs' \in [Job -> JobRecords]
  BY DEF IInv
<1>2. \A k \in Job : jobs'[k] = IF k = j THEN r ELSE jobs[k]
  BY <1>1
<1>3. \A k \in Job : JobOK(jobs'[k], cache'.res[k])
  <2> SUFFICES ASSUME NEW k \in Job PROVE JobOK(jobs'[k], cache'.res[k])
    OBVIOUS
  <2>1. JobOK(jobs[k], cache.res[k])
    BY DEF IInv
  <2>2. CASE k = j
    BY <2>2, <1>2, Zenon
  <2>3. CASE k # j
    <3>1. jobs'[k] = jobs[k] /\ cache'.res[k] = cache.res[k]
      BY <2>3, <1>2
    <3> QED
      BY <3>1, <2>1, Zenon
  <2> QED
    BY <2>2, <2>3
<1>4. /\ requests' \in [Request -> Job \cup {None}]
      /\ \A q \in Request : requests[q] # None =>
            requests[q] \in Job /\ jobs[requests[q]].state # "none" /\ jobs[requests[q]].req = q
      /\ \A k \in Job : jobs[k].state # "none" => requests[jobs[k].req] = k
  BY DEF IInv, KeysAreKnown, RequestsFindTheirJobs, Known
<1>5. \A k \in Job : /\ jobs'[k].req = jobs[k].req
                     /\ jobs'[k].state # "none" <=> jobs[k].state # "none"
  BY <1>2
<1>6. KeysAreKnown' /\ RequestsFindTheirJobs'
  BY <1>4, <1>5 DEF KeysAreKnown, RequestsFindTheirJobs, Known
<1> QED
  BY <1>1, <1>3, <1>4, <1>6 DEF IInv

\* Collecting finished jobs with their keys keeps the invariant.
LEMMA CollectionStep ==
  ASSUME IInv, NEW gone \in SUBSET Job, gone \subseteq Finished,
         jobs' = JobsAfter(gone), requests' = RequestsAfter(gone), UNCHANGED cache
  PROVE  IInv'
<1>1. /\ jobs \in [Job -> JobRecords] /\ requests \in [Request -> Job \cup {None}]
      /\ CacheInv(cache) /\ cache.res \in [Job -> Nat]
  BY DEF IInv, CacheInv, CacheStates
<1>2. NoJob \in JobRecords
  BY DEF JobRecords, NoJob, Pcs
<1>3. jobs' \in [Job -> JobRecords] /\ requests' \in [Request -> Job \cup {None}]
  BY <1>1, <1>2 DEF JobsAfter, RequestsAfter
<1>4. /\ \A k \in Job : jobs'[k] = IF k \in gone THEN NoJob ELSE jobs[k]
      /\ \A q \in Request : requests'[q] = IF requests[q] \in gone THEN None ELSE requests[q]
  BY <1>1 DEF JobsAfter, RequestsAfter
<1>5. \A k \in Job : JobOK(jobs'[k], cache'.res[k])
  <2> SUFFICES ASSUME NEW k \in Job PROVE JobOK(jobs'[k], cache.res[k])
    OBVIOUS
  <2>1. JobOK(jobs[k], cache.res[k]) /\ cache.res[k] \in Nat
    BY <1>1 DEF IInv
  <2>2. CASE k \in gone
    <3>1. jobs[k].pc = "over"
      BY <2>2 DEF Finished
    <3>2. ~(cache.res[k] > 0)
      BY <2>1, <3>1 DEF JobOK
    <3> QED
      BY <1>4, <2>2, <3>2 DEF JobOK, NoJob
  <2>3. CASE k \notin gone
    BY <1>4, <2>1, <2>3
  <2> QED
    BY <2>2, <2>3
<1>6. /\ \A q \in Request : requests[q] # None =>
            requests[q] \in Job /\ jobs[requests[q]].state # "none" /\ jobs[requests[q]].req = q
      /\ \A k \in Job : jobs[k].state # "none" => requests[jobs[k].req] = k /\ jobs[k].req \in Request
  BY <1>1 DEF IInv, JobOK, KeysAreKnown, RequestsFindTheirJobs, Known
<1>7. None \notin Job
  BY HashAssumption
<1>8. KeysAreKnown'
  BY <1>4, <1>6 DEF KeysAreKnown
<1>9. RequestsFindTheirJobs'
  BY <1>4, <1>6, <1>7 DEF RequestsFindTheirJobs, Known, NoJob
<1> QED
  BY <1>1, <1>3, <1>5, <1>8, <1>9 DEF IInv

\* A new job under a free id and a free key keeps the invariant.
LEMMA SubmitStep ==
  ASSUME IInv, submit
  PROVE  IInv'
<1>1. PICK q \in Request, gone \in SUBSET Job, j \in Job :
        /\ Collected(gone) /\ requests[q] \in gone \cup {None}
        /\ j \in gone \/ jobs[j] = NoJob
        /\ jobs' = [JobsAfter(gone) EXCEPT ![j] = [NoJob EXCEPT
                      !.state = "QUEUED", !.pc = "queued", !.req = q]]
        /\ requests' = [RequestsAfter(gone) EXCEPT ![q] = j]
        /\ UNCHANGED cache
  BY DEF submit
<1> DEFINE r == [NoJob EXCEPT !.state = "QUEUED", !.pc = "queued", !.req = q]
<1>2. /\ r \in JobRecords /\ r.req = q /\ r.state = "QUEUED" /\ r.pc = "queued"
      /\ r.cancelled = FALSE /\ r.acked = FALSE
  BY DEF NoJob, JobRecords, Pcs
<1>3. /\ jobs \in [Job -> JobRecords] /\ requests \in [Request -> Job \cup {None}]
      /\ CacheInv(cache) /\ cache.res \in [Job -> Nat] /\ gone \subseteq Finished
  BY <1>1 DEF IInv, CacheInv, CacheStates, Collected
<1>4. NoJob \in JobRecords
  BY DEF JobRecords, NoJob, Pcs
<1>5. jobs' = [JobsAfter(gone) EXCEPT ![j] = r]
  BY <1>1
<1> HIDE DEF r
<1>6. JobsAfter(gone) \in [Job -> JobRecords] /\ RequestsAfter(gone) \in [Request -> Job \cup {None}]
  BY <1>3, <1>4 DEF JobsAfter, RequestsAfter
<1>7. jobs' \in [Job -> JobRecords] /\ requests' \in [Request -> Job \cup {None}]
  BY <1>1, <1>2, <1>5, <1>6
<1>8. /\ \A k \in Job : jobs'[k] = IF k = j THEN r ELSE IF k \in gone THEN NoJob ELSE jobs[k]
      /\ \A p \in Request : requests'[p] = IF p = q THEN j
                              ELSE IF requests[p] \in gone THEN None ELSE requests[p]
  BY <1>1, <1>3, <1>5, <1>6 DEF JobsAfter, RequestsAfter
<1>9. \A k \in Job : k \in gone \/ jobs[k] = NoJob => ~(cache.res[k] > 0)
  <2> SUFFICES ASSUME NEW k \in Job, k \in gone \/ jobs[k] = NoJob PROVE ~(cache.res[k] > 0)
    OBVIOUS
  <2>1. jobs[k].pc \in {"over", "none"}
    BY <1>3 DEF Finished, NoJob
  <2> QED
    BY <2>1 DEF IInv, JobOK
<1>10. \A k \in Job : JobOK(jobs'[k], cache'.res[k])
  <2> SUFFICES ASSUME NEW k \in Job PROVE JobOK(jobs'[k], cache.res[k])
    BY <1>1
  <2>1. JobOK(jobs[k], cache.res[k])
    BY DEF IInv
  <2>2. CASE k = j
    <3>1. jobs'[k] = r /\ ~(cache.res[k] > 0)
      BY <2>2, <1>1, <1>8, <1>9
    <3> QED
      BY <3>1, <1>2 DEF JobOK, Ended
  <2>3. CASE k # j /\ k \in gone
    BY <1>8, <1>9, <2>3 DEF JobOK, NoJob
  <2>4. CASE k # j /\ k \notin gone
    BY <1>8, <2>1, <2>4
  <2> QED
    BY <2>2, <2>3, <2>4
<1>11. /\ \A p \in Request : requests[p] # None =>
             requests[p] \in Job /\ jobs[requests[p]].state # "none" /\ jobs[requests[p]].req = p
       /\ \A k \in Job : jobs[k].state # "none" => requests[jobs[k].req] = k /\ jobs[k].req \in Request
  BY <1>3 DEF IInv, JobOK, KeysAreKnown, RequestsFindTheirJobs, Known
<1>12. \A p \in Request : requests'[p] # None /\ p # q => requests'[p] = requests[p] /\ requests[p] # j
                                                        /\ requests[p] \notin gone
  BY <1>1, <1>8, <1>11 DEF NoJob
<1>13. KeysAreKnown'
  BY <1>2, <1>8, <1>11, <1>12 DEF KeysAreKnown
<1>14. None \notin Job
  BY HashAssumption
<1>15. RequestsFindTheirJobs'
  <2>1. \A p \in Request : requests'[p] # None => jobs'[requests'[p]].req = p
    BY <1>2, <1>8, <1>11, <1>12
  <2>2. \A k \in Job : jobs'[k].state # "none" => requests'[jobs'[k].req] = k
    <3> SUFFICES ASSUME NEW k \in Job, jobs'[k].state # "none" PROVE requests'[jobs'[k].req] = k
      OBVIOUS
    <3>1. CASE k = j
      BY <1>2, <1>8, <3>1
    <3>2. CASE k # j
      <4>1. jobs'[k] = jobs[k] /\ k \notin gone
        BY <1>8, <3>2 DEF NoJob
      <4>2. requests[jobs[k].req] = k /\ jobs[k].req \in Request
        BY <1>11, <4>1
      <4>3. jobs[k].req # q
        BY <1>1, <1>14, <4>1, <4>2
      <4> QED
        BY <1>8, <4>1, <4>2, <4>3
    <3> QED
      BY <3>1, <3>2
  <2> QED
    BY <2>1, <2>2 DEF RequestsFindTheirJobs, Known
<1> QED
  BY <1>1, <1>3, <1>7, <1>10, <1>13, <1>15 DEF IInv


\* A cancel, told to a job while others are collected, keeps the invariant.
LEMMA CancelStep ==
  ASSUME IInv, cancel
  PROVE  IInv'
<1>1. PICK gone \in SUBSET Job : \E j \in Known \ gone :
        /\ Collected(gone) /\ jobs[j].state \notin Ended
        /\ LET told == [jobs[j] EXCEPT !.cancelled = TRUE, !.acked = TRUE]
               queued == jobs[j].pc = "queued"
           IN /\ jobs' = [JobsAfter(gone) EXCEPT ![j] =
                           IF queued THEN [told EXCEPT !.state = "CANCELLED", !.pc = "over"]
                           ELSE told]
              /\ cache' = IF queued THEN Release(cache, j) ELSE cache
        /\ requests' = RequestsAfter(gone)
  BY DEF cancel
<1>2. PICK j \in Known \ gone :
        /\ Collected(gone) /\ jobs[j].state \notin Ended
        /\ LET told == [jobs[j] EXCEPT !.cancelled = TRUE, !.acked = TRUE]
               queued == jobs[j].pc = "queued"
           IN /\ jobs' = [JobsAfter(gone) EXCEPT ![j] =
                           IF queued THEN [told EXCEPT !.state = "CANCELLED", !.pc = "over"]
                           ELSE told]
              /\ cache' = IF queued THEN Release(cache, j) ELSE cache
        /\ requests' = RequestsAfter(gone)
  BY <1>1
<1> DEFINE told == [jobs[j] EXCEPT !.cancelled = TRUE, !.acked = TRUE]
           r == IF jobs[j].pc = "queued" THEN [told EXCEPT !.state = "CANCELLED", !.pc = "over"]
                ELSE told
<1>3. /\ jobs \in [Job -> JobRecords] /\ requests \in [Request -> Job \cup {None}]
      /\ CacheInv(cache) /\ cache.res \in [Job -> Nat] /\ gone \subseteq Finished
      /\ j \in Job /\ j \notin gone /\ jobs[j].state # "none" /\ jobs[j].state \notin Ended
  BY <1>2 DEF IInv, CacheInv, CacheStates, Collected, Known
<1>4. jobs' = [JobsAfter(gone) EXCEPT ![j] = r] /\ requests' = RequestsAfter(gone)
  BY <1>2
<1>5. /\ r \in JobRecords /\ r.req = jobs[j].req /\ r.state # "none" /\ r.cancelled
      /\ jobs[j].pc = "queued" => r.state = "CANCELLED" /\ r.pc = "over"
      /\ jobs[j].pc # "queued" => /\ r.state = jobs[j].state /\ r.pc = jobs[j].pc
                                  /\ r.left = jobs[j].left
  <2>0. jobs[j] \in JobRecords
    BY <1>3
  <2>1. /\ told \in JobRecords /\ told.req = jobs[j].req /\ told.state = jobs[j].state
        /\ told.pc = jobs[j].pc /\ told.cancelled /\ told.left = jobs[j].left
    BY <2>0 DEF JobRecords
  <2> HIDE DEF told
  <2> QED
    BY <1>3, <2>1 DEF JobRecords, Pcs, Ended
<1> HIDE DEF r
<1>6. NoJob \in JobRecords
  BY DEF JobRecords, NoJob, Pcs
<1>7. JobsAfter(gone) \in [Job -> JobRecords] /\ RequestsAfter(gone) \in [Request -> Job \cup {None}]
  BY <1>3, <1>6 DEF JobsAfter, RequestsAfter
<1>8. jobs' \in [Job -> JobRecords] /\ requests' \in [Request -> Job \cup {None}]
  BY <1>4, <1>5, <1>7
<1>9. /\ \A k \in Job : jobs'[k] = IF k = j THEN r ELSE IF k \in gone THEN NoJob ELSE jobs[k]
      /\ \A q \in Request : requests'[q] = IF requests[q] \in gone THEN None ELSE requests[q]
  BY <1>3, <1>4, <1>7 DEF JobsAfter, RequestsAfter
<1>10. /\ CacheInv(cache')
       /\ \A k \in Job : k # j => cache'.res[k] = cache.res[k]
       /\ jobs[j].pc = "queued" => cache'.res[j] = 0
       /\ jobs[j].pc # "queued" => cache'.res[j] = cache.res[j]
  <2>1. CASE jobs[j].pc = "queued"
    <3>1. cache' = Release(cache, j)
      BY <1>2, <2>1
    <3>2. CacheInv(cache') /\ cache'.res = [cache.res EXCEPT ![j] = 0]
      BY <1>3, <3>1, ReleaseFacts, Zenon
    <3> QED
      BY <1>3, <2>1, <3>2
  <2>2. CASE jobs[j].pc # "queued"
    <3>1. cache' = cache
      BY <1>2, <2>2
    <3> QED
      BY <1>3, <2>2, <3>1
  <2> QED
    BY <2>1, <2>2
<1>11. \A k \in Job : JobOK(jobs'[k], cache'.res[k])
  <2> SUFFICES ASSUME NEW k \in Job PROVE JobOK(jobs'[k], cache'.res[k])
    OBVIOUS
  <2>1. JobOK(jobs[k], cache.res[k])
    BY DEF IInv
  <2>2. CASE k = j
    <3>1. jobs'[k] = r /\ JobOK(jobs[j], cache.res[j])
      BY <2>1, <2>2, <1>9
    <3>2. JobOK(r, cache'.res[j])
      BY <3>1, <1>3, <1>5, <1>10 DEF JobOK, Ended
    <3> QED
      BY <2>2, <3>1, <3>2
  <2>3. CASE k # j /\ k \in gone
    <3>1. jobs[k].pc = "over" /\ jobs'[k] = NoJob /\ cache'.res[k] = cache.res[k]
      BY <1>3, <1>9, <1>10, <2>3 DEF Finished
    <3>2. ~(cache'.res[k] > 0)
      BY <2>1, <3>1 DEF JobOK
    <3> QED
      BY <3>1, <3>2 DEF JobOK, NoJob
  <2>4. CASE k # j /\ k \notin gone
    <3>1. jobs'[k] = jobs[k] /\ cache'.res[k] = cache.res[k]
      BY <1>9, <1>10, <2>4
    <3> QED
      BY <2>1, <3>1, Zenon
  <2> QED
    BY <2>2, <2>3, <2>4
<1>12. /\ \A q \in Request : requests[q] # None =>
             requests[q] \in Job /\ jobs[requests[q]].state # "none" /\ jobs[requests[q]].req = q
       /\ \A k \in Job : jobs[k].state # "none" => requests[jobs[k].req] = k /\ jobs[k].req \in Request
  BY <1>3 DEF IInv, JobOK, KeysAreKnown, RequestsFindTheirJobs, Known
<1>13. \A k \in Job : k \notin gone => /\ jobs'[k].req = jobs[k].req
                                        /\ jobs'[k].state # "none" <=> jobs[k].state # "none"
  BY <1>3, <1>5, <1>9
<1>14. None \notin Job
  BY HashAssumption
<1>15. KeysAreKnown'
  BY <1>9, <1>12, <1>13 DEF KeysAreKnown
<1>16. RequestsFindTheirJobs'
  <2>1. \A k \in gone : jobs'[k].state = "none"
    BY <1>3, <1>9 DEF NoJob
  <2> QED
    BY <1>3, <1>9, <1>12, <1>13, <1>14, <2>1 DEF RequestsFindTheirJobs, Known
<1> QED
  BY <1>8, <1>10, <1>11, <1>15, <1>16 DEF IInv

\* The chain of a job's request.
LEMMA ChainIsHashes ==
  ASSUME IInv, NEW j \in Job, jobs[j].state # "none"
  PROVE  Chain(j) \in Seq(Hash) /\ Chain(j) # <<>>
<1>1. jobs[j].req \in Request
  BY DEF IInv, JobOK
<1> QED
  BY <1>1, RequestAssumption, HashAssumption DEF Chain

\* Its last block, the snapshot the job publishes.
LEMMA FinalIsAHash ==
  ASSUME IInv, NEW j \in Job, jobs[j].state # "none"
  PROVE  Final(j) \in Hash
BY ChainIsHashes DEF Final

\* Where one thread runs alone, nobody holds a reservation while it keeps its
\* boundaries.
LEMMA NothingReserved ==
  ASSUME IInv, Serial, NEW j \in Job, At(j, "boundaries")
  PROVE  OneWriter => Reserved(cache) = 0
<1>1. cache.res \in [Job -> Nat] /\ \A k \in Job : JobOK(jobs[k], cache.res[k])
  BY DEF IInv, CacheInv, CacheStates
<1>2. "all" \in Exports
  BY <1>1 DEF At, JobOK
<1> SUFFICES ASSUME Workers = 1 PROVE Reserved(cache) = 0
  BY <1>2 DEF OneWriter
<1>3. j \in Busy
  BY DEF Busy, At
<1>4. ASSUME NEW k \in Job PROVE cache.res[k] = 0
  <2>1. k \in Busy => jobs[k].pc = "boundaries"
    BY <1>3 DEF Serial, At
  <2>2. jobs[k].pc \notin {"compute", "publish", "finally"}
    BY <2>1 DEF Busy
  <2>3. ~(cache.res[k] > 0)
    BY <1>1, <2>2 DEF JobOK
  <2>4. cache.res[k] \in Nat
    BY <1>1
  <2> QED
    BY <2>3, <2>4
<1> QED
  BY <1>4, TotalZero, JobAssumption, ReservedIsTotal

\* Every step of a job's thread, and its deadline, keep the invariant.
LEMMA ThreadStep ==
  ASSUME IInv, Serial, NEW j \in Job, Run(j) \/ DeadlinePasses(j)
  PROVE  IInv'
<1>1. /\ jobs \in [Job -> JobRecords] /\ jobs[j] \in JobRecords /\ CacheInv(cache)
      /\ cache.res \in [Job -> Nat] /\ JobOK(jobs[j], cache.res[j])
  BY DEF IInv, CacheInv, CacheStates
<1>2. ASSUME NEW pc \in Pcs, jobs' = [jobs EXCEPT ![j].pc = pc], requests' = requests,
             CacheInv(cache'), jobs[j].state # "none", JobOK([jobs[j] EXCEPT !.pc = pc], cache'.res[j]),
             \A k \in Job \ {j} : cache'.res[k] = cache.res[k]
      PROVE  IInv'
  <2> DEFINE r == [jobs[j] EXCEPT !.pc = pc]
  <2>1. r \in JobRecords /\ r.req = jobs[j].req /\ r.state = jobs[j].state
    BY <1>1, <1>2 DEF JobRecords
  <2>2. jobs' = [jobs EXCEPT ![j] = r]
    BY <1>1, <1>2
  <2>3. JobOK(r, cache'.res[j])
    BY <1>2
  <2> HIDE DEF r
  <2> QED
    BY <1>2, <2>1, <2>2, <2>3, OneJobStep
<1>3. ASSUME NEW s \in Ended \cup {"QUEUED", "RUNNING"}, NEW pc \in Pcs,
             jobs' = [jobs EXCEPT ![j].state = s, ![j].pc = pc], requests' = requests,
             CacheInv(cache'), jobs[j].state # "none",
             JobOK([jobs[j] EXCEPT !.state = s, !.pc = pc], cache'.res[j]),
             \A k \in Job \ {j} : cache'.res[k] = cache.res[k]
      PROVE  IInv'
  <2> DEFINE r == [jobs[j] EXCEPT !.state = s, !.pc = pc]
  <2>1. r \in JobRecords /\ r.req = jobs[j].req /\ r.state = s /\ s # "none"
    BY <1>1, <1>3 DEF JobRecords, Ended
  <2>2. jobs' = [jobs EXCEPT ![j] = r]
    BY <1>1, <1>3
  <2>3. JobOK(r, cache'.res[j])
    BY <1>3
  <2> HIDE DEF r
  <2> QED
    BY <1>3, <2>1, <2>2, <2>3, OneJobStep
<1>3a. ASSUME NEW pc \in {"boundaries", "complete"}, NEW n \in Nat,
              jobs' = [jobs EXCEPT ![j].pc = pc, ![j].left = n], requests' = requests,
              CacheInv(cache'), jobs[j].state = "RUNNING", ~(cache'.res[j] > 0),
              pc = "boundaries" => "all" \in Exports /\ n \in 1..(Len(ChainOf[jobs[j].req]) - 1),
              \A k \in Job \ {j} : cache'.res[k] = cache.res[k]
       PROVE  IInv'
  <2> DEFINE r == [jobs[j] EXCEPT !.pc = pc, !.left = n]
  <2>1. /\ r \in JobRecords /\ r.req = jobs[j].req /\ r.state = "RUNNING" /\ r.pc = pc
        /\ r.left = n /\ r.cancelled = jobs[j].cancelled /\ r.acked = jobs[j].acked
    BY <1>1, <1>3a DEF JobRecords, Pcs
  <2>2. jobs' = [jobs EXCEPT ![j] = r]
    BY <1>1, <1>3a
  <2> HIDE DEF r
  <2>3. JobOK(r, cache'.res[j])
    BY <1>1, <1>3a, <2>1 DEF JobOK
  <2> QED
    BY <1>3a, <2>1, <2>2, <2>3, OneJobStep
<1>4. CASE PickUp(j)
  <2>1. JobOK([jobs[j] EXCEPT !.pc = "picked"], cache.res[j]) /\ jobs[j].state # "none"
    BY <1>1, <1>4 DEF PickUp, At, JobOK, JobRecords
  <2> QED
    BY <1>1, <1>2, <1>4, <2>1 DEF PickUp, Step, Pcs
<1>5. CASE Begin(j)
  <2>1. CASE jobs[j].cancelled
    <3>1. cache' = Release(cache, j)
      BY <1>5, <2>1 DEF Begin
    <3>2. CacheInv(cache') /\ cache'.res = [cache.res EXCEPT ![j] = 0]
      BY <1>1, <3>1, ReleaseFacts, Zenon
    <3>3. cache'.res[j] = 0 /\ \A k \in Job \ {j} : cache'.res[k] = cache.res[k]
      BY <1>1, <3>2
    <3>4. JobOK([jobs[j] EXCEPT !.state = "CANCELLED", !.pc = "over"], cache'.res[j])
             /\ jobs[j].state # "none"
      BY <1>1, <1>5, <3>3 DEF Begin, At, JobOK, JobRecords, Ended
    <3>5. jobs' = [jobs EXCEPT ![j].state = "CANCELLED", ![j].pc = "over"] /\ requests' = requests
      BY <1>5, <2>1 DEF Begin
    <3> QED
      BY <1>3, <3>2, <3>3, <3>4, <3>5 DEF Pcs, Ended
  <2>2. CASE ~jobs[j].cancelled
    <3>1. /\ jobs' = [jobs EXCEPT ![j].state = "RUNNING", ![j].pc = "reserve"]
          /\ requests' = requests /\ cache' = cache
      BY <1>5, <2>2 DEF Begin
    <3>2. JobOK([jobs[j] EXCEPT !.state = "RUNNING", !.pc = "reserve"], cache.res[j])
             /\ jobs[j].state # "none"
      BY <1>1, <1>5 DEF Begin, At, JobOK, JobRecords, Ended
    <3> QED
      BY <1>1, <1>3, <3>1, <3>2 DEF Pcs
  <2> QED
    BY <2>1, <2>2
<1>6. CASE ReserveCapacity(j)
  <2>1. jobs[j].req \in Request /\ jobs[j].state = "RUNNING" /\ jobs[j].pc = "reserve"
    BY <1>1, <1>6 DEF ReserveCapacity, At, JobOK
  <2>2. Estimate[jobs[j].req] \in Nat
    BY <2>1, RequestAssumption
  <2>3. cache' = Reserve(cache, j, Estimate[jobs[j].req]) /\ requests' = requests
    BY <1>6 DEF ReserveCapacity
  <2>4. CacheInv(cache') /\ cache'.res \in {cache.res, [cache.res EXCEPT ![j] = Estimate[jobs[j].req]]}
    <3> DEFINE n == Estimate[jobs[j].req]
    <3> HIDE DEF n
    <3>1. LET w == Reserve(cache, j, n) IN CacheInv(w) /\ w.res \in {cache.res, [cache.res EXCEPT ![j] = n]}
      BY <1>1, <2>2, ReserveFacts DEF n
    <3> QED
      BY <2>3, <3>1 DEF n
  <2>5. \A k \in Job \ {j} : cache'.res[k] = cache.res[k]
    BY <1>1, <2>4
  <2>6. CASE cache'.res[j] > 0
    <3>1. jobs' = [jobs EXCEPT ![j].pc = "compute"]
      BY <1>6, <2>6 DEF ReserveCapacity, Step
    <3>2. JobOK([jobs[j] EXCEPT !.pc = "compute"], cache'.res[j])
      BY <1>1, <2>1 DEF JobOK, JobRecords
    <3> QED
      BY <1>2, <2>1, <2>3, <2>4, <2>5, <3>1, <3>2 DEF Pcs
  <2>7. CASE ~(cache'.res[j] > 0)
    <3>1. jobs' = [jobs EXCEPT ![j].state = "FAILED", ![j].pc = "finally"]
      BY <1>6, <2>7 DEF ReserveCapacity, End
    <3>2. JobOK([jobs[j] EXCEPT !.state = "FAILED", !.pc = "finally"], cache'.res[j])
      BY <1>1, <2>1 DEF JobOK, JobRecords
    <3> QED
      BY <1>3, <2>1, <2>3, <2>4, <2>5, <3>1, <3>2 DEF Pcs, Ended
  <2> QED
    BY <2>6, <2>7
<1>7. ASSUME jobs[j].pc \in {"compute", "publish", "boundaries", "complete"}, NEW s \in Ended, End(j, s),
             jobs[j].cancelled => s # "COMPLETED", requests' = requests, CacheInv(cache'),
             cache'.res = cache.res
      PROVE  IInv'
  <2>1. JobOK([jobs[j] EXCEPT !.state = s, !.pc = "finally"], cache'.res[j]) /\ jobs[j].state # "none"
    BY <1>1, <1>7 DEF JobOK, JobRecords, Ended
  <2> QED
    BY <1>3, <1>7, <2>1 DEF End, Pcs
<1>8. CASE compute_prefill(j)
  <2>1. jobs[j].pc = "compute" /\ requests' = requests /\ cache' = cache
    BY <1>8 DEF compute_prefill, At
  <2>2. CASE jobs[j].cancelled
    BY <1>1, <1>7, <1>8, <2>1, <2>2 DEF compute_prefill, Ended
  <2>3. CASE ~jobs[j].cancelled
    <3>1. JobOK([jobs[j] EXCEPT !.pc = "publish"], cache.res[j]) /\ jobs[j].state # "none"
      BY <1>1, <2>1 DEF JobOK, JobRecords
    <3>2. jobs' = [jobs EXCEPT ![j].pc = "publish"]
      BY <1>8, <2>3 DEF compute_prefill, Step
    <3> QED
      BY <1>1, <1>2, <2>1, <3>1, <3>2 DEF Pcs
  <2> QED
    BY <2>2, <2>3
<1>9. CASE EngineFails(j)
  BY <1>1, <1>7, <1>9 DEF EngineFails, At, Ended
<1>10. CASE Publish(j)
  <2> DEFINE f == Final(j)
  <2>1. jobs[j].pc = "publish" /\ jobs[j].state = "RUNNING" /\ requests' = requests
    BY <1>1, <1>10 DEF Publish, At, JobOK
  <2>2. f \in Hash
    BY <2>1, FinalIsAHash
  <2>3. PICK p \in Payload :
          IF Size[f] > cache.res[j] THEN End(j, "FAILED") /\ UNCHANGED cache
          ELSE IF ~Publishable(cache, j, f) \/ Collides(Cleared(cache, f), f, p)
          THEN End(j, "FAILED") /\ cache' = Cleared(cache, f)
          ELSE /\ cache' = PublishAndLease(cache, j, f, p)
               /\ \/ /\ "final" \in Exports \/ Len(Chain(j)) = 1
                     /\ Step(j, "complete")
                  \/ /\ "all" \in Exports /\ Len(Chain(j)) > 1
                     /\ jobs' = [jobs EXCEPT ![j].pc = "boundaries", ![j].left = Len(Chain(j)) - 1]
    BY <1>10 DEF Publish
  <2> HIDE DEF f
  <2>4. CASE Size[f] > cache.res[j]
    BY <1>1, <1>7, <2>1, <2>3, <2>4 DEF Ended
  <2>5. CASE /\ ~(Size[f] > cache.res[j])
             /\ ~Publishable(cache, j, f) \/ Collides(Cleared(cache, f), f, p)
    <3>1. End(j, "FAILED") /\ cache' = Cleared(cache, f)
      BY <2>3, <2>5
    <3>2. CacheInv(cache') /\ cache'.res = cache.res
      BY <1>1, <2>2, <3>1, ClearedFacts
    <3> QED
      BY <1>7, <2>1, <3>1, <3>2 DEF Ended
  <2>6. CASE /\ ~(Size[f] > cache.res[j])
             /\ ~(~Publishable(cache, j, f) \/ Collides(Cleared(cache, f), f, p))
    <3>1. /\ cache' = PublishAndLease(cache, j, f, p)
          /\ \/ Step(j, "complete")
             \/ /\ "all" \in Exports /\ Len(Chain(j)) > 1
                /\ jobs' = [jobs EXCEPT ![j].pc = "boundaries", ![j].left = Len(Chain(j)) - 1]
      BY <2>3, <2>6
    <3>2. Publishable(cache, j, f) /\ ~Collides(Cleared(cache, f), f, p)
      BY <2>6
    <3>3. CacheInv(cache') /\ cache'.res = [cache.res EXCEPT ![j] = 0]
      BY <1>1, <2>2, <3>1, <3>2, PublishFacts
    <3>4. cache'.res[j] = 0 /\ \A k \in Job \ {j} : cache'.res[k] = cache.res[k]
      BY <1>1, <3>3
    <3>5. CASE Step(j, "complete")
      <4>1. JobOK([jobs[j] EXCEPT !.pc = "complete"], cache'.res[j])
        BY <1>1, <2>1, <3>4 DEF JobOK, JobRecords
      <4> QED
        BY <1>2, <2>1, <3>3, <3>4, <3>5, <4>1 DEF Step, Pcs
    <3>6. CASE /\ "all" \in Exports /\ Len(Chain(j)) > 1
               /\ jobs' = [jobs EXCEPT ![j].pc = "boundaries", ![j].left = Len(Chain(j)) - 1]
      <4> DEFINE n == Len(Chain(j))
      <4>1. n \in Nat /\ n > 1 /\ Chain(j) = ChainOf[jobs[j].req]
        BY <2>1, <3>6, ChainIsHashes DEF Chain
      <4> DEFINE m == n - 1
      <4>2. m \in Nat /\ m \in 1..(Len(ChainOf[jobs[j].req]) - 1)
        BY <4>1
      <4>3. jobs' = [jobs EXCEPT ![j].pc = "boundaries", ![j].left = m] /\ "all" \in Exports
        BY <3>6
      <4> HIDE DEF m
      <4>4. ~(cache'.res[j] > 0)
        BY <3>4
      <4> QED
        BY <1>3a, <2>1, <3>3, <3>4, <4>2, <4>3, <4>4
    <3> QED
      BY <3>1, <3>5, <3>6
  <2> QED
    BY <2>4, <2>5, <2>6
<1>10a. CASE Boundary(j)
  <2> DEFINE h == Chain(j)[jobs[j].left]
             n == jobs[j].left - 1
             pc == IF jobs[j].left = 1 THEN "complete" ELSE "boundaries"
  <2>1. /\ jobs[j].pc = "boundaries" /\ jobs[j].state = "RUNNING" /\ requests' = requests
        /\ "all" \in Exports /\ jobs[j].left \in 1..(Len(ChainOf[jobs[j].req]) - 1)
        /\ ~(cache.res[j] > 0)
    BY <1>1, <1>10a DEF Boundary, At, JobOK
  <2>2. Chain(j) \in Seq(Hash) /\ Chain(j) = ChainOf[jobs[j].req]
    BY <2>1, ChainIsHashes DEF Chain
  <2>3. h \in Hash
    BY <2>1, <2>2
  <2>4. PICK p \in Payload :
          IF Size[h] + cache.used <= cache.max /\ Collides(cache, h, p)
          THEN End(j, "FAILED") /\ UNCHANGED cache
          ELSE /\ cache' = KeepBoundary(cache, h, p)
               /\ jobs' = [jobs EXCEPT ![j].left = @ - 1,
                                       ![j].pc = IF jobs[j].left = 1 THEN "complete" ELSE @]
    BY <1>10a DEF Boundary
  <2> HIDE DEF h
  <2>5. CASE Size[h] + cache.used <= cache.max /\ Collides(cache, h, p)
    <3>1. End(j, "FAILED") /\ cache' = cache
      BY <2>4, <2>5
    <3> QED
      BY <1>1, <1>7, <2>1, <3>1 DEF Ended
  <2>6. CASE ~(Size[h] + cache.used <= cache.max /\ Collides(cache, h, p))
    <3>1. cache' = KeepBoundary(cache, h, p)
      BY <2>4, <2>6
    <3>2. OneWriter => Reserved(cache) = 0
      BY <2>1, NothingReserved DEF At
    <3>3. CacheInv(cache') /\ cache'.res = cache.res
      BY <1>1, <2>3, <2>6, <3>1, <3>2, KeepBoundaryFacts
    <3>4. jobs' = [jobs EXCEPT ![j].pc = pc, ![j].left = n]
      <4>1. jobs' = [jobs EXCEPT ![j].left = @ - 1,
                                 ![j].pc = IF jobs[j].left = 1 THEN "complete" ELSE @]
        BY <2>4, <2>6
      <4> QED
        BY <1>1, <2>1, <4>1 DEF JobRecords
    <3>5. n \in Nat /\ pc \in {"boundaries", "complete"}
          /\ (pc = "boundaries" => n \in 1..(Len(ChainOf[jobs[j].req]) - 1))
      BY <2>1, <2>2
    <3> HIDE DEF n, pc
    <3> QED
      BY <1>3a, <2>1, <3>3, <3>4, <3>5
  <2> QED
    BY <2>5, <2>6
<1>11. CASE Complete(j)
  <2>1. PICK s \in Ended : End(j, s) /\ (jobs[j].cancelled => s # "COMPLETED")
    BY <1>11 DEF Complete, Ended
  <2> QED
    BY <1>1, <1>7, <1>11, <2>1 DEF Complete, At
<1>12. CASE Finally(j)
  <2>1. cache' = Release(cache, j) /\ jobs' = [jobs EXCEPT ![j].pc = "over"] /\ requests' = requests
    BY <1>12 DEF Finally, Step
  <2>2. CacheInv(cache') /\ cache'.res = [cache.res EXCEPT ![j] = 0]
    BY <1>1, <2>1, ReleaseFacts, Zenon
  <2>3. cache'.res[j] = 0 /\ \A k \in Job \ {j} : cache'.res[k] = cache.res[k]
    BY <1>1, <2>2
  <2>4. JobOK([jobs[j] EXCEPT !.pc = "over"], cache'.res[j]) /\ jobs[j].state # "none"
    BY <1>1, <1>12, <2>3 DEF Finally, At, JobOK, JobRecords
  <2> QED
    BY <1>2, <2>1, <2>2, <2>3, <2>4 DEF Pcs
<1>13. CASE DeadlinePasses(j)
  <2> DEFINE r == [jobs[j] EXCEPT !.cancelled = TRUE]
  <2>1. jobs[j].state = "RUNNING" /\ cache' = cache /\ requests' = requests
    BY <1>13 DEF DeadlinePasses
  <2>2. jobs' = [jobs EXCEPT ![j] = r]
    BY <1>1, <1>13 DEF DeadlinePasses
  <2>3. /\ r \in JobRecords /\ r.req = jobs[j].req /\ r.state = jobs[j].state /\ r.pc = jobs[j].pc
        /\ r.cancelled = TRUE /\ r.acked = jobs[j].acked /\ r.left = jobs[j].left
    BY <1>1 DEF JobRecords
  <2> HIDE DEF r
  <2>4. JobOK(r, cache'.res[j])
    BY <1>1, <2>1, <2>3 DEF JobOK
  <2> QED
    BY <1>1, <2>1, <2>2, <2>3, <2>4, OneJobStep
<1> QED
  BY <1>4, <1>5, <1>6, <1>8, <1>9, <1>10, <1>10a, <1>11, <1>12, <1>13 DEF Run


\* The empty store and the empty tables.
LEMMA InitIInv == Init => IInv
<1> SUFFICES ASSUME Init PROVE IInv
  OBVIOUS
<1>1. /\ cache.max = MaxBytes /\ cache.lru = <<>> /\ cache.content = [h \in Hash |-> None]
      /\ cache.used = 0 /\ cache.res = [j \in Job |-> 0] /\ cache.leases = [l \in LeaseIds |-> NoLease]
  BY DEF Init, CacheInit
<1>2. cache \in CacheStates
  BY BudgetAssumption DEF Init, CacheInit, CacheStates, NoLease
<1>3. Blocks(cache) = {}
  BY <1>1 DEF Blocks, Entries
<1>4. Bytes({}) = 0
  <2>1. IsFiniteSet({}) /\ \A x \in {} : Size[x] = 0
    BY FS_EmptySet
  <2> QED
    BY <2>1, TotalZero, BytesIsTotal
<1>5. Consistent(cache)
  BY <1>1, <1>3, <1>4 DEF Consistent, Distinct
<1>6. LeasesHold(cache)
  BY <1>1 DEF LeasesHold, NoLease
<1>7. Reserved(cache) = 0
  <2>1. \A j \in Job : cache.res[j] = 0
    BY <1>1
  <2> QED
    BY <2>1, TotalZero, JobAssumption, ReservedIsTotal
<1>8. WithinBudget(cache)
  BY <1>1, <1>7, BudgetAssumption DEF WithinBudget
<1>9. NoJob \in JobRecords
  BY DEF JobRecords, NoJob, Pcs
<1>10. jobs \in [Job -> JobRecords] /\ requests \in [Request -> Job \cup {None}]
  BY <1>9 DEF Init
<1>11. \A j \in Job : JobOK(jobs[j], cache.res[j])
  BY <1>1 DEF Init, JobOK, NoJob
<1>12. KeysAreKnown /\ RequestsFindTheirJobs
  BY DEF Init, KeysAreKnown, RequestsFindTheirJobs, Known, NoJob
<1> QED
  BY <1>2, <1>5, <1>6, <1>8, <1>10, <1>11, <1>12 DEF CacheInv, IInv

\* IInv is inductive, given that a single thread runs alone.
LEMMA StepIInv == IInv /\ Serial /\ [Next]_vars => IInv'
<1> SUFFICES ASSUME IInv, Serial, [Next]_vars PROVE IInv'
  OBVIOUS
<1>1. CASE submit
  BY <1>1, SubmitStep
<1>2. CASE Resubmit
  <2>1. PICK gone \in SUBSET Job : /\ Collected(gone) /\ jobs' = JobsAfter(gone)
                                   /\ requests' = RequestsAfter(gone) /\ UNCHANGED cache
    BY <1>2 DEF Resubmit
  <2> QED
    BY <2>1, CollectionStep DEF Collected
<1>3. CASE get
  <2>1. PICK gone \in SUBSET Job : /\ Collected(gone) /\ jobs' = JobsAfter(gone)
                                   /\ requests' = RequestsAfter(gone) /\ UNCHANGED cache
    BY <1>3 DEF get
  <2> QED
    BY <2>1, CollectionStep DEF Collected
<1>4. CASE cancel
  BY <1>4, CancelStep
<1>5. CASE \E j \in Job : Run(j) \/ DeadlinePasses(j)
  BY <1>5, ThreadStep
<1>6. CASE Unlocked /\ CacheCalls /\ UNCHANGED <<jobs, requests, queue>>
  <2>1. CacheInv(cache) /\ CacheCalls /\ jobs' = jobs /\ requests' = requests
    BY <1>6 DEF IInv
  <2>2. CacheInv(cache') /\ cache'.res = cache.res
    BY <2>1, CacheCallsKeep
  <2>3. \A j \in Job : JobOK(jobs'[j], cache'.res[j])
    BY <2>1, <2>2, Zenon DEF IInv
  <2>4. KeysAreKnown' /\ RequestsFindTheirJobs'
    BY <2>1 DEF IInv, KeysAreKnown, RequestsFindTheirJobs, Known
  <2> QED
    BY <2>1, <2>2, <2>3, <2>4 DEF IInv
<1>7. CASE UNCHANGED vars
  <2>1. cache' = cache /\ jobs' = jobs /\ requests' = requests
    BY <1>7 DEF vars
  <2>2. CacheInv(cache') /\ \A j \in Job : JobOK(jobs'[j], cache'.res[j])
    BY <2>1, Zenon DEF IInv
  <2>3. KeysAreKnown' /\ RequestsFindTheirJobs'
    BY <2>1 DEF IInv, KeysAreKnown, RequestsFindTheirJobs, Known
  <2> QED
    BY <2>1, <2>2, <2>3 DEF IInv
<1> QED
  BY <1>1, <1>2, <1>3, <1>4, <1>5, <1>6, <1>7 DEF Next

\* Only PickUp puts a job on a thread, and it waits for a free one.
LEMMA StepSerial == IInv /\ Serial /\ [Next]_vars => Serial'
<1> SUFFICES ASSUME IInv, Serial, [Next]_vars PROVE Serial'
  OBVIOUS
<1>0. jobs \in [Job -> JobRecords] /\ queue \in Seq(Job)
  BY DEF IInv, Serial
<1>1. ASSUME queue' \in Seq(Job), \A k \in Job : k \in Busy' => k \in Busy PROVE Serial'
  BY <1>1 DEF Serial, Busy
<1>3. CASE submit
  <2>1. PICK q \in Request, gone \in SUBSET Job, j \in Job :
          /\ jobs' = [JobsAfter(gone) EXCEPT ![j] = [NoJob EXCEPT
                        !.state = "QUEUED", !.pc = "queued", !.req = q]]
          /\ queue' = Append(queue, j)
    BY <1>3 DEF submit
  <2>2. \A k \in Job : jobs'[k].pc = IF k = j THEN "queued"
                                     ELSE IF k \in gone THEN "none" ELSE jobs[k].pc
    BY <1>0, <2>1 DEF JobsAfter, NoJob
  <2>3. queue' \in Seq(Job)
    BY <1>0, <2>1
  <2> QED
    BY <1>1, <2>2, <2>3 DEF Busy
<1>4. ASSUME NEW gone \in SUBSET Job, jobs' = JobsAfter(gone), queue' = queue PROVE Serial'
  <2>1. \A k \in Job : jobs'[k].pc = IF k \in gone THEN "none" ELSE jobs[k].pc
    BY <1>0, <1>4 DEF JobsAfter, NoJob
  <2> QED
    BY <1>0, <1>1, <1>4, <2>1 DEF Busy
<1>5. CASE Resubmit \/ get
  BY <1>4, <1>5 DEF Resubmit, get
<1>6. CASE cancel
  <2>1. PICK gone \in SUBSET Job : \E j \in Known \ gone :
          LET told == [jobs[j] EXCEPT !.cancelled = TRUE, !.acked = TRUE]
              queued == jobs[j].pc = "queued"
          IN /\ jobs' = [JobsAfter(gone) EXCEPT ![j] =
                           IF queued THEN [told EXCEPT !.state = "CANCELLED", !.pc = "over"]
                           ELSE told]
             /\ queue' = IF queued THEN Dropping(queue, {j}) ELSE queue
    BY <1>6 DEF cancel
  <2>2. PICK j \in Known \ gone :
          LET told == [jobs[j] EXCEPT !.cancelled = TRUE, !.acked = TRUE]
              queued == jobs[j].pc = "queued"
          IN /\ jobs' = [JobsAfter(gone) EXCEPT ![j] =
                           IF queued THEN [told EXCEPT !.state = "CANCELLED", !.pc = "over"]
                           ELSE told]
             /\ queue' = IF queued THEN Dropping(queue, {j}) ELSE queue
    BY <2>1
  <2>3. j \in Job
    BY DEF Known
  <2>4. \A k \in Job : jobs'[k].pc = IF k = j /\ jobs[j].pc = "queued" THEN "over"
                                     ELSE IF k \in gone THEN "none" ELSE jobs[k].pc
    <3> DEFINE told == [jobs[j] EXCEPT !.cancelled = TRUE, !.acked = TRUE]
               r == IF jobs[j].pc = "queued" THEN [told EXCEPT !.state = "CANCELLED", !.pc = "over"]
                    ELSE told
    <3>1. jobs' = [JobsAfter(gone) EXCEPT ![j] = r]
      BY <2>2
    <3>2. r.pc = IF jobs[j].pc = "queued" THEN "over" ELSE jobs[j].pc
      BY <1>0, <2>3 DEF JobRecords
    <3> HIDE DEF r
    <3> QED
      BY <1>0, <2>3, <3>1, <3>2 DEF JobsAfter, NoJob
  <2>5. queue' \in Seq(Job)
    <3>1. Dropping(queue, {j}) \in Seq(Job)
      BY <1>0, DroppingEntries
    <3> QED
      BY <1>0, <2>2, <3>1
  <2> QED
    BY <1>1, <2>4, <2>5 DEF Busy
<1>7. ASSUME NEW j \in Job, PickUp(j) PROVE Serial'
  <2>1. /\ Cardinality(Busy) < Workers /\ queue # <<>> /\ queue' = Tail(queue)
        /\ jobs' = [jobs EXCEPT ![j].pc = "picked"]
    BY <1>7 DEF PickUp, Step
  <2>2. queue' \in Seq(Job)
    BY <1>0, <2>1
  <2>3. Workers = 1 => Busy = {}
    <3>1. IsFiniteSet(Busy)
      BY JobAssumption, FS_Subset DEF Busy
    <3>2. Cardinality(Busy) \in Nat /\ (Cardinality(Busy) = 0 <=> Busy = {})
      BY <3>1, FS_EmptySet, FS_CardinalityType
    <3> QED
      BY <2>1, <3>2
  <2>4. \A k \in Job : k # j => jobs'[k] = jobs[k]
    BY <1>0, <2>1
  <2>5. Workers = 1 => \A k \in Job : k \in Busy' => k = j
    BY <2>3, <2>4 DEF Busy
  <2> QED
    BY <2>2, <2>5 DEF Serial, Busy
<1>8. ASSUME NEW j \in Job, j \in Busy, queue' = queue, \A k \in Job : k # j => jobs'[k] = jobs[k]
      PROVE  Serial'
  BY <1>0, <1>1, <1>8 DEF Busy
<1>9. ASSUME NEW j \in Job, Run(j) \/ DeadlinePasses(j), ~PickUp(j) PROVE Serial'
  <2>1. queue' = queue
    BY <1>9 DEF Run, Begin, ReserveCapacity, compute_prefill, EngineFails, Publish, Boundary,
                Complete, Finally, DeadlinePasses
  <2>2. \A k \in Job : k # j => jobs'[k] = jobs[k]
    <3>1. \E r : jobs' = [jobs EXCEPT ![j] = r]
      BY <1>9 DEF Run, Begin, ReserveCapacity, compute_prefill, EngineFails, Publish, Boundary,
                  Complete, Finally, DeadlinePasses, Step, End
    <3> QED
      BY <1>0, <3>1
  <2>3. j \in Busy
    <3>1. CASE DeadlinePasses(j)
      BY <3>1 DEF DeadlinePasses, IInv, JobOK, Busy
    <3>2. CASE ~DeadlinePasses(j)
      BY <1>9, <3>2 DEF Run, Begin, ReserveCapacity, compute_prefill, EngineFails, Publish,
                        Boundary, Complete, Finally, At, Busy
    <3> QED
      BY <3>1, <3>2
  <2> QED
    BY <1>8, <2>1, <2>2, <2>3
<1>10. CASE UNCHANGED vars \/ (Unlocked /\ CacheCalls /\ UNCHANGED <<jobs, requests, queue>>)
  BY <1>0, <1>1, <1>10 DEF vars, Busy
<1> QED
  BY <1>3, <1>5, <1>6, <1>7, <1>9, <1>10 DEF Next

\* The inductive invariant holds throughout.
LEMMA IInvHolds == Spec => [](IInv /\ Serial)
<1>1. Init => Serial
  BY DEF Init, Serial, Busy, NoJob
<1> QED
  BY <1>1, InitIInv, StepIInv, StepSerial, PTL DEF Spec

-----------------------------------------------------------------------------
(* The properties of the run.                                                *)

\* Every variable has its type: the byte counter never goes below zero, and
\* the order, the table and the leases speak of known hashes only.
THEOREM TypeCorrect == Spec => []TypeOK
<1>1. IInv /\ Serial => TypeOK
  BY DEF IInv, Serial, CacheInv, CacheStates, TypeOK, JobRecords
<1> QED
  BY <1>1, IInvHolds, PTL

\* The byte counter of the store is what its blocks weigh, each block stands
\* once in the order, and the total is within the budget, after any put,
\* eviction, publication, resize or invalidation.
THEOREM BytesAreAccounted == Spec => []BytesAccounted
<1>1. IInv => BytesAccounted
  <2> SUFFICES ASSUME IInv PROVE BytesAccounted
    OBVIOUS
  <2>1. /\ cache \in CacheStates /\ Consistent(cache) /\ WithinBudget(cache)
        /\ cache.lru \in Seq(Hash) /\ cache.used \in Nat /\ cache.max \in Nat
    BY DEF IInv, CacheInv, CacheStates
  <2>2. Cardinality(Blocks(cache)) = Len(cache.lru)
    BY <2>1, DistinctLength DEF Consistent, Blocks
  <2>3. cache.used <= cache.max
    BY <2>1, ReservedFacts DEF WithinBudget
  <2> QED
    BY <2>1, <2>2, <2>3 DEF BytesAccounted, Consistent
<1> QED
  BY <1>1, IInvHolds, PTL

\* A lease that is live finds its block: neither a publish, a reservation, a
\* shrink nor a job's own publication evicts it.
THEOREM LeasesKeepTheirBlocks == Spec => []LeasedBlocksPresent
<1>1. IInv => LeasedBlocksPresent
  BY DEF IInv, CacheInv, LeasesHold, LeasedBlocksPresent
<1> QED
  BY <1>1, IInvHolds, PTL

\* Stored bytes and reserved bytes fit the budget together, for any sequence of
\* reservations, puts, resizes and kept boundaries, when jobs run one at a time
\* or no engine returns boundaries.
THEOREM ReservationsAreHonoured == Spec => [](OneWriter => ReservationsHonoured)
<1>1. IInv => (OneWriter => ReservationsHonoured)
  BY DEF IInv, CacheInv, WithinBudget, ReservationsHonoured
<1> QED
  BY <1>1, IInvHolds, PTL

\* An acknowledged cancel is never followed by COMPLETED, wherever the job's
\* thread was when it arrived.
THEOREM CancelsAreFinal == Spec => []CancelIsFinal
<1>1. IInv => CancelIsFinal
  BY DEF IInv, JobOK, CancelIsFinal, Known
<1> QED
  BY <1>1, IInvHolds, PTL

\* A job that has ended, or not begun, holds none of the cache's bytes.
THEOREM ReservationsDoNotLeak == Spec => []NoLeakedReservation
<1>1. IInv => NoLeakedReservation
  BY DEF IInv, JobOK, NoLeakedReservation
<1> QED
  BY <1>1, IInvHolds, PTL

\* "Capacity failures are rejected before Prefill starts": once a job computed
\* a snapshot within its reservation, publishing finds room for it.
ReservedJobsPublish ==
  \A j \in Job : At(j, "publish") /\ Size[Final(j)] <= cache.res[j]
                    => Publishable(cache, j, Final(j))

\* A job that computed a snapshot within its reservation finds room to publish
\* it, whatever peers published, leased or resized while it computed, when jobs
\* run one at a time or no engine returns boundaries.
THEOREM ReservationIsEnough == Spec => [](OneWriter => ReservedJobsPublish)
<1>1. IInv => (OneWriter => ReservedJobsPublish)
  <2> SUFFICES ASSUME IInv, OneWriter, NEW j \in Job, At(j, "publish"),
                      Size[Final(j)] <= cache.res[j]
               PROVE  Publishable(cache, j, Final(j))
    BY DEF ReservedJobsPublish
  <2>1. jobs[j].state # "none" /\ CacheInv(cache)
    BY DEF IInv, JobOK, At
  <2>2. Final(j) \in Hash
    BY <2>1, FinalIsAHash
  <2> QED
    BY <2>1, <2>2, ReservationSuffices
<1> QED
  BY <1>1, IInvHolds, PTL

\* A retried submission always finds the job of its key, and every job in the
\* table is found by its key: two jobs never compute for one request.
THEOREM RetriesFindTheirJob == Spec => []RequestsFindTheirJobs
<1>1. IInv => RequestsFindTheirJobs
  BY DEF IInv
<1> QED
  BY <1>1, IInvHolds, PTL
==============================================================================
