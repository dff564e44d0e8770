-------------------------- MODULE PrefillHookProofs --------------------------
(* The safety properties of PrefillHook, for any prompts, payloads, leases,   *)
(* sessions and store.  Of the store only the types of its contents matter:   *)
(* whatever it answers, the hook must end up with the right prefix.           *)
EXTENDS PrefillHook, CollectionTheorems

\* The store's record with typed contents.
Stores(st) ==
  /\ st = [max |-> st.max, lru |-> st.lru, content |-> st.content, used |-> st.used,
           res |-> st.res, leases |-> st.leases]
  /\ st.content \in [Hash -> Payload \cup {None}]

-----------------------------------------------------------------------------
(* The store's methods.                                                      *)

\* Replacing fields other than the contents.
LEMMA FieldsKept ==
  ASSUME NEW st, Stores(st), NEW x
  PROVE  /\ Stores([st EXCEPT !.leases = x]) /\ Stores([st EXCEPT !.lru = x])
BY DEF Stores

\* Dropping blocks keeps the types.
LEMMA DropTyped ==
  ASSUME NEW st, Stores(st), NEW S
  PROVE  Stores(Drop(st, S))
<1> DEFINE l == Dropping(st.lru, S)
           c == [h \in Hash |-> IF h \in S THEN None ELSE st.content[h]]
           u == st.used - Bytes(S \cap Blocks(st))
<1>1. Drop(st, S) = [st EXCEPT !.lru = l, !.content = c, !.used = u]
  BY DEF Drop, Stores
<1>2. c \in [Hash -> Payload \cup {None}]
  BY DEF Stores
<1> HIDE DEF l, c, u
<1> QED
  BY <1>1, <1>2 DEF Stores

\* So does an eviction, which is one.
LEMMA EvictTyped ==
  ASSUME NEW st, Stores(st), NEW limit
  PROVE  Stores(Evict(st, limit))
<1>1. Evict(st, limit) = Drop(st, Victims(st, limit))
  BY DEF Evict
<1> HIDE DEF Evict
<1> QED
  BY <1>1, DropTyped

\* A lookup's expiry and its move to the warm end.
LEMMA LookupTyped ==
  ASSUME NEW st, Stores(st)
  PROVE  /\ Stores(Expire(st)) /\ Expire(st).content = st.content
         /\ \A h : Stores(MoveToEnd(st, h))
<1>1. Stores(Expire(st)) /\ Expire(st).content = st.content
  BY DEF Expire, Stores
<1>2. ASSUME NEW h PROVE Stores(MoveToEnd(st, h))
  <2> DEFINE q == Append(Dropping(st.lru, {h}), h)
  <2>1. MoveToEnd(st, h) = [st EXCEPT !.lru = q]
    BY DEF MoveToEnd
  <2> HIDE DEF q
  <2>2. Stores([st EXCEPT !.lru = q])
    BY DEF Stores
  <2> HIDE DEF MoveToEnd
  <2> QED
    BY ONLY <2>1, <2>2
<1> QED
  BY <1>1, <1>2

\* Storing a payload under a hash.
LEMMA PutTyped ==
  ASSUME NEW st, Stores(st), NEW h \in Hash, NEW p \in Payload
  PROVE  Stores(Put(st, h, p))
<1> DEFINE ex == Expire(st)
           room == st.max - Reserved(st)
           w == PutLocked(ex, h, p)
<1>1. Stores(ex) /\ Stores(MoveToEnd(ex, h))
  <2>1. Stores(ex)
    BY LookupTyped
  <2> HIDE DEF ex
  <2> QED
    BY <2>1, LookupTyped
<1>2. Put(st, h, p) \in {st, ex, MoveToEnd(ex, h), Evict(w, room)}
  BY DEF Put
<1> HIDE DEF ex, room
<1>3. Stores(w)
  <2> DEFINE q == Append(ex.lru, h)
             u == ex.used + Size[h]
             c == [ex.content EXCEPT ![h] = p]
  <2>1. w = MoveToEnd(ex, h) \/ w = [ex EXCEPT !.lru = q, !.content = c, !.used = u]
    BY <1>1 DEF PutLocked, Stores
  <2>2. c \in [Hash -> Payload \cup {None}]
    BY <1>1 DEF Stores
  <2> HIDE DEF q, u, c, w
  <2> QED
    BY <1>1, <2>1, <2>2 DEF Stores
<1> HIDE DEF w
<1>4. Stores(Evict(w, room))
  BY <1>3, EvictTyped
<1> QED
  BY <1>1, <1>2, <1>4

\* A hit is one of the chain's blocks.
LEMMA HitInChain ==
  ASSUME NEW st, NEW chain \in Seq(Hash), Hit(st, chain) # None
  PROVE  \E i \in 1..Len(chain) : chain[i] = Hit(st, chain)
<1> DEFINE present == {i \in 1..Len(chain) : st.content[chain[i]] # None}
           far == {k \in Nat : \E i \in present : k = Len(chain) - i}
<1>1. present # {} /\ Hit(st, chain) = chain[Max(present)]
  BY DEF Hit
<1>2. far # {} /\ far \in SUBSET Nat
  <2>1. PICK i \in present : TRUE
    BY <1>1
  <2>2. Len(chain) - i \in Nat
    OBVIOUS
  <2> QED
    BY <2>1, <2>2
<1>3. PICK k \in far : \A m \in far : k <= m
  <2> HIDE DEF far
  <2> QED
    BY <1>2, LeastNatural
<1>4. PICK i \in present : k = Len(chain) - i
  OBVIOUS
<1>5. \A m \in present : i >= m
  <2> SUFFICES ASSUME NEW m \in present PROVE i >= m
    OBVIOUS
  <2>1. Len(chain) - m \in far
    OBVIOUS
  <2>2. k <= Len(chain) - m
    BY <1>3, <2>1
  <2> QED
    BY <1>4, <2>2
<1> HIDE DEF present, far
<1>6. Max(present) \in present
  BY <1>4, <1>5 DEF Max
<1> QED
  BY <1>1, <1>6 DEF present

-----------------------------------------------------------------------------
(* The calls.                                                                *)

CallRecords == [pc : HookPcs, hit : HitType, reused : Nat, kv : Int]

\* What prepare knows of the verifier at each of its places: reused blocks are
\* in it once the computation goes on from them, and it never holds a rejected
\* import.  Under the decode-only policy a hit covers the whole prompt.
CallOK(c, r) ==
  /\ r \in CallRecords /\ r.reused \in 0..Whole(c) /\ r.kv \in 0..Whole(c)
  /\ r.pc \in {"start", "fetch", "peers", "import", "remote"} => r.reused = 0
  /\ r.pc = "fetch" => r.hit.src = "local" /\ r.hit.blocks \in 1..Whole(c) /\ r.hit.lease \in Lease
  /\ r.pc = "peers" => r.hit = NoHit \/ r.hit.blocks \in 1..Whole(c)
  /\ r.pc = "import" => r.hit.blocks \in 1..Whole(c) /\ (mode.remote => r.hit.blocks = Whole(c))
  /\ r.pc = "compute" => r.reused = 0 \/ r.kv = r.reused
  /\ r.pc = "publish" => ~mode.remote /\ r.reused # 0 /\ r.kv = r.reused
  /\ r.pc = "done" => r.kv = Whole(c)
  /\ mode.remote => r.kv \in {0, Whole(c)}

HookInv == /\ Stores(cache) /\ mode \in [remote : BOOLEAN, proxy : BOOLEAN] /\ faults \in 0..MaxFaults
           /\ calls \in [Call -> CallRecords]
           /\ \A c \in Call : CallOK(c, calls[c])


\* A step of one call keeps the invariant when the store keeps its types and
\* the call's own record is right.
LEMMA OneCallStep ==
  ASSUME HookInv, NEW c \in Call, NEW r \in CallRecords, CallOK(c, r),
         calls' = [calls EXCEPT ![c] = r], mode' = mode, faults' = faults, Stores(cache')
  PROVE  HookInv'
<1>1. calls \in [Call -> CallRecords] /\ calls' \in [Call -> CallRecords]
  BY DEF HookInv
<1>2. \A d \in Call : calls'[d] = IF d = c THEN r ELSE calls[d]
  BY <1>1
<1>3. \A d \in Call : CallOK(d, calls'[d])
  BY <1>2, Zenon DEF HookInv
<1>4. \A d \in Call : CallOK(d, calls[d])'
  BY <1>3 DEF CallOK, Whole, CallRecords, HitType, HookPcs, NoHit
<1> QED
  BY <1>1, <1>4 DEF HookInv

\* Moving on with another hit.
LEMMA GoWithStep ==
  ASSUME HookInv, NEW c \in Call, NEW pc \in HookPcs, NEW hit \in HitType, GoWith(c, pc, hit),
         CallOK(c, [calls[c] EXCEPT !.pc = pc, !.hit = hit]),
         mode' = mode, faults' = faults, Stores(cache')
  PROVE  HookInv'
<1> DEFINE r == [calls[c] EXCEPT !.pc = pc, !.hit = hit]
<1>1. calls \in [Call -> CallRecords]
  BY DEF HookInv
<1>2. r \in CallRecords /\ calls' = [calls EXCEPT ![c] = r]
  BY <1>1 DEF GoWith, CallRecords
<1>3. CallOK(c, r)
  OBVIOUS
<1> HIDE DEF r
<1> QED
  BY <1>2, <1>3, OneCallStep

\* Prompts are chains of at least one block.
LEMMA PromptFacts ==
  ASSUME NEW c \in Call
  PROVE  Prompt[c] \in Seq(Hash) /\ Whole(c) \in Nat \ {0} /\ \A i \in 1..Whole(c) : Prompt[c][i] \in Hash
BY PromptAssumption, HashAssumption DEF Whole

\* NoHit is a hit of no source.
LEMMA NoHitFacts ==
  /\ NoHit \in HitType /\ NoHit.blocks = 0 /\ NoHit.src = "none" /\ NoHit.lease = None
BY DEF NoHit, HitType

\* The steps of prepare.
LEMMA PrepareStep ==
  ASSUME HookInv, NEW c \in Call, Prepare(c)
  PROVE  HookInv'
<1> DEFINE r == calls[c]
           W == Whole(c)
<1>1. /\ Stores(cache) /\ mode \in [remote : BOOLEAN, proxy : BOOLEAN]
      /\ calls \in [Call -> CallRecords] /\ r \in CallRecords /\ CallOK(c, r)
  BY DEF HookInv
<1>2. /\ W \in Nat \ {0} /\ Prompt[c] \in Seq(Hash) /\ \A i \in 1..W : Prompt[c][i] \in Hash
  BY PromptFacts
<1>3. r.pc \in HookPcs /\ r.hit \in HitType /\ r.reused \in 0..W /\ r.kv \in 0..W
  BY <1>1 DEF CallOK, CallRecords
<1>4. ASSUME Fail(c), r.pc # "done", mode' = mode, faults' = faults, Stores(cache')
      PROVE  HookInv'
  <2>1. CallOK(c, [r EXCEPT !.pc = "failed", !.hit = NoHit])
    BY <1>1, <1>2, <1>3, NoHitFacts DEF CallOK, CallRecords, HookPcs
  <2> QED
    BY <1>4, <2>1, NoHitFacts, GoWithStep DEF Fail, HookPcs
<1>5. CASE LookupLocal(c)
  <2> DEFINE ex == Expire(cache)
             h == Hit(ex, Prompt[c])
  <2>1. Stores(ex) /\ mode' = mode /\ faults' = faults /\ r.pc = "start"
    BY <1>1, <1>5, LookupTyped DEF LookupLocal, At
  <2>2. CASE h = None
    <3>1. cache' = ex /\ GoWith(c, "peers", NoHit)
      BY <1>5, <2>2 DEF LookupLocal
    <3>2. CallOK(c, [r EXCEPT !.pc = "peers", !.hit = NoHit])
      BY <1>1, <1>2, <1>3, <2>1, NoHitFacts DEF CallOK, CallRecords, HookPcs
    <3> QED
      BY <2>1, <3>1, <3>2, NoHitFacts, GoWithStep DEF HookPcs
  <2>3. CASE h # None
    <3> DEFINE n == CHOOSE i \in 1..W : Prompt[c][i] = h
               m == MoveToEnd(ex, h)
    <3>1. PICK l \in Lease :
            /\ cache' = [m EXCEPT !.leases[l] = [h |-> h, live |-> TRUE]]
            /\ GoWith(c, "fetch", [NoHit EXCEPT !.src = "local", !.lease = l, !.blocks = n])
      BY <1>5, <2>3 DEF LookupLocal
    <3>2. n \in 1..W
      <4>1. \E i \in 1..W : Prompt[c][i] = h
        BY <1>2, <2>3, HitInChain DEF Whole
      <4> HIDE DEF h
      <4> QED
        BY <4>1
    <3>3. Stores(m)
      <4> HIDE DEF ex, h
      <4> QED
        BY <2>1, LookupTyped
    <3> HIDE DEF n, h, m
    <3> DEFINE g == [NoHit EXCEPT !.src = "local", !.lease = l, !.blocks = n]
               ls == [m.leases EXCEPT ![l] = [h |-> h, live |-> TRUE]]
    <3>4. cache' = [m EXCEPT !.leases = ls]
      BY <3>1, <3>3 DEF Stores
    <3>5. g \in HitType /\ g.src = "local" /\ g.lease = l /\ g.blocks = n
      <4>1. n \in Nat
        BY <1>2, <3>2
      <4> QED
        BY <4>1, NoHitFacts DEF HitType
    <3>6. GoWith(c, "fetch", g)
      BY <3>1
    <3> HIDE DEF g, ls
    <3>7. Stores(cache')
      BY <3>3, <3>4, FieldsKept
    <3>8. CallOK(c, [r EXCEPT !.pc = "fetch", !.hit = g])
      BY <1>1, <1>2, <1>3, <2>1, <3>2, <3>5 DEF CallOK, CallRecords, HookPcs
    <3> QED
      BY <2>1, <3>5, <3>6, <3>7, <3>8, GoWithStep DEF HookPcs
  <2> QED
    BY <2>2, <2>3
<1>6. CASE FetchLocal(c)
  <2> DEFINE h == Prompt[c][r.hit.blocks]
             g == [r.hit EXCEPT !.load = cache'.content[h], !.lease = None]
  <2>1. /\ cache' = Expire(cache) /\ mode' = mode /\ faults' = faults /\ r.pc = "fetch"
        /\ (GoWith(c, "peers", g) \/ Fail(c))
    BY <1>6 DEF FetchLocal, At
  <2>2. Stores(cache') /\ r.hit.blocks \in 1..W
    BY <1>1, <2>1, LookupTyped DEF CallOK
  <2>3. cache'.content[h] \in Payload \cup {None}
    BY <1>2, <2>2 DEF Stores
  <2>4. g \in HitType /\ g.blocks = r.hit.blocks
    BY <1>3, <2>3 DEF HitType
  <2> HIDE DEF g
  <2>5. CASE GoWith(c, "peers", g)
    <3>1. CallOK(c, [r EXCEPT !.pc = "peers", !.hit = g])
      BY <1>1, <1>2, <1>3, <2>1, <2>2, <2>4 DEF CallOK, CallRecords, HookPcs
    <3> QED
      BY <2>1, <2>2, <2>4, <2>5, <3>1, GoWithStep DEF HookPcs
  <2>6. CASE Fail(c)
    BY <1>4, <2>1, <2>2, <2>6
  <2> QED
    BY <2>1, <2>5, <2>6
<1>7. CASE LookupPeers(c)
  <2>1. r.pc = "peers" /\ cache' = cache /\ mode' = mode /\ faults' = faults
    BY <1>7 DEF LookupPeers, At
  <2>2. PICK n \in 0..W, p \in Payload, wins \in BOOLEAN :
          LET peer == IF n = 0 THEN NoHit ELSE [NoHit EXCEPT !.src = "peer", !.blocks = n, !.load = p]
              hit == Accepted(c, Best(c, peer, wins))
          IN GoWith(c, IF hit = NoHit THEN "remote" ELSE "import", hit)
    BY <1>7 DEF LookupPeers
  <2> DEFINE peer == IF n = 0 THEN NoHit ELSE [NoHit EXCEPT !.src = "peer", !.blocks = n, !.load = p]
             best == Best(c, peer, wins)
             hit == Accepted(c, best)
  <2>3. peer \in HitType /\ (peer = NoHit \/ peer.blocks \in 1..W)
    <3>1. n # 0 => peer = [src |-> "peer", blocks |-> n, load |-> p, lease |-> None]
      BY DEF NoHit
    <3>2. n # 0 => n \in 1..W /\ n \in Nat
      BY <1>2
    <3>3. n = 0 => peer = NoHit
      OBVIOUS
    <3> HIDE DEF peer
    <3> QED
      BY <3>1, <3>2, <3>3, NoHitFacts DEF HitType
  <2>4. r.hit = NoHit \/ r.hit.blocks \in 1..W
    BY <1>1, <2>1 DEF CallOK
  <2> HIDE DEF peer
  <2>5. best \in {peer, r.hit}
    BY DEF Best
  <2> HIDE DEF best
  <2>6. hit \in {NoHit, best} /\ (mode.remote /\ hit # NoHit => hit.blocks = W)
    BY DEF Accepted
  <2>7. GoWith(c, IF hit = NoHit THEN "remote" ELSE "import", hit)
    BY <2>2 DEF peer, best
  <2> HIDE DEF hit
  <2>8. hit \in HitType /\ (hit # NoHit => hit.blocks \in 1..W)
    BY <1>3, <2>3, <2>4, <2>5, <2>6, NoHitFacts
  <2>9. CASE hit = NoHit
    <3>1. CallOK(c, [r EXCEPT !.pc = "remote", !.hit = hit])
      BY <1>1, <1>2, <1>3, <2>1, <2>8 DEF CallOK, CallRecords, HookPcs
    <3> QED
      BY <1>1, <2>1, <2>7, <2>8, <2>9, <3>1, GoWithStep DEF HookPcs
  <2>10. CASE hit # NoHit
    <3>1. CallOK(c, [r EXCEPT !.pc = "import", !.hit = hit])
      BY <1>1, <1>2, <1>3, <2>1, <2>6, <2>8, <2>10 DEF CallOK, CallRecords, HookPcs
    <3> QED
      BY <1>1, <2>1, <2>7, <2>8, <2>10, <3>1, GoWithStep DEF HookPcs
  <2> QED
    BY <2>9, <2>10
<1>8. CASE Import(c)
  <2> DEFINE hit == r.hit
             h == Prompt[c][hit.blocks]
             ok == Acceptable(hit.load)
             reused == IF ok THEN hit.blocks ELSE 0
             kv == IF hit.load \in Valid THEN reused ELSE IF ok THEN Mangled ELSE 0
             pc == AfterImport(c, reused)
             g == [pc |-> pc, hit |-> NoHit, reused |-> reused, kv |-> kv]
  <2>1. /\ r.pc = "import" /\ mode' = mode /\ faults' = faults
        /\ cache' = IF ok THEN Promoted(hit, h) ELSE AfterRejection(hit, h)
        /\ calls' = [calls EXCEPT ![c] = g]
    BY <1>8 DEF Import, At
  <2>2. hit.blocks \in 1..W /\ (mode.remote => hit.blocks = W) /\ h \in Hash
    BY <1>1, <1>2, <2>1 DEF CallOK
  <2>3. kv = reused /\ reused \in {0, hit.blocks}
    BY DEF Acceptable
  <2>4. Stores(cache')
    <3>1. CASE ok
      <4>1. hit.load \in Payload
        BY <3>1, PayloadAssumption DEF Acceptable
      <4>2. Stores(Put(cache, h, hit.load))
        BY <1>1, <2>2, <4>1, PutTyped
      <4>3. cache' \in {cache, Put(cache, h, hit.load)}
        BY <2>1, <3>1 DEF Promoted
      <4> QED
        BY <1>1, <4>2, <4>3
    <3>2. CASE ~ok
      <4> DEFINE S == {h}
                 ls == [l \in LeaseIds |-> IF cache.leases[l].h = h THEN NoLease ELSE cache.leases[l]]
      <4>1. cache' = cache \/ cache' = [Drop(cache, S) EXCEPT !.leases = ls]
        BY <2>1, <3>2 DEF AfterRejection
      <4> HIDE DEF S, ls
      <4>2. Stores(Drop(cache, S))
        BY <1>1, DropTyped
      <4>3. Stores([Drop(cache, S) EXCEPT !.leases = ls])
        BY <4>2, FieldsKept
      <4> QED
        BY <1>1, <4>1, <4>3
    <3> QED
      BY <3>1, <3>2
  <2>5. pc \in {"compute", "remote"} /\ (pc = "remote" => reused = 0)
    BY DEF AfterImport
  <2> HIDE DEF reused, kv, pc
  <2>6. g \in CallRecords /\ g.pc = pc /\ g.reused = reused /\ g.kv = reused /\ g.hit = NoHit
    BY <2>2, <2>3, <2>5, NoHitFacts DEF CallRecords, HookPcs
  <2> HIDE DEF g
  <2>7. CallOK(c, g)
    BY <1>2, <2>2, <2>3, <2>5, <2>6 DEF CallOK
  <2> QED
    BY <2>1, <2>4, <2>6, <2>7, OneCallStep
<1>9. CASE JobCompletes(c)
  <2>1. r.pc = "remote" /\ cache' = cache /\ mode' = mode /\ faults' = faults
    BY <1>9 DEF JobCompletes, At
  <2>2. PICK p \in Payload :
          GoWith(c, "import", [NoHit EXCEPT !.src = "job", !.blocks = Whole(c), !.load = p])
    BY <1>9 DEF JobCompletes
  <2> DEFINE g == [NoHit EXCEPT !.src = "job", !.blocks = W, !.load = p]
  <2>3. g \in HitType /\ g.blocks = W /\ W \in 1..W
    <3>1. W \in Nat /\ W \in 1..W
      BY <1>2
    <3> HIDE DEF W
    <3> QED
      BY <3>1, NoHitFacts DEF HitType
  <2>4. GoWith(c, "import", g)
    BY <2>2
  <2> HIDE DEF g
  <2>5. CallOK(c, [r EXCEPT !.pc = "import", !.hit = g])
    BY <1>1, <1>2, <1>3, <2>1, <2>3 DEF CallOK, CallRecords, HookPcs
  <2> QED
    BY <1>1, <2>1, <2>3, <2>4, <2>5, GoWithStep DEF HookPcs
<1>10. ASSUME NEW pc \in HookPcs, NEW kv \in 0..W, NEW reused \in 0..W,
              calls' = [calls EXCEPT ![c] = [pc |-> pc, hit |-> r.hit, reused |-> reused, kv |-> kv]],
              CallOK(c, [pc |-> pc, hit |-> r.hit, reused |-> reused, kv |-> kv]),
              mode' = mode, faults' = faults, Stores(cache')
       PROVE  HookInv'
  <2> DEFINE g == [pc |-> pc, hit |-> r.hit, reused |-> reused, kv |-> kv]
  <2>1. g \in CallRecords
    BY <1>2, <1>3, <1>10 DEF CallRecords
  <2> QED
    BY <1>10, <2>1, OneCallStep
<1>11. ASSUME NEW pc \in HookPcs, Go(c, pc)
       PROVE  calls' = [calls EXCEPT ![c] = [pc |-> pc, hit |-> r.hit, reused |-> r.reused, kv |-> r.kv]]
  <2>1. [r EXCEPT !.pc = pc] = [pc |-> pc, hit |-> r.hit, reused |-> r.reused, kv |-> r.kv]
    BY <1>1 DEF CallRecords
  <2>2. calls' = [calls EXCEPT ![c] = [r EXCEPT !.pc = pc]]
    BY <1>1, <1>11 DEF Go
  <2> QED
    BY <2>1, <2>2
<1>12. CASE NoRemoteJob(c)
  <2>1. r.pc = "remote" /\ cache' = cache /\ mode' = mode /\ faults' = faults /\ Go(c, "compute")
    BY <1>12 DEF NoRemoteJob, At
  <2>2. CallOK(c, [pc |-> "compute", hit |-> r.hit, reused |-> r.reused, kv |-> r.kv])
    BY <1>1, <1>2, <1>3, <2>1 DEF CallOK, CallRecords, HookPcs
  <2> QED
    BY <1>1, <1>3, <1>10, <1>11, <2>1, <2>2 DEF HookPcs
<1>13. CASE Refuse(c)
  <2>1. r.pc = "compute" /\ cache' = cache /\ mode' = mode /\ faults' = faults
    BY <1>13 DEF Refuse, At
  <2> DEFINE g == [r EXCEPT !.pc = "refused", !.kv = 0]
  <2>2. calls' = [calls EXCEPT ![c] = g]
    BY <1>1, <1>13 DEF Refuse
  <2>3. g \in CallRecords /\ g.pc = "refused" /\ g.kv = 0 /\ g.reused = r.reused
    <3>1. "refused" \in HookPcs /\ 0 \in Int
      BY DEF HookPcs
    <3> HIDE DEF r
    <3> QED
      BY <1>1, <3>1 DEF CallRecords
  <2> HIDE DEF g
  <2>4. CallOK(c, g)
    BY <1>2, <1>3, <2>3 DEF CallOK
  <2> QED
    BY <1>1, <2>1, <2>2, <2>3, <2>4, OneCallStep
<1>14. CASE ComputeBlock(c)
  <2> DEFINE k == IF r.reused = 0 THEN 1 ELSE IF r.kv = Mangled THEN r.kv ELSE r.kv + 1
             pc == IF mode.proxy THEN "compute" ELSE "publish"
             n == r.reused + 1
  <2>1. r.pc = "compute" /\ cache' = cache /\ mode' = mode /\ faults' = faults
    BY <1>14 DEF ComputeBlock, At
  <2>2. ~mode.remote /\ r.reused < W
    BY <1>1, <1>3, <1>14 DEF ComputeBlock, Refused
  <2>3. calls' = [calls EXCEPT ![c] = [pc |-> pc, hit |-> r.hit, reused |-> n, kv |-> k]]
    BY <1>1, <1>14 DEF ComputeBlock, CallRecords
  <2>4. n \in 1..W /\ k = n
    BY <1>1, <1>2, <1>3, <2>1, <2>2 DEF CallOK, Mangled
  <2>5. pc \in {"compute", "publish"}
    OBVIOUS
  <2> HIDE DEF n, k, pc
  <2>6. CallOK(c, [pc |-> pc, hit |-> r.hit, reused |-> n, kv |-> k])
    BY <1>2, <1>3, <2>2, <2>4, <2>5 DEF CallOK, CallRecords, HookPcs
  <2> QED
    <3>1. n \in 0..W /\ k \in 0..W /\ pc \in HookPcs
      BY <1>2, <2>4, <2>5 DEF HookPcs
    <3> QED
      BY <1>1, <1>10, <2>1, <2>3, <2>6, <3>1
<1>15. CASE PublishBoundary(c)
  <2> DEFINE h == Prompt[c][r.reused]
  <2>1. /\ r.pc = "publish" /\ cache' = Put(cache, h, Ours) /\ mode' = mode /\ faults' = faults
        /\ Go(c, "compute") \/ Fail(c)
    BY <1>15 DEF PublishBoundary, At
  <2>2. r.reused \in 1..W /\ r.kv = r.reused /\ ~mode.remote /\ h \in Hash
    BY <1>1, <1>2, <1>3, <2>1 DEF CallOK
  <2>3. Stores(cache')
    BY <1>1, <2>1, <2>2, PutTyped, PayloadAssumption
  <2>4. CASE Go(c, "compute")
    <3>1. CallOK(c, [pc |-> "compute", hit |-> r.hit, reused |-> r.reused, kv |-> r.kv])
      BY <1>2, <1>3, <2>2 DEF CallOK, CallRecords, HookPcs
    <3> QED
      BY <1>3, <1>10, <1>11, <2>1, <2>3, <2>4, <3>1 DEF HookPcs
  <2>5. CASE Fail(c)
    BY <1>4, <2>1, <2>3, <2>5
  <2> QED
    BY <2>1, <2>4, <2>5
<1>16. CASE Return(c)
  <2>1. /\ r.pc = "compute" /\ cache' = cache /\ mode' = mode /\ faults' = faults /\ Go(c, "done")
        /\ r.reused = W
    BY <1>16 DEF Return, At
  <2>2. r.kv = W
    BY <1>1, <1>2, <2>1 DEF CallOK
  <2>3. CallOK(c, [pc |-> "done", hit |-> r.hit, reused |-> r.reused, kv |-> r.kv])
    BY <1>2, <1>3, <2>2 DEF CallOK, CallRecords, HookPcs
  <2> QED
    BY <1>1, <1>3, <1>10, <1>11, <2>1, <2>3 DEF HookPcs
<1> QED
  BY <1>5, <1>6, <1>7, <1>8, <1>9, <1>12, <1>13, <1>14, <1>15, <1>16 DEF Prepare

\* A retry starts over on the verifier as it is.
LEMMA RetryStep ==
  ASSUME HookInv, NEW c \in Call, Retry(c)
  PROVE  HookInv'
<1> DEFINE g == [calls[c] EXCEPT !.pc = "start", !.reused = 0]
<1>1. calls \in [Call -> CallRecords] /\ calls[c] \in CallRecords /\ CallOK(c, calls[c]) /\ Stores(cache)
  BY DEF HookInv
<1>2. calls' = [calls EXCEPT ![c] = g] /\ cache' = cache /\ mode' = mode /\ faults' = faults
  BY <1>1 DEF Retry
<1>3. g \in CallRecords /\ g.pc = "start" /\ g.reused = 0 /\ g.kv = calls[c].kv
  BY <1>1 DEF CallRecords, HookPcs
<1> HIDE DEF g
<1>4. CallOK(c, g)
  BY <1>1, <1>3, PromptFacts DEF CallOK
<1> QED
  BY <1>1, <1>2, <1>3, <1>4, OneCallStep

\* What happens around the calls changes the store alone.
LEMMA OutsideStep ==
  ASSUME HookInv, calls' = calls, mode' = mode, faults' \in 0..MaxFaults, Stores(cache')
  PROVE  HookInv'
<1>1. \A d \in Call : CallOK(d, calls[d])
  BY DEF HookInv
<1>2. \A d \in Call : CallOK(d, calls[d])'
  BY <1>1 DEF CallOK, Whole, CallRecords, HitType, HookPcs, NoHit
<1> QED
  BY <1>2 DEF HookInv

\* The empty store and calls that have not begun.
LEMMA InitHookInv == Init => HookInv
<1> SUFFICES ASSUME Init PROVE HookInv
  OBVIOUS
<1>1. Stores(cache)
  BY DEF Init, CacheInit, Stores
<1>2. [pc |-> "start", hit |-> NoHit, reused |-> 0, kv |-> 0] \in CallRecords
  BY NoHitFacts DEF CallRecords, HookPcs
<1>3. calls \in [Call -> CallRecords] /\ faults \in 0..MaxFaults
  BY <1>2, PayloadAssumption DEF Init
<1>4. \A c \in Call : CallOK(c, calls[c])
  <2> SUFFICES ASSUME NEW c \in Call PROVE CallOK(c, calls[c])
    OBVIOUS
  <2>1. Whole(c) \in Nat
    BY PromptFacts
  <2> QED
    BY <1>2, <1>3, <2>1 DEF Init, CallOK
<1> QED
  BY <1>1, <1>3, <1>4 DEF HookInv, Init

\* HookInv is inductive.
LEMMA StepHookInv == HookInv /\ [Next]_vars => HookInv'
<1> SUFFICES ASSUME HookInv, [Next]_vars PROVE HookInv'
  OBVIOUS
<1>0. Stores(cache) /\ faults \in 0..MaxFaults /\ MaxFaults \in Nat
  BY PayloadAssumption DEF HookInv
<1>1. CASE \E c \in Call : Prepare(c) \/ Retry(c)
  BY <1>1, PrepareStep, RetryStep
<1>2. ASSUME NEW l \in Lease, cache' = [cache EXCEPT !.leases[l].live = FALSE]
      PROVE  Stores(cache')
  <2> DEFINE ls == [cache.leases EXCEPT ![l].live = FALSE]
  <2>1. cache' = [cache EXCEPT !.leases = ls]
    BY <1>0, <1>2 DEF Stores
  <2> HIDE DEF ls
  <2> QED
    BY <1>0, <2>1, FieldsKept
<1>3. CASE \E l \in Lease : Expiry(l) \/ EarlyExpiry(l)
  <2>1. PICK l \in Lease : Expiry(l) \/ EarlyExpiry(l)
    BY <1>3
  <2>2. /\ cache' = [cache EXCEPT !.leases[l].live = FALSE] /\ calls' = calls /\ mode' = mode
        /\ faults' \in 0..MaxFaults
    BY <1>0, <2>1 DEF Expiry, EarlyExpiry
  <2>3. Stores(cache')
    BY <1>2, <2>2
  <2> QED
    BY <2>2, <2>3, OutsideStep
<1>4. CASE PeerPublishes
  <2>1. calls' = calls /\ mode' = mode /\ faults' \in 0..MaxFaults
    BY <1>0, <1>4 DEF PeerPublishes
  <2>2. PICK h \in Hash, p \in Payload : cache' = Put(cache, h, p)
    BY <1>4 DEF PeerPublishes, PublishBlock
  <2>3. Stores(cache')
    BY <1>0, <2>2, PutTyped
  <2> QED
    BY <2>1, <2>3, OutsideStep
<1>5. CASE UNCHANGED vars
  <2>1. cache' = cache /\ calls' = calls /\ mode' = mode /\ faults' = faults
    BY <1>5 DEF vars
  <2>2. Stores(cache') /\ faults' \in 0..MaxFaults
    BY <1>0, <2>1
  <2> QED
    BY <2>1, <2>2, OutsideStep
<1> QED
  BY <1>1, <1>3, <1>4, <1>5 DEF Next

\* The inductive invariant holds throughout.
LEMMA HookInvHolds == Spec => []HookInv
BY InitHookInv, StepHookInv, PTL DEF Spec

-----------------------------------------------------------------------------
(* The properties of the run.                                                *)

\* Every variable has its type: reused and cached blocks never exceed the
\* prompt.
THEOREM HookTypeCorrect == Spec => []HookTypeOK
<1>1. HookInv => HookTypeOK
  BY DEF HookInv, CallOK, CallRecords, Stores, HookTypeOK
<1> QED
  BY <1>1, HookInvHolds, PTL

\* "A corrupt/expired/unreachable hit must never determine request
\* correctness": a first append that returns leaves exactly its prompt in the
\* verifier, whatever the store, peers and jobs answered, for any interleaving
\* of calls, expiries, invalidations and retries.
THEOREM PrefillIsExact == Spec => []PrefilledExactly
<1>1. HookInv => PrefilledExactly
  BY DEF HookInv, CallOK, PrefilledExactly, At
<1> QED
  BY <1>1, HookInvHolds, PTL

\* Under require_remote_compute the primary computes no prompt token: its
\* verifier holds nothing or a complete imported prefix.
THEOREM PrimaryOnlyDecodes == Spec => []DecodeOnlyPrimary
<1>1. HookInv => DecodeOnlyPrimary
  BY DEF HookInv, CallOK, DecodeOnlyPrimary
<1> QED
  BY <1>1, HookInvHolds, PTL
==============================================================================
