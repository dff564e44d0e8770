----------------------------- MODULE PrefixCache -----------------------------
(* PrefixCacheStore (inference_engine/distributed/prefill_cache.py) and the   *)
(* RPCs that reach it: a byte-budgeted LRU of immutable K/V snapshots, with   *)
(* leases that pin a snapshot for a fetch and reservations that set bytes     *)
(* aside for a prefill job.  Every method holds the store's lock, so each is  *)
(* one step; what interleaves is the calls of peers, jobs and the clock.      *)
EXTENDS Integers, Sequences, FiniteSets, FiniteSetsExt, Subsequences

CONSTANTS Hash,       \* chained block hashes
          Payload,    \* payloads that may be published under a hash
          None,       \* no block, no lease
          Lease,      \* leases handed out by lookups at one time (a bound)
          Job,        \* prefill jobs: reservation ids, and their leases
          Chains,     \* chained hashes of the prompts looked up
          Size,       \* payload bytes of the snapshot with a given hash
          MaxBytes,   \* initial budget
          Budgets     \* budgets the adaptive resize asks for

ASSUME HashAssumption == /\ Chains \subseteq Seq(Hash) \ {<<>>}
                         /\ Size \in [Hash -> Nat \ {0}]
                         /\ None \notin Hash \cup Payload \cup Job
ASSUME JobAssumption == IsFiniteSet(Job)
ASSUME BudgetAssumption == MaxBytes \in Nat \ {0} /\ Budgets \subseteq Nat \ {0}

VARIABLE cache  \* max_bytes, _blocks in LRU order with their contents,
                \* _bytes_used, _reservations and _leases

NoLease == [h |-> None, live |-> FALSE]
LeaseIds == Lease \cup Job

Bytes(S) == MapThenSumSet(LAMBDA h : Size[h], S)
Reserved(st) == MapThenSumSet(LAMBDA j : st.res[j], Job)
Blocks(st) == Entries(st.lru)

-----------------------------------------------------------------------------
(* Internals.                                                                *)

\* _expire_leases: leases whose time is up are dropped.
Expire(st) == [st EXCEPT !.leases = [l \in LeaseIds |->
                 IF st.leases[l].live THEN st.leases[l] ELSE NoLease]]

\* _pinned_hashes: every recorded lease pins, even one past its expiry.
Pinned(st) == {st.leases[l].h : l \in LeaseIds} \ {None}

Drop(st, S) ==
  [st EXCEPT !.lru = Dropping(st.lru, S),
             !.content = [h \in Hash |-> IF h \in S THEN None ELSE st.content[h]],
             !.used = @ - Bytes(S \cap Blocks(st))]

\* Seeded bug: the victim scan ignores leases.
EvictIgnoresLeases(st, limit) ==
  LET over == {k \in 0..Len(st.lru) : st.used - Bytes({st.lru[i] : i \in 1..k}) <= limit}
      n == IF over = {} THEN Len(st.lru) ELSE Min(over)
  IN Drop(st, {st.lru[i] : i \in 1..n})

\* _evict_to_limit: the coldest unpinned blocks, until the rest fits.  (TLC
\* would evaluate st at each of its uses; a bound variable it evaluates once.)
Coldest(st, k) == {st.lru[i] : i \in 1..k} \ Pinned(st)
Victims(st, limit) ==
  LET fits == {k \in 0..Len(st.lru) : st.used - Bytes(Coldest(st, k)) <= limit}
  IN Coldest(st, IF fits = {} THEN Len(st.lru) ELSE Min(fits))
Evict(st, limit) == CHOOSE ev \in {Drop(s, Victims(s, limit)) : s \in {st}} : TRUE

MoveToEnd(st, h) ==
  [st EXCEPT !.lru = Append(Dropping(st.lru, {h}), h)]

Collides(st, h, p) == st.content[h] \notin {None, p}

\* Seeded bug: a repeated publish of a block is charged again.
PutLockedCharges(st, h, p) ==
  [MoveToEnd(st, h) EXCEPT !.content[h] = p, !.used = @ + Size[h]]

\* _put_locked, when the content address does not collide.
PutLocked(st, h, p) ==
  IF st.content[h] = p THEN MoveToEnd(st, h)
  ELSE [st EXCEPT !.lru = Append(@, h), !.content[h] = p, !.used = @ + Size[h]]

\* Seeded bug: put takes its limit from the whole budget.
PutOverReservations(st, h, p) ==
  IF Size[h] > st.max THEN st
  ELSE LET ex == Expire(st) IN
       IF Collides(ex, h, p) THEN ex ELSE Evict(PutLocked(ex, h, p), st.max)

\* put: what is reserved is not available; the new block is unpinned, so it is
\* itself evicted when leases hold the rest.
Put(st, h, p) ==
  LET available == st.max - Reserved(st)
      ex == Expire(st)
  IN IF Size[h] > available THEN st
     ELSE IF Collides(ex, h, p) THEN ex
     ELSE IF ex.content[h] = p THEN MoveToEnd(ex, h)
     ELSE Evict(PutLocked(ex, h, p), available)

\* lookup: the longest boundary of the chain that is present.
Hit(st, chain) ==
  LET present == {i \in 1..Len(chain) : st.content[chain[i]] # None}
  IN IF present = {} THEN None ELSE chain[Max(present)]

-----------------------------------------------------------------------------
(* Reservations of prefill jobs.                                             *)

\* Bytes left for stored blocks once n more are reserved.
Room(st, n) == st.max - (Reserved(st) + n)

\* reserve: evict for the new total first, and refuse when leases are in the
\* way; the evictions stay.
Reserve(st, j, n) ==
  IF Room(st, n) < 0 THEN st
  ELSE LET ev == Evict(Expire(st), Room(st, n))
       IN IF ev.used > Room(st, n) THEN ev ELSE [ev EXCEPT !.res[j] = n]

Release(st, j) == [st EXCEPT !.res[j] = 0]

\* The capacity test of publish_and_lease after its evictions.
Cleared(st, h) == Evict(Expire(st), st.max - Size[h])
Publishable(st, j, h) == Size[h] <= st.res[j] /\ Cleared(st, h).used <= st.max - Size[h]

\* publish_and_lease up to the release of the reservation: the final snapshot
\* is stored and pinned.  The loop over the earlier boundaries that follows is
\* KeepBoundary, block by block.
PublishAndLease(st, j, h, p) ==
  [PutLocked(Cleared(st, h), h, p) EXCEPT !.leases[j] = [h |-> h, live |-> TRUE], !.res[j] = 0]

\* One turn of that loop, for a block that does not collide: kept if it fits
\* beside what is stored.  What other jobs reserved is not looked at.
KeepBoundary(st, h, p) ==
  IF Size[h] + st.used > st.max THEN st ELSE PutLocked(st, h, p)

-----------------------------------------------------------------------------
(* Calls of peers and of the node itself.                                    *)

PublishBlock == \E h \in Hash, p \in Payload : cache' = Put(cache, h, p)

LookupPrefix ==
  \E chain \in Chains, l \in Lease :
    LET ex == Expire(cache)
        h == Hit(ex, chain)
    IN /\ ex.leases[l] = NoLease
       /\ cache' = IF h = None THEN ex
                   ELSE [MoveToEnd(ex, h) EXCEPT !.leases[l] = [h |-> h, live |-> TRUE]]

\* fetch reads the leased block; the lease stays until it expires.
FetchBlocks == cache' = Expire(cache)

LeaseTimesOut == \E l \in LeaseIds : /\ cache.leases[l].live
                                     /\ cache' = [cache EXCEPT !.leases[l].live = FALSE]

\* resize: a refused shrink restores the old budget, not the evicted blocks.
resize ==
  \E n \in Budgets :
    /\ n >= Reserved(cache)
    /\ LET ev == Evict([cache EXCEPT !.max = n], n - Reserved(cache)) IN
       cache' = IF ev.used <= n - Reserved(cache) THEN ev
                ELSE [ev EXCEPT !.max = Max({cache.max, ev.used})]

\* Seeded bug: an invalidated block is discounted twice.
InvalidateTwice ==
  \E h \in Blocks(cache) :
    cache' = [Drop(cache, {h}) EXCEPT !.used = @ - Size[h], !.leases = [l \in LeaseIds |->
                IF cache.leases[l].h = h THEN NoLease ELSE cache.leases[l]]]

invalidate ==
  \E h \in Blocks(cache) :
    cache' = [Drop(cache, {h}) EXCEPT !.leases = [l \in LeaseIds |->
                IF cache.leases[l].h = h THEN NoLease ELSE cache.leases[l]]]

CacheInit == cache = [max |-> MaxBytes, lru |-> <<>>, content |-> [h \in Hash |-> None],
                      used |-> 0, res |-> [j \in Job |-> 0],
                      leases |-> [l \in LeaseIds |-> NoLease]]

CacheCalls == \/ PublishBlock \/ LookupPrefix \/ FetchBlocks \/ LeaseTimesOut
              \/ resize \/ invalidate

-----------------------------------------------------------------------------
\* The byte counter is what the stored blocks weigh, and within the budget,
\* through every path that adds, evicts, replaces or refuses a block.
BytesAccounted ==
  /\ Cardinality(Blocks(cache)) = Len(cache.lru)
  /\ Blocks(cache) = {h \in Hash : cache.content[h] # None}
  /\ cache.used = Bytes(Blocks(cache)) /\ cache.used <= cache.max

\* A lease that has not expired still finds its block: no publish, reserve or
\* shrink evicts it, so fetch never meets "leased block was evicted".
LeasedBlocksPresent ==
  \A l \in LeaseIds : cache.leases[l].live => cache.content[cache.leases[l].h] # None

\* What is stored and what is set aside for running jobs fit the budget, with
\* one executor thread (or with engines that return final snapshots only): a
\* second job's boundaries would be kept in the first one's reserved room.
ReservationsHonoured == cache.used + Reserved(cache) <= cache.max
=============================================================================
