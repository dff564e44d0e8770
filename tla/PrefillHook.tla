----------------------------- MODULE PrefillHook -----------------------------
(* DistributedPrefillCacheHook (inference_engine/distributed/                 *)
(* prefill_cache_runtime.py): the first append of a session restores the      *)
(* longest prefix it finds in the node's own store, at a peer or by a remote  *)
(* prefill job, computes the rest and publishes each new boundary.  Calls of  *)
(* several sessions and the publications of peers share the store; whatever   *)
(* is outside this process answers with anything.                             *)
EXTENDS PrefixCache

CONSTANTS Call,       \* first appends under way, each with its own verifier
          Prompt,     \* chained block hashes of a call's prompt
          Ours,       \* the payload this node encodes for a boundary
          Valid,      \* payloads that decode to the prefix their hash commits
          MaxFaults   \* bound: peer publications and leases lost before a fetch

ASSUME PromptAssumption == Prompt \in [Call -> Chains]
ASSUME PayloadAssumption == /\ Ours \in Valid /\ Valid \subseteq Payload
                            /\ MaxFaults \in Nat

VARIABLES calls,      \* place of prepare, the hit it holds, the verifier's prefix
          mode,       \* require_remote_compute and is_decode_worker_proxy
          faults

vars == <<cache, calls, mode, faults>>

\* A hit names its source, its number of blocks and the payload; lease is the
\* local lease it is fetched with.
NoHit == [src |-> "none", blocks |-> 0, load |-> None, lease |-> None]
Mangled == -1  \* a verifier that holds a rejected import
Whole(c) == Len(Prompt[c])
At(c, pc) == calls[c].pc = pc
Go(c, pc) == calls' = [calls EXCEPT ![c].pc = pc]
GoWith(c, pc, hit) == calls' = [calls EXCEPT ![c].pc = pc, ![c].hit = hit]
Fail(c) == GoWith(c, "failed", NoHit)

-----------------------------------------------------------------------------
(* _best_hit.                                                                *)

LookupLocal(c) ==
  /\ At(c, "start") /\ UNCHANGED <<mode, faults>>
  /\ LET ex == Expire(cache)
         h == Hit(ex, Prompt[c])
     IN IF h = None THEN cache' = ex /\ GoWith(c, "peers", NoHit)
        ELSE \E l \in Lease :
               /\ ex.leases[l] = NoLease
               /\ cache' = [MoveToEnd(ex, h) EXCEPT !.leases[l] = [h |-> h, live |-> TRUE]]
               /\ GoWith(c, "fetch", [NoHit EXCEPT !.src = "local", !.lease = l,
                    !.blocks = CHOOSE i \in 1..Whole(c) : Prompt[c][i] = h])

\* The lease may be gone by now: expired, or its block invalidated by another
\* call.  The error leaves prepare.
FetchLocal(c) ==
  /\ At(c, "fetch") /\ cache' = Expire(cache)
  /\ LET h == Prompt[c][calls[c].hit.blocks]
     IN IF cache'.leases[calls[c].hit.lease].h = h
        THEN GoWith(c, "peers", [calls[c].hit EXCEPT !.load = cache'.content[h], !.lease = None])
        ELSE Fail(c)
  /\ UNCHANGED <<mode, faults>>

\* The longest hit, the local one first; a remote one only when the transfer
\* is worth it.  The decode-only policy takes complete hits.
Best(c, peer, wins) == LET local == calls[c].hit IN
  IF peer.blocks > local.blocks /\ wins THEN peer ELSE local
Accepted(c, hit) == IF mode.remote /\ hit.blocks # Whole(c) THEN NoHit ELSE hit

LookupPeers(c) ==
  /\ At(c, "peers")
  /\ \E n \in 0..Whole(c), p \in Payload, wins \in BOOLEAN :
       LET peer == IF n = 0 THEN NoHit ELSE [NoHit EXCEPT !.src = "peer", !.blocks = n, !.load = p]
           hit == Accepted(c, Best(c, peer, wins))
       IN GoWith(c, IF hit = NoHit THEN "remote" ELSE "import", hit)
  /\ UNCHANGED <<cache, mode, faults>>

-----------------------------------------------------------------------------
(* _try_import.                                                              *)

\* Seeded bug: the imported prefix is not compared with the prompt.
AcceptableUnchecked(load) == TRUE

\* token count, block hash, logits and cached token ids agree with the prompt
Acceptable(load) == load \in Valid

\* A remote snapshot is promoted into the local store; a collision is counted.
Promoted(hit, h) == IF hit.src = "local" THEN cache ELSE Put(cache, h, hit.load)

\* A rejected local snapshot is invalidated, with the leases on it.
AfterRejection(hit, h) ==
  IF hit.src # "local" THEN cache
  ELSE [Drop(cache, {h}) EXCEPT !.leases = [l \in LeaseIds |->
          IF cache.leases[l].h = h THEN NoLease ELSE cache.leases[l]]]

\* After the import of a cache hit a remote job may follow, after the job's own
\* import only the computation.
AfterImport(c, reused) ==
  IF reused # 0 \/ calls[c].hit.src = "job" THEN "compute" ELSE "remote"

Import(c) ==
  /\ At(c, "import")
  /\ LET hit == calls[c].hit
         h == Prompt[c][hit.blocks]
         ok == Acceptable(hit.load)
         reused == IF ok THEN hit.blocks ELSE 0
     IN /\ cache' = IF ok THEN Promoted(hit, h) ELSE AfterRejection(hit, h)
        /\ calls' = [calls EXCEPT ![c] =
             [pc |-> AfterImport(c, reused), hit |-> NoHit, reused |-> reused,
              kv |-> IF hit.load \in Valid THEN reused ELSE IF ok THEN Mangled ELSE 0]]
  /\ UNCHANGED <<mode, faults>>

-----------------------------------------------------------------------------
(* _compute_remote and the policy that depends on it.                        *)

\* Seeded bug: the policy is checked before the job and not after it.
RefusedNever(c) == FALSE

\* require_remote_compute, and not every token came from elsewhere
Refused(c) == mode.remote /\ calls[c].reused # Whole(c)

\* The job completes and its snapshot is imported; or there is no worker, the
\* prompt is short, or the job fails or times out and is cancelled.
JobCompletes(c) ==
  /\ At(c, "remote")
  /\ \E p \in Payload :
       GoWith(c, "import", [NoHit EXCEPT !.src = "job", !.blocks = Whole(c), !.load = p])
  /\ UNCHANGED <<cache, mode, faults>>

NoRemoteJob(c) == At(c, "remote") /\ Go(c, "compute") /\ UNCHANGED <<cache, mode, faults>>

\* RemotePrefillRequiredError, after a reset
Refuse(c) == /\ At(c, "compute") /\ Refused(c)
             /\ calls' = [calls EXCEPT ![c].pc = "refused", ![c].kv = 0]
             /\ UNCHANGED <<cache, mode, faults>>

-----------------------------------------------------------------------------
(* _compute_and_publish.                                                     *)

\* Seeded bug: a block may be computed after the last.
ComputeBlockPast(c) ==
  /\ At(c, "compute") /\ ~Refused(c) /\ calls[c].reused <= Whole(c)
  /\ calls' = [calls EXCEPT ![c].kv = @ + 1, ![c].reused = @ + 1]
  /\ UNCHANGED <<cache, mode, faults>>

\* One block; prefill starts the verifier's cache over.
ComputeBlock(c) ==
  /\ At(c, "compute") /\ ~Refused(c) /\ calls[c].reused < Whole(c)
  /\ calls' = [calls EXCEPT ![c].kv = IF calls[c].reused = 0 THEN 1
                                      ELSE IF @ = Mangled THEN @ ELSE @ + 1,
                            ![c].reused = @ + 1,
                            ![c].pc = IF mode.proxy THEN "compute" ELSE "publish"]
  /\ UNCHANGED <<cache, mode, faults>>

\* _publish_boundary: a block that is too large, collides with another payload
\* or finds the store pinned raises out of prepare, and the verifier keeps what
\* was computed.
PublishBoundary(c) ==
  /\ At(c, "publish")
  /\ LET h == Prompt[c][calls[c].reused]
     IN /\ cache' = Put(cache, h, Ours)
        /\ IF cache'.content[h] = Ours THEN Go(c, "compute") ELSE Fail(c)
  /\ UNCHANGED <<mode, faults>>

Return(c) == /\ At(c, "compute") /\ ~Refused(c) /\ calls[c].reused = Whole(c)
             /\ Go(c, "done") /\ UNCHANGED <<cache, mode, faults>>

-----------------------------------------------------------------------------
(* The client and the rest of the fleet.                                     *)

\* The session is still empty, so the next append prepares it again on the
\* verifier as it was left.
Retry(c) == /\ calls[c].pc \in {"failed", "refused"}
            /\ calls' = [calls EXCEPT ![c].pc = "start", ![c].reused = 0]
            /\ UNCHANGED <<cache, mode, faults>>

Awaited(l) == \E c \in Call : At(c, "fetch") /\ calls[c].hit.lease = l

Expiry(l) == /\ cache.leases[l].live /\ ~Awaited(l)
             /\ cache' = [cache EXCEPT !.leases[l].live = FALSE]
             /\ UNCHANGED <<calls, mode, faults>>

EarlyExpiry(l) == /\ cache.leases[l].live /\ Awaited(l) /\ faults < MaxFaults
                  /\ cache' = [cache EXCEPT !.leases[l].live = FALSE]
                  /\ faults' = faults + 1 /\ UNCHANGED <<calls, mode>>

PeerPublishes == /\ faults < MaxFaults /\ PublishBlock
                 /\ faults' = faults + 1 /\ UNCHANGED <<calls, mode>>

-----------------------------------------------------------------------------
Init == /\ CacheInit /\ faults = 0
        /\ calls = [c \in Call |-> [pc |-> "start", hit |-> NoHit, reused |-> 0, kv |-> 0]]
        /\ mode \in [remote : BOOLEAN, proxy : BOOLEAN]

Prepare(c) == \/ LookupLocal(c) \/ FetchLocal(c) \/ LookupPeers(c) \/ Import(c)
              \/ JobCompletes(c) \/ NoRemoteJob(c) \/ Refuse(c)
              \/ ComputeBlock(c) \/ PublishBoundary(c) \/ Return(c)

Next == \/ \E c \in Call : Prepare(c) \/ Retry(c)
        \/ \E l \in Lease : Expiry(l) \/ EarlyExpiry(l)
        \/ PeerPublishes

Spec == Init /\ [][Next]_vars

-----------------------------------------------------------------------------
HookPcs == {"start", "fetch", "peers", "import", "remote", "compute", "publish", "done",
            "failed", "refused"}
HitType == [src : {"none", "local", "peer", "job"}, blocks : Nat, load : Payload \cup {None},
            lease : Lease \cup {None}]

\* Every variable has its type.
HookTypeOK ==
  /\ cache.content \in [Hash -> Payload \cup {None}]
  /\ \A c \in Call : /\ calls[c].pc \in HookPcs /\ calls[c].hit \in HitType
                     /\ calls[c].reused \in 0..Whole(c)
                     /\ calls[c].kv \in {Mangled} \cup (0..Whole(c))
  /\ mode \in [remote : BOOLEAN, proxy : BOOLEAN] /\ faults \in 0..MaxFaults

\* "A corrupt/expired/unreachable hit must never determine request
\* correctness": an append that returns has the whole prompt in its verifier,
\* whatever was fetched, rejected, invalidated and retried before.
PrefilledExactly == \A c \in Call : At(c, "done") => calls[c].kv = Whole(c)

\* A decode-only primary computes no prompt token and keeps no partial prefix.
DecodeOnlyPrimary ==
  mode.remote => \A c \in Call : /\ calls[c].pc # "publish"
                                 /\ calls[c].kv \in {0, Whole(c)}

\* ADR 0016: "Cache failure is always a local-prefill fallback."  The code lets
\* two failures of the node's own store out of prepare: a lease lost between
\* _best_hit's lookup and its fetch, and a boundary the store will not take.
CacheFailureFallsBack == ~mode.remote => \A c \in Call : ~At(c, "failed")
==============================================================================
