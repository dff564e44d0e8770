# A TLA+ model of the Kakeya inference engine

This directory models the parts of the engine in which state is shared, lost or
repeated: the boundary to the isolated decode worker, the session runtime
behind the gRPC service, the OpenAI-compatible HTTP shim, the memory governor,
the snapshot cache with the prefill jobs and the runtime hook that use it, and
the persisted proof loop of `autoresearch/`. TLC checks the modules on small
instances, TLAPS proves every safety property of the passing runs for every
instance, and
`PROJECT.json` lists the runs, the seeded mutants, the source lines of each
definition, the hazards and the theorems. Paths below are relative to
`inference_engine/` unless they start with `autoresearch/` or `scripts/`.

## 1. Inventory

| Component | State | Operations | Hard because | Correct when |
|---|---|---|---|---|
| Isolated decode worker (`backends/mlx/decode_worker.py`) | child process with one verifier per session; router-side socket, generation number, checkpoint and proxy per session | prefill, append, generate, import, reset, close, health, hard kill; restart, restore and one retry inside | the child dies, hangs or answers late, in the middle of a three-request restore | a step takes effect once or not at all; child, checkpoint and proxy agree at rest; the client lock is released |
| Session store and slab pool (`session/store.py`, `memory/pool.py`, `memory/slab.py`) | sessions in activity order, their histories, slabs and byte counts | create with LRU eviction, close, idle eviction, append with INV-1, position advance with INV-2, removal with a hook | a session is removed while a worker thread still holds it | slabs are neither lost nor shared; a surviving session equals its K/V cache |
| Verifier registry (`session/verifier_registry.py`, `backends/mlx/verifier.py`) | verifier per session | get or create, remove | resolution and removal are separate steps | a session is served by one verifier |
| Append and generation coordinators (`session/coordinator.py`, `session/generator.py`) | cached tokens of a session, a set of generating sessions | append, generate | each runs in a worker thread, outside the store's lock, with cancel polls | history, cache and position move together; guards are given back |
| gRPC servicer (`server/grpc_app.py`) | active operations, cancel and completed events, a queue of one event per stream | CreateSession, AppendTokens, Generate, CloseSession | handler, worker thread and done callback of one call end in any order | no call locks a session out; no token is dropped |
| HTTP shim (`server/app.py`) | admission semaphore with its waiters, one verifier for all requests, a queue and a drain thread per request | chat completion, plain or streamed, from admission to teardown | prefill runs on the event loop, generation in a thread that outlives its cancelled handler | permits come back, a request in service is not evicted, an answer continues its own prompt, every admitted request ends |
| Memory governor (`server/runtime_health.py`) | last sample, lock | sample, drain, cleanup after the last removal | runs inside the store's removal hook and in monitor threads; a sample may fail with the decode worker | cleanup runs, and only on an empty store; admission resumes |
| Prefix cache (`distributed/prefill_cache.py`, `prefill_cache_service.py`) | LRU of blocks, byte counter, leases, reservations | put, lookup, fetch, reserve, publish and lease, resize, invalidate | leases, reservations and the budget constrain each other | bytes are accounted, leases and reservations are honoured |
| Prefill jobs (`distributed/prefill_worker.py`) | jobs, idempotency keys, executor | submit, get, cancel, run, garbage collection | cancel and deadline race publication | cancels are final, capacity is given back, every job ends |
| Prefill-cache runtime hook (`distributed/prefill_cache_runtime.py`) | the node's own cache, the verifier being prefilled | lookup, fetch, import or fall back, remote job, compute and publish boundaries | a lease may expire before the fetch, a peer may answer anything, an import may fail half way | a failed import costs time, never state |
| Autoresearch proof loop (`autoresearch/prefill/supervisor.py`, `orchestration_state.py`, `architecture_v7.py`, `definition_resolution.py`, `scripts/agent_gan_repl.py`) | candidate file, proof ledger, orchestration checkpoint, definition store, results, operator's files | iterations of the supervisor; gates; the turn of the GAN process with its roles | two processes and an operator share files, with a crash or a timeout between any two writes | candidate, checkpoint and ledger stay in step, a blocked machine waits for the operator, a role stopped by the infrastructure is retried |
| Capability registry and gossip (`distributed/capability.py`, `exchange.py`) | cards with announcement times | exchange, expiry | lost and reordered exchanges | registries converge |
| Watchdog and decode liveness (`server/runtime_health.py`, entry scripts) | one phase record, mirrored to a file | phase changes; restart when a decode does not move | one record for all sessions | a stuck decode is noticed |
| Placement and authentication (`distributed/prefill_scheduler.py`, `placement.py`, `prefill_auth.py`) | replay window | cost functions, keyed digests | floating point | - |
| Distributed speculative decoding (`distributed/spec_decode.py` and neighbours) | remote proposer sessions | propose, verify, accept | two sides count tokens | output equals greedy decoding |
| Encodings and MLX numerics | none, tensors | - | numerical | - |
| Request scheduler, batch scheduler, pipeline coordinator | queues | admit, run, cancel | retired: no server imports them | - |
| Network state and dashboard, bridge, SDKs, benchmarks, training and evaluation scripts | mostly configuration | - | - | - |

How they interact. A gRPC handler on the event loop starts a coordinator in a
worker thread. The coordinator reads the session from the store, resolves its
verifier through the registry, drives it and writes the session back through
the store's locked methods. In worker mode the verifier is a proxy of the decode
worker client: each forward is a request to the child process under the
client's lock. Any removal of a session calls a hook with the store's lock held;
the hook drops the verifier or proxy and lets the memory governor sample, and
the governor asks the store for its counts. The HTTP shim uses the same store
and coordinators with one verifier for every request, and keeps requests apart
by its semaphore alone. On a prefill node, jobs and peers share one prefix
cache; on the primary, the runtime hook asks such nodes before it computes a
first prefill itself. The supervisor of the proof loop prepares files, starts
the GAN process, waits for it, and reads the files back.

## 2. Modules

| Module | Models | Composition |
|---|---|---|
| `DecodeSession` | what the worker client promises: exactly-once operations on committed histories | abstract specification |
| `DecodeWorker` | client, proxies, socket and child process | implements `DecodeSession` (`ExactlyOnce`) |
| `DecodeWorkerProofs` | inductive invariant, theorems, and the refinement step by step | extends `DecodeWorker` |
| `Subsequences` | deletion from an ordered table: what a Python dict or deque keeps | used by the stores, the cache and the queues |
| `CollectionTheorems` | lemmas about that deletion and about sums over finite sets | extends `Subsequences` |
| `SessionRuntime` | store, pool, registry, coordinators and servicer | one module, because the hazards are between these parts |
| `SessionRuntimeProofs` | inductive invariant and theorems | extends `SessionRuntime`, `CollectionTheorems` |
| `HttpShim` | chat completions over the store, the coordinators and one verifier | |
| `HttpShimProofs` | inductive invariants and theorems | extends `HttpShim`, `CollectionTheorems` |
| `MemoryGovernor` | governor and the store operations it meets, at the granularity of lock operations | |
| `MemoryGovernorProofs` | inductive invariant and theorems | extends `MemoryGovernor` |
| `PrefixCache` | the snapshot cache and its RPCs | |
| `PrefillJobs` | job store and executor | extends `PrefixCache`: the jobs are clients of the cache |
| `PrefillJobsProofs` | inductive invariant and theorems, of the cache too | extends `PrefillJobs`, `CollectionTheorems` |
| `PrefillHook` | the runtime hook of first appends | extends `PrefixCache`: the hook is a client of it too |
| `PrefillHookProofs` | inductive invariant and theorems | extends `PrefillHook` |
| `ProofMachine` | transition table, checkpoint record and its operations | |
| `Orchestration` | supervisor, host gates and GAN turn over shared files | extends `ProofMachine` |
| `OrchestrationProofs` | inductive invariant and theorems | extends `Orchestration` |
| `MC*` | values and symmetry for TLC | extend the module they name |

Definitions under a "Seeded bug" comment (`...Twice`, `...Unchecked`,
`...Keeps...` and the like) are mutants: no specification uses them, and
`PROJECT.json` says which definition each one replaces and which property must
then fail.

### DecodeWorker

`alive`, `hung`, `live` and `kv` are the child: its process, whether it has
stopped reading and writing, the keys of `_WorkerRuntime.sessions` and the tokens
in each verifier's cache. `conn`,
`gen`, `restored`, `open`, `cp` and `proxy` are fields of `DecodeWorkerClient`
and of the session proxies. The client's lock is held for a whole operation, so
`call` describes at most one operation: which request of it is next (`step`: the
`Init`, `ImportSnapshot` and `Append` of a restore, or the operation itself)
and which attempt this is (`try`; 0 is the restore that `_session_request` makes
in front of its retry loop). `wire` is the request in flight. The child, its
death (`WorkerDies`) or hang (`WorkerHangs`), the deadline (`Timeout`), the caller's cancel event
(`Cancel`) and a child that cannot be started (`StartFails`) interleave with the
client at every step. A timeout may strike before or after the child has
executed the request, and a child may die after it has replied.

The deadline does not cover everything. The request is written with `sendall`
before the deadline is set, and a reply is read with `recv` from its first byte
on without one; neither has a timeout, and the lock is held. A child that hangs
in the middle of either frame therefore keeps the router in the transfer
(`Blocked`) as long as it lives, and with it every session. `Send` and the replies
are still one step each, as the bytes of a half-sent frame mean nothing to either
side; what a hang changes is that the step is not bound to come. `CallsTerminate`
says that this is the only way in which a call does not end.

`dirty` is not a variable of the code. It records the caller's obligation:
`prefill_cache_runtime` answers a failed import with `reset()` before it does
anything else with the session (`PrefillHook` models that side), and the model
lets no other operation use such a session. A history is the sequence of its
tokens; `Argmax` is an uninterpreted function of the history, so lost or
repeated tokens are visible.

### SessionRuntime

A call (`rpc`) is two actors. The worker thread moves through `pc`, one step
per access to shared state: `guard`, `lookup`, `resolve`, `drive`, `mirror`,
`extend`, `advance`, `sync`, `write` for an append, with the loop `check`,
`commit`, ..., `emit` for a generation. The handler runs on the event loop and
ends through return, `CancelledError`, a closed generator or the poll between
two events; the done callback of the context is a third, independent step.
`store` combines the LRU list, the slabs, the free list and the byte counts,
because a removal changes all of them under one lock. `adapter` says which
verifier object the registry has for a session ("first" or, when it was created
after the removal, "late") and what its cache holds. A token is tagged by the
session that brought it, so one session's tokens in another's cache show.
`acked` and `lost` are observers: how many tokens the client has been told of, and
how many were in the answer of a call that its client had already cancelled, when
the handler ended before the cancel was delivered (`Tell`). The session is kept
then, with tokens its client does not know of.

Python's scheduling matters at one place. In `_sync_slab_bytes` the test of
`session.slab`, the call into the verifier and the assignment are separate; the
last load of the slab and the store into it are adjacent bytecodes between which
CPython does not switch threads, so they are one step (`WriteBytes`). A session
closed between the test and the write makes the load return `None` and the call,
whose tokens are already committed, ends with an `AttributeError`: the model
takes that path, and the free slab keeps its zero count (`FreeSlabsAreReset`).

### HttpShim

`req` holds, per request, the place of its handler, the place of its drain
thread, the queue between them and the answer sent so far. `append_tokens` is
called on the event loop, so no other handler moves during a prefill
(`LoopFree`), but threads do. Cancelling a handler cancels only a thread that
has not begun; a running one goes on with the verifier (`Over` keeps it).
`Release` is the hand-over of `asyncio.Semaphore`. A stream leaves its permit to
its generator, so one that ends before the generator reaches its `try` (a failed
prefill, a client gone before the first chunk) never gives it back: `Stranded`
names exactly these, and `PermitsAccounted` says that no other path loses or
invents one. INV-1 compares lengths with the cache it was just mirrored from,
and the model keeps it that way. A forward is one step. After an error in the
middle of a stream the code reports the finish reason "length"; the reason is
not modelled.

### MemoryGovernor

`store` and `gov` are the owners of the two locks. The store's lock is
re-entrant and held through the removal hook. `th` is where each thread is. A
sample takes the governor's lock, reads `active_count` and then the live bytes
under the store's lock, publishes the snapshot and releases. Admission tests
`draining` under the governor's lock. Memory pressure changes freely. With an
isolated worker (`Isolated`) the sample asks the worker for its memory and may
raise (`SampleFails`): that ends the monitor task for the life of the server,
and unwinds a removal, or the admission that evicted, after the session is gone.

### PrefixCache and PrefillJobs

Every method of the store holds its lock, so each is one step on the record
`cache`, except `publish_and_lease` with all boundaries of a prompt: the loop that
keeps the earlier ones is one step per block (`Boundary`), and `Unlocked` keeps every
other call of the store away while it runs. Evictions that precede a refusal are kept, as in the code. Leases may
expire at any time (`LeaseTimesOut`) and are dropped by the next call that
looks. `jobs` carries each job's state and the place of its `_run`; `acked`
observes that a cancel was answered. `_gc_locked` collects by age: the model
lets it collect any set of finished jobs, and forces it to when the table is
over twice `max_jobs`, which covers every clock. `queue` is the executor's
queue, served in order by `Workers` threads.

The loop over boundaries tests the stored bytes against the budget and looks at no
other job's reservation. With two executor threads a job's boundaries could be kept
in the room another job has reserved: with `Workers = 2` and engines that return
all boundaries, TLC finds `ReservationsHonoured` violated. The MLX launcher refuses
more than one concurrent job (`scripts/start_prefill_worker_node.py:103`), and then
no other job holds a reservation while the loop runs. `OneWriter` is this condition,
the run has one worker, and the theorems about reservations assume it.

### PrefillHook

`calls` is the place of each `prepare`, the hit it holds and the prefix its
verifier has. Local lookup and fetch are two calls on the store, so a lease can
be lost between them; peers and remote jobs answer with any length and any
payload, valid or not. `mode` covers the two settings that change the control:
`require_remote_compute` (a decode-only primary) and the decode-worker proxy,
which publishes nothing. A rejected import is answered by a reset, a local
snapshot that was rejected is invalidated together with its leases, a remote
one that was accepted is promoted. `PublishBoundary` fails the append whenever
`put` raises, as in the code, and `Retry` starts again on the verifier as it was
left. The lease an append took on its own prefix may pin the bytes that its next
boundary needs, so that a retry fails again until the lease runs out. A lease lost
before the fetch fails the append too. ADR 0016 says otherwise ("Cache failure is
always a local-prefill fallback"): `CacheFailureFallsBack` states that sentence and
`prefill_hook_fallback` refutes it.

### ProofMachine and Orchestration

`ProofMachine` is the table `ALLOWED_TRANSITIONS` and the checkpoint record with
the fields that decide control. `Orchestration` takes one step per durable
write, so a crash may fall between any two. `run` is the running process with
its backups; it is lost in a crash. Model calls, Lean and the critic answer with
anything. A contract gate that is reached is passed: the host builds the plan
from the very sets that `gate_research_contract` compares it with. Abstracted:
the fingerprint of a definition query (`store.query`, the gap whose query no
checkpoint has recorded yet), the number of equal failures after which the
circuit breaker opens (any), a strategy forced by a flag (a trigger file here).
A crash takes supervisor and GAN process together; the save and the results row
of a stagnation are one step. `Restart` is the operator's. A quarantined target
(`Tournament`) is any target, at any time.

A candidate is its target and its hypothesis, and for the seeded one also which
bytes stand in the file: `candidate.py` as shipped is not what `render_candidate`
writes for the same values (`Rendered`). A resumed iteration writes the file again,
so after it the checkpoint holds the hash of bytes that are gone. The role is then
not resumed a second time: unless this iteration makes a checkpoint for the new
bytes, the next one chooses a candidate without a strategy trigger. A candidate the
supervisor has rendered keeps its bytes, so this happens to a seeded file only.
`PendingRoleHasItsCandidate` allows exactly this difference.

## 3. Runs

Passing runs. Each finishes in about two minutes or less on two workers.

| Run | Instance | Shows |
|---|---|---|
| `decode_worker` | 2 sessions, histories up to 2 tokens, an accepted and a rejected snapshot, 2 faults; 876 thousand states | `WorkerMatchesCheckpoint`, `ProxyMatchesCheckpoint`, `NoOrphanedKV`, the refinement `ExactlyOnce` of `DecodeSession`, and `CallsTerminate`: the client lock is released unless the child hangs for ever inside a frame |
| `session_runtime` | 2 ids, 1 slab, 2 calls, 1 cancel; 830 thousand states | `SlabOwnership`, `HistoryIsTheCache`, `FreeSlabsAreReset` |
| `session_stream` | 1 session, 2 calls, streams of 2 tokens, 1 cancel; 220 thousand states | `ClientKnowsHistory`: no token is lost in the queue of one event, and none but to a client that has cancelled; `GuardsReleased` |
| `http_shim` | 2 requests, 1 permit, 2 tokens each, both policies, both clients may leave; 209 thousand states | `AdmissionProtectsSessions`, `PermitsAccounted`, `OnlyAbandonedThreadsInterfere`, `AdmittedRequestsEnd` |
| `memory_governor` | loop, 2 workers, monitor and a health request, isolated worker; 19 thousand states | `ResetOnlyWhenEmpty`, `AdmissionResumes` |
| `prefill_jobs` | 2 jobs on 1 thread, final snapshots or all boundaries, 2 blocks of 1 and 2 bytes, 2 payloads, 1 lookup lease, budgets 2 and 3; 134 thousand states | `BytesAccounted`, `LeasedBlocksPresent`, `ReservationsHonoured`, `CancelIsFinal`, `NoLeakedReservation`, `RequestsFindTheirJobs`, `JobsEnd` |
| `prefill_hook` | 2 first appends, one a prefix of the other, 2 leases, own, foreign and unusable payloads, 2 faults; 114 thousand states | `PrefilledExactly`, `DecodeOnlyPrimary` |
| `orchestration` | 2 obligations, 1 missing definition, ledger versions up to 3, 1 crash or timeout, 1 operator request; 1.7 million states | `PendingRoleHasItsCandidate`, `SearchIsContracted`, `WorkOnPendingTarget`, `BlockedNeedsOperator`, `InfrastructureRetries` |

Runs that end in a counterexample. Each states a sentence of the repository's
own documentation or comments; `PROJECT.json` quotes it.

| Run | Property | What happens |
|---|---|---|
| `decode_worker_wedge` | `RetriesRecover` | A restart advances the generation, the restore after it times out, the call ends. From then on `_session_request` restores in front of its retry loop, on a closed socket; the error leaves the method before the loop can start a child. Only a prefill, an import or a reset gets the session out. |
| `memory_governor_deadlock` | `RemovalsFinish` | A sample holds the governor's lock and wants the store's, a removal holds the store's and wants the governor's. |
| `http_shim_parallel` | `AnswersAreOwn` | Two permits: the second prompt is prefilled into the verifier from which the first request generates, and the first client receives the continuation of the second prompt. |
| `prefill_hook_fallback` | `CacheFailureFallsBack` | A prefix is found in the node's own cache, its lease runs out before the fetch, and the fetch, outside every `try`, fails the append of a primary that may prefill by itself. |

Bounds, and why they are enough. Two sessions suffice in the worker because a
call concerns one session and can disturb the others only by restarting the
child; two faults allow a fault during the recovery from a fault, after which
the single retry is spent. One slab for two ids makes every creation meet a full
store; two calls are the most that can be on one session (an abandoned thread
and a new call), and one cancel produces that thread. In the shim, two requests
give one in service and one that waits, is refused or comes after an abandoned
thread; one permit is the default. A budget of three for blocks of one and two
bytes is met exactly, and a resize to two makes the blocks contend. Two appends
with a common prefix meet on one block as reader, publisher and invalidator.
In the proof loop two obligations are needed to have a candidate of another
target, and two ledger versions after the first to have a checkpoint bound to an
old one and a resumed turn after it. One worker for two jobs makes a job wait.
`MaxLen`, `MaxNew`, `MaxFaults`, `MaxCancels`, `MaxLeaves`, `MaxPressure`,
`MaxVer`, `MaxAsks`, `Lease`, `Job`, `Rpc`, `Req`, `Call` and `Sid` are bounds of
the instances and not of the code; `Capacity`, `MaxJobs`, `Workers`, `Rounds`,
the thresholds and the budgets are parameters the code has. Symmetry is used in
`session_runtime` only, which checks safety, over sets whose members the
specification does not tell apart. Deadlock checking is off where the system may
stop: finitely many ids, requests and appends are issued, and the governor
really deadlocks.

Fairness. `DecodeWorker` assumes that a child that does not hang answers, that
the router thread goes on unless it is inside a transfer with a child that hangs
(`Blocked`: the socket has no timeout), and that the deadline passes while a
request is unanswered. Nothing brings a hung child back. `SessionRuntime` and `HttpShim` assume weak
fairness of each thread and each handler: both are scheduled by the operating
system and the event loop, and the event loop's queue is in order. Clients
that leave and admission timeouts are not fair. `MemoryGovernor` assumes strong
fairness of every thread, which no lock implementation exceeds: the
counterexample does not come from an unfair lock, and `AdmissionResumes` needs a
monitor that gets the lock in the end. `PrefillJobs` assumes that a free
executor thread takes the oldest future and that the engine's compute returns.
`Orchestration` assumes that a running supervisor takes its next step, and so does
the GAN process once only the ledger is left to save. Of the roles nothing is
assumed: their calls to the runtime have no deadline, and the experiment's timeout
kills the shell only and reads the orphan's output to its end, so a hung role
hangs its iteration. That iterations end is therefore not claimed. Neither crashes
nor the operator are fair.

## 4. Proofs

Eight modules hold theorems. They state every invariant and every action
property of the passing runs, and the refinement, as consequences of the
module's `Spec` for all values of its constants: any number of sessions, calls,
requests, jobs or obligations, any capacity and budget, any number of faults.
Two of them hold under a condition, which their statements name (`OneWriter`).
In each, an inductive invariant is shown to hold initially and to be preserved
by every action (a lemma per action or per group of alike actions), and the
property follows from it. TLC checked each invariant on the instance of the
run first.

### Collections

`Dropping` (deletion from a sequence) and the sum over a finite set are
recursive, and the installed provers cannot instantiate the library's induction
theorems, which take an operator. `CollectionTheorems` goes round this: the
places, or the subsets, at which a fact about the recursion would fail form a
set, `WFMin` of the library gives a least such place (`LeastNatural`) or a
minimal such subset (`MinimalSubset`), and one unfolding of the recursion there
is a contradiction. What is proved this way: the recursion has a solution, the
entries of `Dropping(seq, S)` are those of `seq` outside `S`, no entry becomes
doubled, a list without doubles is as long as it has entries, and a sum loses
what is removed from its set, gains what is added, changes with one weight by
that change, and depends on the weights of its members alone.

### DecodeWorkerProofs

`TypeCorrect`, `RestoredIsFaithful` (`WorkerMatchesCheckpoint`),
`ProxyIsFaithful` (`ProxyMatchesCheckpoint`), `CloseLeavesNoKV`
(`NoOrphanedKV`). None of these is inductive: they speak of a client at rest,
and what makes them true happens inside a call. The inductive invariant `IInv`
adds `Transport` (a reply needs a connection, a dead child holds nothing),
`Generations` (only an initialised checkpoint counts as restored, no checkpoint
holds a rejected snapshot), `CallOK` (what may be assumed of the operation under
way), `Resting` (child and checkpoint agree for every session no call is working
on), `RestoreProgress` (what the child holds after each request of a restore)
and `MainProgress` (what it holds before and after the operation, and that the
reply says so). The commits share `StepCommit`, the starts `StepStart`.

`ClientIsExactlyOnce` (`Spec => ExactlyOnce`) is the refinement of
`DecodeSession`: initial states map to initial states, a commit is one abstract
operation on the history that `MainProgress` says the child returned, and every
other step of client, wire, child or fault is a stutter.

### SessionRuntimeProofs

`SlabsHaveOneOwner` (`SlabOwnership`), `PoolIsNeverExhausted`,
`FreeSlabsStayReset`, `SurvivorsAreConsistent` (`HistoryIsTheCache`),
`ClientsAreInformed` (`ClientKnowsHistory`), `TypeCorrect`. The store's part of
the invariant, `StoreOK`, is preserved by each operation on the store
(`WithoutOK`, `TouchOK`, `AcquiredOK`, `BytesOK`): the unlocked write of a byte
count is harmless because it loads the slab again, and a slab that a session
still names is not free. The two properties of quiescent sessions need what is
true while calls run:

- `Guard`: at most one call of a session has a running handler, and a session is
  in `_active_operations` exactly while one has;
- `CallOK`: what a call is by its place alone, e.g. that a generation whose Done
  frame was delivered touches neither session nor verifier again;
- `Surviving`, for each session in the store: a call whose handler is gone has
  left the session alone for good, unless its client's callback has still to
  come and will remove the session (`Doomed`); with no such call about, the
  session is settled when no handler runs, and otherwise history, cache, mirror,
  position and what was sent to clients are apart by exactly what the place of the
  one running thread says (`Phase`, `Owed`).

This is where the code's argument lies: a cancel leaves a session half written
only if a callback or an error handler then removes it. `CallStep` turns the
invariant into an obligation about the one session a call works on; the threads'
steps go through `ThreadQuiet` and `ThreadWrite`, the handlers' through
`QuietStep` and `RemovalStep`, creations and removals through `SessionsStep`.

### HttpShimProofs

`SessionsAreProtected` (`AdmissionProtectsSessions`), `PermitsAreAccounted`,
`OneAtATime` (`OnlyAbandonedThreadsInterfere`), `HttpTypeCorrect`. The invariant
`Safe` counts: free permits and holders make up the capacity, a holder is a
request in service or a stranded stream, each session in the store belongs to a
holder, and a waiter is listed once. `Apart` is for a capacity of one with no
abandoned thread: what the verifier, the queue and the answer hold belongs to the
one request in service.

### MemoryGovernorProofs

`GovernorTypeCorrect` and `CleanupIsSafe` (`ResetOnlyWhenEmpty`), with or without
an isolated worker. The invariant says that a removing thread owns the store's
lock until it returns or its sample fails (`LockHeld`), that a pending admission
has a place left (`PlaceLeft`) and that the count a removal has read is still the
number of sessions (`CountIsCurrent`): holding the store's lock through the hook,
which causes the deadlock, is also what makes the cleanup safe.

### PrefillJobsProofs and PrefillHookProofs

`BytesAreAccounted`, `LeasesKeepTheirBlocks` (`LeasedBlocksPresent`),
`ReservationsAreHonoured`, `CancelsAreFinal`, `ReservationsDoNotLeak`
(`NoLeakedReservation`), `ReservationIsEnough` (`ReservedJobsPublish`, defined with
the proof: a job about to publish within its reservation finds room),
`RetriesFindTheirJob` (`RequestsFindTheirJobs`), `TypeCorrect`. Each method of
the store has a lemma that it keeps the cache consistent, within its budget and
its leases backed; the eviction loop is treated through its set of victims. The
reservation of a job at "publish" is enough because stored and reserved bytes fit
the budget together (`WithinBudget`), which no single job's state shows. Both
claims about reservations have the form `Spec => [](OneWriter => ...)`: the boundary
loop keeps `WithinBudget` only because nothing is reserved while it runs
(`NothingReserved`), and that is so because one thread does everything (`Serial`).
`JobOK` ties a job's place to its state, its cancel and its reservation.

`PrefillIsExact` (`PrefilledExactly`), `PrimaryOnlyDecodes`
(`DecodeOnlyPrimary`), `HookTypeCorrect`. `HookInv` records, per place of
`prepare`, which prefix the verifier can hold; a mangled cache exists only on
the way to the reset.

### OrchestrationProofs

`RolesKeepTheirCandidate` (`PendingRoleHasItsCandidate`), `SearchesAreContracted`
(`SearchIsContracted`), `RolesWorkOnPendingTargets` (`WorkOnPendingTarget`),
`OnlyTheOperatorUnblocks` (the action property `BlockedNeedsOperator`),
`TypeCorrect`. The invariant adds what is true inside an iteration: which backups
the supervisor holds (`Backups`), what the process has read (`Process`), that no
iteration runs on a blocked checkpoint (`Unblocked`), that the checkpoint under
work is the candidate's own (`OwnCheckpoint`, by its very bytes once the roles run;
before that it may be the one of the bytes a resumed iteration has rendered, which
are in the backup and are what a failed iteration restores: `Mine`), and that the contract's facts hold
from its gate to the search (`Contracted`).

### Assumptions

They are the named `ASSUME`s of the modules, evaluated by TLC on every run. They
say that bounds are naturals, capacities, budgets and worker counts positive,
`None` is no slab, session or checkpoint, the pool has as many slabs as the store
has places (`PoolAssumption`, from `main()`), prompts and snapshots are nonempty
sequences of tokens, jobs and requests are finitely many (`JobAssumption`,
`ReqAssumption`: what is counted or summed over), and that the end markers of a
stream are not tokens (`ReqAssumption`).

### Model-checked only

The liveness properties: `CallsTerminate`, `GuardsReleased`, `AdmissionResumes`,
`JobsEnd`, `AdmittedRequestsEnd` and `InfrastructureRetries`. Fairness and `ENABLED` are outside the prover's reach. The
counterexamples of the violation runs are found by TLC alone.

## 5. Not modelled

- Worker: the acceptance controls (`InjectHang`, `ExportSnapshot`,
  `kv_restore_parity`), `close()` at shutdown, frame encoding, and an exception
  in the middle of a child's forward, which would need the tensor cache's state.
- Sessions: the sink-and-window trimming of the cache and the
  `HistoryTruncated` event (histories stay below the window), the registry's
  single-verifier mode (the shim's model covers one shared verifier), the hook
  inside a first append (`PrefillHook` covers it by itself), parameter
  validation, timing. A forward is one step. `evict_idle` is modelled although
  no production code drives it.
- HTTP: authentication, metrics, schemas, tokenisation and chat templates.
- Governor: the liveness record and the watchdog that reads it. The record is
  one for all sessions, so the end of one call writes "idle" over another's
  decode and hides that it is stuck; the health routes except for their samples.
- Cache, jobs and hook: hash computation, statistics, the epoch counter, chunked
  transfer, stripe placement, progress figures,
  executor shutdown, the estimate that decides whether a transfer is worth it
  (either answer is taken).
- Proof loop: prompts, model calls, Lean and the host compiler (any answer), the
  stop file, reports, legacy adapters and states, the retroactive rejection of
  duplicates, the reframing of a quarantined parent (the entry may treat any target
  as one), and the reconciliation of
  `COMMIT` and `JUDGE` checkpoints, which needs a verified certificate.
- Whole components: see `PROJECT.json`, status `not_modelled`, with the reasons.

Most of the repository's lines are outside any state model: tensor code
(`backends/`, `v04/`, `kv_cache_proposer/`), training, evaluation and benchmark
scripts under `scripts/`, prompt texts and report writers. They compute numbers
or documents from their inputs, keep no shared state, and what is claimed of
them is numerical. The map therefore covers a small share of the lines: the
control of the serving path, of the distributed cache, and of the proof loop.

## 6. Plan

Done: the paths where a client's data can be lost, the HTTP shim, the hook over
the cache, the proof loop, and the safety theorems of all of them. Next, in order:

1. The watchdog with `DecodeLiveness`: masked stalls, and a restart loop when
   the start is slower than the deadline.
2. Capability gossip: cards under lost, duplicated and reordered exchanges.
3. The sink-and-window trimming as an algorithm against a reference, and INV-1
   under trimming.
