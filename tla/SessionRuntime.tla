--------------------------- MODULE SessionRuntime ---------------------------
(* The session-bound runtime of the primary: SessionStore and its SlabPool,  *)
(* the per-session verifier registry, the append and generation coordinators *)
(* and the gRPC servicer that runs them in worker threads                    *)
(* (inference_engine/session, memory/pool.py and server/grpc_app.py).        *)
(*                                                                           *)
(* An RPC is two actors: its handler on the event loop and its coordinator   *)
(* in a worker thread.  They share the cancel and completed events and, for  *)
(* Generate, a queue of one event.  The handler may be gone while the thread *)
(* still runs, and a session may be removed under a running thread.          *)
EXTENDS Naturals, Sequences, FiniteSets, Subsequences

CONSTANTS Sid,       \* session ids the store can issue
          Slab,      \* slabs of the pool
          None,      \* Python's None: no slab, no session
          Rpc,       \* AppendTokens / Generate calls under way at once
          Capacity,  \* SessionStore capacity
          MaxLen,    \* bound: history length at which calls are refused
          MaxNew,    \* bound: max_tokens of a Generate
          MaxCancels \* bound: calls whose client goes away

ASSUME CapacityAssumption == Capacity \in Nat \ {0}
\* main() sizes the pool by the store's capacity.
ASSUME PoolAssumption == IsFiniteSet(Slab) /\ Cardinality(Slab) = Capacity
ASSUME NoneAssumption == None \notin Slab \cup Sid
ASSUME LimitAssumption == MaxLen \in Nat /\ MaxNew \in Nat \ {0} /\ MaxCancels \in Nat

VARIABLES issued,   \* ids handed out by create_session
          store,    \* SessionStore._sessions, least recently active first,
                    \* with the slabs, the free list and the byte overrides
          hist,     \* Session.history_token_ids
          cached,   \* Session.cached_token_sequence
          pos,      \* Session.next_global_position
          adapter,  \* the verifiers: which object, and the tokens in its cache
          ops,      \* RuntimeServiceServicer._active_operations
          gens,     \* GenerationCoordinator._active_sessions
          rpc,      \* the calls under way
          cancels,  \* clients gone so far
          acked,    \* tokens of the session sent to a client that was there
          lost      \* tokens of the session sent to a client that had gone

told == <<acked, lost>>
session == <<hist, cached, pos, told>>
guards == <<ops, gens>>
vars == <<issued, store, session, adapter, guards, rpc, cancels>>

\* A token is tagged by the session that brought it; the greedy continuation
\* of a cache repeats its last token, so a foreign token shows in the output.
Token == Sid

Absent == [obj |-> "none", kv |-> <<>>]

NoRpc == [kind |-> "none", s |-> None, n |-> 0, pc |-> "over",
          handler |-> "gone", client |-> "on", callback |-> FALSE,
          cancel |-> FALSE, completed |-> FALSE, ref |-> "none", tok |-> <<>>,
          made |-> 0, bytes |-> 0, queue |-> <<>>, out |-> "none"]

InUse(r) == rpc[r].kind # "none"

\* No call of the session has a handler, a thread or a callback left to run.
Quiescent(s) == \A r \in Rpc : InUse(r) => rpc[r].s # s

Live == Entries(store.lru)

-----------------------------------------------------------------------------
(* SessionStore and SlabPool.                                                *)

\* Seeded bug: a released slab is not reset.
ReleasedDirty(st, S) ==
  [st EXCEPT !.slab = [s \in Sid |-> IF s \in S THEN None ELSE st.slab[s]],
             !.free = st.free \cup {st.slab[s] : s \in S}]

\* SlabPool.release for the slabs of sessions S, with the slab's reset.
Released(st, S) ==
  [st EXCEPT !.slab = [s \in Sid |-> IF s \in S THEN None ELSE st.slab[s]],
             !.free = st.free \cup {st.slab[s] : s \in S},
             !.bytes = [b \in Slab |-> IF \E s \in S : st.slab[s] = b THEN 0 ELSE st.bytes[b]]]

\* SlabPool.acquire of a free slab b for session s.
Acquired(st, s, b) == [st EXCEPT !.slab[s] = b, !.free = st.free \ {b}]

\* Seeded bug: the removed session keeps its slab.
WithoutKeepsSlab(st, S) == [st EXCEPT !.lru = Dropping(st.lru, S)]

\* _remove_session: release the slab, drop the entry.
Without(st, S) == [Released(st, S) EXCEPT !.lru = Dropping(st.lru, S)]

\* on_session_removed: the registry drops the session's verifier.
Unbound(S) == [s \in Sid |-> IF s \in S THEN Absent ELSE adapter[s]]

Remove(S) == store' = Without(store, S) /\ adapter' = Unbound(S)

\* A Session object goes with its last reference: the store's or a thread's.
Collect(S) ==
  LET kept(f, none) == [s \in Sid |-> IF s \in S THEN none ELSE f[s]]
  IN /\ hist' = kept(hist, <<>>) /\ cached' = kept(cached, <<>>)
     /\ pos' = kept(pos, 0) /\ acked' = kept(acked, 0) /\ lost' = kept(lost, 0)

Collectable(S) == {s \in S : Quiescent(s)}

remove_session_if_present(s) ==
  IF s \in Live THEN Remove({s}) ELSE UNCHANGED <<store, adapter>>

\* Seeded bug: a touched session is listed twice.
TouchTwice(st, s) == [st EXCEPT !.lru = Append(st.lru, s)]

\* last_active_at = now.
Touch(st, s) == [st EXCEPT !.lru = Append(Dropping(st.lru, {s}), s)]

\* create_session: evict the least recently active session at capacity, then
\* acquire a slab.  PoolExhausted is the case with no free slab, which
\* SlabOwnership excludes.
CreateSession ==
  \E s \in Sid \ issued :
    LET full == Cardinality(Live) >= Capacity
        st == IF full THEN Without(store, {Head(store.lru)}) ELSE store
    IN /\ \E b \in st.free :
            store' = [Acquired(st, s, b) EXCEPT !.lru = Append(st.lru, s)]
       /\ adapter' = IF full THEN Unbound({Head(store.lru)}) ELSE adapter
       /\ Collect(Collectable(IF full THEN {Head(store.lru)} ELSE {}))
       /\ issued' = issued \cup {s}
       /\ UNCHANGED <<cancels, guards, rpc>>

CloseSession == \E s \in Live : /\ Remove({s}) /\ Collect(Collectable({s}))
                                /\ UNCHANGED <<issued, cancels, guards, rpc>>

\* The idle sessions are those least recently active.
evict_idle == \E k \in 1..Len(store.lru) :
                LET idle == {store.lru[i] : i \in 1..k} IN
                /\ Remove(idle) /\ Collect(Collectable(idle))
                /\ UNCHANGED <<issued, cancels, guards, rpc>>

-----------------------------------------------------------------------------
(* RPC entry: the per-session operation guard, then the worker thread.       *)

Open(kind, pc) ==
  \E r \in Rpc, s \in issued \ ops :
    \E n \in IF kind = "append" THEN 0..1 ELSE 1..MaxNew :
      /\ ~InUse(r) /\ Len(hist[s]) + n <= MaxLen
      /\ ops' = ops \cup {s}
      /\ rpc' = [rpc EXCEPT ![r] = [NoRpc EXCEPT !.kind = kind, !.s = s, !.n = n,
                                                 !.pc = pc, !.handler = "run"]]
      /\ UNCHANGED <<issued, cancels, store, session, adapter, gens>>

AppendTokens == Open("append", "lookup")
Generate == Open("generate", "guard")

-----------------------------------------------------------------------------
(* The worker thread: AppendTokensCoordinator.append_tokens and              *)
(* GenerationCoordinator.generate.                                           *)

At(r, pc) == InUse(r) /\ rpc[r].pc = pc
Goto(r, pc) == rpc' = [rpc EXCEPT ![r].pc = pc]

\* The coordinator's frame is left: its locals go.
Left(o) == [o EXCEPT !.ref = "none", !.tok = <<>>, !.bytes = 0]

\* An append ends with an outcome; a generation unwinds through its guard.
Finish(r, out) == rpc' = [rpc EXCEPT ![r] = [Left(@) EXCEPT !.pc = "over", !.out = out]]
Unwind(r, pc) == rpc' = [rpc EXCEPT ![r] = [Left(@) EXCEPT !.pc = pc]]
Raise(r) == IF rpc[r].kind = "append" THEN Finish(r, "error") ELSE Unwind(r, "failing")

\* The verifier object the thread resolved is still the registry's.
Bound(r) == adapter[rpc[r].s].obj = rpc[r].ref

\* Tokens in the cache of the verifier the thread holds.
Cache(r) == IF Bound(r) THEN adapter[rpc[r].s].kv ELSE <<>>

\* What the call adds to the history.
Added(r) == IF rpc[r].kind = "generate" THEN rpc[r].tok
            ELSE [i \in 1..rpc[r].n |-> rpc[r].s]

AcquireGeneration(r) ==
  /\ At(r, "guard")
  /\ LET s == rpc[r].s IN
     IF s \in gens THEN Goto(r, "errput") /\ UNCHANGED gens
                   ELSE Goto(r, "lookup") /\ gens' = gens \cup {s}
  /\ UNCHANGED <<issued, cancels, store, session, adapter, ops>>

get_session(r) ==
  /\ At(r, "lookup")
  /\ IF rpc[r].kind = "append" /\ rpc[r].cancel THEN Finish(r, "cancelled")
     ELSE IF rpc[r].s \notin Live THEN Raise(r)
     ELSE Goto(r, "resolve")
  /\ UNCHANGED <<issued, cancels, store, session, adapter, guards>>

\* registry.get: create the verifier on first use.  The object is "late"
\* when the session has left the store since get_session.
Resolved(s) == IF adapter[s].obj # "none" THEN adapter[s]
               ELSE [obj |-> IF s \in Live THEN "first" ELSE "late", kv |-> <<>>]

verifier_for(r) ==
  LET o == rpc[r]
      v == Resolved(o.s)
      empty == o.kind = "append" /\ o.n = 0
      unprimed == o.kind = "generate" /\ pos[o.s] = 0
  IN /\ At(r, "resolve")
     /\ adapter' = [adapter EXCEPT ![o.s] = v]
     /\ store' = IF empty /\ o.s \in Live THEN Touch(store, o.s) ELSE store
     /\ IF empty THEN Finish(r, "ok") ELSE IF unprimed THEN Raise(r)
        ELSE rpc' = [rpc EXCEPT ![r].ref = v.obj,
                                ![r].pc = IF o.kind = "append" THEN "drive" ELSE "check"]
     /\ UNCHANGED <<issued, cancels, session, guards>>

\* The forward: the K/V cache and cached_token_sequence move together.
Forward(r, kv) ==
  adapter' = IF Bound(r) THEN [adapter EXCEPT ![rpc[r].s].kv = kv] ELSE adapter

\* prefill on the first append, append_accepted_tokens after it.
DriveVerifier(r) ==
  /\ At(r, "drive") /\ Goto(r, "mirror")
  /\ Forward(r, IF pos[rpc[r].s] = 0 THEN Added(r) ELSE Cache(r) \o Added(r))
  /\ UNCHANGED <<issued, cancels, store, session, guards>>

\* One turn of the loop starts with the cancel poll and the argmax.
greedy_next_token_id(r) ==
  /\ At(r, "check")
  /\ LET kv == Cache(r) IN
     IF rpc[r].cancel THEN Unwind(r, "done")
     ELSE IF Bound(r) /\ kv = <<>> THEN Unwind(r, "failing")
     ELSE rpc' = [rpc EXCEPT ![r].pc = "commit",
                             ![r].tok = IF kv = <<>> THEN <<rpc[r].s>> ELSE <<kv[Len(kv)]>>]
  /\ UNCHANGED <<issued, cancels, store, session, adapter, guards>>

append_accepted_tokens(r) ==
  /\ At(r, "commit") /\ Goto(r, "mirror") /\ Forward(r, Cache(r) \o Added(r))
  /\ UNCHANGED <<issued, cancels, store, session, guards>>

\* An append polls the cancel event between the forward and the mirror.
MirrorCache(r) ==
  /\ At(r, "mirror")
  /\ IF rpc[r].kind = "append" /\ rpc[r].cancel
     THEN Finish(r, "cancelled") /\ UNCHANGED cached
     ELSE Goto(r, "extend") /\ cached' = [cached EXCEPT ![rpc[r].s] = Cache(r)]
  /\ UNCHANGED <<issued, cancels, store, hist, pos, told, adapter, guards>>

\* SessionStore.append_tokens with _assert_inv1.
ExtendHistory(r) ==
  LET s == rpc[r].s IN
  /\ At(r, "extend")
  /\ IF s \notin Live THEN Raise(r) /\ UNCHANGED <<store, adapter, hist>>
     ELSE /\ hist' = [hist EXCEPT ![s] = @ \o Added(r)]
          /\ IF Len(cached[s]) = Len(adapter[s].kv)
             THEN Goto(r, "advance") /\ store' = Touch(store, s) /\ UNCHANGED adapter
             ELSE Raise(r) /\ Remove({s})
  /\ UNCHANGED <<issued, cancels, cached, pos, told, guards>>

\* record_position_advance with INV-2.
AdvancePosition(r) ==
  LET s == rpc[r].s IN
  /\ At(r, "advance")
  /\ IF s \notin Live THEN Raise(r) /\ UNCHANGED <<store, adapter, pos>>
     ELSE IF Len(Cache(r)) < pos[s] THEN Raise(r) /\ Remove({s}) /\ UNCHANGED pos
     ELSE /\ pos' = [pos EXCEPT ![s] = Len(Cache(r))]
          /\ store' = Touch(store, s)
          /\ rpc' = [rpc EXCEPT ![r].made = IF rpc[r].kind = "generate" THEN @ + 1 ELSE @,
                                ![r].pc = IF rpc[r].kind = "generate" THEN "emit" ELSE "sync"]
          /\ UNCHANGED adapter
  /\ UNCHANGED <<issued, cancels, hist, cached, told, guards>>

\* _sync_slab_bytes tests the slab and asks the verifier for its bytes, then
\* loads the slab again and writes, without the store's lock.  The load and the
\* write are adjacent bytecodes, between which CPython does not switch threads.
AfterSync(r) == IF rpc[r].kind = "append" THEN Finish(r, "ok") ELSE Unwind(r, "done")

ReadBytes(r) ==
  /\ At(r, "sync")
  /\ IF store.slab[rpc[r].s] = None THEN AfterSync(r)
     ELSE rpc' = [rpc EXCEPT ![r].pc = "write", ![r].bytes = Len(Cache(r))]
  /\ UNCHANGED <<issued, cancels, store, session, adapter, guards>>

\* A slab gone in between is an AttributeError.
WriteBytes(r) ==
  LET b == store.slab[rpc[r].s] IN
  /\ At(r, "write")
  /\ IF b = None THEN Raise(r) /\ UNCHANGED store
     ELSE AfterSync(r) /\ store' = [store EXCEPT !.bytes[b] = rpc[r].bytes]
  /\ UNCHANGED <<issued, cancels, session, adapter, guards>>

-----------------------------------------------------------------------------
(* _ThreadedEventStream: the generation thread fills a queue of one event.   *)

\* Seeded bug: a full queue blocks the thread even after a cancel.
CanPutOnlyWhenEmpty(r) == rpc[r].queue = <<>>
\* Seeded bug: a put that times out gives up.
CanPutAlways(r) == TRUE

\* _put retries while the queue is full, until the cancel event is set.
CanPut(r) == rpc[r].queue = <<>> \/ rpc[r].cancel

Put(r, event, pc) ==
  /\ CanPut(r)
  /\ rpc' = [rpc EXCEPT ![r].queue = IF @ = <<>> THEN <<event>> ELSE @, ![r].pc = pc]

\* _run leaves the loop after a put once cancelled: the generator stays
\* suspended, and holds its guard, until it is collected.
EmitToken(r) ==
  /\ At(r, "emit")
  /\ \E eos \in BOOLEAN :
       Put(r, "token", IF rpc[r].cancel THEN "break"
                       ELSE IF eos \/ rpc[r].made = rpc[r].n THEN "sync" ELSE "check")
  /\ UNCHANGED <<issued, cancels, store, session, adapter, guards>>

EmitDone(r) == /\ At(r, "done")
               /\ Put(r, "done", IF rpc[r].cancel THEN "break" ELSE "unguard")
               /\ UNCHANGED <<issued, cancels, store, session, adapter, guards>>

\* The generator's finally block.
ReleaseGeneration(r) ==
  /\ InUse(r)
  /\ \/ rpc[r].pc = "failing" /\ Goto(r, "errput")
     \/ rpc[r].pc = "unguard" /\ Goto(r, "endput")
     \/ rpc[r].pc = "suspended" /\ rpc[r].handler = "gone" /\ Goto(r, "over")
  /\ gens' = gens \ {rpc[r].s}
  /\ UNCHANGED <<issued, cancels, store, session, adapter, ops>>

EmitError(r) == /\ At(r, "errput") /\ Put(r, "error", "endput")
                /\ UNCHANGED <<issued, cancels, store, session, adapter, guards>>

EmitEnd(r) == /\ \/ At(r, "endput") /\ Put(r, "end", "over")
                 \/ At(r, "break") /\ Put(r, "end", "suspended")
              /\ UNCHANGED <<issued, cancels, store, session, adapter, guards>>

-----------------------------------------------------------------------------
(* The handler on the event loop.                                            *)

Running(r, kind) == InUse(r) /\ rpc[r].kind = kind /\ rpc[r].handler = "run"

\* The finally blocks: Generate's also sets the cancel event.
Leave(r, completed) ==
  /\ rpc' = [rpc EXCEPT ![r].handler = "gone", ![r].completed = completed,
                        ![r].cancel = @ \/ rpc[r].kind = "generate"]
  /\ ops' = ops \ {rpc[r].s}

Abandon(r) == /\ rpc' = [rpc EXCEPT ![r].handler = "gone", ![r].cancel = TRUE]
              /\ ops' = ops \ {rpc[r].s}

\* A reply or a frame that carries n tokens leaves.  The client may have gone
\* while the server has not been told yet: then nobody reads it.
Tell(r, n) ==
  IF rpc[r].client = "on"
  THEN acked' = [acked EXCEPT ![rpc[r].s] = @ + n] /\ UNCHANGED lost
  ELSE lost' = [lost EXCEPT ![rpc[r].s] = @ + n] /\ UNCHANGED acked

\* asyncio.to_thread returned or raised.
AppendReturns(r) ==
  LET o == rpc[r] IN
  /\ Running(r, "append") /\ o.pc = "over"
  /\ Leave(r, o.out = "ok")
  /\ IF o.out = "ok" THEN Tell(r, o.n) ELSE UNCHANGED told
  /\ IF o.out = "cancelled" THEN remove_session_if_present(o.s)
     ELSE UNCHANGED <<store, adapter>>
  /\ UNCHANGED <<issued, cancels, hist, cached, pos, gens>>

Dequeued(r, events) == /\ Running(r, "generate")
                       /\ rpc[r].queue # <<>> /\ rpc[r].queue[1] \in events

\* context.cancelled() is false: a token frame or the terminal Done frame goes out.
DeliverEvent(r) ==
  /\ Dequeued(r, {"token", "done"}) /\ ~rpc[r].callback
  /\ rpc' = [rpc EXCEPT ![r].queue = <<>>, ![r].completed = @ \/ rpc[r].queue = <<"done">>]
  /\ IF rpc[r].queue = <<"token">> THEN Tell(r, 1) ELSE UNCHANGED told
  /\ UNCHANGED <<issued, cancels, store, hist, cached, pos, adapter, guards>>

\* context.cancelled() between two events.
DetectCancelled(r) ==
  /\ Dequeued(r, {"token", "done"}) /\ rpc[r].client = "cancelled"
  /\ Abandon(r) /\ remove_session_if_present(rpc[r].s)
  /\ UNCHANGED <<issued, cancels, session, gens>>

StreamEnds(r) ==
  /\ Dequeued(r, {"end", "error"})
  /\ Leave(r, rpc[r].completed \/ rpc[r].queue = <<"end">>)
  /\ UNCHANGED <<issued, cancels, store, session, adapter, gens>>

\* The client goes away while its call is under way.
ClientCancels(r) == /\ InUse(r) /\ rpc[r].handler = "run" /\ rpc[r].client = "on"
                    /\ cancels < MaxCancels /\ cancels' = cancels + 1
                    /\ rpc' = [rpc EXCEPT ![r].client = "cancelled"]
                    /\ UNCHANGED <<issued, store, session, adapter, guards>>

\* Seeded bug: a cancelled call leaves the session in the store.
CancelledErrorKeepsSession(r) ==
  /\ InUse(r) /\ rpc[r].handler = "run" /\ rpc[r].client = "cancelled"
  /\ rpc' = [rpc EXCEPT ![r].handler = "gone", ![r].cancel = TRUE, ![r].callback = TRUE]
  /\ ops' = ops \ {rpc[r].s}
  /\ UNCHANGED <<issued, cancels, store, adapter, session, gens>>

\* asyncio.CancelledError at an await of the handler.
CancelledError(r) ==
  /\ InUse(r) /\ rpc[r].handler = "run" /\ rpc[r].client = "cancelled"
  /\ Abandon(r)
  /\ IF rpc[r].completed THEN UNCHANGED <<store, adapter>>
     ELSE remove_session_if_present(rpc[r].s)
  /\ UNCHANGED <<issued, cancels, session, gens>>

\* A Generate handler suspended at a yield is closed: only its finally runs.
GeneratorClosed(r) ==
  /\ Running(r, "generate") /\ rpc[r].client = "cancelled"
  /\ Abandon(r)
  /\ UNCHANGED <<issued, cancels, store, adapter, session, gens>>

\* The done callback that _watch_context registers.
ContextDone(r) ==
  /\ InUse(r) /\ rpc[r].client = "cancelled" /\ ~rpc[r].callback
  /\ rpc' = [rpc EXCEPT ![r].callback = TRUE, ![r].cancel = @ \/ ~rpc[r].completed]
  /\ IF rpc[r].completed THEN UNCHANGED <<store, adapter>>
     ELSE remove_session_if_present(rpc[r].s)
  /\ UNCHANGED <<issued, cancels, session, guards>>

\* Both actors are gone.
Retire(r) == /\ InUse(r) /\ rpc[r].pc = "over" /\ rpc[r].handler = "gone"
             /\ rpc[r].client = "cancelled" => rpc[r].callback
             /\ rpc' = [rpc EXCEPT ![r] = NoRpc]
             /\ Collect({s \in Sid \ Live : \A q \in Rpc : rpc'[q].s # s})
             /\ UNCHANGED <<issued, cancels, store, adapter, guards>>

-----------------------------------------------------------------------------
Init == /\ issued = {} /\ ops = {} /\ gens = {} /\ cancels = 0
        /\ store = [lru |-> <<>>, slab |-> [s \in Sid |-> None], free |-> Slab,
                    bytes |-> [b \in Slab |-> 0]]
        /\ hist = [s \in Sid |-> <<>>] /\ cached = hist
        /\ pos = [s \in Sid |-> 0] /\ acked = pos /\ lost = pos
        /\ adapter = [s \in Sid |-> Absent]
        /\ rpc = [r \in Rpc |-> NoRpc]

Thread(r) == \/ AcquireGeneration(r) \/ get_session(r) \/ verifier_for(r)
             \/ DriveVerifier(r) \/ greedy_next_token_id(r)
             \/ append_accepted_tokens(r) \/ MirrorCache(r) \/ ExtendHistory(r)
             \/ AdvancePosition(r) \/ ReadBytes(r) \/ WriteBytes(r)
             \/ EmitToken(r) \/ EmitDone(r) \/ ReleaseGeneration(r)
             \/ EmitError(r) \/ EmitEnd(r)

Handler(r) == \/ AppendReturns(r) \/ DeliverEvent(r) \/ DetectCancelled(r)
              \/ StreamEnds(r) \/ CancelledError(r) \/ GeneratorClosed(r)
              \/ ContextDone(r) \/ Retire(r)

Next == \/ CreateSession \/ CloseSession \/ evict_idle \/ AppendTokens \/ Generate
        \/ \E r \in Rpc : Thread(r) \/ Handler(r) \/ ClientCancels(r)

Spec == Init /\ [][Next]_vars

\* Worker threads are scheduled by the operating system and the event loop
\* resumes every ready handler.
FairSpec == Spec /\ \A r \in Rpc : WF_vars(Thread(r)) /\ WF_vars(Handler(r))

-----------------------------------------------------------------------------
Pcs == {"guard", "lookup", "resolve", "drive", "check", "commit", "mirror",
        "extend", "advance", "sync", "write", "emit", "done", "unguard",
        "failing", "errput", "endput", "break", "suspended", "over"}

\* Every variable has its type, and the store lists a session once.
TypeOK ==
  /\ issued \subseteq Sid /\ ops \subseteq issued /\ gens \subseteq issued
  /\ cancels \in 0..MaxCancels
  /\ store.lru \in Seq(issued) /\ Cardinality(Live) = Len(store.lru)
  /\ store.slab \in [Sid -> Slab \cup {None}] /\ store.free \subseteq Slab
  /\ store.bytes \in [Slab -> Nat]
  /\ hist \in [Sid -> Seq(Token)] /\ cached \in [Sid -> Seq(Token)]
  /\ pos \in [Sid -> Nat] /\ acked \in [Sid -> Nat] /\ lost \in [Sid -> Nat]
  /\ adapter \in [Sid -> [obj : {"none", "first", "late"}, kv : Seq(Token)]]
  /\ rpc \in [Rpc -> [kind : {"none", "append", "generate"}, s : Sid \cup {None}, n : Nat, pc : Pcs,
                      handler : {"run", "gone"}, client : {"on", "cancelled"},
                      callback : BOOLEAN, cancel : BOOLEAN, completed : BOOLEAN,
                      ref : {"none", "first", "late"}, tok : Seq(Token), made : Nat,
                      bytes : Nat,
                      queue : Seq({"token", "done", "error", "end"}),
                      out : {"none", "ok", "cancelled", "error"}]]

\* A slab is free or held by exactly one session in the store, whatever path
\* removed the sessions before, and the store is within its capacity: so
\* create_session below capacity never meets an exhausted pool.
SlabOwnership ==
  /\ Len(store.lru) <= Capacity
  /\ \A s \in Sid : s \in Live <=> store.slab[s] # None
  /\ \A s, t \in Live : store.slab[s] = store.slab[t] => s = t
  /\ store.free = Slab \ {store.slab[s] : s \in Live}

\* A session the store still serves is exactly what its verifier has cached:
\* no cancel, error or removal at any point of a call leaves the K/V cache, the
\* history and the position of a surviving session apart.
HistoryIsTheCache ==
  \A s \in Live : Quiescent(s) /\ hist[s] # <<>> =>
     /\ adapter[s].kv = hist[s] /\ cached[s] = hist[s]
     /\ pos[s] = Len(hist[s])

\* The client of a surviving session knows every token in its history, from the
\* replies to its appends and the frames of its streams, except the tokens of a
\* call that came to its end after the client had cancelled it and before the
\* server noticed.  No other cancel, error or removal leaves a token behind.
ClientKnowsHistory ==
  \A s \in Live : Quiescent(s) => acked[s] + lost[s] = Len(hist[s])

\* Every call gives its guards back, so a session is never locked out by a
\* call that its client abandoned.
GuardsReleased ==
  \A s \in Sid : (s \in ops ~> s \notin ops) /\ (s \in gens ~> s \notin gens)

\* "so a fresh acquirer doesn't inherit stale accounting from the previous
\* session": a slab in the free list carries no byte count, although threads
\* write counts without the store's lock.
FreeSlabsAreReset == \A b \in store.free : store.bytes[b] = 0
=============================================================================
