------------------------------ MODULE HttpShim ------------------------------
(* The OpenAI-compatible HTTP shim (inference_engine/server/app.py).  Each    *)
(* chat completion is admitted by a semaphore, creates a session, prefills    *)
(* the one shared verifier on the event loop, drains a generation thread and  *)
(* closes the session.  Handlers share the event loop, threads do not wait    *)
(* for it, and a cancelled thread keeps running.                              *)
EXTENDS Naturals, Sequences, FiniteSets, SequencesExt, Subsequences

CONSTANTS Req,       \* requests; each names its session and its tokens
          Capacity,  \* max_concurrent: permits, slabs and store capacity
          MaxNew,    \* bound: max_tokens
          MaxLeaves  \* bound: clients that leave before their answer

ASSUME ReqAssumption == IsFiniteSet(Req) /\ Req \cap {"done", "error", "end"} = {}
ASSUME LimitAssumption == Capacity \in Nat \ {0} /\ MaxNew \in Nat \ {0} /\ MaxLeaves \in Nat

VARIABLES policy,   \* admission_policy
          permits,  \* value of the admission semaphore
          waiters,  \* its FIFO of waiting requests
          store,    \* sessions, least recently active first
          kv,       \* tokens in the verifier's cache, tagged by their request
          req       \* handler, thread, queue and session of each request

vars == <<policy, permits, waiters, store, kv, req>>

NoReq == [pc |-> "idle", stream |-> FALSE, client |-> "on", thread |-> "none", tok |-> <<>>,
          cached |-> 0, pos |-> 0, made |-> 0, queue |-> <<>>, out |-> <<>>, end |-> "none"]

\* A request that has ended keeps its answer, and its thread if that still
\* runs; the queue goes with the handler.
Over(r, end) == [NoReq EXCEPT !.pc = "over", !.end = end, !.stream = req[r].stream,
                   !.client = req[r].client, !.out = req[r].out,
                   !.thread = IF req[r].thread \in {"none", "queued"} THEN "over" ELSE req[r].thread,
                   !.tok = req[r].tok, !.made = req[r].made]

At(r, pc) == req[r].pc = pc
Live == Entries(store)

\* append_tokens runs on the event loop: no other handler moves meanwhile.
LoopFree == \A r \in Req : req[r].pc \notin {"prefill", "mirror", "extend"}

-----------------------------------------------------------------------------
(* Admission.                                                                *)

\* asyncio.Semaphore.release: the first waiter gets the permit.
Release(rs) ==
  IF waiters = <<>> THEN permits' = permits + 1 /\ req' = rs /\ UNCHANGED waiters
  ELSE /\ waiters' = Tail(waiters) /\ req' = [rs EXCEPT ![Head(waiters)].pc = "granted"]
       /\ UNCHANGED permits

\* Seeded bug: a request proceeds whether or not a permit is left.
ArriveUnchecked(r) ==
  /\ LoopFree /\ At(r, "idle") /\ req' = [req EXCEPT ![r].pc = "granted"]
  /\ UNCHANGED <<policy, permits, waiters, store, kv>>

\* _admit: take a permit, fail at once, or wait in line.
Arrive(r) ==
  /\ LoopFree /\ At(r, "idle")
  /\ \E s \in BOOLEAN :
       LET to(pc) == req' = [req EXCEPT ![r].pc = pc, ![r].stream = s] IN
       IF permits > 0 /\ waiters = <<>>
       THEN permits' = permits - 1 /\ to("granted") /\ UNCHANGED waiters
       ELSE /\ UNCHANGED permits
            /\ IF policy = "REJECT"
               THEN req' = [req EXCEPT ![r] = Over(r, "rejected")] /\ UNCHANGED waiters
               ELSE to("waiting") /\ waiters' = Append(waiters, r)
  /\ UNCHANGED <<policy, store, kv>>

\* wait_for gives up after queue_max_wait_s.
AdmitTimesOut(r) ==
  /\ LoopFree /\ At(r, "waiting")
  /\ waiters' = Dropping(waiters, {r})
  /\ req' = [req EXCEPT ![r] = Over(r, "rejected")]
  /\ UNCHANGED <<policy, permits, store, kv>>

\* create_session, which evicts the least recently active one at capacity.
CreateSession(r) ==
  /\ LoopFree /\ At(r, "granted")
  /\ store' = Append(IF Len(store) >= Capacity THEN Tail(store) ELSE store, r)
  /\ req' = [req EXCEPT ![r].pc = "prefill"]
  /\ UNCHANGED <<policy, permits, waiters, kv>>

-----------------------------------------------------------------------------
(* The session runtime, driven by the loop (prefill) and by threads.         *)

Without(r) == Dropping(store, {r})
Touched(r) == Append(Without(r), r)

\* store.append_tokens and record_position_advance, with INV-1 on the length of
\* the mirrored cache and INV-2 on the position.
Extends(r) == /\ r \in Live /\ req[r].cached = Len(kv) /\ Len(kv) >= req[r].pos
StoreAfterExtend(r) == IF Extends(r) THEN Touched(r) ELSE Without(r)

\* Seeded bug: a failed prefill gives its permit back in the except clause too.
ReleaseTwice(r, rs) == permits' = permits + 2 /\ req' = rs /\ UNCHANGED waiters

\* Seeded bug: only the generator of a stream gives permits back.
EndOfRouteLeaks(r, rs) == req' = rs /\ UNCHANGED <<permits, waiters>>

\* The finally clause of chat_completions gives the permit back for a request
\* that does not stream; a stream leaves that to its generator.
EndOfRoute(r, rs) == IF req[r].stream THEN req' = rs /\ UNCHANGED <<permits, waiters>>
                     ELSE Release(rs)

PrefillError(r) == /\ store' = Without(r)
                   /\ EndOfRoute(r, [req EXCEPT ![r] = Over(r, "prefill_error")])

Prefill(r) == /\ At(r, "prefill") /\ kv' = <<r>>
              /\ req' = [req EXCEPT ![r].pc = "mirror"]
              /\ UNCHANGED <<policy, permits, waiters, store>>

\* The forward raises; prefill has reset the shared cache before it.
PrefillRaises(r) == At(r, "prefill") /\ PrefillError(r) /\ kv' = <<>> /\ UNCHANGED policy

MirrorPrompt(r) == /\ At(r, "mirror")
                   /\ req' = [req EXCEPT ![r].pc = "extend", ![r].cached = Len(kv)]
                   /\ UNCHANGED <<policy, permits, waiters, store, kv>>

\* A stream has its response object now; a plain request starts its thread.
ExtendPrompt(r) ==
  /\ At(r, "extend") /\ UNCHANGED <<policy, kv>>
  /\ IF ~Extends(r) THEN PrefillError(r)
     ELSE /\ store' = Touched(r) /\ UNCHANGED <<permits, waiters>>
          /\ req' = [req EXCEPT ![r].pos = Len(kv),
                       ![r].pc = IF req[r].stream THEN "response" ELSE "drain",
                       ![r].thread = IF req[r].stream THEN "none" ELSE "queued"]

-----------------------------------------------------------------------------
(* _drain, in a worker thread: GenerationCoordinator.generate.               *)

Thread(r, t) == req[r].thread = t

\* Seeded bug: an exception ends the thread and reaches nobody.
RaisesSilently(r) == [req EXCEPT ![r].thread = "over"]

\* An exception becomes an event; the sentinel follows in every case.
Raises(r) == [req EXCEPT ![r].thread = "over", ![r].queue = @ \o <<"error", "end">>]

GetSession(r) ==
  /\ Thread(r, "queued")
  /\ req' = IF r \in Live THEN [req EXCEPT ![r].thread = "argmax"] ELSE Raises(r)
  /\ UNCHANGED <<policy, permits, waiters, store, kv>>

\* The greedy continuation repeats the tag of the last cached token; a cache
\* that was reset has no logits to take it from.
GreedyToken(r) == /\ Thread(r, "argmax")
                  /\ req' = IF kv = <<>> THEN Raises(r)
                            ELSE [req EXCEPT ![r].thread = "append", ![r].tok = <<Last(kv)>>]
                  /\ UNCHANGED <<policy, permits, waiters, store, kv>>

AppendAccepted(r) == /\ Thread(r, "append") /\ kv' = kv \o req[r].tok
                     /\ req' = [req EXCEPT ![r].thread = "mirror"]
                     /\ UNCHANGED <<policy, permits, waiters, store>>

AppendRaises(r) == /\ Thread(r, "append") /\ req' = Raises(r)
                   /\ UNCHANGED <<policy, permits, waiters, store, kv>>

MirrorCache(r) == /\ Thread(r, "mirror")
                  /\ req' = [req EXCEPT ![r].thread = "extend", ![r].cached = Len(kv)]
                  /\ UNCHANGED <<policy, permits, waiters, store, kv>>

\* The token event and, after the last token or EOS, done and the sentinel.
ExtendHistory(r) ==
  /\ Thread(r, "extend") /\ store' = StoreAfterExtend(r)
  /\ \E eos \in BOOLEAN :
       LET last == eos \/ req[r].made + 1 = MaxNew
           events == req[r].tok \o IF last THEN <<"done", "end">> ELSE <<>>
       IN req' = IF ~Extends(r) THEN Raises(r)
                 ELSE [req EXCEPT ![r].made = @ + 1, ![r].pos = Len(kv), ![r].tok = <<>>,
                        ![r].queue = @ \o events, ![r].thread = IF last THEN "over" ELSE "argmax"]
  /\ UNCHANGED <<policy, permits, waiters, kv>>

-----------------------------------------------------------------------------
(* The handler beside the thread.                                            *)

\* Seeded bug: the permit is given back and the session is kept.
TeardownKeepsSession(r, end) ==
  /\ Release([req EXCEPT ![r] = Over(r, end)])
  /\ UNCHANGED <<policy, store, kv>>

\* The finally clauses: a thread that has not begun is cancelled, one that runs
\* is not stopped; then the session is closed and the permit released.
Teardown(r, end) ==
  /\ store' = Without(r)
  /\ Release([req EXCEPT ![r] = Over(r, end)])
  /\ UNCHANGED <<policy, kv>>

\* The stream's generator sends its first chunk and comes to its try block.
FirstChunk(r) == /\ LoopFree /\ At(r, "response") /\ req[r].client = "on"
                 /\ req' = [req EXCEPT ![r].pc = "drain", ![r].thread = "queued"]
                 /\ UNCHANGED <<policy, permits, waiters, store, kv>>

\* The client is gone before that: the generator is closed outside its try.
ResponseDropped(r) == /\ LoopFree /\ At(r, "response") /\ req[r].client = "gone"
                      /\ req' = [req EXCEPT ![r] = Over(r, "dropped")]
                      /\ UNCHANGED <<policy, permits, waiters, store, kv>>

\* One event of the queue.
Deliver(r) ==
  /\ LoopFree /\ At(r, "drain") /\ req[r].queue # <<>>
  /\ LET e == Head(req[r].queue)
         taken == [req EXCEPT ![r].queue = Tail(@)]
     IN CASE e = "end" -> Teardown(r, "ok")
          [] e = "error" -> Teardown(r, "engine_error")
          [] e = "done" -> req' = taken /\ UNCHANGED <<policy, permits, waiters, store, kv>>
          [] OTHER -> /\ req' = [taken EXCEPT ![r].out = Append(@, e)]
                      /\ UNCHANGED <<policy, permits, waiters, store, kv>>

\* The poll between events, or the framework's cancellation of a stream.
DetectDisconnect(r) == /\ LoopFree /\ At(r, "drain") /\ req[r].client = "gone"
                       /\ Teardown(r, "disconnected")

ClientLeaves(r) == /\ req[r].pc \notin {"idle", "over"} /\ req[r].client = "on"
                   /\ Cardinality({q \in Req : req[q].client = "gone"}) < MaxLeaves
                   /\ req' = [req EXCEPT ![r].client = "gone"]
                   /\ UNCHANGED <<policy, permits, waiters, store, kv>>

-----------------------------------------------------------------------------
Init == /\ policy \in {"REJECT", "QUEUE"} /\ permits = Capacity /\ waiters = <<>>
        /\ store = <<>> /\ kv = <<>> /\ req = [r \in Req |-> NoReq]

Handler(r) == \/ CreateSession(r) \/ Prefill(r) \/ PrefillRaises(r) \/ MirrorPrompt(r)
              \/ ExtendPrompt(r) \/ FirstChunk(r) \/ ResponseDropped(r) \/ Deliver(r)
              \/ DetectDisconnect(r)
Drain(r) == \/ GetSession(r) \/ GreedyToken(r) \/ AppendAccepted(r) \/ AppendRaises(r)
            \/ MirrorCache(r) \/ ExtendHistory(r)

Next == \E r \in Req : \/ Arrive(r) \/ AdmitTimesOut(r) \/ ClientLeaves(r)
                       \/ Handler(r) \/ Drain(r)

Spec == Init /\ [][Next]_vars

\* The event loop runs every ready handler and the executor every thread.
FairSpec == Spec /\ \A r \in Req : WF_vars(Handler(r)) /\ WF_vars(Drain(r))

-----------------------------------------------------------------------------
InService == {r \in Req : req[r].pc \notin {"idle", "waiting", "over"}}
Stranded == {r \in Req : req[r].stream /\ req[r].end \in {"prefill_error", "dropped"}}

\* Every variable has its type.
HttpTypeOK ==
  /\ permits \in 0..Capacity /\ waiters \in Seq(Req) /\ store \in Seq(Req)
  /\ kv \in Seq(Req) /\ policy \in {"REJECT", "QUEUE"}
  /\ req \in [Req -> [
       pc : {"idle", "waiting", "granted", "prefill", "mirror", "extend", "response",
             "drain", "over"},
       stream : BOOLEAN, client : {"on", "gone"},
       thread : {"none", "queued", "argmax", "append", "mirror", "extend", "over"},
       tok : Seq(Req), cached : Nat, pos : Nat, made : 0..MaxNew,
       queue : Seq(Req \cup {"done", "error", "end"}), out : Seq(Req),
       end : {"none", "rejected", "prefill_error", "dropped", "ok", "engine_error",
              "disconnected"}]]

\* The semaphore keeps the store below capacity on every path, so creating a
\* session never evicts that of a request still being served.
AdmissionProtectsSessions ==
  Len(store) + permits + Cardinality({r \in Req : At(r, "granted")}) <= Capacity

\* A permit out of the semaphore belongs to a request in service, or to one of
\* the two kinds of stream that end outside their generator's try block: those
\* are lost for the life of the server, and no other path loses or invents one.
PermitsAccounted ==
  Capacity - permits = Cardinality(InService) + Cardinality(Stranded)

\* "Kakeya's scheduler admits multiple sessions in parallel" (the integration
\* guide): every token of an answer continues that request's own prompt.
AnswersAreOwn == \A r \in Req : \A i \in DOMAIN req[r].out : req[r].out[i] = r

\* With the default max_concurrent of 1, admission keeps requests apart on the
\* one verifier they share, until a client leaves its thread behind.
OnlyAbandonedThreadsInterfere ==
  Capacity = 1 /\ (\A q \in Req : req[q].end # "disconnected") => AnswersAreOwn

\* An admitted request comes to an end: exceptions, invariant violations and
\* removed sessions all reach the handler that waits on the queue.
AdmittedRequestsEnd == \A r \in Req : At(r, "granted") ~> At(r, "over")
==============================================================================
