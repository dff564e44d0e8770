--------------------------- MODULE HttpShimProofs ---------------------------
(* The safety properties of HttpShim, for any requests, permits and limits.   *)
(* Safe is the inductive invariant of admission and of the sessions; Apart,   *)
(* inductive on top of it, is the separation of answers with one permit.      *)
EXTENDS HttpShim, CollectionTheorems

Ends == {"none", "rejected", "prefill_error", "dropped", "ok", "engine_error", "disconnected"}
Running == {"queued", "argmax", "append", "mirror", "extend"}
Early == {"idle", "waiting", "granted", "prefill", "mirror", "extend", "response"}

ReqRecords == [
  pc : Early \cup {"drain", "over"}, stream : BOOLEAN, client : {"on", "gone"},
  thread : Running \cup {"none", "over"}, tok : Seq(Req), cached : Nat, pos : Nat,
  made : 0..MaxNew, queue : Seq(Req \cup {"done", "error", "end"}), out : Seq(Req), end : Ends]

\* A thread starts with the drain and outlives its handler only when the client
\* left; until it has ended, the queue holds tokens alone.
ReqOK(n) ==
  /\ n \in ReqRecords
  /\ n.pc \in Early => n.thread = "none" /\ n.made = 0 /\ n.queue = <<>>
  /\ n.pc # "over" => n.end = "none"
  /\ n.pc = "response" => n.stream
  /\ n.pc = "drain" => n.thread # "none" /\ (n.thread # "over" => n.queue \in Seq(Req))
  /\ n.thread \in Running => n.made < MaxNew /\ (n.pc = "drain" \/ n.end = "disconnected")

\* A record that accounts for a permit, and one that may own a session.
Lost(n) == n.stream /\ n.end \in {"prefill_error", "dropped"}
Holds(n) == n.pc \notin {"idle", "waiting", "over"} \/ Lost(n)
Owns(n) == Holds(n) /\ n.pc # "granted"
Holders == {r \in Req : Holds(req[r])}

\* Permits and their holders balance, the line is what waits, and only holders
\* past admission have a session.
Safe ==
  /\ permits \in Nat /\ policy \in {"REJECT", "QUEUE"} /\ kv \in Seq(Req)
  /\ req \in [Req -> ReqRecords] /\ \A r \in Req : ReqOK(req[r])
  /\ waiters \in Seq(Req) /\ Distinct(waiters)
  /\ \A r \in Req : r \in Entries(waiters) <=> req[r].pc = "waiting"
  /\ store \in Seq(Req) /\ Distinct(store) /\ \A r \in Live : Owns(req[r])
  /\ permits + Cardinality(Holders) = Capacity

\* What a request has cached, queued or answered is its own.
All(s, S) == \A i \in 1..Len(s) : s[i] \in S
Own(r, n) == All(n.tok, {r}) /\ All(n.queue, {r, "done", "error", "end"}) /\ All(n.out, {r})
Alone == Capacity = 1 /\ \A q \in Req : req[q].end # "disconnected"
Apart == Alone => \A r \in Req : /\ Own(r, req[r])
                                 /\ req[r].pc \in {"mirror", "extend", "response", "drain"} => All(kv, {r})


-----------------------------------------------------------------------------
(* Records and sets.                                                         *)

\* The record of a request that has not arrived.
LEMMA NoReqFacts == NoReq \in ReqRecords /\ ReqOK(NoReq) /\ NoReq.pc = "idle"
<1>1. MaxNew \in Nat \ {0}
  BY LimitAssumption
<1>2. NoReq \in ReqRecords
  BY <1>1 DEF NoReq, ReqRecords, Early, Running, Ends
<1> QED
  BY <1>1, <1>2 DEF NoReq, ReqOK, Early, Running

\* A request that ends keeps its answer; its thread goes on only when the
\* client left.
LEMMA OverFacts ==
  ASSUME Safe, NEW r \in Req, NEW e \in Ends, e # "none",
         req[r].thread \in Running \ {"queued"} => e = "disconnected"
  PROVE  LET n == Over(r, e) IN
         /\ n \in ReqRecords /\ ReqOK(n) /\ n.pc = "over" /\ n.end = e /\ n.stream = req[r].stream
         /\ n.out = req[r].out /\ n.tok = req[r].tok /\ n.queue = <<>>
<1> DEFINE m == req[r]
           t == IF m.thread \in {"none", "queued"} THEN "over" ELSE m.thread
           n == Over(r, e)
<1>1. m \in ReqRecords /\ ReqOK(m) /\ MaxNew \in Nat
  BY LimitAssumption DEF Safe
<1>2. n = [NoReq EXCEPT !.pc = "over", !.end = e, !.stream = m.stream, !.client = m.client,
                        !.out = m.out, !.thread = t, !.tok = m.tok, !.made = m.made]
  BY DEF Over
<1>3. t \in Running \cup {"over"} /\ (t \in Running => m.thread \in Running /\ e = "disconnected")
  BY <1>1 DEF ReqRecords, Running
<1>4. /\ m.stream \in BOOLEAN /\ m.client \in {"on", "gone"} /\ m.out \in Seq(Req) /\ m.tok \in Seq(Req)
      /\ m.made \in 0..MaxNew
  BY <1>1 DEF ReqRecords
<1> HIDE DEF t, n, m
<1>5. /\ n \in ReqRecords /\ n.pc = "over" /\ n.end = e /\ n.stream = m.stream /\ n.thread = t
      /\ n.out = m.out /\ n.tok = m.tok /\ n.made = m.made /\ n.queue = NoReq.queue
  BY <1>2, <1>3, <1>4, NoReqFacts DEF ReqRecords
<1>6. NoReq.queue = <<>>
  BY DEF NoReq
<1>7. t \in Running => m.made < MaxNew
  BY <1>1, <1>3 DEF ReqOK
<1>8. ReqOK(n)
  BY <1>3, <1>5, <1>7 DEF ReqOK, Early
<1> QED
  BY <1>5, <1>6, <1>8 DEF n, m

\* The holders are finitely many.
LEMMA HoldersFinite ==
  /\ IsFiniteSet(Holders) /\ Cardinality(Holders) \in Nat
BY ReqAssumption, FS_Subset, FS_CardinalityType DEF Holders

\* Giving up a session.
LEMMA WithoutFacts ==
  ASSUME Safe, NEW r \in Req
  PROVE  /\ Without(r) \in Seq(Req) /\ Distinct(Without(r)) /\ Entries(Without(r)) = Live \ {r}
         /\ Touched(r) \in Seq(Req) /\ Distinct(Touched(r)) /\ Entries(Touched(r)) = Live \cup {r}
<1> DEFINE w == Dropping(store, {r})
<1>1. store \in Seq(Req) /\ Distinct(store)
  BY DEF Safe
<1>2. w \in Seq(Req) /\ Entries(w) = Entries(store) \ {r} /\ Distinct(w)
  BY <1>1, DroppingEntries
<1> HIDE DEF w
<1>3. /\ Append(w, r) \in Seq(Req) /\ Entries(Append(w, r)) = Entries(w) \cup {r}
      /\ Distinct(Append(w, r))
  BY <1>2, AppendEntries
<1> QED
  BY <1>2, <1>3 DEF Without, Touched, Live, w

\* A request that waits or has not come holds nothing.
LEMMA WaitingHoldsNothing ==
  ASSUME Safe, NEW r \in Req, req[r].pc \in {"idle", "waiting"}
  PROVE  ~Holds(req[r])
BY DEF Safe, ReqOK, Holds, Lost

-----------------------------------------------------------------------------
(* Steps of one record.                                                      *)

\* A step that keeps the request's part in the accounts, whatever it does to
\* the verifier, and adds no session but that of a request past admission.
LEMMA QuietStep ==
  ASSUME Safe, NEW r \in Req, NEW n \in ReqRecords, ReqOK(n), req' = [req EXCEPT ![r] = n],
         waiters' = waiters, permits' = permits, policy' = policy, kv' \in Seq(Req),
         store' \in Seq(Req), Distinct(store'), Entries(store') \subseteq Live \cup {r},
         r \in Entries(store') => Owns(n),
         n.pc = "waiting" <=> req[r].pc = "waiting", Holds(n) <=> Holds(req[r])
  PROVE  Safe'
<1>1. req \in [Req -> ReqRecords] /\ req' \in [Req -> ReqRecords]
  BY DEF Safe
<1>2. \A q \in Req : req'[q] = IF q = r THEN n ELSE req[q]
  BY <1>1
<1> DEFINE H == {q \in Req : Holds(req'[q])}
<1>3. H = Holders
  <2>1. \A q \in Req : Holds(req'[q]) <=> Holds(req[q])
    BY <1>2
  <2> QED
    BY <2>1 DEF Holders
<1>4. Holders' = H
  BY DEF Holders, Holds, Lost
<1>5. permits' + Cardinality(Holders') = Capacity
  BY <1>3, <1>4 DEF Safe
<1>6. \A q \in Req : ReqOK(req'[q])
  BY <1>2 DEF Safe
<1>7. \A q \in Req : q \in Entries(waiters') <=> req'[q].pc = "waiting"
  BY <1>2 DEF Safe
<1>8. \A q \in Entries(store') : Owns(req'[q])
  <2>1. \A q \in Entries(store') : q \in Req
    BY DEF Entries
  <2>2. \A q \in Live : Owns(req[q])
    BY DEF Safe
  <2> QED
    BY <1>2, <2>1, <2>2
<1> QED
  BY <1>1, <1>5, <1>6, <1>7, <1>8 DEF Safe, Live, ReqOK, Owns, Holds, Lost, ReqRecords

\* A request that gives its permit back: to the semaphore, or to the first in
\* line.
LEMMA ReleaseStep ==
  ASSUME Safe, NEW r \in Req, NEW n \in ReqRecords, ReqOK(n), Holds(req[r]), ~Holds(n),
         req[r].pc # "waiting", n.pc # "waiting", Release([req EXCEPT ![r] = n]),
         store' = Without(r), policy' = policy, kv' \in Seq(Req)
  PROVE  Safe'
<1>0. /\ req \in [Req -> ReqRecords] /\ permits \in Nat /\ Capacity \in Nat
      /\ waiters \in Seq(Req) /\ Distinct(waiters)
      /\ \A q \in Req : q \in Entries(waiters) <=> req[q].pc = "waiting"
      /\ \A q \in Live : Owns(req[q])
      /\ permits + Cardinality(Holders) = Capacity
      /\ \A q \in Req : ReqOK(req[q])
  BY LimitAssumption DEF Safe
<1>1. /\ store' \in Seq(Req) /\ Distinct(store') /\ Entries(store') = Live \ {r} /\ Live \subseteq Req
  <2>1. Live \subseteq Req
    BY DEF Safe, Live, Entries
  <2> QED
    BY <2>1, WithoutFacts
<1> DEFINE H == {q \in Req : Holds(req'[q])}
<1>2. Holders' = H
  BY DEF Holders, Holds, Lost
<1>3. /\ IsFiniteSet(Holders) /\ Cardinality(Holders) \in Nat /\ r \in Holders
      /\ IsFiniteSet(Holders \ {r}) /\ Cardinality(Holders \ {r}) = Cardinality(Holders) - 1
  BY HoldersFinite, FS_RemoveElement DEF Holders
<1>4. CASE waiters = <<>>
  <2>1. permits' = permits + 1 /\ req' = [req EXCEPT ![r] = n] /\ waiters' = waiters
    BY <1>4 DEF Release
  <2>2. req' \in [Req -> ReqRecords] /\ \A q \in Req : req'[q] = IF q = r THEN n ELSE req[q]
    BY <1>0, <2>1
  <2>3. H = Holders \ {r}
    <3>1. \A q \in Req : Holds(req'[q]) <=> Holds(req[q]) /\ q # r
      BY <2>2
    <3> QED
      BY <3>1 DEF Holders
  <2>4. permits' \in Nat /\ permits' + Cardinality(Holders') = Capacity
    <3> HIDE DEF H
    <3>1. Cardinality(Holders') = Cardinality(Holders) - 1
      BY <1>2, <1>3, <2>3
    <3> QED
      BY <1>0, <1>3, <2>1, <3>1
  <2>5. /\ \A q \in Req : ReqOK(req'[q])
        /\ \A q \in Req : q \in Entries(waiters') <=> req'[q].pc = "waiting"
        /\ \A q \in Entries(store') : Owns(req'[q])
    BY <1>0, <1>1, <2>1, <2>2
  <2> QED
    BY <1>0, <1>1, <2>1, <2>2, <2>4, <2>5 DEF Safe, Live, ReqOK, Owns, Holds, Lost, ReqRecords
<1>5. CASE waiters # <<>>
  <2> DEFINE w == Head(waiters)
             g == [req[w] EXCEPT !.pc = "granted"]
             rs == [req EXCEPT ![r] = n]
  <2>1. /\ waiters' = Tail(waiters) /\ req' = [rs EXCEPT ![w].pc = "granted"] /\ permits' = permits
    BY <1>5 DEF Release
  <2>2. /\ waiters' \in Seq(Req) /\ Distinct(waiters') /\ w \in Entries(waiters) /\ w \in Req
        /\ Entries(waiters') = Entries(waiters) \ {w}
    BY <1>0, <1>5, <2>1, TailEntries
  <2>3. req[w].pc = "waiting" /\ w # r
    BY <1>0, <2>2
  <2>4. /\ g \in ReqRecords /\ g.pc = "granted" /\ g.end = req[w].end /\ g.thread = req[w].thread
        /\ g.made = req[w].made /\ g.stream = req[w].stream /\ g.queue = req[w].queue
    BY <1>0, <2>2 DEF ReqRecords, Early
  <2>5. ReqOK(g) /\ Holds(g)
    <3>1. ReqOK(req[w])
      BY <1>0, <2>2
    <3> HIDE DEF g
    <3> QED
      BY <2>3, <2>4, <3>1 DEF ReqOK, Early, Running, Holds
  <2>6. /\ req' \in [Req -> ReqRecords]
        /\ \A q \in Req : req'[q] = IF q = r THEN n ELSE IF q = w THEN g ELSE req[q]
    <3>1. rs \in [Req -> ReqRecords] /\ rs[w] = req[w]
      BY <1>0, <2>2, <2>3
    <3>2. req' = [rs EXCEPT ![w] = g]
      BY <2>1, <3>1
    <3> HIDE DEF g
    <3> QED
      BY <1>0, <2>2, <2>3, <2>4, <3>1, <3>2
  <2> HIDE DEF w, g, rs
  <2>7. H = (Holders \ {r}) \cup {w} /\ w \notin Holders
    <3>1. ~Holds(req[w])
      BY <2>2, <2>3, WaitingHoldsNothing
    <3>2. \A q \in Req : Holds(req'[q]) <=> (Holds(req[q]) /\ q # r) \/ q = w
      BY <2>3, <2>5, <2>6
    <3> QED
      BY <2>2, <3>1, <3>2 DEF Holders
  <2>8. permits' \in Nat /\ permits' + Cardinality(Holders') = Capacity
    <3>1. Cardinality((Holders \ {r}) \cup {w}) = Cardinality(Holders \ {r}) + 1
      BY <1>3, <2>7, FS_AddElement
    <3> HIDE DEF H
    <3>2. Cardinality(Holders') = Cardinality(Holders)
      BY <1>2, <1>3, <2>7, <3>1
    <3> QED
      BY <1>0, <1>3, <2>1, <3>2
  <2>9. /\ \A q \in Req : ReqOK(req'[q])
        /\ \A q \in Req : q \in Entries(waiters') <=> req'[q].pc = "waiting"
    BY <1>0, <2>2, <2>3, <2>4, <2>5, <2>6
  <2>10. \A q \in Entries(store') : Owns(req'[q])
    <3>1. w \notin Live
      BY <1>0, <2>2, <2>3, WaitingHoldsNothing DEF Owns
    <3> QED
      BY <1>0, <1>1, <2>6, <3>1
  <2> QED
    BY <1>0, <1>1, <2>1, <2>2, <2>6, <2>8, <2>9, <2>10 DEF Safe, Live, ReqOK, Owns, Holds, Lost, ReqRecords
<1> QED
  BY <1>4, <1>5


-----------------------------------------------------------------------------
(* The generation thread.                                                    *)

\* A thread's step leaves the place and the end of its request alone.
LEMMA ThreadStep ==
  ASSUME Safe, NEW r \in Req, NEW n \in ReqRecords, ReqOK(n), req' = [req EXCEPT ![r] = n],
         n.pc = req[r].pc, n.end = req[r].end, n.stream = req[r].stream,
         UNCHANGED <<policy, permits, waiters>>, kv' \in Seq(Req),
         store' \in {store, Without(r)} \/ (r \in Live /\ store' = Touched(r))
  PROVE  Safe'
<1>1. Holds(n) <=> Holds(req[r])
  BY DEF Holds, Lost
<1>2. Owns(n) <=> Owns(req[r])
  BY <1>1 DEF Owns
<1>3. store \in Seq(Req) /\ Distinct(store) /\ \A q \in Live : Owns(req[q])
  BY DEF Safe
<1>4. store' \in Seq(Req) /\ Distinct(store') /\ Entries(store') \subseteq Live
  BY <1>3, WithoutFacts DEF Live
<1>5. Entries(store') \subseteq Live \cup {r} /\ (r \in Entries(store') => Owns(n))
  BY <1>2, <1>3, <1>4
<1>6. waiters' = waiters /\ permits' = permits /\ policy' = policy
  OBVIOUS
<1> QED
  BY <1>1, <1>4, <1>5, <1>6, QuietStep

\* An exception ends the thread with two events.
LEMMA RaisesFacts ==
  ASSUME Safe, NEW r \in Req, req[r].thread \in Running
  PROVE  \E n \in ReqRecords :
           /\ ReqOK(n) /\ Raises(r) = [req EXCEPT ![r] = n]
           /\ n.pc = req[r].pc /\ n.end = req[r].end /\ n.stream = req[r].stream
           /\ n.tok = req[r].tok /\ n.out = req[r].out /\ n.queue = req[r].queue \o <<"error", "end">>
<1> DEFINE Q == Req \cup {"done", "error", "end"}
           e == <<"error", "end">>
           qu == req[r].queue \o e
           n == [req[r] EXCEPT !.thread = "over", !.queue = qu]
<1>1. req \in [Req -> ReqRecords] /\ req[r] \in ReqRecords /\ ReqOK(req[r])
  BY DEF Safe
<1>2. qu \in Seq(Q)
  <2>1. e \in Seq(Q) /\ req[r].queue \in Seq(Q)
    BY <1>1 DEF ReqRecords
  <2> HIDE DEF Q, e
  <2> QED
    BY <2>1
<1>3. Raises(r) = [req EXCEPT ![r] = n]
  BY <1>1 DEF Raises
<1> HIDE DEF qu
<1>4. /\ n \in ReqRecords /\ n.pc = req[r].pc /\ n.end = req[r].end /\ n.stream = req[r].stream
      /\ n.tok = req[r].tok /\ n.out = req[r].out /\ n.queue = qu /\ n.thread = "over" /\ n.made = req[r].made
  BY <1>1, <1>2 DEF ReqRecords, Running
<1> HIDE DEF n
<1>5. ReqOK(n)
  BY <1>1, <1>4 DEF ReqOK, Early, Running
<1> QED
  BY <1>3, <1>4, <1>5 DEF qu

\* Every step of the thread.
LEMMA DrainStep ==
  ASSUME Safe, NEW r \in Req, Drain(r)
  PROVE  Safe'
<1> DEFINE m == req[r]
<1>1. /\ req \in [Req -> ReqRecords] /\ m \in ReqRecords /\ ReqOK(m) /\ kv \in Seq(Req)
      /\ MaxNew \in Nat \ {0}
  BY LimitAssumption DEF Safe
<1>2. ASSUME m.thread \in Running, req' = Raises(r), UNCHANGED <<policy, permits, waiters>>,
             kv' \in Seq(Req), store' \in {store, Without(r)}
      PROVE  Safe'
  BY <1>2, RaisesFacts, ThreadStep
<1>3. CASE GetSession(r)
  <2>1. m.thread = "queued" /\ UNCHANGED <<policy, permits, waiters, store, kv>>
    BY <1>3 DEF GetSession, Thread
  <2>2. CASE r \in Live
    <3> DEFINE n == [m EXCEPT !.thread = "argmax"]
    <3>1. req' = [req EXCEPT ![r] = n]
      BY <1>1, <1>3, <2>2 DEF GetSession
    <3>2. /\ n \in ReqRecords /\ n.pc = m.pc /\ n.end = m.end /\ n.stream = m.stream /\ n.thread = "argmax"
          /\ n.made = m.made /\ n.queue = m.queue
      BY <1>1 DEF ReqRecords, Running
    <3> HIDE DEF n
    <3>3. ReqOK(n)
      BY <1>1, <2>1, <3>2 DEF ReqOK, Early, Running
    <3> QED
      BY <1>1, <2>1, <3>1, <3>2, <3>3, ThreadStep
  <2>3. CASE r \notin Live
    BY <1>1, <1>2, <1>3, <2>1, <2>3 DEF GetSession, Running
  <2> QED
    BY <2>2, <2>3
<1>4. CASE GreedyToken(r)
  <2>1. m.thread = "argmax" /\ UNCHANGED <<policy, permits, waiters, store, kv>>
    BY <1>4 DEF GreedyToken, Thread
  <2>2. CASE kv # <<>>
    <3> DEFINE t == <<Last(kv)>>
               n == [m EXCEPT !.thread = "append", !.tok = t]
    <3>1. req' = [req EXCEPT ![r] = n]
      BY <1>1, <1>4, <2>2 DEF GreedyToken
    <3>2. t \in Seq(Req)
      BY <1>1, <2>2 DEF Last
    <3> HIDE DEF t
    <3>3. /\ n \in ReqRecords /\ n.pc = m.pc /\ n.end = m.end /\ n.stream = m.stream /\ n.thread = "append"
          /\ n.made = m.made /\ n.queue = m.queue
      BY <1>1, <3>2 DEF ReqRecords, Running
    <3> HIDE DEF n
    <3>4. ReqOK(n)
      BY <1>1, <2>1, <3>3 DEF ReqOK, Early, Running
    <3> QED
      BY <1>1, <2>1, <3>1, <3>3, <3>4, ThreadStep
  <2>3. CASE kv = <<>>
    BY <1>1, <1>2, <1>4, <2>1, <2>3 DEF GreedyToken, Running
  <2> QED
    BY <2>2, <2>3
<1>5. CASE AppendAccepted(r)
  <2>1. m.thread = "append" /\ UNCHANGED <<policy, permits, waiters, store>> /\ kv' = kv \o m.tok
    BY <1>5 DEF AppendAccepted, Thread
  <2>2. kv' \in Seq(Req)
    <3>1. m.tok \in Seq(Req)
      BY <1>1 DEF ReqRecords
    <3> QED
      BY <1>1, <2>1, <3>1
  <2> DEFINE n == [m EXCEPT !.thread = "mirror"]
  <2>3. req' = [req EXCEPT ![r] = n]
    BY <1>1, <1>5 DEF AppendAccepted
  <2>4. /\ n \in ReqRecords /\ n.pc = m.pc /\ n.end = m.end /\ n.stream = m.stream /\ n.thread = "mirror"
        /\ n.made = m.made /\ n.queue = m.queue
    BY <1>1 DEF ReqRecords, Running
  <2> HIDE DEF n
  <2>5. ReqOK(n)
    BY <1>1, <2>1, <2>4 DEF ReqOK, Early, Running
  <2> QED
    BY <1>1, <2>1, <2>2, <2>3, <2>4, <2>5, ThreadStep
<1>6. CASE AppendRaises(r)
  BY <1>1, <1>2, <1>6 DEF AppendRaises, Thread, Running
<1>7. CASE MirrorCache(r)
  <2>1. m.thread = "mirror" /\ UNCHANGED <<policy, permits, waiters, store, kv>>
    BY <1>7 DEF MirrorCache, Thread
  <2> DEFINE k == Len(kv)
             n == [m EXCEPT !.thread = "extend", !.cached = k]
  <2>2. req' = [req EXCEPT ![r] = n] /\ k \in Nat
    <3>1. k \in Nat
      BY <1>1
    <3>2. req' = [req EXCEPT ![r].thread = "extend", ![r].cached = k]
      BY <1>7 DEF MirrorCache
    <3> HIDE DEF k
    <3> QED
      BY <1>1, <3>1, <3>2
  <2> HIDE DEF k
  <2>3. /\ n \in ReqRecords /\ n.pc = m.pc /\ n.end = m.end /\ n.stream = m.stream /\ n.thread = "extend"
        /\ n.made = m.made /\ n.queue = m.queue
    BY <1>1, <2>2 DEF ReqRecords, Running
  <2> HIDE DEF n
  <2>4. ReqOK(n)
    BY <1>1, <2>1, <2>3 DEF ReqOK, Early, Running
  <2> QED
    BY <1>1, <2>1, <2>2, <2>3, <2>4, ThreadStep
<1>8. CASE ExtendHistory(r)
  <2>1. m.thread = "extend" /\ UNCHANGED <<policy, permits, waiters, kv>> /\ store' = StoreAfterExtend(r)
    BY <1>8 DEF ExtendHistory, Thread
  <2>2. CASE ~Extends(r)
    <3>1. store' = Without(r) /\ req' = Raises(r)
      BY <1>8, <2>1, <2>2 DEF ExtendHistory, StoreAfterExtend
    <3> QED
      BY <1>1, <1>2, <2>1, <3>1 DEF Running
  <2>3. CASE Extends(r)
    <3>1. r \in Live /\ store' = Touched(r)
      BY <2>1, <2>3 DEF Extends, StoreAfterExtend
    <3>2. PICK eos \in BOOLEAN :
            LET last == eos \/ m.made + 1 = MaxNew
                events == m.tok \o IF last THEN <<"done", "end">> ELSE <<>>
            IN req' = [req EXCEPT ![r].made = @ + 1, ![r].pos = Len(kv), ![r].tok = <<>>,
                         ![r].queue = @ \o events, ![r].thread = IF last THEN "over" ELSE "argmax"]
      BY <1>8, <2>3 DEF ExtendHistory
    <3> DEFINE last == eos \/ m.made + 1 = MaxNew
               tail == IF last THEN <<"done", "end">> ELSE <<>>
               events == m.tok \o tail
               Q == Req \cup {"done", "error", "end"}
               qu == m.queue \o events
               k == Len(kv)
               j == m.made + 1
               t == IF last THEN "over" ELSE "argmax"
               e == <<>>
               n == [m EXCEPT !.made = j, !.pos = k, !.tok = e, !.queue = qu, !.thread = t]
    <3>3. req' = [req EXCEPT ![r] = n]
      BY <1>1, <3>2
    <3>4. k \in Nat /\ j \in 0..MaxNew /\ t \in {"over", "argmax"} /\ e \in Seq(Req)
      <4>1. m.made \in 0..MaxNew /\ m.made < MaxNew
        BY <1>1, <2>1 DEF ReqOK, Running, ReqRecords
      <4>2. k \in Nat
        BY <1>1
      <4> QED
        BY <1>1, <4>1, <4>2
    <3>5. t # "over" => j < MaxNew
      <4>1. m.made \in 0..MaxNew /\ m.made < MaxNew
        BY <1>1, <2>1 DEF ReqOK, Running, ReqRecords
      <4> QED
        BY <1>1, <4>1
    <3>6. qu \in Seq(Q)
      <4>1. m.tok \in Seq(Q) /\ m.queue \in Seq(Q)
        BY <1>1 DEF ReqRecords
      <4>2. tail \in Seq(Q)
        OBVIOUS
      <4> HIDE DEF Q, tail
      <4> QED
        BY <4>1, <4>2
    <3>7. m.pc = "drain" /\ t # "over" => qu \in Seq(Req)
      <4> SUFFICES ASSUME m.pc = "drain", t # "over" PROVE qu \in Seq(Req)
        OBVIOUS
      <4>1. m.tok \in Seq(Req) /\ m.queue \in Seq(Req)
        BY <1>1, <2>1 DEF ReqRecords, ReqOK
      <4>2. tail = <<>>
        OBVIOUS
      <4>3. tail \in Seq(Req)
        BY <4>2
      <4> HIDE DEF tail
      <4> QED
        BY <4>1, <4>3
    <3> HIDE DEF k, j, t, qu, e
    <3>8. /\ n \in ReqRecords /\ n.pc = m.pc /\ n.end = m.end /\ n.stream = m.stream /\ n.thread = t
          /\ n.made = j /\ n.queue = qu
      BY <1>1, <3>4, <3>6 DEF ReqRecords, Running
    <3> HIDE DEF n
    <3>9. ReqOK(n)
      BY <1>1, <2>1, <3>4, <3>5, <3>7, <3>8 DEF ReqOK, Early, Running
    <3> QED
      BY <1>1, <2>1, <3>1, <3>3, <3>8, <3>9, ThreadStep
  <2> QED
    BY <2>2, <2>3
<1> QED
  BY <1>3, <1>4, <1>5, <1>6, <1>7, <1>8 DEF Drain


-----------------------------------------------------------------------------
(* The handler.                                                              *)

\* A request past admission finds room in the store: creating its session
\* evicts nobody.
LEMMA NoEviction ==
  ASSUME Safe, NEW r \in Req, req[r].pc = "granted"
  PROVE  Len(store) < Capacity /\ r \notin Live
<1>1. store \in Seq(Req) /\ Distinct(store) /\ permits \in Nat /\ Capacity \in Nat
      /\ permits + Cardinality(Holders) = Capacity /\ \A q \in Live : Owns(req[q])
  BY LimitAssumption DEF Safe
<1>2. r \notin Live /\ r \in Holders
  BY <1>1 DEF Owns, Holds, Holders
<1>3. Live \subseteq Holders \ {r}
  <2>1. Live \subseteq Req
    BY <1>1 DEF Live, Entries
  <2> QED
    BY <1>1, <1>2, <2>1 DEF Holders, Owns
<1>4. /\ IsFiniteSet(Holders) /\ Cardinality(Holders) \in Nat /\ IsFiniteSet(Holders \ {r})
      /\ Cardinality(Holders \ {r}) = Cardinality(Holders) - 1
  BY <1>2, HoldersFinite, FS_RemoveElement
<1>5. Cardinality(Live) <= Cardinality(Holders) - 1
  BY <1>3, <1>4, FS_Subset
<1>6. Cardinality(Live) = Len(store)
  BY <1>1, DistinctLength DEF Live
<1> QED
  BY <1>1, <1>2, <1>4, <1>5, <1>6

\* The finally clauses, and the except clause of a failed prefill.
LEMMA EndStep ==
  ASSUME Safe, NEW r \in Req, NEW e \in Ends, store' = Without(r), policy' = policy, kv' \in Seq(Req),
         req[r].pc \in {"prefill", "extend", "drain"},
         req[r].thread \in Running \ {"queued"} => e = "disconnected",
         \/ /\ e \in {"ok", "engine_error", "disconnected"} /\ Release([req EXCEPT ![r] = Over(r, e)])
         \/ /\ e = "prefill_error" /\ EndOfRoute(r, [req EXCEPT ![r] = Over(r, e)])
  PROVE  Safe'
<1> DEFINE n == Over(r, e)
<1>1. /\ n \in ReqRecords /\ ReqOK(n) /\ n.pc = "over" /\ n.end = e /\ n.stream = req[r].stream
  BY OverFacts
<1>2. Holds(req[r])
  BY DEF Holds
<1> HIDE DEF n
<1>3. CASE Release([req EXCEPT ![r] = n]) /\ ~(n.stream /\ e = "prefill_error")
  <2>1. ~Holds(n)
    BY <1>1, <1>3 DEF Holds, Lost, n
  <2> QED
    BY <1>1, <1>2, <1>3, <2>1, ReleaseStep
<1>4. CASE n.stream /\ e = "prefill_error"
  <2>1. req' = [req EXCEPT ![r] = n] /\ permits' = permits /\ waiters' = waiters
    BY <1>1, <1>4 DEF EndOfRoute, n
  <2>2. Holds(n) /\ Owns(n)
    BY <1>1, <1>4 DEF Holds, Lost, Owns
  <2>3. store' \in Seq(Req) /\ Distinct(store') /\ Entries(store') \subseteq Live \cup {r}
    BY WithoutFacts
  <2> QED
    BY <1>1, <1>2, <2>1, <2>2, <2>3, QuietStep
<1> QED
  BY <1>1, <1>3, <1>4 DEF EndOfRoute, n

\* A step of the handler that keeps the request in service.
LEMMA ServeStep ==
  ASSUME Safe, NEW r \in Req, NEW n \in ReqRecords, ReqOK(n), req' = [req EXCEPT ![r] = n],
         Holds(req[r]), req[r].pc # "waiting", Holds(n), n.pc \notin {"waiting", "granted"},
         UNCHANGED <<policy, permits, waiters>>, kv' \in Seq(Req),
         store' = store \/ store' = Touched(r)
  PROVE  Safe'
<1>1. store \in Seq(Req) /\ Distinct(store)
  BY DEF Safe
<1>2. store' \in Seq(Req) /\ Distinct(store') /\ Entries(store') \subseteq Live \cup {r}
  BY <1>1, WithoutFacts DEF Live
<1>3. waiters' = waiters /\ permits' = permits /\ policy' = policy /\ Owns(n)
  BY DEF Owns
<1> QED
  BY <1>2, <1>3, QuietStep

\* Every step of the handler.
LEMMA HandlerStep ==
  ASSUME Safe, NEW r \in Req, Handler(r)
  PROVE  Safe'
<1> DEFINE m == req[r]
           Q == Req \cup {"done", "error", "end"}
<1>0. <<>> \in Seq(Req)
  OBVIOUS
<1>1. /\ req \in [Req -> ReqRecords] /\ m \in ReqRecords /\ ReqOK(m) /\ kv \in Seq(Req)
      /\ MaxNew \in Nat \ {0} /\ store \in Seq(Req) /\ Distinct(store)
  BY LimitAssumption DEF Safe
<1>2. m.pc \notin {"idle", "waiting", "over"} => Holds(m)
  BY DEF Holds
<1>3. CASE CreateSession(r)
  <2>1. m.pc = "granted" /\ UNCHANGED <<policy, permits, waiters, kv>>
    BY <1>3 DEF CreateSession, At
  <2>2. Len(store) < Capacity /\ r \notin Live
    BY <2>1, NoEviction
  <2>3. store' = Append(store, r)
    BY <1>1, <1>3, <2>2, LimitAssumption DEF CreateSession
  <2>4. store' \in Seq(Req) /\ Distinct(store') /\ Entries(store') \subseteq Live \cup {r}
    BY <1>1, <2>2, <2>3, AppendEntries DEF Live
  <2> DEFINE n == [m EXCEPT !.pc = "prefill"]
  <2>5. req' = [req EXCEPT ![r] = n]
    BY <1>1, <1>3 DEF CreateSession
  <2>6. /\ n \in ReqRecords /\ n.pc = "prefill" /\ n.end = m.end /\ n.thread = m.thread /\ n.made = m.made
        /\ n.queue = m.queue
    BY <1>1 DEF ReqRecords, Early
  <2> HIDE DEF n
  <2>7. ReqOK(n) /\ Owns(n) /\ Holds(n)
    BY <1>1, <2>1, <2>6 DEF ReqOK, Early, Running, Owns, Holds
  <2> QED
    BY <1>1, <1>2, <2>1, <2>4, <2>5, <2>6, <2>7, QuietStep
<1>4. CASE Prefill(r)
  <2>1. m.pc = "prefill" /\ UNCHANGED <<policy, permits, waiters, store>> /\ kv' = <<r>>
    BY <1>4 DEF Prefill, At
  <2>2. kv' \in Seq(Req)
    BY <2>1
  <2> DEFINE n == [m EXCEPT !.pc = "mirror"]
  <2>3. req' = [req EXCEPT ![r] = n]
    BY <1>1, <1>4 DEF Prefill
  <2>4. /\ n \in ReqRecords /\ n.pc = "mirror" /\ n.end = m.end /\ n.thread = m.thread /\ n.made = m.made
        /\ n.queue = m.queue
    BY <1>1 DEF ReqRecords, Early
  <2> HIDE DEF n
  <2>5. ReqOK(n) /\ Holds(n)
    BY <1>1, <2>1, <2>4 DEF ReqOK, Early, Running, Holds
  <2> QED
    BY <1>1, <1>2, <2>1, <2>2, <2>3, <2>4, <2>5, ServeStep
<1>5. CASE PrefillRaises(r)
  <2>1. /\ m.pc = "prefill" /\ kv' = <<>> /\ policy' = policy /\ store' = Without(r)
        /\ EndOfRoute(r, [req EXCEPT ![r] = Over(r, "prefill_error")])
    BY <1>5 DEF PrefillRaises, PrefillError, At
  <2>2. m.thread \notin Running /\ kv' \in Seq(Req)
    BY <1>1, <2>1 DEF ReqOK, Early, Running
  <2> QED
    BY <2>1, <2>2, EndStep DEF Ends
<1>6. CASE MirrorPrompt(r)
  <2>1. m.pc = "mirror" /\ UNCHANGED <<policy, permits, waiters, store, kv>>
    BY <1>6 DEF MirrorPrompt, At
  <2> DEFINE k == Len(kv)
             n == [m EXCEPT !.pc = "extend", !.cached = k]
  <2>2. k \in Nat
    BY <1>1
  <2>3. req' = [req EXCEPT ![r].pc = "extend", ![r].cached = k]
    BY <1>6 DEF MirrorPrompt
  <2> HIDE DEF k
  <2>4. req' = [req EXCEPT ![r] = n]
    BY <1>1, <2>2, <2>3
  <2>5. /\ n \in ReqRecords /\ n.pc = "extend" /\ n.end = m.end /\ n.thread = m.thread /\ n.made = m.made
        /\ n.queue = m.queue
    BY <1>1, <2>2 DEF ReqRecords, Early
  <2> HIDE DEF n
  <2>6. ReqOK(n) /\ Holds(n)
    BY <1>1, <2>1, <2>5 DEF ReqOK, Early, Running, Holds
  <2> QED
    BY <1>1, <1>2, <2>1, <2>4, <2>5, <2>6, ServeStep
<1>7. CASE ExtendPrompt(r)
  <2>1. m.pc = "extend" /\ UNCHANGED <<policy, kv>>
    BY <1>7 DEF ExtendPrompt, At
  <2>2. CASE ~Extends(r)
    <3>1. store' = Without(r) /\ EndOfRoute(r, [req EXCEPT ![r] = Over(r, "prefill_error")])
      BY <1>7, <2>2 DEF ExtendPrompt, PrefillError
    <3>2. m.thread \notin Running
      BY <1>1, <2>1 DEF ReqOK, Early, Running
    <3> QED
      BY <1>1, <2>1, <3>1, <3>2, EndStep DEF Ends
  <2>3. CASE Extends(r)
    <3> DEFINE k == Len(kv)
               pc == IF m.stream THEN "response" ELSE "drain"
               t == IF m.stream THEN "none" ELSE "queued"
               n == [m EXCEPT !.pos = k, !.pc = pc, !.thread = t]
    <3>1. /\ store' = Touched(r) /\ UNCHANGED <<permits, waiters>>
          /\ req' = [req EXCEPT ![r].pos = k, ![r].pc = pc, ![r].thread = t]
      BY <1>7, <2>3 DEF ExtendPrompt
    <3>2. k \in Nat
      BY <1>1
    <3>3. (pc = "response" /\ t = "none" /\ m.stream) \/ (pc = "drain" /\ t = "queued")
      OBVIOUS
    <3> HIDE DEF k, pc, t
    <3>4. req' = [req EXCEPT ![r] = n]
      BY <1>1, <3>1
    <3>5. /\ n \in ReqRecords /\ n.pc = pc /\ n.thread = t /\ n.end = m.end /\ n.made = m.made
          /\ n.stream = m.stream /\ n.queue = m.queue
      BY <1>1, <3>2, <3>3 DEF ReqRecords, Early, Running
    <3> HIDE DEF n
    <3>6. m.thread = "none" /\ m.made = 0 /\ m.queue = <<>> /\ m.end = "none"
      BY <1>1, <2>1 DEF ReqOK, Early
    <3>7. ReqOK(n) /\ Holds(n)
      <4>1. n.queue \in Seq(Req)
        BY <1>0, <3>5, <3>6
      <4>2. CASE pc = "response" /\ t = "none" /\ m.stream
        BY <1>1, <3>5, <3>6, <4>2 DEF ReqOK, Early, Running, Holds
      <4>3. CASE pc = "drain" /\ t = "queued"
        BY <1>1, <3>5, <3>6, <4>1, <4>3 DEF ReqOK, Early, Running, Holds
      <4> QED
        BY <3>3, <4>2, <4>3
    <3> QED
      BY <1>1, <1>2, <2>1, <3>1, <3>3, <3>4, <3>5, <3>7, ServeStep
  <2> QED
    BY <2>2, <2>3
<1>8. CASE FirstChunk(r)
  <2>1. m.pc = "response" /\ UNCHANGED <<policy, permits, waiters, store, kv>>
    BY <1>8 DEF FirstChunk, At
  <2> DEFINE n == [m EXCEPT !.pc = "drain", !.thread = "queued"]
  <2>2. req' = [req EXCEPT ![r] = n]
    BY <1>1, <1>8 DEF FirstChunk
  <2>3. /\ n \in ReqRecords /\ n.pc = "drain" /\ n.thread = "queued" /\ n.end = m.end /\ n.made = m.made
        /\ n.queue = m.queue
    BY <1>1 DEF ReqRecords, Early, Running
  <2> HIDE DEF n
  <2>4. m.thread = "none" /\ m.made = 0 /\ m.queue \in Seq(Req) /\ m.end = "none"
    BY <1>1, <1>0, <2>1 DEF ReqOK, Early
  <2>5. ReqOK(n) /\ Holds(n)
    BY <1>1, <2>3, <2>4 DEF ReqOK, Early, Running, Holds
  <2> QED
    BY <1>1, <1>2, <2>1, <2>2, <2>3, <2>5, ServeStep
<1>9. CASE ResponseDropped(r)
  <2>1. m.pc = "response" /\ UNCHANGED <<policy, permits, waiters, store, kv>> /\ m.stream
    BY <1>1, <1>9 DEF ResponseDropped, At, ReqOK
  <2> DEFINE n == Over(r, "dropped")
  <2>2. req' = [req EXCEPT ![r] = n]
    BY <1>9 DEF ResponseDropped
  <2>3. m.thread \notin Running
    BY <1>1, <2>1 DEF ReqOK, Early, Running
  <2>4. n \in ReqRecords /\ ReqOK(n) /\ n.pc = "over" /\ n.end = "dropped" /\ n.stream = m.stream
    BY <2>3, OverFacts DEF Ends
  <2> HIDE DEF n
  <2>5. Holds(n)
    BY <2>1, <2>4 DEF Holds, Lost
  <2> QED
    BY <1>1, <1>2, <2>1, <2>2, <2>4, <2>5, ServeStep
<1>10. ASSUME NEW e \in {"ok", "engine_error", "disconnected"}, Teardown(r, e), m.pc = "drain",
              m.thread \in Running => e = "disconnected"
       PROVE  Safe'
  <2>1. /\ store' = Without(r) /\ Release([req EXCEPT ![r] = Over(r, e)]) /\ policy' = policy /\ kv' = kv
    BY <1>10 DEF Teardown
  <2>2. e \in Ends
    BY DEF Ends
  <2> QED
    BY <1>1, <1>10, <2>1, <2>2, EndStep
<1>11. CASE Deliver(r)
  <2> DEFINE q == m.queue
             e == Head(q)
  <2>1. m.pc = "drain" /\ q # <<>> /\ q \in Seq(Q)
    BY <1>1, <1>11 DEF Deliver, At, ReqRecords
  <2>2. e \in Q /\ Tail(q) \in Seq(Q) /\ (q \in Seq(Req) => e \in Req /\ Tail(q) \in Seq(Req))
    <3> HIDE DEF q, Q
    <3> QED
      BY <2>1
  <2>3. e \in {"done", "error", "end"} => m.thread \notin Running
    BY <1>1, <2>1, <2>2, ReqAssumption DEF ReqOK, Running
  <2>4. CASE e = "end"
    <3>1. Teardown(r, "ok")
      BY <1>11, <2>4 DEF Deliver
    <3> QED
      BY <1>10, <2>1, <2>3, <2>4, <3>1
  <2>5. CASE e = "error"
    <3>1. Teardown(r, "engine_error")
      BY <1>11, <2>5 DEF Deliver
    <3> QED
      BY <1>10, <2>1, <2>3, <2>5, <3>1
  <2>6. ASSUME NEW n \in ReqRecords, req' = [req EXCEPT ![r] = n], UNCHANGED <<policy, permits, waiters, store, kv>>,
               n.queue = Tail(q), n.pc = m.pc, n.thread = m.thread, n.end = m.end, n.made = m.made
        PROVE  Safe'
    <3>1. ReqOK(n) /\ Holds(n)
      BY <1>1, <2>1, <2>2, <2>6 DEF ReqOK, Early, Running, Holds
    <3> QED
      BY <1>1, <1>2, <2>1, <2>6, <3>1, ServeStep
  <2>7. CASE e = "done"
    <3> DEFINE u == Tail(q)
               n == [m EXCEPT !.queue = u]
    <3>1. req' = [req EXCEPT ![r] = n] /\ UNCHANGED <<policy, permits, waiters, store, kv>>
      BY <1>1, <1>11, <2>7 DEF Deliver
    <3> HIDE DEF u
    <3>2. /\ n \in ReqRecords /\ n.queue = u /\ n.pc = m.pc /\ n.thread = m.thread /\ n.end = m.end
          /\ n.made = m.made
      BY <1>1, <2>2 DEF ReqRecords, u
    <3> HIDE DEF n
    <3> QED
      BY <2>6, <3>1, <3>2 DEF u
  <2>8. CASE e \notin {"end", "error", "done"}
    <3> DEFINE u == Tail(q)
               o == Append(m.out, e)
               n == [m EXCEPT !.queue = u, !.out = o]
    <3>1. req' = [req EXCEPT ![r] = n] /\ UNCHANGED <<policy, permits, waiters, store, kv>>
      <4>1. /\ req' = [[req EXCEPT ![r].queue = Tail(@)] EXCEPT ![r].out = Append(@, e)]
            /\ UNCHANGED <<policy, permits, waiters, store, kv>>
        BY <1>11, <2>8 DEF Deliver
      <4> DEFINE k == [m EXCEPT !.queue = u]
                 b == [req EXCEPT ![r].queue = Tail(@)]
      <4>2. b = [req EXCEPT ![r] = k] /\ b[r] = k /\ k.out = m.out
        BY <1>1 DEF ReqRecords
      <4>3. n = [k EXCEPT !.out = o]
        OBVIOUS
      <4> HIDE DEF e, u, n, o
      <4>4. req' = [b EXCEPT ![r] = [k EXCEPT !.out = Append(k.out, e)]]
        <5> HIDE DEF k
        <5> QED
          BY <4>1, <4>2
      <4>5. req' = [b EXCEPT ![r] = n]
        BY <4>2, <4>3, <4>4 DEF o
      <4> HIDE DEF k, b
      <4> QED
        BY <1>1, <4>1, <4>2, <4>5
    <3>2. u \in Seq(Q) /\ o \in Seq(Req)
      <4>1. m.out \in Seq(Req) /\ e \in Req
        BY <1>1, <2>2, <2>8 DEF ReqRecords
      <4> QED
        BY <2>2, <4>1
    <3> HIDE DEF u, o
    <3>3. /\ n \in ReqRecords /\ n.queue = u /\ n.pc = m.pc /\ n.thread = m.thread /\ n.end = m.end
          /\ n.made = m.made
      BY <1>1, <3>2 DEF ReqRecords
    <3> HIDE DEF n
    <3> QED
      BY <2>6, <3>1, <3>3 DEF u
  <2> QED
    BY <2>4, <2>5, <2>7, <2>8
<1>12. CASE DetectDisconnect(r)
  BY <1>10, <1>12 DEF DetectDisconnect, At
<1> QED
  BY <1>3, <1>4, <1>5, <1>6, <1>7, <1>8, <1>9, <1>11, <1>12 DEF Handler


-----------------------------------------------------------------------------
(* Admission and clients.                                                    *)

\* A request arrives: it takes a permit, is turned away, or joins the line.
LEMMA ArriveStep ==
  ASSUME Safe, NEW r \in Req, Arrive(r)
  PROVE  Safe'
<1> DEFINE m == req[r]
<1>1. /\ req \in [Req -> ReqRecords] /\ m \in ReqRecords /\ ReqOK(m) /\ permits \in Nat
      /\ waiters \in Seq(Req) /\ Distinct(waiters) /\ store \in Seq(Req) /\ Distinct(store)
      /\ \A q \in Req : q \in Entries(waiters) <=> req[q].pc = "waiting"
      /\ (\A q \in Req : ReqOK(req[q])) /\ \A q \in Live : Owns(req[q])
      /\ permits + Cardinality(Holders) = Capacity /\ Capacity \in Nat
      /\ policy \in {"REJECT", "QUEUE"} /\ kv \in Seq(Req)
  BY LimitAssumption DEF Safe
<1>2. /\ m.pc = "idle" /\ UNCHANGED <<policy, store, kv>> /\ ~Holds(m)
  BY WaitingHoldsNothing DEF Arrive, At
<1>3. r \notin Live /\ r \notin Entries(waiters) /\ r \notin Holders
  BY <1>1, <1>2 DEF Owns, Holders
<1>4. PICK s \in BOOLEAN :
        \/ /\ permits > 0 /\ permits' = permits - 1 /\ waiters' = waiters
           /\ req' = [req EXCEPT ![r].pc = "granted", ![r].stream = s]
        \/ /\ permits' = permits /\ waiters' = waiters /\ req' = [req EXCEPT ![r] = Over(r, "rejected")]
        \/ /\ permits' = permits /\ waiters' = Append(waiters, r)
           /\ req' = [req EXCEPT ![r].pc = "waiting", ![r].stream = s]
  BY DEF Arrive
<1>5. ASSUME NEW pc \in {"granted", "waiting"}
      PROVE  LET n == [m EXCEPT !.pc = pc, !.stream = s] IN
             /\ n \in ReqRecords /\ ReqOK(n) /\ n.pc = pc
             /\ Holds(n) <=> pc = "granted"
             /\ [req EXCEPT ![r].pc = pc, ![r].stream = s] = [req EXCEPT ![r] = n]
  <2> DEFINE n == [m EXCEPT !.pc = pc, !.stream = s]
  <2>1. /\ n \in ReqRecords /\ n.pc = pc /\ n.end = m.end /\ n.thread = m.thread /\ n.made = m.made
        /\ n.queue = m.queue
    BY <1>1 DEF ReqRecords, Early
  <2>2. [req EXCEPT ![r].pc = pc, ![r].stream = s] = [req EXCEPT ![r] = n]
    BY <1>1
  <2> HIDE DEF n
  <2>3. ReqOK(n)
    BY <1>1, <1>2, <2>1 DEF ReqOK, Early, Running
  <2>4. Holds(n) <=> pc = "granted"
    BY <1>1, <1>2, <2>1 DEF Holds, Lost, ReqOK
  <2> QED
    BY <2>1, <2>2, <2>3, <2>4 DEF n
<1>6. ASSUME NEW n \in ReqRecords, ReqOK(n), req' = [req EXCEPT ![r] = n]
      PROVE  /\ req' \in [Req -> ReqRecords] /\ \A q \in Req : ReqOK(req'[q])
             /\ \A q \in Req : req'[q] = IF q = r THEN n ELSE req[q]
             /\ \A q \in Entries(store') : Owns(req'[q])
  <2>1. Live \subseteq Req /\ Entries(store') = Live
    BY <1>1, <1>2 DEF Live, Entries
  <2>2. \A q \in Req : req'[q] = IF q = r THEN n ELSE req[q]
    BY <1>1, <1>6
  <2> QED
    BY <1>1, <1>3, <1>6, <2>1, <2>2
<1> DEFINE H == {q \in Req : Holds(req'[q])}
<1>7. Holders' = H
  BY DEF Holders, Holds, Lost
<1>8. CASE /\ permits > 0 /\ permits' = permits - 1 /\ waiters' = waiters
           /\ req' = [req EXCEPT ![r].pc = "granted", ![r].stream = s]
  <2> DEFINE n == [m EXCEPT !.pc = "granted", !.stream = s]
  <2>1. n \in ReqRecords /\ ReqOK(n) /\ n.pc = "granted" /\ Holds(n) /\ req' = [req EXCEPT ![r] = n]
    BY <1>5, <1>8
  <2> HIDE DEF n
  <2>2. /\ req' \in [Req -> ReqRecords] /\ \A q \in Req : ReqOK(req'[q])
        /\ \A q \in Req : req'[q] = IF q = r THEN n ELSE req[q]
        /\ \A q \in Entries(store') : Owns(req'[q])
    BY <1>6, <2>1
  <2>3. H = Holders \cup {r}
    <3>1. \A q \in Req : Holds(req'[q]) <=> Holds(req[q]) \/ q = r
      BY <2>1, <2>2
    <3> QED
      BY <3>1 DEF Holders
  <2>4. permits' \in Nat /\ permits' + Cardinality(Holders') = Capacity
    <3> HIDE DEF H
    <3>1. Cardinality(H) = Cardinality(Holders) + 1 /\ Cardinality(Holders) \in Nat
      BY <1>3, <2>3, HoldersFinite, FS_AddElement
    <3>2. Cardinality(Holders') = Cardinality(Holders) + 1
      BY <1>7, <3>1
    <3>3. /\ permits \in Nat /\ permits > 0 /\ permits' = permits - 1
          /\ permits + Cardinality(Holders) = Capacity /\ Cardinality(Holders) \in Nat
      BY <1>1, <1>8, <3>1
    <3> QED
      BY <3>2, <3>3
  <2>5. \A q \in Req : q \in Entries(waiters') <=> req'[q].pc = "waiting"
    BY <1>1, <1>3, <1>8, <2>1, <2>2
  <2> QED
    BY <1>1, <1>2, <1>8, <2>2, <2>4, <2>5 DEF Safe, Live, ReqOK, Owns, Holds, Lost, ReqRecords
<1>9. CASE permits' = permits /\ waiters' = waiters /\ req' = [req EXCEPT ![r] = Over(r, "rejected")]
  <2> DEFINE n == Over(r, "rejected")
  <2>1. m.thread \notin Running
    BY <1>1, <1>2 DEF ReqOK, Early, Running
  <2>2. n \in ReqRecords /\ ReqOK(n) /\ n.pc = "over" /\ n.end = "rejected"
    BY <2>1, OverFacts DEF Ends
  <2> HIDE DEF n
  <2>3. ~Holds(n)
    BY <2>2 DEF Holds, Lost
  <2>4. req' = [req EXCEPT ![r] = n] /\ store' = store /\ Entries(store') = Live
    BY <1>2, <1>9 DEF n, Live
  <2> QED
    BY <1>1, <1>2, <1>3, <1>9, <2>2, <2>3, <2>4, QuietStep
<1>10. CASE /\ permits' = permits /\ waiters' = Append(waiters, r)
            /\ req' = [req EXCEPT ![r].pc = "waiting", ![r].stream = s]
  <2> DEFINE n == [m EXCEPT !.pc = "waiting", !.stream = s]
  <2>1. n \in ReqRecords /\ ReqOK(n) /\ n.pc = "waiting" /\ ~Holds(n) /\ req' = [req EXCEPT ![r] = n]
    BY <1>5, <1>10
  <2> HIDE DEF n
  <2>2. /\ req' \in [Req -> ReqRecords] /\ \A q \in Req : ReqOK(req'[q])
        /\ \A q \in Req : req'[q] = IF q = r THEN n ELSE req[q]
        /\ \A q \in Entries(store') : Owns(req'[q])
    BY <1>6, <2>1
  <2>3. H = Holders
    <3>1. \A q \in Req : Holds(req'[q]) <=> Holds(req[q])
      BY <1>2, <2>1, <2>2
    <3> QED
      BY <3>1 DEF Holders
  <2>4. permits' \in Nat /\ permits' + Cardinality(Holders') = Capacity
    BY <1>1, <1>7, <1>10, <2>3
  <2>5. waiters' \in Seq(Req) /\ Distinct(waiters') /\ Entries(waiters') = Entries(waiters) \cup {r}
    BY <1>1, <1>3, <1>10, AppendEntries
  <2>6. \A q \in Req : q \in Entries(waiters') <=> req'[q].pc = "waiting"
    BY <1>1, <2>1, <2>2, <2>5
  <2> QED
    BY <1>1, <1>2, <2>2, <2>4, <2>5, <2>6 DEF Safe, Live, ReqOK, Owns, Holds, Lost, ReqRecords
<1> QED
  BY <1>4, <1>8, <1>9, <1>10

\* A request that gives up waiting leaves the line and holds nothing.
LEMMA TimeoutStep ==
  ASSUME Safe, NEW r \in Req, AdmitTimesOut(r)
  PROVE  Safe'
<1> DEFINE m == req[r]
           n == Over(r, "rejected")
<1>1. /\ req \in [Req -> ReqRecords] /\ m \in ReqRecords /\ ReqOK(m) /\ permits \in Nat
      /\ waiters \in Seq(Req) /\ Distinct(waiters) /\ store \in Seq(Req) /\ Distinct(store)
      /\ \A q \in Req : q \in Entries(waiters) <=> req[q].pc = "waiting"
      /\ (\A q \in Req : ReqOK(req[q])) /\ \A q \in Live : Owns(req[q])
      /\ permits + Cardinality(Holders) = Capacity
      /\ policy \in {"REJECT", "QUEUE"} /\ kv \in Seq(Req)
  BY DEF Safe
<1>2. /\ m.pc = "waiting" /\ UNCHANGED <<policy, permits, store, kv>> /\ ~Holds(m)
      /\ waiters' = Dropping(waiters, {r}) /\ req' = [req EXCEPT ![r] = n]
  BY WaitingHoldsNothing DEF AdmitTimesOut, At
<1>3. m.thread \notin Running
  BY <1>1, <1>2 DEF ReqOK, Early, Running
<1>4. n \in ReqRecords /\ ReqOK(n) /\ n.pc = "over" /\ n.end = "rejected"
  BY <1>3, OverFacts DEF Ends
<1> HIDE DEF n
<1>5. /\ req' \in [Req -> ReqRecords] /\ \A q \in Req : req'[q] = IF q = r THEN n ELSE req[q]
  BY <1>1, <1>2, <1>4
<1>6. \A q \in Req : ReqOK(req'[q]) /\ (Holds(req'[q]) <=> Holds(req[q]))
  <2>1. ~Holds(n)
    BY <1>4 DEF Holds, Lost
  <2> QED
    BY <1>1, <1>2, <1>4, <1>5, <2>1
<1>7. Holders' = Holders
  <2>1. Holders' = {q \in Req : Holds(req'[q])}
    BY DEF Holders, Holds, Lost
  <2> QED
    BY <1>6, <2>1 DEF Holders
<1>8. waiters' \in Seq(Req) /\ Distinct(waiters') /\ Entries(waiters') = Entries(waiters) \ {r}
  BY <1>1, <1>2, DroppingEntries
<1>9. \A q \in Req : q \in Entries(waiters') <=> req'[q].pc = "waiting"
  BY <1>1, <1>4, <1>5, <1>8
<1>10. \A q \in Entries(store') : Owns(req'[q])
  <2>1. Live \subseteq Req /\ Entries(store') = Live /\ r \notin Live
    BY <1>1, <1>2 DEF Live, Entries, Owns
  <2> QED
    BY <1>1, <1>5, <2>1
<1>11. permits' \in Nat /\ permits' + Cardinality(Holders') = Capacity
  BY <1>1, <1>2, <1>7
<1>12. \A q \in Req : ReqOK(req'[q])
  BY <1>6
<1> QED
  BY <1>1, <1>2, <1>5, <1>8, <1>9, <1>10, <1>11, <1>12
     DEF Safe, Live, ReqOK, Owns, Holds, Lost, ReqRecords

\* A client that leaves changes nothing yet.
LEMMA LeaveStep ==
  ASSUME Safe, NEW r \in Req, ClientLeaves(r)
  PROVE  Safe'
<1> DEFINE m == req[r]
           n == [m EXCEPT !.client = "gone"]
<1>1. /\ req \in [Req -> ReqRecords] /\ m \in ReqRecords /\ ReqOK(m)
      /\ store \in Seq(Req) /\ Distinct(store) /\ kv \in Seq(Req) /\ \A q \in Live : Owns(req[q])
  BY DEF Safe
<1>2. req' = [req EXCEPT ![r] = n] /\ UNCHANGED <<policy, permits, waiters, store, kv>>
  BY <1>1 DEF ClientLeaves
<1>3. /\ n \in ReqRecords /\ n.pc = m.pc /\ n.end = m.end /\ n.thread = m.thread /\ n.made = m.made
      /\ n.queue = m.queue /\ n.stream = m.stream
  BY <1>1 DEF ReqRecords
<1> HIDE DEF n
<1>4. ReqOK(n) /\ (Holds(n) <=> Holds(m)) /\ (Owns(n) <=> Owns(m))
  BY <1>1, <1>3 DEF ReqOK, Holds, Lost, Owns
<1>5. Entries(store') = Live
  BY <1>2 DEF Live
<1> QED
  BY <1>1, <1>2, <1>3, <1>4, <1>5, QuietStep

\* All permits are free, and nobody waits.
LEMMA InitSafe == Init => Safe
<1> SUFFICES ASSUME Init PROVE Safe
  OBVIOUS
<1>1. /\ permits = Capacity /\ Capacity \in Nat /\ waiters = <<>> /\ store = <<>> /\ kv = <<>>
      /\ \A r \in Req : req[r] = NoReq
  BY LimitAssumption DEF Init
<1>2. req \in [Req -> ReqRecords] /\ \A r \in Req : ReqOK(req[r]) /\ req[r].pc = "idle"
  BY NoReqFacts DEF Init
<1>3. Holders = {}
  <2>1. ~Holds(NoReq)
    BY DEF Holds, Lost, NoReq
  <2> QED
    BY <1>1, <2>1 DEF Holders
<1>4. permits + Cardinality(Holders) = Capacity
  BY <1>1, <1>3, FS_EmptySet
<1>5. /\ Entries(waiters) = {} /\ Live = {} /\ Distinct(waiters) /\ Distinct(store)
  BY <1>1 DEF Entries, Live, Distinct
<1>6. waiters \in Seq(Req) /\ store \in Seq(Req) /\ kv \in Seq(Req)
  BY <1>1
<1>7. policy \in {"REJECT", "QUEUE"} /\ permits \in Nat
  BY <1>1 DEF Init
<1> QED
  BY <1>2, <1>4, <1>5, <1>6, <1>7 DEF Safe

\* Safe is inductive.
LEMMA StepSafe == Safe /\ [Next]_vars => Safe'
<1> SUFFICES ASSUME Safe, [Next]_vars PROVE Safe'
  OBVIOUS
<1>1. CASE Next
  <2>1. PICK r \in Req : Arrive(r) \/ AdmitTimesOut(r) \/ ClientLeaves(r) \/ Handler(r) \/ Drain(r)
    BY <1>1 DEF Next
  <2> QED
    BY <2>1, ArriveStep, TimeoutStep, LeaveStep, HandlerStep, DrainStep
<1>2. CASE UNCHANGED vars
  BY <1>2 DEF vars, Safe, Holders, Holds, Lost, Live, Owns, ReqOK, ReqRecords
<1> QED
  BY <1>1, <1>2

\* The inductive invariant holds throughout.
LEMMA SafeHolds == Spec => []Safe
BY InitSafe, StepSafe, PTL DEF Spec


-----------------------------------------------------------------------------
(* The properties of admission.                                              *)

\* Every variable has its type: permits stay between zero and capacity.
THEOREM HttpTypeCorrect == Spec => []HttpTypeOK
<1>1. Safe => HttpTypeOK
  <2> SUFFICES ASSUME Safe PROVE HttpTypeOK
    OBVIOUS
  <2>1. permits \in 0..Capacity
    BY HoldersFinite, LimitAssumption DEF Safe
  <2>2. req \in [Req -> ReqRecords] /\ waiters \in Seq(Req) /\ store \in Seq(Req) /\ kv \in Seq(Req)
        /\ policy \in {"REJECT", "QUEUE"}
    BY DEF Safe
  <2> QED
    BY <2>1, <2>2 DEF HttpTypeOK, ReqRecords, Early, Running, Ends
<1> QED
  BY <1>1, SafeHolds, PTL

\* A permit out of the semaphore belongs to a request in service or to a stream
\* that ended outside its generator's try block, for any number of requests,
\* waiters, timeouts, failures and disconnects.
THEOREM PermitsAreAccounted == Spec => []PermitsAccounted
<1>1. Safe => PermitsAccounted
  <2> SUFFICES ASSUME Safe PROVE PermitsAccounted
    OBVIOUS
  <2>1. Holders = InService \cup Stranded /\ InService \cap Stranded = {}
    BY DEF Holders, Holds, Lost, InService, Stranded, Safe, ReqOK
  <2>2. IsFiniteSet(InService) /\ IsFiniteSet(Stranded)
    BY ReqAssumption, FS_Subset DEF InService, Stranded
  <2>3. /\ Cardinality(Holders) = Cardinality(InService) + Cardinality(Stranded) - Cardinality({})
        /\ Cardinality(InService) \in Nat /\ Cardinality(Stranded) \in Nat
    <3>1. Cardinality(InService \cup Stranded)
            = Cardinality(InService) + Cardinality(Stranded) - Cardinality(InService \cap Stranded)
      BY <2>2, FS_Union
    <3>2. Cardinality(InService) \in Nat /\ Cardinality(Stranded) \in Nat
      BY <2>2, FS_CardinalityType
    <3> QED
      BY <2>1, <3>1, <3>2
  <2>4. permits \in Nat /\ Capacity \in Nat /\ permits + Cardinality(Holders) = Capacity
    BY LimitAssumption DEF Safe
  <2>5. Cardinality({}) = 0
    BY FS_EmptySet
  <2>6. Capacity - permits = Cardinality(InService) + Cardinality(Stranded)
    BY <2>3, <2>4, <2>5
  <2> QED
    BY <2>6 DEF PermitsAccounted
<1> QED
  BY <1>1, SafeHolds, PTL

\* Creating a session never evicts that of a request in service: the store,
\* the free permits and the requests about to create one fit the capacity.
THEOREM SessionsAreProtected == Spec => []AdmissionProtectsSessions
<1>1. Safe => AdmissionProtectsSessions
  <2> SUFFICES ASSUME Safe PROVE AdmissionProtectsSessions
    OBVIOUS
  <2> DEFINE G == {r \in Req : At(r, "granted")}
  <2>1. /\ store \in Seq(Req) /\ Distinct(store) /\ permits \in Nat /\ Capacity \in Nat
        /\ permits + Cardinality(Holders) = Capacity /\ \A q \in Live : Owns(req[q])
    BY LimitAssumption DEF Safe
  <2>2. Live \in SUBSET (Holders \ G) /\ G \in SUBSET Holders
    <3>1. Live \subseteq Req
      BY <2>1 DEF Live, Entries
    <3> QED
      BY <2>1, <3>1 DEF Holders, Holds, Owns, At
  <2> HIDE DEF G
  <2>3. /\ IsFiniteSet(Holders) /\ IsFiniteSet(G) /\ IsFiniteSet(Holders \ G)
        /\ Cardinality(Holders) \in Nat /\ Cardinality(G) \in Nat
    BY <2>2, HoldersFinite, FS_Subset, FS_CardinalityType
  <2>4. Cardinality(Holders \ G) = Cardinality(Holders) - Cardinality(G)
    <3>1. Holders \cap G = G
      BY <2>2
    <3> QED
      BY <2>3, <3>1, FS_Difference
  <2>5. Cardinality(Live) <= Cardinality(Holders \ G)
    BY <2>2, <2>3, FS_Subset
  <2>6. Cardinality(Live) = Len(store) /\ Len(store) \in Nat
    BY <2>1, DistinctLength DEF Live
  <2>7. Len(store) + permits + Cardinality(G) <= Capacity
    BY <2>1, <2>3, <2>4, <2>5, <2>6
  <2> QED
    BY <2>7 DEF AdmissionProtectsSessions, G
<1> QED
  BY <1>1, SafeHolds, PTL

-----------------------------------------------------------------------------
(* Answers of requests that are alone.                                       *)

Later == {"mirror", "extend", "response", "drain"}
Same(n, m) == n.tok = m.tok /\ n.queue = m.queue /\ n.out = m.out /\ n.end = m.end

\* With one permit and no abandoned thread, two holders are one.
LEMMA OneHolder ==
  ASSUME Safe, Alone, NEW r \in Req, NEW q \in Req, Holds(req[r]), Holds(req[q])
  PROVE  q = r
<1>1. IsFiniteSet(Holders) /\ Cardinality(Holders) \in Nat
  BY HoldersFinite
<1>2. Cardinality(Holders) <= 1 /\ r \in Holders /\ q \in Holders
  BY <1>1 DEF Safe, Alone, Holders
<1>3. Cardinality(Holders \ {r}) = Cardinality(Holders) - 1 /\ IsFiniteSet(Holders \ {r})
  BY <1>1, <1>2, FS_RemoveElement
<1>4. Cardinality(Holders \ {r}) \in Nat
  BY <1>3, FS_CardinalityType
<1>5. Cardinality(Holders \ {r}) = 0
  BY <1>1, <1>2, <1>3, <1>4
<1>6. Holders \ {r} = {}
  BY <1>3, <1>5, FS_EmptySet
<1> QED
  BY <1>2, <1>6

\* A running thread of a request that is alone is that of its handler, and the
\* cache is its own.
LEMMA ThreadAlone ==
  ASSUME Safe, Apart, Alone, NEW r \in Req, req[r].thread \in Running
  PROVE  req[r].pc = "drain" /\ Holds(req[r]) /\ All(kv, {r}) /\ Own(r, req[r])
<1>1. req[r].pc = "drain"
  BY DEF Safe, ReqOK, Alone
<1> QED
  BY <1>1 DEF Holds, Apart, Later

\* A step in which r moves, and at most another request is granted a permit.
LEMMA ApartStep ==
  ASSUME Safe, Apart, NEW r \in Req,
         \A q \in Req \ {r} : req'[q] = req[q] \/ (req'[q].pc = "granted" /\ Same(req'[q], req[q])),
         req[r].end = "disconnected" => req'[r].end = "disconnected",
         Alone => Own(r, req'[r]),
         Alone /\ req'[r].pc \in Later => All(kv', {r}),
         kv' = kv \/ (Alone => Holds(req[r]))
  PROVE  Apart'
<1> SUFFICES ASSUME Alone', NEW q \in Req
             PROVE  Own(q, req'[q]) /\ (req'[q].pc \in Later => All(kv', {q}))
  BY DEF Apart, Own, All, Later
<1>1. Alone
  <2>1. Capacity = 1 /\ \A p \in Req : req'[p].end # "disconnected"
    BY DEF Alone
  <2>2. \A p \in Req : req[p].end # "disconnected"
    BY <2>1 DEF Same
  <2> QED
    BY <2>1, <2>2 DEF Alone
<1>2. CASE q = r
  BY <1>1, <1>2
<1>3. CASE q # r
  <2>1. Own(q, req[q]) /\ (req[q].pc \in Later => All(kv, {q}))
    BY <1>1 DEF Apart, Later
  <2>2. Same(req'[q], req[q]) /\ (req'[q].pc \in Later => req'[q] = req[q])
    BY <1>3 DEF Same, Later
  <2>3. Own(q, req'[q])
    BY <2>1, <2>2 DEF Own, Same
  <2>4. ASSUME req'[q].pc \in Later PROVE All(kv', {q})
    <3>1. req[q].pc \in Later
      BY <2>2, <2>4
    <3>2. Holds(req[q])
      BY <3>1 DEF Holds, Later
    <3>3. ~Holds(req[r])
      BY <1>1, <1>3, <3>2, OneHolder
    <3>4. kv' = kv
      BY <1>1, <3>3
    <3> QED
      BY <2>1, <3>1, <3>4
  <2> QED
    BY <2>3, <2>4
<1> QED
  BY <1>2, <1>3

\* A step of r alone that keeps its tokens and the verifier.
LEMMA TokensKeptStep ==
  ASSUME Safe, Apart, NEW r \in Req, NEW n \in ReqRecords, req' = [req EXCEPT ![r] = n],
         Same(n, req[r]), kv' = kv, n.pc \in Later => req[r].pc \in Later
  PROVE  Apart'
<1>1. req \in [Req -> ReqRecords]
  BY DEF Safe
<1>2. req'[r] = n /\ \A q \in Req \ {r} : req'[q] = req[q]
  BY <1>1
<1>3. Alone => Own(r, req[r]) /\ (req[r].pc \in Later => All(kv, {r}))
  BY DEF Apart, Later
<1>4. Alone => Own(r, req'[r])
  BY <1>2, <1>3 DEF Own, Same
<1>5. n.end = req[r].end
  BY DEF Same
<1> QED
  BY <1>2, <1>3, <1>4, <1>5, ApartStep

\* What a release does to the records.
LEMMA ReleaseShape ==
  ASSUME Safe, NEW r \in Req, NEW n \in ReqRecords, Release([req EXCEPT ![r] = n]),
         req[r].pc # "waiting"
  PROVE  /\ req'[r] = n
         /\ \A q \in Req \ {r} : req'[q] = req[q] \/ (req'[q].pc = "granted" /\ Same(req'[q], req[q]))
<1>1. /\ req \in [Req -> ReqRecords] /\ waiters \in Seq(Req)
      /\ \A q \in Req : q \in Entries(waiters) <=> req[q].pc = "waiting"
  BY DEF Safe
<1>2. CASE waiters = <<>>
  BY <1>1, <1>2 DEF Release
<1>3. CASE waiters # <<>>
  <2> DEFINE w == Head(waiters)
             g == [req[w] EXCEPT !.pc = "granted"]
             rs == [req EXCEPT ![r] = n]
  <2>1. req' = [rs EXCEPT ![w].pc = "granted"]
    BY <1>3 DEF Release
  <2>2. w \in Req /\ w \in Entries(waiters)
    BY <1>1, <1>3, TailEntries
  <2>3. w # r
    BY <1>1, <2>2
  <2>4. g.pc = "granted" /\ Same(g, req[w])
    BY <1>1, <2>2 DEF ReqRecords, Same
  <2>5. req' = [rs EXCEPT ![w] = g]
    BY <1>1, <2>1, <2>2, <2>3
  <2> HIDE DEF w, g
  <2> QED
    BY <1>1, <2>2, <2>3, <2>4, <2>5
<1> QED
  BY <1>2, <1>3

\* A request that ends.
LEMMA OverStep ==
  ASSUME Safe, Apart, NEW r \in Req, NEW e \in Ends, e # "none",
         req[r].thread \in Running \ {"queued"} => e = "disconnected",
         req[r].pc # "over", kv' = kv \/ Holds(req[r]),
         \/ req' = [req EXCEPT ![r] = Over(r, e)]
         \/ req[r].pc # "waiting" /\ Release([req EXCEPT ![r] = Over(r, e)])
  PROVE  Apart'
<1> DEFINE n == Over(r, e)
<1>1. /\ n \in ReqRecords /\ n.pc = "over" /\ n.out = req[r].out /\ n.tok = req[r].tok /\ n.queue = <<>>
  BY OverFacts
<1> HIDE DEF n
<1>2. /\ req'[r] = n
      /\ \A q \in Req \ {r} : req'[q] = req[q] \/ (req'[q].pc = "granted" /\ Same(req'[q], req[q]))
  <2>1. CASE req' = [req EXCEPT ![r] = n]
    BY <2>1 DEF Safe
  <2>2. CASE req[r].pc # "waiting" /\ Release([req EXCEPT ![r] = n])
    BY <1>1, <2>2, ReleaseShape
  <2> QED
    BY <2>1, <2>2 DEF n
<1>3. req[r].end = "none"
  BY DEF Safe, ReqOK
<1>4. Alone => Own(r, n)
  <2>1. Alone => Own(r, req[r])
    BY DEF Apart
  <2>2. Len(n.queue) = 0
    BY <1>1
  <2> QED
    BY <1>1, <2>1, <2>2 DEF Own, All
<1>5. n.pc \notin Later
  BY <1>1 DEF Later
<1> QED
  BY <1>2, <1>3, <1>4, <1>5, ApartStep

\* Concatenation of sequences with the same kind of entries.
LEMMA AllConcat ==
  ASSUME NEW X, NEW s \in Seq(X), NEW t \in Seq(X), NEW S, All(s, S), All(t, S)
  PROVE  All(s \o t, S)
<1>1. /\ Len(s \o t) = Len(s) + Len(t) /\ Len(s) \in Nat /\ Len(t) \in Nat
      /\ \A i \in 1..(Len(s) + Len(t)) : (s \o t)[i] = IF i <= Len(s) THEN s[i] ELSE t[i - Len(s)]
  OBVIOUS
<1> QED
  BY <1>1 DEF All


\* The thread writes only its own request's tokens.
LEMMA ApartDrain ==
  ASSUME Safe, Apart, NEW r \in Req, Drain(r)
  PROVE  Apart'
<1> DEFINE m == req[r]
           Q == Req \cup {"done", "error", "end"}
           E == {r, "done", "error", "end"}
<1>1. /\ req \in [Req -> ReqRecords] /\ m \in ReqRecords /\ kv \in Seq(Req)
      /\ m.tok \in Seq(Req) /\ m.queue \in Seq(Q) /\ m.tok \in Seq(Q)
  <2>1. req \in [Req -> ReqRecords] /\ m \in ReqRecords /\ kv \in Seq(Req)
    BY DEF Safe
  <2>2. m.tok \in Seq(Req) /\ m.queue \in Seq(Q)
    BY <2>1 DEF ReqRecords
  <2> QED
    BY <2>1, <2>2
<1>2. m.thread \in Running /\ Alone => m.pc = "drain" /\ Holds(m) /\ All(kv, {r}) /\ Own(r, m)
  BY ThreadAlone
<1>3. ASSUME NEW n \in ReqRecords, req' = [req EXCEPT ![r] = n], m.thread \in Running,
             n.end = m.end, Alone => Own(r, n), Alone => All(kv', {r})
      PROVE  Apart'
  <2>1. req'[r] = n /\ \A q \in Req \ {r} : req'[q] = req[q]
    BY <1>1, <1>3
  <2> QED
    BY <1>2, <1>3, <2>1, ApartStep
<1>4. ASSUME m.thread \in Running, req' = Raises(r), kv' = kv
      PROVE  Apart'
  <2>1. PICK n \in ReqRecords :
          /\ req' = [req EXCEPT ![r] = n] /\ n.end = m.end
          /\ n.tok = m.tok /\ n.out = m.out /\ n.queue = m.queue \o <<"error", "end">>
    BY <1>4, RaisesFacts
  <2>2. ASSUME Alone PROVE Own(r, n)
    <3> DEFINE t == <<"error", "end">>
    <3>1. t \in Seq(Q) /\ All(t, E)
      BY DEF All
    <3>2. All(m.queue, E) /\ All(m.tok, {r}) /\ All(m.out, {r})
      BY <1>2, <1>4, <2>2 DEF Own
    <3> HIDE DEF t, Q, E
    <3>3. All(m.queue \o t, E)
      BY <1>1, <3>1, <3>2, AllConcat
    <3> QED
      BY <2>1, <3>2, <3>3 DEF Own, t, E
  <2> QED
    BY <1>2, <1>3, <1>4, <2>1, <2>2
<1>5. CASE GetSession(r)
  <2>1. m.thread = "queued" /\ kv' = kv
    BY <1>5 DEF GetSession, Thread
  <2>2. CASE r \in Live
    <3> DEFINE n == [m EXCEPT !.thread = "argmax"]
    <3>1. req' = [req EXCEPT ![r] = n]
      BY <1>1, <1>5, <2>2 DEF GetSession
    <3>2. n \in ReqRecords /\ n.pc = m.pc /\ Same(n, m)
      BY <1>1 DEF ReqRecords, Running, Same
    <3> HIDE DEF n
    <3> QED
      BY <2>1, <3>1, <3>2, TokensKeptStep
  <2>3. CASE r \notin Live
    BY <1>4, <1>5, <2>1, <2>3 DEF GetSession, Running
  <2> QED
    BY <2>2, <2>3
<1>6. CASE GreedyToken(r)
  <2>1. m.thread = "argmax" /\ kv' = kv
    BY <1>6 DEF GreedyToken, Thread
  <2>2. CASE kv # <<>>
    <3> DEFINE t == <<Last(kv)>>
               n == [m EXCEPT !.thread = "append", !.tok = t]
    <3>1. req' = [req EXCEPT ![r] = n]
      BY <1>1, <1>6, <2>2 DEF GreedyToken
    <3>2. t \in Seq(Req)
      BY <1>1, <2>2 DEF Last
    <3>3. All(kv, {r}) => All(t, {r})
      BY <1>1, <2>2 DEF All, Last
    <3> HIDE DEF t
    <3>4. n \in ReqRecords /\ n.end = m.end /\ n.tok = t /\ n.queue = m.queue /\ n.out = m.out
      BY <1>1, <3>2 DEF ReqRecords, Running
    <3> HIDE DEF n
    <3>5. Alone => Own(r, n)
      BY <1>2, <2>1, <3>3, <3>4 DEF Own, Running
    <3> QED
      BY <1>2, <1>3, <2>1, <3>1, <3>4, <3>5 DEF Running
  <2>3. CASE kv = <<>>
    BY <1>4, <1>6, <2>1, <2>3 DEF GreedyToken, Running
  <2> QED
    BY <2>2, <2>3
<1>7. CASE AppendAccepted(r)
  <2>1. m.thread = "append" /\ kv' = kv \o m.tok
    BY <1>7 DEF AppendAccepted, Thread
  <2> DEFINE n == [m EXCEPT !.thread = "mirror"]
  <2>2. req' = [req EXCEPT ![r] = n]
    BY <1>1, <1>7 DEF AppendAccepted
  <2>3. n \in ReqRecords /\ n.end = m.end /\ n.tok = m.tok /\ n.queue = m.queue /\ n.out = m.out
    BY <1>1 DEF ReqRecords, Running
  <2> HIDE DEF n
  <2>4. Alone => Own(r, n)
    BY <1>2, <2>1, <2>3 DEF Own, Running
  <2>5. Alone => All(kv', {r})
    <3> SUFFICES ASSUME Alone PROVE All(kv', {r})
      OBVIOUS
    <3>1. All(kv, {r}) /\ All(m.tok, {r})
      BY <1>2, <2>1 DEF Own, Running
    <3> QED
      BY <1>1, <2>1, <3>1, AllConcat
  <2> QED
    BY <1>3, <2>1, <2>2, <2>3, <2>4, <2>5 DEF Running
<1>8. CASE AppendRaises(r)
  BY <1>4, <1>8 DEF AppendRaises, Thread, Running
<1>9. CASE MirrorCache(r)
  <2> DEFINE k == Len(kv)
             n == [m EXCEPT !.thread = "extend", !.cached = k]
  <2>1. k \in Nat
    BY <1>1
  <2>2. req' = [req EXCEPT ![r].thread = "extend", ![r].cached = k] /\ kv' = kv
    BY <1>9 DEF MirrorCache
  <2> HIDE DEF k
  <2>3. req' = [req EXCEPT ![r] = n]
    BY <1>1, <2>1, <2>2
  <2>4. n \in ReqRecords /\ n.pc = m.pc /\ Same(n, m)
    BY <1>1, <2>1 DEF ReqRecords, Running, Same
  <2> HIDE DEF n
  <2> QED
    BY <2>2, <2>3, <2>4, TokensKeptStep
<1>10. CASE ExtendHistory(r)
  <2>1. m.thread = "extend" /\ kv' = kv
    BY <1>10 DEF ExtendHistory, Thread
  <2>2. CASE ~Extends(r)
    BY <1>4, <1>10, <2>1, <2>2 DEF ExtendHistory, Running
  <2>3. CASE Extends(r)
    <3>1. PICK eos \in BOOLEAN :
            LET last == eos \/ m.made + 1 = MaxNew
                events == m.tok \o IF last THEN <<"done", "end">> ELSE <<>>
            IN req' = [req EXCEPT ![r].made = @ + 1, ![r].pos = Len(kv), ![r].tok = <<>>,
                         ![r].queue = @ \o events, ![r].thread = IF last THEN "over" ELSE "argmax"]
      BY <1>10, <2>3 DEF ExtendHistory
    <3> DEFINE last == eos \/ m.made + 1 = MaxNew
               tail == IF last THEN <<"done", "end">> ELSE <<>>
               events == m.tok \o tail
               qu == m.queue \o events
               k == Len(kv)
               j == m.made + 1
               t == IF last THEN "over" ELSE "argmax"
               e == <<>>
               n == [m EXCEPT !.made = j, !.pos = k, !.tok = e, !.queue = qu, !.thread = t]
    <3>2. req' = [req EXCEPT ![r] = n]
      BY <1>1, <3>1
    <3>3. n.tok = e /\ n.queue = qu /\ n.out = m.out /\ n.end = m.end
      <4> HIDE DEF qu, k, j, t, e
      <4> QED
        BY <1>1 DEF ReqRecords
    <3>4. n \in ReqRecords
      <4> HIDE DEF n
      <4>1. req'[r] = n
        BY <1>1, <3>2
      <4>2. Safe'
        BY DrainStep
      <4>3. req'[r] \in ReqRecords
        BY <4>2 DEF Safe, ReqRecords
      <4> QED
        BY <4>1, <4>3
    <3>5. tail \in Seq(Q) /\ All(tail, E) /\ All(e, {r})
      <4>1. e \in Seq(Q) /\ Len(e) = 0
        OBVIOUS
      <4>2. All(e, E) /\ All(e, {r})
        <5> HIDE DEF e
        <5> QED
          BY <4>1 DEF All
      <4>3. <<"done", "end">> \in Seq(Q)
        OBVIOUS
      <4>4. All(<<"done", "end">>, E)
        <5>1. \A i \in 1..2 : i = 1 \/ i = 2
          OBVIOUS
        <5>2. Len(<<"done", "end">>) = 2 /\ <<"done", "end">>[1] = "done" /\ <<"done", "end">>[2] = "end"
          OBVIOUS
        <5> QED
          BY <5>1, <5>2 DEF All
      <4>5. CASE last
        BY <4>2, <4>3, <4>4, <4>5
      <4>6. CASE ~last
        BY <4>1, <4>2, <4>6
      <4> QED
        BY <4>5, <4>6
    <3>6. ASSUME Alone PROVE Own(r, n)
      <4>1. All(m.queue, E) /\ All(m.tok, {r}) /\ All(m.out, {r})
        BY <1>2, <2>1, <3>6 DEF Own, Running
      <4>2. All(m.tok, E)
        BY <4>1 DEF All
      <4>3. events \in Seq(Q) /\ All(events, E)
        <5> HIDE DEF tail, Q, E
        <5> QED
          BY <1>1, <3>5, <4>2, AllConcat
      <4>4. All(qu, E)
        <5> HIDE DEF events, Q, E
        <5> QED
          BY <1>1, <4>1, <4>3, AllConcat
      <4> HIDE DEF n, qu, e
      <4> QED
        BY <3>3, <3>5, <4>1, <4>4 DEF Own
    <3> HIDE DEF n
    <3> QED
      BY <1>2, <1>3, <2>1, <3>2, <3>3, <3>4, <3>6 DEF Running
  <2> QED
    BY <2>2, <2>3
<1> QED
  BY <1>5, <1>6, <1>7, <1>8, <1>9, <1>10 DEF Drain

\* So does the handler.
LEMMA ApartHandler ==
  ASSUME Safe, Apart, NEW r \in Req, Handler(r)
  PROVE  Apart'
<1> DEFINE m == req[r]
           Q == Req \cup {"done", "error", "end"}
           E == {r, "done", "error", "end"}
<1>1. /\ req \in [Req -> ReqRecords] /\ m \in ReqRecords /\ ReqOK(m) /\ kv \in Seq(Req)
  BY DEF Safe
<1>2. m.pc \notin {"idle", "waiting", "over"} => Holds(m)
  BY DEF Holds
<1>3. m.pc \in Early => m.thread \notin Running
  BY <1>1 DEF ReqOK, Running
<1>4. CASE CreateSession(r)
  <2> DEFINE n == [m EXCEPT !.pc = "prefill"]
  <2>1. req' = [req EXCEPT ![r] = n] /\ kv' = kv
    BY <1>1, <1>4 DEF CreateSession
  <2>2. n \in ReqRecords /\ n.pc = "prefill" /\ Same(n, m)
    BY <1>1 DEF ReqRecords, Early, Same
  <2> HIDE DEF n
  <2> QED
    BY <2>1, <2>2, TokensKeptStep DEF Later
<1>5. CASE Prefill(r)
  <2> DEFINE n == [m EXCEPT !.pc = "mirror"]
  <2>1. req' = [req EXCEPT ![r] = n] /\ kv' = <<r>> /\ m.pc = "prefill"
    BY <1>1, <1>5 DEF Prefill, At
  <2>2. n \in ReqRecords /\ n.pc = "mirror" /\ Same(n, m)
    BY <1>1 DEF ReqRecords, Early, Same
  <2> HIDE DEF n
  <2>3. req'[r] = n /\ \A q \in Req \ {r} : req'[q] = req[q]
    BY <1>1, <2>1
  <2>4. All(kv', {r})
    BY <2>1 DEF All
  <2>5. Alone => Own(r, n)
    BY <2>2 DEF Apart, Own, Same
  <2>6. n.end = m.end
    BY <2>2 DEF Same
  <2> QED
    BY <1>2, <2>1, <2>3, <2>4, <2>5, <2>6, ApartStep
<1>6. ASSUME m.pc \in {"prefill", "extend"}, PrefillError(r)
      PROVE  Apart'
  <2>1. EndOfRoute(r, [req EXCEPT ![r] = Over(r, "prefill_error")])
    BY <1>6 DEF PrefillError
  <2>2. \/ req' = [req EXCEPT ![r] = Over(r, "prefill_error")]
        \/ Release([req EXCEPT ![r] = Over(r, "prefill_error")])
    BY <2>1 DEF EndOfRoute
  <2>3. m.thread \notin Running /\ Holds(m) /\ m.pc \notin {"waiting", "over"}
    BY <1>2, <1>3, <1>6 DEF Early
  <2> QED
    BY <2>2, <2>3, OverStep DEF Ends
<1>7. CASE PrefillRaises(r)
  BY <1>6, <1>7 DEF PrefillRaises, At
<1>8. CASE MirrorPrompt(r)
  <2> DEFINE k == Len(kv)
             n == [m EXCEPT !.pc = "extend", !.cached = k]
  <2>1. k \in Nat
    BY <1>1
  <2>2. req' = [req EXCEPT ![r].pc = "extend", ![r].cached = k] /\ kv' = kv /\ m.pc = "mirror"
    BY <1>8 DEF MirrorPrompt, At
  <2> HIDE DEF k
  <2>3. req' = [req EXCEPT ![r] = n]
    BY <1>1, <2>1, <2>2
  <2>4. n \in ReqRecords /\ Same(n, m)
    BY <1>1, <2>1 DEF ReqRecords, Early, Same
  <2> HIDE DEF n
  <2> QED
    BY <2>2, <2>3, <2>4, TokensKeptStep DEF Later
<1>9. CASE ExtendPrompt(r)
  <2>1. m.pc = "extend" /\ kv' = kv
    BY <1>9 DEF ExtendPrompt, At
  <2>2. CASE ~Extends(r)
    BY <1>6, <1>9, <2>1, <2>2 DEF ExtendPrompt
  <2>3. CASE Extends(r)
    <3> DEFINE k == Len(kv)
               pc == IF m.stream THEN "response" ELSE "drain"
               t == IF m.stream THEN "none" ELSE "queued"
               n == [m EXCEPT !.pos = k, !.pc = pc, !.thread = t]
    <3>1. req' = [req EXCEPT ![r].pos = k, ![r].pc = pc, ![r].thread = t]
      BY <1>9, <2>3 DEF ExtendPrompt
    <3>2. k \in Nat /\ pc \in {"response", "drain"} /\ t \in {"none", "queued"}
      BY <1>1
    <3> HIDE DEF k, pc, t
    <3>3. req' = [req EXCEPT ![r] = n]
      BY <1>1, <3>1
    <3>4. n \in ReqRecords /\ Same(n, m)
      BY <1>1, <3>2 DEF ReqRecords, Early, Running, Same
    <3> HIDE DEF n
    <3> QED
      BY <2>1, <3>3, <3>4, TokensKeptStep DEF Later
  <2> QED
    BY <2>2, <2>3
<1>10. CASE FirstChunk(r)
  <2> DEFINE n == [m EXCEPT !.pc = "drain", !.thread = "queued"]
  <2>1. req' = [req EXCEPT ![r] = n] /\ kv' = kv /\ m.pc = "response"
    BY <1>1, <1>10 DEF FirstChunk, At
  <2>2. n \in ReqRecords /\ Same(n, m)
    BY <1>1 DEF ReqRecords, Early, Running, Same
  <2> HIDE DEF n
  <2> QED
    BY <2>1, <2>2, TokensKeptStep DEF Later
<1>11. CASE ResponseDropped(r)
  <2>1. m.pc = "response" /\ kv' = kv /\ req' = [req EXCEPT ![r] = Over(r, "dropped")]
    BY <1>11 DEF ResponseDropped, At
  <2>2. m.thread \notin Running
    BY <1>3, <2>1 DEF Early
  <2> QED
    BY <2>1, <2>2, OverStep DEF Ends
<1>12. ASSUME NEW e \in {"ok", "engine_error", "disconnected"}, Teardown(r, e), m.pc = "drain",
              m.thread \in Running => e = "disconnected"
       PROVE  Apart'
  <2>1. Release([req EXCEPT ![r] = Over(r, e)]) /\ kv' = kv
    BY <1>12 DEF Teardown
  <2>2. e \in Ends /\ e # "none"
    BY DEF Ends
  <2> QED
    BY <1>12, <2>1, <2>2, OverStep
<1>13. CASE Deliver(r)
  <2> DEFINE q == m.queue
             e == Head(q)
             u == Tail(q)
  <2>1. m.pc = "drain" /\ q # <<>> /\ q \in Seq(Q)
    BY <1>1, <1>13 DEF Deliver, At, ReqRecords
  <2>2. /\ e \in Q /\ u \in Seq(Q) /\ (q \in Seq(Req) => e \in Req)
        /\ \A i \in 1..Len(u) : i + 1 \in 1..Len(q) /\ u[i] = q[i + 1]
        /\ 1 \in 1..Len(q) /\ e = q[1]
    <3> HIDE DEF q, Q
    <3> QED
      BY <2>1
  <2>3. e \in {"done", "error", "end"} => m.thread \notin Running
    BY <1>1, <2>1, <2>2, ReqAssumption DEF ReqOK, Running
  <2>4. All(q, E) => All(u, E) /\ e \in E
    BY <2>2 DEF All
  <2>5. Alone => All(q, E) /\ All(m.tok, {r}) /\ All(m.out, {r}) /\ All(kv, {r})
    BY <2>1 DEF Apart, Own, Later
  <2>6. CASE e = "end"
    <3>1. Teardown(r, "ok")
      BY <1>13, <2>6 DEF Deliver
    <3> QED
      BY <1>12, <2>1, <2>3, <2>6, <3>1
  <2>7. CASE e = "error"
    <3>1. Teardown(r, "engine_error")
      BY <1>13, <2>7 DEF Deliver
    <3> QED
      BY <1>12, <2>1, <2>3, <2>7, <3>1
  <2>8. ASSUME NEW n \in ReqRecords, req' = [req EXCEPT ![r] = n], kv' = kv, n.end = m.end,
               n.queue = u, n.tok = m.tok, Alone => All(n.out, {r})
        PROVE  Apart'
    <3>1. req'[r] = n /\ \A p \in Req \ {r} : req'[p] = req[p]
      BY <1>1, <2>8
    <3>2. Alone => Own(r, n)
      <4> HIDE DEF u, q
      <4> QED
        BY <2>4, <2>5, <2>8 DEF Own
    <3> QED
      BY <2>5, <2>8, <3>1, <3>2, ApartStep
  <2>9. CASE e = "done"
    <3> DEFINE n == [m EXCEPT !.queue = u]
    <3>1. req' = [req EXCEPT ![r] = n] /\ kv' = kv
      BY <1>1, <1>13, <2>9 DEF Deliver
    <3> HIDE DEF u
    <3>2. n \in ReqRecords /\ n.queue = u /\ n.end = m.end /\ n.tok = m.tok /\ n.out = m.out
      BY <1>1, <2>2 DEF ReqRecords
    <3> HIDE DEF n
    <3> QED
      BY <2>5, <2>8, <3>1, <3>2
  <2>10. CASE e \notin {"end", "error", "done"}
    <3> DEFINE o == Append(m.out, e)
               n == [m EXCEPT !.queue = u, !.out = o]
    <3>1. req' = [req EXCEPT ![r] = n] /\ kv' = kv
      <4>1. req' = [[req EXCEPT ![r].queue = Tail(@)] EXCEPT ![r].out = Append(@, e)] /\ kv' = kv
        BY <1>13, <2>10 DEF Deliver
      <4> DEFINE k == [m EXCEPT !.queue = u]
                 b == [req EXCEPT ![r].queue = Tail(@)]
      <4>2. b = [req EXCEPT ![r] = k] /\ b[r] = k /\ k.out = m.out
        BY <1>1 DEF ReqRecords
      <4>3. n = [k EXCEPT !.out = o]
        OBVIOUS
      <4> HIDE DEF e, u, n, o
      <4>4. req' = [b EXCEPT ![r] = [k EXCEPT !.out = Append(k.out, e)]]
        <5> HIDE DEF k
        <5> QED
          BY <4>1, <4>2
      <4>5. req' = [b EXCEPT ![r] = n]
        BY <4>2, <4>3, <4>4 DEF o
      <4> HIDE DEF k, b
      <4> QED
        BY <1>1, <4>1, <4>2, <4>5
    <3>2. m.out \in Seq(Req) /\ e \in Req /\ o \in Seq(Req)
      <4>1. m.out \in Seq(Req) /\ e \in Req
        BY <1>1, <2>2, <2>10 DEF ReqRecords
      <4> QED
        BY <4>1
    <3>3. Alone => All(o, {r})
      <4> SUFFICES ASSUME Alone PROVE All(o, {r})
        OBVIOUS
      <4>1. e = r /\ All(m.out, {r})
        BY <2>4, <2>5, <2>10
      <4> HIDE DEF e
      <4> QED
        BY <3>2, <4>1 DEF All
    <3> HIDE DEF u, o
    <3>4. n \in ReqRecords /\ n.queue = u /\ n.end = m.end /\ n.tok = m.tok /\ n.out = o
      BY <1>1, <2>2, <3>2 DEF ReqRecords
    <3> HIDE DEF n
    <3> QED
      BY <2>8, <3>1, <3>3, <3>4
  <2> QED
    BY <2>6, <2>7, <2>9, <2>10
<1>14. CASE DetectDisconnect(r)
  BY <1>12, <1>14 DEF DetectDisconnect, At
<1> QED
  BY <1>4, <1>5, <1>7, <1>8, <1>9, <1>10, <1>11, <1>13, <1>14 DEF Handler

\* And admission and the clients, which hand no token to anybody.
LEMMA ApartAdmission ==
  ASSUME Safe, Apart, NEW r \in Req, Arrive(r) \/ AdmitTimesOut(r) \/ ClientLeaves(r)
  PROVE  Apart'
<1> DEFINE m == req[r]
<1>1. /\ req \in [Req -> ReqRecords] /\ m \in ReqRecords /\ ReqOK(m)
  BY DEF Safe
<1>2. m.pc \in {"idle", "waiting"} => m.thread \notin Running
  BY <1>1 DEF ReqOK, Early, Running
<1>3. ASSUME req' = [req EXCEPT ![r] = Over(r, "rejected")], m.pc \in {"idle", "waiting"}, kv' = kv
      PROVE  Apart'
  BY <1>2, <1>3, OverStep DEF Ends
<1>4. CASE Arrive(r)
  <2>1. m.pc = "idle" /\ kv' = kv
    BY <1>4 DEF Arrive, At
  <2>2. PICK s \in BOOLEAN :
          \/ \E pc \in {"granted", "waiting"} : req' = [req EXCEPT ![r].pc = pc, ![r].stream = s]
          \/ req' = [req EXCEPT ![r] = Over(r, "rejected")]
    BY <1>4 DEF Arrive
  <2>3. ASSUME NEW pc \in {"granted", "waiting"}, req' = [req EXCEPT ![r].pc = pc, ![r].stream = s]
        PROVE  Apart'
    <3> DEFINE n == [m EXCEPT !.pc = pc, !.stream = s]
    <3>1. req' = [req EXCEPT ![r] = n]
      BY <1>1, <2>3
    <3>2. n \in ReqRecords /\ n.pc = pc /\ Same(n, m)
      BY <1>1 DEF ReqRecords, Early, Same
    <3> HIDE DEF n
    <3> QED
      BY <2>1, <3>1, <3>2, TokensKeptStep DEF Later
  <2> QED
    BY <1>3, <2>1, <2>2, <2>3
<1>5. CASE AdmitTimesOut(r)
  BY <1>3, <1>5 DEF AdmitTimesOut, At
<1>6. CASE ClientLeaves(r)
  <2> DEFINE n == [m EXCEPT !.client = "gone"]
  <2>1. req' = [req EXCEPT ![r] = n] /\ kv' = kv
    BY <1>1, <1>6 DEF ClientLeaves
  <2>2. n \in ReqRecords /\ n.pc = m.pc /\ Same(n, m)
    BY <1>1 DEF ReqRecords, Same
  <2> HIDE DEF n
  <2> QED
    BY <2>1, <2>2, TokensKeptStep
<1> QED
  BY <1>4, <1>5, <1>6

\* With the default max_concurrent of 1, every token of an answer continues the
\* request's own prompt as long as no client has left a thread behind.
THEOREM OneAtATime == Spec => []OnlyAbandonedThreadsInterfere
<1>1. Init => Apart
  <2> SUFFICES ASSUME Init, NEW r \in Req
               PROVE  Own(r, req[r]) /\ req[r].pc \notin {"mirror", "extend", "response", "drain"}
    BY DEF Apart
  <2>1. req[r] = NoReq
    BY DEF Init
  <2> QED
    BY <2>1 DEF NoReq, Own, All
<1>2. Safe /\ Apart /\ [Next]_vars => Apart'
  <2> SUFFICES ASSUME Safe, Apart, [Next]_vars PROVE Apart'
    OBVIOUS
  <2>1. CASE Next
    <3>1. PICK r \in Req : Arrive(r) \/ AdmitTimesOut(r) \/ ClientLeaves(r) \/ Handler(r) \/ Drain(r)
      BY <2>1 DEF Next
    <3> QED
      BY <3>1, ApartAdmission, ApartHandler, ApartDrain
  <2>2. CASE UNCHANGED vars
    BY <2>2 DEF vars, Apart, Alone, Own, All
  <2> QED
    BY <2>1, <2>2
<1>3. Safe /\ Apart => OnlyAbandonedThreadsInterfere
  <2> SUFFICES ASSUME Safe, Apart, Alone, NEW r \in Req, NEW i \in DOMAIN req[r].out
               PROVE  req[r].out[i] = r
    BY DEF OnlyAbandonedThreadsInterfere, AnswersAreOwn, Alone
  <2>1. req[r].out \in Seq(Req)
    BY DEF Safe, ReqRecords
  <2>2. DOMAIN req[r].out = 1..Len(req[r].out)
    BY <2>1
  <2>3. All(req[r].out, {r})
    BY DEF Apart, Own
  <2> QED
    BY <2>2, <2>3 DEF All
<1> QED
  BY <1>1, <1>2, <1>3, SafeHolds, PTL DEF Spec
=============================================================================
