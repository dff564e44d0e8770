------------------------ MODULE SessionRuntimeProofs ------------------------
(* The safety properties of the session runtime hold for every capacity, any  *)
(* number of sessions and concurrent calls, and any pattern of cancels.       *)
EXTENDS SessionRuntime, CollectionTheorems

-----------------------------------------------------------------------------
(* The store.                                                                *)

Stores == [lru : Seq(Sid), slab : [Sid -> Slab \cup {None}], free : SUBSET Slab,
           bytes : [Slab -> Nat]]

\* Every listed session holds a slab of its own; the other slabs are free and
\* carry no bytes.
StoreOK(st) ==
  /\ st \in Stores /\ Distinct(st.lru) /\ Len(st.lru) <= Capacity
  /\ \A s \in Sid : s \in Entries(st.lru) <=> st.slab[s] # None
  /\ \A s, t \in Entries(st.lru) : st.slab[s] = st.slab[t] => s = t
  /\ st.free = Slab \ {st.slab[s] : s \in Entries(st.lru)}
  /\ \A b \in st.free : st.bytes[b] = 0

-----------------------------------------------------------------------------
(* The calls.                                                                *)

Calls == [kind : {"none", "append", "generate"}, s : Sid \cup {None}, n : Nat, pc : Pcs,
          handler : {"run", "gone"}, client : {"on", "cancelled"},
          callback : BOOLEAN, cancel : BOOLEAN, completed : BOOLEAN,
          ref : {"none", "first", "late"}, tok : Seq(Token), made : Nat, bytes : Nat,
          queue : Seq({"token", "done", "error", "end"}),
          out : {"none", "ok", "cancelled", "error"}]

Verifiers == [obj : {"none", "first", "late"}, kv : Seq(Token)]

\* The thread works on the verifier it resolved; the thread touches neither
\* the session nor its verifier again.
Holding == {"drive", "check", "commit", "mirror", "extend", "advance", "sync", "write", "emit"}
Terminal == {"done", "unguard", "failing", "errput", "endput", "break", "suspended", "over"}

\* What a call is, whatever became of its session.
CallOK(o) ==
  /\ o.kind = "append" => /\ o.pc \in (Holding \ {"check", "commit", "emit"}) \cup {"lookup", "resolve", "over"}
                          /\ o.handler = "run" => ~o.completed
  /\ o.kind = "generate" => /\ o.pc # "drive"
                            /\ o.pc \in {"commit", "mirror", "extend"} => Len(o.tok) = 1
                            /\ o.completed => o.pc \in Terminal /\ o.queue # <<"token">>
                            /\ o.queue \notin {<<>>, <<"token">>} => o.pc \in Terminal
  /\ o.pc \in Holding => o.ref # "none"

\* The callback of the departed client will still remove the session.
Doomed(o) == o.handler = "gone" /\ o.client = "cancelled" /\ ~o.callback /\ ~o.completed

\* What a call is while the store still serves its session.
LiveCall(o) ==
  /\ o.callback => o.completed
  /\ o.handler = "run" => ~o.cancel
  /\ o.handler = "gone" => Doomed(o) \/ o.pc \in Terminal
  /\ o.kind = "append" => /\ o.handler = "gone" => o.pc = "over"
                          /\ o.pc = "over" => o.out = "ok"

\* What the call adds to the history, and the tokens of the history that its
\* client has not been told of.
Fed(o) == IF o.kind = "generate" THEN o.tok ELSE [i \in 1..o.n |-> o.s]
Owed(o) == IF o.kind = "append"
           THEN IF o.pc \in {"advance", "sync", "write", "over"} THEN o.n ELSE 0
           ELSE (IF o.queue = <<"token">> THEN 1 ELSE 0) + IF o.pc \in {"advance", "emit"} THEN 1 ELSE 0

\* How far history h, verifier cache k, mirror c, position p and the client's
\* knowledge a are apart at each place of the thread.
Phase(o, h, k, c, p, a) ==
  /\ k = IF o.pc \in {"mirror", "extend"} THEN h \o Fed(o) ELSE h
  /\ c = IF o.pc = "mirror" THEN h ELSE k
  /\ o.pc # "advance" => p = Len(h)
  /\ a + Owed(o) = Len(h)

\* Tokens of each session that went out in replies and frames.
Told == [s \in Sid |-> acked[s] + lost[s]]

Settled(h, k, c, p, a) == k = h /\ c = h /\ p = Len(h) /\ a = Len(h)

-----------------------------------------------------------------------------
Of(r, s) == InUse(r) /\ rpc[r].s = s
Runs(r) == InUse(r) /\ rpc[r].handler = "run"
Unthreatened(s) == \A r \in Rpc : Of(r, s) => ~Doomed(rpc[r])

Typed ==
  /\ issued \subseteq Sid /\ ops \subseteq issued /\ gens \subseteq issued
  /\ cancels \in 0..MaxCancels
  /\ hist \in [Sid -> Seq(Token)] /\ cached \in [Sid -> Seq(Token)]
  /\ pos \in [Sid -> Nat] /\ acked \in [Sid -> Nat] /\ lost \in [Sid -> Nat]
  /\ adapter \in [Sid -> Verifiers] /\ rpc \in [Rpc -> Calls]

\* A session that was never created has no trace.
Blank(s) == hist[s] = <<>> /\ cached[s] = <<>> /\ pos[s] = 0 /\ Told[s] = 0 /\ adapter[s] = Absent

Sessions ==
  /\ StoreOK(store) /\ Live \subseteq issued
  /\ \A s \in Sid \ issued : Blank(s)
  /\ \A s \in Sid : adapter[s].obj = "none" => adapter[s].kv = <<>>
  /\ \A s \in Live : adapter[s].obj # "late"

\* The operation guard: one running handler per session.
Guard ==
  /\ \A r \in Rpc : InUse(r) => rpc[r].s \in issued /\ CallOK(rpc[r])
  /\ \A r \in Rpc : Runs(r) => rpc[r].s \in ops
  /\ \A r, q \in Rpc : Runs(r) /\ Runs(q) /\ rpc[r].s = rpc[q].s => r = q
  /\ \A s \in ops : \E r \in Rpc : Runs(r) /\ rpc[r].s = s

\* A surviving session is consistent up to the step its one call is in.
Surviving(s) ==
  /\ \A r \in Rpc : Of(r, s) =>
       LiveCall(rpc[r]) /\ (rpc[r].pc \in Holding => rpc[r].ref = "first" /\ adapter[s].obj = "first")
  /\ Unthreatened(s) =>
       /\ s \notin ops => Settled(hist[s], adapter[s].kv, cached[s], pos[s], Told[s])
       /\ \A r \in Rpc : Runs(r) /\ rpc[r].s = s =>
            Phase(rpc[r], hist[s], adapter[s].kv, cached[s], pos[s], Told[s])

\* The inductive invariant.
IInv == Typed /\ Sessions /\ Guard /\ \A s \in Live : Surviving(s)


-----------------------------------------------------------------------------
(* What the client was told.                                                 *)

\* A step that sends nothing leaves the counts alone.
LEMMA ToldSame == acked' = acked /\ lost' = lost => Told' = Told
  BY DEF Told

\* The count is a number for every session.
LEMMA ToldType ==
  /\ acked \in [Sid -> Nat] /\ lost \in [Sid -> Nat] => Told \in [Sid -> Nat]
  /\ acked' \in [Sid -> Nat] /\ lost' \in [Sid -> Nat] => Told' \in [Sid -> Nat]
  BY DEF Told

\* A reply or frame with n tokens counts once, whether or not it is read.
LEMMA TellAdds ==
  ASSUME IInv, NEW r \in Rpc, rpc[r].s \in Sid, NEW n \in Nat, Tell(r, n)
  PROVE  /\ acked' \in [Sid -> Nat] /\ lost' \in [Sid -> Nat]
         /\ Told' = [Told EXCEPT ![rpc[r].s] = @ + n]
<1> DEFINE s == rpc[r].s
<1>0. acked \in [Sid -> Nat] /\ lost \in [Sid -> Nat] /\ s \in Sid
  BY DEF IInv, Typed
<1>1. CASE acked' = [acked EXCEPT ![s] = @ + n] /\ lost' = lost
  <2>1. acked' \in [Sid -> Nat] /\ \A t \in Sid : acked'[t] = IF t = s THEN acked[t] + n ELSE acked[t]
    BY <1>0, <1>1
  <2>2. \A t \in Sid : acked'[t] + lost'[t] = IF t = s THEN (acked[t] + lost[t]) + n ELSE acked[t] + lost[t]
    BY <1>0, <1>1, <2>1
  <2> QED BY <1>0, <1>1, <2>1, <2>2 DEF Told
<1>2. CASE lost' = [lost EXCEPT ![s] = @ + n] /\ acked' = acked
  <2>1. lost' \in [Sid -> Nat] /\ \A t \in Sid : lost'[t] = IF t = s THEN lost[t] + n ELSE lost[t]
    BY <1>0, <1>2
  <2>2. \A t \in Sid : acked'[t] + lost'[t] = IF t = s THEN (acked[t] + lost[t]) + n ELSE acked[t] + lost[t]
    BY <1>0, <1>2, <2>1
  <2> QED BY <1>0, <1>2, <2>1, <2>2 DEF Told
<1> QED BY <1>1, <1>2 DEF Tell

-----------------------------------------------------------------------------
(* What the store's operations do.                                           *)

\* A listed session is an id, and its slab a slab.
LEMMA Listed ==
  ASSUME NEW st, StoreOK(st)
  PROVE  /\ st \in Stores /\ Entries(st.lru) \subseteq Sid /\ IsFiniteSet(Entries(st.lru))
         /\ Len(st.lru) \in Nat /\ Cardinality(Entries(st.lru)) = Len(st.lru)
         /\ \A s \in Entries(st.lru) : st.slab[s] \in Slab
<1>1. st \in Stores /\ st.lru \in Seq(Sid) /\ Distinct(st.lru)
  BY DEF StoreOK, Stores
<1>2. Entries(st.lru) \subseteq Sid /\ Len(st.lru) \in Nat
  BY <1>1 DEF Entries
<1>3. IsFiniteSet(Entries(st.lru)) /\ Cardinality(Entries(st.lru)) = Len(st.lru)
  BY <1>1, DistinctLength
<1>4. \A s \in Entries(st.lru) : st.slab[s] \in Slab
  BY <1>1, <1>2 DEF StoreOK, Stores
<1> QED
  BY <1>1, <1>2, <1>3, <1>4

\* Removing listed sessions frees and resets exactly their slabs.
LEMMA WithoutOK ==
  ASSUME NEW st, StoreOK(st), NEW S \in SUBSET Entries(st.lru)
  PROVE  /\ StoreOK(Without(st, S)) /\ Entries(Without(st, S).lru) = Entries(st.lru) \ S
         /\ Len(Without(st, S).lru) <= Len(st.lru)
         /\ S # {} => Len(Without(st, S).lru) < Len(st.lru)
<1> DEFINE l == Dropping(st.lru, S)
           sl == [s \in Sid |-> IF s \in S THEN None ELSE st.slab[s]]
           fr == st.free \cup {st.slab[s] : s \in S}
           by == [b \in Slab |-> IF \E s \in S : st.slab[s] = b THEN 0 ELSE st.bytes[b]]
           n == Without(st, S)
           E == Entries(st.lru)
<1>1. /\ st \in Stores /\ E \subseteq Sid /\ IsFiniteSet(E) /\ Len(st.lru) \in Nat
      /\ Cardinality(E) = Len(st.lru) /\ S \subseteq E /\ \A s \in E : st.slab[s] \in Slab
  BY Listed
<1>2. /\ l \in Seq(Sid) /\ Len(l) <= Len(st.lru) /\ Entries(l) = E \ S /\ Distinct(l)
  BY DroppingEntries DEF StoreOK, Stores
<1>3. Len(l) \in Nat /\ Cardinality(Entries(l)) = Len(l)
  BY <1>2, DistinctLength
<1>4. n \in Stores /\ n.lru = l /\ n.slab = sl /\ n.free = fr /\ n.bytes = by
  <2>1. sl \in [Sid -> Slab \cup {None}] /\ by \in [Slab -> Nat]
    BY <1>1 DEF Stores
  <2>2. fr \subseteq Slab
    BY <1>1 DEF Stores
  <2>3. n = [[st EXCEPT !.slab = sl, !.free = fr, !.bytes = by] EXCEPT !.lru = l]
    BY DEF Without, Released
  <2> HIDE DEF l, sl, fr, by, n
  <2> QED
    BY <1>1, <1>2, <2>1, <2>2, <2>3 DEF Stores
<1> HIDE DEF n, l
<1>5. \A s \in Sid : s \in E \ S <=> sl[s] # None
  BY <1>1, NoneAssumption DEF StoreOK
<1>6. \A s, t \in E \ S : sl[s] = sl[t] => s = t
  BY <1>1 DEF StoreOK
<1>7. fr = Slab \ {sl[s] : s \in E \ S}
  <2>1. {sl[s] : s \in E \ S} = {st.slab[s] : s \in E \ S}
    BY <1>1
  <2>2. st.free = Slab \ {st.slab[s] : s \in E}
    BY DEF StoreOK
  <2>3. \A s, t \in E : st.slab[s] = st.slab[t] => s = t
    BY DEF StoreOK
  <2> HIDE DEF E, sl
  <2>4. fr \subseteq Slab
    BY <1>1, <2>2
  <2>5. ASSUME NEW b \in Slab PROVE b \in fr <=> b \notin {st.slab[s] : s \in E \ S}
    <3>1. CASE \E s \in S : st.slab[s] = b
      BY <1>1, <2>3, <3>1
    <3>2. CASE ~\E s \in S : st.slab[s] = b
      BY <1>1, <2>2, <3>2
    <3> QED
      BY <3>1, <3>2
  <2> HIDE DEF fr
  <2> QED
    BY <2>1, <2>4, <2>5
<1>8. \A b \in fr : by[b] = 0
  BY <1>1 DEF StoreOK, Stores
<1>9. S # {} => Len(l) < Len(st.lru)
  <2>1. ASSUME S # {} PROVE Cardinality(E \ S) < Cardinality(E)
    <3> HIDE DEF E
    <3>1. E \ S \subseteq E /\ E \ S # E
      BY <1>1, <2>1
    <3>2. Cardinality(E \ S) <= Cardinality(E) /\ Cardinality(E \ S) # Cardinality(E)
      BY <1>1, <3>1, FS_Subset, FS_CardinalityType
    <3> QED
      BY <1>1, <1>2, <1>3, <3>2
  <2> QED
    BY <1>1, <1>2, <1>3, <2>1
<1>10. Len(l) <= Capacity
  BY <1>1, <1>2, <1>3, CapacityAssumption DEF StoreOK
<1>11. StoreOK(n)
  <2> HIDE DEF sl, fr, by
  <2> QED
    BY <1>2, <1>4, <1>5, <1>6, <1>7, <1>8, <1>10 DEF StoreOK
<1> QED
  BY <1>2, <1>4, <1>9, <1>11 DEF n

\* Touching a session moves it to the end of the list.
LEMMA TouchOK ==
  ASSUME NEW st, StoreOK(st), NEW s \in Entries(st.lru)
  PROVE  StoreOK(Touch(st, s)) /\ Entries(Touch(st, s).lru) = Entries(st.lru)
<1> DEFINE d == Dropping(st.lru, {s})
           l == Append(d, s)
           n == Touch(st, s)
           E == Entries(st.lru)
<1>1. /\ st \in Stores /\ E \subseteq Sid /\ IsFiniteSet(E) /\ Len(st.lru) \in Nat
      /\ Cardinality(E) = Len(st.lru)
  BY Listed
<1>2. d \in Seq(Sid) /\ Entries(d) = E \ {s} /\ Distinct(d)
  BY DroppingEntries DEF StoreOK, Stores
<1>3. l \in Seq(Sid) /\ Entries(l) = E /\ Distinct(l)
  <2> HIDE DEF d
  <2> QED
    BY <1>1, <1>2, AppendEntries
<1>4. n \in Stores /\ n.lru = l /\ n.slab = st.slab /\ n.free = st.free /\ n.bytes = st.bytes
  <2>1. n = [st EXCEPT !.lru = l]
    BY DEF Touch
  <2> HIDE DEF l, n
  <2> QED
    BY <1>1, <1>3, <2>1 DEF Stores
<1>5. Len(l) = Len(st.lru)
  <2> HIDE DEF l
  <2> QED
    BY <1>1, <1>3, DistinctLength
<1> HIDE DEF l, n, E
<1> QED
  BY <1>3, <1>4, <1>5 DEF StoreOK, E, n

\* A new session takes a free slab and goes to the end of the list.
LEMMA AcquiredOK ==
  ASSUME NEW st, StoreOK(st), Len(st.lru) < Capacity, NEW s \in Sid, s \notin Entries(st.lru),
         NEW b \in st.free
  PROVE  LET n == [Acquired(st, s, b) EXCEPT !.lru = Append(st.lru, s)]
         IN StoreOK(n) /\ Entries(n.lru) = Entries(st.lru) \cup {s}
<1> DEFINE l == Append(st.lru, s)
           sl == [st.slab EXCEPT ![s] = b]
           fr == st.free \ {b}
           n == [Acquired(st, s, b) EXCEPT !.lru = l]
           E == Entries(st.lru)
<1>1. /\ st \in Stores /\ E \subseteq Sid /\ IsFiniteSet(E) /\ Len(st.lru) \in Nat
      /\ Cardinality(E) = Len(st.lru) /\ \A t \in E : st.slab[t] \in Slab
  BY Listed
<1>2. l \in Seq(Sid) /\ Entries(l) = E \cup {s} /\ Distinct(l)
  BY <1>1, AppendEntries DEF StoreOK, Stores
<1>3. Len(l) <= Capacity
  BY <1>1, CapacityAssumption DEF Stores
<1>4. b \in Slab /\ b \notin {st.slab[t] : t \in E}
  BY DEF StoreOK
<1>5. n \in Stores /\ n.lru = l /\ n.slab = sl /\ n.free = fr /\ n.bytes = st.bytes
  <2>1. sl \in [Sid -> Slab \cup {None}] /\ fr \subseteq Slab
    BY <1>1, <1>4 DEF Stores
  <2>2. n = [[st EXCEPT !.slab = sl, !.free = fr] EXCEPT !.lru = l]
    BY <1>1 DEF Acquired, Stores
  <2> HIDE DEF l, sl, fr, n
  <2> QED
    BY <1>1, <1>2, <2>1, <2>2 DEF Stores
<1>6. \A t \in Sid : sl[t] = IF t = s THEN b ELSE st.slab[t]
  BY <1>1 DEF Stores
<1> HIDE DEF n, l, sl
<1>7. \A t \in Sid : t \in E \cup {s} <=> sl[t] # None
  BY <1>1, <1>4, <1>6, NoneAssumption DEF StoreOK
<1>8. \A t, u \in E \cup {s} : sl[t] = sl[u] => t = u
  BY <1>1, <1>4, <1>6 DEF StoreOK
<1>9. fr = Slab \ {sl[t] : t \in E \cup {s}}
  <2>1. {sl[t] : t \in E \cup {s}} = {st.slab[t] : t \in E} \cup {b}
    BY <1>1, <1>6
  <2>2. st.free = Slab \ {st.slab[t] : t \in E}
    BY DEF StoreOK
  <2> QED
    BY <2>1, <2>2
<1>10. \A c \in fr : st.bytes[c] = 0
  BY DEF StoreOK
<1>11. StoreOK(n)
  <2> HIDE DEF fr, E
  <2> QED
    BY <1>2, <1>3, <1>5, <1>7, <1>8, <1>9, <1>10 DEF StoreOK
<1> QED
  BY <1>2, <1>5, <1>11 DEF n, l

\* The bytes of a held slab may change at any time.
LEMMA BytesOK ==
  ASSUME NEW st, StoreOK(st), NEW s \in Sid, st.slab[s] # None, NEW k \in Nat
  PROVE  LET n == [st EXCEPT !.bytes[st.slab[s]] = k] IN StoreOK(n) /\ n.lru = st.lru
<1> DEFINE b == st.slab[s]
           by == [st.bytes EXCEPT ![b] = k]
           n == [st EXCEPT !.bytes[b] = k]
<1>1. st \in Stores /\ s \in Entries(st.lru) /\ b \in Slab
  BY Listed DEF StoreOK
<1>2. b \notin st.free
  BY <1>1 DEF StoreOK
<1>3. by \in [Slab -> Nat] /\ \A c \in st.free : by[c] = st.bytes[c]
  BY <1>1, <1>2 DEF Stores
<1>4. n = [st EXCEPT !.bytes = by]
  BY <1>1 DEF Stores
<1> HIDE DEF by, b, n
<1>5. n \in Stores /\ n.lru = st.lru /\ n.slab = st.slab /\ n.free = st.free /\ n.bytes = by
  BY <1>1, <1>3, <1>4 DEF Stores
<1>6. StoreOK(n)
  BY <1>3, <1>5 DEF StoreOK
<1> QED
  BY <1>5, <1>6 DEF n, b


-----------------------------------------------------------------------------
(* One step of one call.                                                     *)

\* Call r becomes n; nothing is written for other sessions.
CallBecomes(r, n) ==
  /\ InUse(r) /\ n \in Calls /\ rpc' = [rpc EXCEPT ![r] = n]
  /\ n.kind = rpc[r].kind /\ n.s = rpc[r].s /\ CallOK(n)
  /\ \/ ops' = ops /\ n.handler = rpc[r].handler
     \/ ops' = ops \ {n.s} /\ rpc[r].handler = "run" /\ n.handler = "gone"
  /\ issued' = issued /\ gens' \subseteq issued /\ cancels' \in 0..MaxCancels

Elsewhere(s) == \A t \in Sid \ {s} :
  hist'[t] = hist[t] /\ cached'[t] = cached[t] /\ pos'[t] = pos[t] /\ Told'[t] = Told[t]
  /\ adapter'[t] = adapter[t]

DataTyped ==
  /\ hist' \in [Sid -> Seq(Token)] /\ cached' \in [Sid -> Seq(Token)]
  /\ pos' \in [Sid -> Nat] /\ acked' \in [Sid -> Nat] /\ lost' \in [Sid -> Nat] /\ adapter' \in [Sid -> Verifiers]

\* What the step owes to a session that it leaves in the store.
Serves(r, n) ==
  LET s == n.s IN
  /\ LiveCall(n) /\ adapter'[s].obj # "late"
  /\ adapter[s].obj = "first" => adapter'[s].obj = "first"
  /\ n.pc \in Holding => n.ref = "first" /\ adapter'[s].obj = "first"
  /\ Doomed(rpc[r]) => Doomed(n)
  /\ Unthreatened(s) /\ ~Doomed(n) =>
       /\ n.handler = "run" => Phase(n, hist'[s], adapter'[s].kv, cached'[s], pos'[s], Told'[s])
       /\ rpc[r].handler = "run" /\ n.handler = "gone" =>
            Settled(hist'[s], adapter'[s].kv, cached'[s], pos'[s], Told'[s])
       /\ rpc[r].handler = "gone" =>
            /\ hist'[s] = hist[s] /\ cached'[s] = cached[s] /\ pos'[s] = pos[s]
            /\ Told'[s] = Told[s] /\ adapter'[s].kv = adapter[s].kv

\* A step of one call keeps the invariant when it keeps its own session.
LEMMA CallStep ==
  ASSUME IInv, NEW r \in Rpc, NEW n, CallBecomes(r, n), Elsewhere(n.s), DataTyped,
         StoreOK(store'), Live' \subseteq Live,
         adapter'[n.s].obj = "none" => adapter'[n.s].kv = <<>>,
         n.s \in Live' => Serves(r, n)
  PROVE  IInv'
<1> DEFINE s == n.s
<1>1. /\ rpc \in [Rpc -> Calls] /\ n \in Calls /\ s \in issued /\ s \in Sid /\ s = rpc[r].s
      /\ issued \subseteq Sid
  BY DEF IInv, Typed, Guard, CallBecomes
<1>2. rpc'[r] = n /\ \A q \in Rpc \ {r} : rpc'[q] = rpc[q]
  BY <1>1 DEF CallBecomes
<1>3. rpc' \in [Rpc -> Calls]
  BY <1>1 DEF CallBecomes
<1>4. n.kind # "none" /\ rpc[r].kind # "none"
  BY DEF CallBecomes, InUse
<1>5. Typed'
  BY <1>3 DEF IInv, Typed, DataTyped, CallBecomes
<1>6. Sessions'
  <2>1. Live' \subseteq issued'
    BY DEF IInv, Sessions, CallBecomes
  <2>2. ASSUME NEW t \in Sid \ issued' PROVE Blank(t)'
    <3>1. t # s /\ Blank(t)
      BY <1>1, <2>2 DEF IInv, Sessions, CallBecomes
    <3> QED
      BY <3>1 DEF Elsewhere, Blank
  <2>3. ASSUME NEW t \in Sid, adapter'[t].obj = "none" PROVE adapter'[t].kv = <<>>
    BY <2>3 DEF IInv, Sessions, Elsewhere
  <2>4. ASSUME NEW t \in Live' PROVE adapter'[t].obj # "late"
    <3>1. t \in Sid
      BY <1>1, <2>1 DEF CallBecomes
    <3> QED
      BY <3>1 DEF IInv, Sessions, Elsewhere, Serves
  <2> QED
    BY <2>1, <2>2, <2>3, <2>4 DEF Sessions
<1>7. Guard'
  <2>1. \A q \in Rpc : InUse(q)' => rpc'[q].s \in issued' /\ CallOK(rpc'[q])
    BY <1>1, <1>2 DEF IInv, Guard, InUse, CallBecomes
  <2>2. \A q \in Rpc : Runs(q)' => Runs(q) /\ rpc'[q].s = rpc[q].s
    BY <1>1, <1>2, <1>4 DEF Runs, InUse, CallBecomes
  <2>3. \A q, u \in Rpc : Runs(q)' /\ Runs(u)' /\ rpc'[q].s = rpc'[u].s => q = u
    BY <2>2 DEF IInv, Guard
  <2>4. ASSUME NEW q \in Rpc, Runs(q)' PROVE rpc'[q].s \in ops'
    <3>1. Runs(q) /\ rpc'[q].s = rpc[q].s /\ rpc[q].s \in ops
      BY <2>2, <2>4 DEF IInv, Guard
    <3>2. CASE ops' = ops
      BY <3>1, <3>2
    <3>3. CASE ops' = ops \ {s} /\ rpc[r].handler = "run" /\ n.handler = "gone"
      <4>1. Runs(r) /\ q # r
        BY <1>2, <2>4, <3>3 DEF Runs, CallBecomes
      <4>2. rpc[q].s # rpc[r].s
        BY <3>1, <4>1 DEF IInv, Guard
      <4> QED
        BY <1>1, <3>1, <3>3, <4>2
    <3> QED
      BY <3>2, <3>3 DEF CallBecomes
  <2>5. ASSUME NEW t \in ops' PROVE \E q \in Rpc : Runs(q)' /\ rpc'[q].s = t
    <3>1. t \in ops
      BY DEF CallBecomes
    <3>2. PICK q \in Rpc : Runs(q) /\ rpc[q].s = t
      BY <3>1 DEF IInv, Guard
    <3>3. CASE q # r
      BY <1>2, <3>2, <3>3 DEF Runs, InUse
    <3>4. CASE q = r
      BY <1>1, <1>2, <1>4, <2>5, <3>2, <3>4 DEF Runs, InUse, CallBecomes
    <3> QED
      BY <3>3, <3>4
  <2> QED
    BY <2>1, <2>3, <2>4, <2>5 DEF Guard
<1>8. ASSUME NEW t \in Live' PROVE Surviving(t)'
  <2>1. t \in Live /\ Surviving(t) /\ t \in Sid
    BY <1>1 DEF IInv, Sessions
  <2>2. CASE t # s
    <3>1. \A q \in Rpc : Of(q, t)' <=> Of(q, t)
      BY <1>1, <1>2, <2>2 DEF Of, InUse
    <3>2. \A q \in Rpc : Of(q, t) => rpc'[q] = rpc[q]
      BY <1>1, <1>2, <2>2 DEF Of, InUse
    <3>3. t \in ops' <=> t \in ops
      BY <2>2 DEF CallBecomes
    <3>4. /\ hist'[t] = hist[t] /\ cached'[t] = cached[t] /\ pos'[t] = pos[t]
          /\ Told'[t] = Told[t] /\ adapter'[t] = adapter[t]
      BY <2>1, <2>2 DEF Elsewhere
    <3>5. Unthreatened(t)' => Unthreatened(t)
      BY <3>1, <3>2 DEF Unthreatened
    <3>6. \A q \in Rpc : Runs(q)' /\ rpc'[q].s = t => Runs(q) /\ rpc[q].s = t /\ rpc'[q] = rpc[q]
      BY <1>1, <1>2, <2>2 DEF Runs, InUse
    <3> QED
      BY <2>1, <3>1, <3>2, <3>3, <3>4, <3>5, <3>6 DEF Surviving
  <2>3. CASE t = s
    <3>0. Serves(r, n) /\ Surviving(s)
      BY <2>1, <2>3
    <3>1. \A q \in Rpc : Of(q, s)' <=> Of(q, s)
      BY <1>1, <1>2, <1>4 DEF Of, InUse
    <3>2. ASSUME NEW q \in Rpc, Of(q, s)'
          PROVE  /\ LiveCall(rpc'[q])
                 /\ rpc'[q].pc \in Holding => rpc'[q].ref = "first" /\ adapter'[s].obj = "first"
      <4>1. CASE q = r
        BY <1>2, <3>0, <4>1 DEF Serves
      <4>2. CASE q # r
        BY <1>2, <3>0, <3>1, <3>2, <4>2 DEF Serves, Surviving
      <4> QED
        BY <4>1, <4>2
    <3>3. Unthreatened(s)' => Unthreatened(s) /\ ~Doomed(n)
      <4>1. Of(r, s)
        BY <1>1 DEF Of, CallBecomes
      <4>2. ASSUME Unthreatened(s)', NEW q \in Rpc, Of(q, s) PROVE ~Doomed(rpc[q]) /\ ~Doomed(n)
        BY <1>2, <3>0, <3>1, <4>1, <4>2 DEF Unthreatened, Serves
      <4> QED
        BY <4>1, <4>2 DEF Unthreatened
    <3>4. ASSUME Unthreatened(s)', s \notin ops'
          PROVE  Settled(hist'[s], adapter'[s].kv, cached'[s], pos'[s], Told'[s])
      <4>1. CASE ops' = ops /\ n.handler = rpc[r].handler
        <5>1. rpc[r].handler = "gone"
          BY <1>1, <3>4, <4>1 DEF IInv, Guard, Runs, CallBecomes, Calls
        <5> QED
          BY <3>0, <3>3, <3>4, <4>1, <5>1 DEF Serves, Surviving
      <4>2. CASE rpc[r].handler = "run" /\ n.handler = "gone"
        BY <3>0, <3>3, <3>4, <4>2 DEF Serves
      <4> QED
        BY <4>1, <4>2 DEF CallBecomes
    <3>5. ASSUME Unthreatened(s)', NEW q \in Rpc, Runs(q)', rpc'[q].s = s
          PROVE  Phase(rpc'[q], hist'[s], adapter'[s].kv, cached'[s], pos'[s], Told'[s])
      <4>1. CASE q = r
        BY <1>2, <3>0, <3>3, <3>5, <4>1 DEF Serves, Runs
      <4>2. CASE q # r
        <5>1. Runs(q) /\ rpc[q].s = s /\ rpc'[q] = rpc[q]
          BY <1>2, <3>5, <4>2 DEF Runs, InUse
        <5>2. ~Runs(r)
          BY <1>1, <4>2, <5>1 DEF IInv, Guard
        <5>3. rpc[r].handler = "gone"
          BY <1>1, <5>2 DEF Runs, CallBecomes, Calls
        <5> QED
          BY <3>0, <3>3, <3>5, <5>1, <5>3 DEF Serves, Surviving
      <4> QED
        BY <4>1, <4>2
    <3> QED
      BY <2>3, <3>2, <3>4, <3>5 DEF Surviving
  <2> QED
    BY <2>2, <2>3
<1> QED
  BY <1>5, <1>6, <1>7, <1>8 DEF IInv


\* A step that writes neither the store, nor a session, nor a verifier.
LEMMA QuietStep ==
  ASSUME IInv, NEW r \in Rpc, NEW n, CallBecomes(r, n), UNCHANGED <<store, session, adapter>>,
         n.s \in Live =>
           /\ LiveCall(n)
           /\ n.pc \in Holding => n.ref = "first" /\ adapter[n.s].obj = "first"
           /\ Doomed(rpc[r]) => Doomed(n)
           /\ Unthreatened(n.s) /\ ~Doomed(n) =>
                /\ n.handler = "run" =>
                     Phase(n, hist[n.s], adapter[n.s].kv, cached[n.s], pos[n.s], Told[n.s])
                /\ rpc[r].handler = "run" /\ n.handler = "gone" =>
                     Settled(hist[n.s], adapter[n.s].kv, cached[n.s], pos[n.s], Told[n.s])
  PROVE  IInv'
<1>1. store' = store /\ adapter' = adapter /\ hist' = hist /\ cached' = cached /\ pos' = pos /\ acked' = acked /\ lost' = lost /\ Told' = Told
  BY ToldSame DEF session, told
<1>2. StoreOK(store') /\ Live' = Live
  BY <1>1 DEF IInv, Sessions, Live
<1>3. n.s \in Sid
  BY DEF IInv, Typed, Guard, CallBecomes
<1>4. DataTyped /\ Elsewhere(n.s)
  BY <1>1 DEF IInv, Typed, DataTyped, Elsewhere
<1>5. adapter'[n.s].obj = "none" => adapter'[n.s].kv = <<>>
  BY <1>1, <1>3 DEF IInv, Sessions
<1>6. n.s \in Live' => Serves(r, n)
  <2> SUFFICES ASSUME n.s \in Live PROVE Serves(r, n)
    BY <1>2
  <2>1. adapter'[n.s].obj # "late"
    BY <1>1 DEF IInv, Sessions
  <2> QED
    BY <1>1, <2>1 DEF Serves
<1> QED
  BY <1>2, <1>4, <1>5, <1>6, CallStep

\* The thread changes none of what handler and client decide.
SameHandler(n, o) ==
  /\ n.kind = o.kind /\ n.s = o.s /\ n.n = o.n /\ n.handler = o.handler /\ n.client = o.client
  /\ n.callback = o.callback /\ n.cancel = o.cancel /\ n.completed = o.completed

\* Call r becomes n by a step of its thread.
ThreadBecomes(r, n) ==
  /\ InUse(r) /\ n \in Calls /\ rpc' = [rpc EXCEPT ![r] = n] /\ SameHandler(n, rpc[r]) /\ CallOK(n)
  /\ ops' = ops /\ issued' = issued /\ gens' \subseteq issued /\ cancels' = cancels

\* The thread of a surviving session runs with its handler, or is done, or
\* belongs to a client whose callback is still to come.
LEMMA ThreadServes ==
  ASSUME IInv, NEW r \in Rpc, NEW n, ThreadBecomes(r, n), n.s \in Live,
         rpc[r].pc \in Terminal => n.pc \in Terminal,
         n.kind = "append" => rpc[r].pc # "over" /\ (n.pc = "over" => n.out = "ok")
  PROVE  /\ CallBecomes(r, n) /\ LiveCall(n) /\ Doomed(rpc[r]) = Doomed(n)
         /\ rpc[r].handler = "gone" /\ ~Doomed(n) => rpc[r].pc \in Terminal
         /\ rpc[r].handler = "run" => ~rpc[r].cancel
         /\ rpc[r].kind = "append" => rpc[r].handler = "run"
         /\ rpc[r].pc \in Holding => rpc[r].ref = "first" /\ adapter[n.s].obj = "first"
         /\ Unthreatened(n.s) /\ rpc[r].handler = "run" =>
              Phase(rpc[r], hist[n.s], adapter[n.s].kv, cached[n.s], pos[n.s], Told[n.s])
<1> DEFINE o == rpc[r]
<1>1. Of(r, n.s) /\ Surviving(n.s) /\ o \in Calls /\ cancels \in 0..MaxCancels
  BY DEF IInv, Typed, ThreadBecomes, SameHandler, Of
<1>2. LiveCall(o) /\ (o.pc \in Holding => o.ref = "first" /\ adapter[n.s].obj = "first")
  BY <1>1 DEF Surviving
<1>3. Unthreatened(n.s) /\ o.handler = "run" =>
        Phase(o, hist[n.s], adapter[n.s].kv, cached[n.s], pos[n.s], Told[n.s])
  BY <1>1 DEF Surviving, Runs, Of
<1>4. CallBecomes(r, n)
  BY <1>1 DEF CallBecomes, ThreadBecomes, SameHandler
<1>5. o.kind = "append" => o.handler = "run"
  BY <1>1, <1>2 DEF LiveCall, ThreadBecomes, SameHandler, Calls
<1>6. Doomed(o) = Doomed(n)
  BY DEF Doomed, ThreadBecomes, SameHandler
<1>7. LiveCall(n)
  BY <1>2, <1>5, <1>6 DEF LiveCall, ThreadBecomes, SameHandler
<1> QED
  BY <1>2, <1>3, <1>4, <1>5, <1>6, <1>7 DEF LiveCall

\* A step of the thread that writes no session and no verifier.
LEMMA ThreadQuiet ==
  ASSUME IInv, NEW r \in Rpc, NEW n, ThreadBecomes(r, n), UNCHANGED <<store, session, adapter>>,
         n.s \in Live =>
           /\ rpc[r].pc \in Terminal => n.pc \in Terminal
           /\ n.kind = "append" => rpc[r].pc # "over" /\ (n.pc = "over" => n.out = "ok"),
         n.pc \in Holding => rpc[r].pc \in Holding /\ n.ref = rpc[r].ref,
         ASSUME n.s \in Live, n.handler = "run", ~n.cancel,
                Phase(rpc[r], hist[n.s], adapter[n.s].kv, cached[n.s], pos[n.s], Told[n.s])
         PROVE  Phase(n, hist[n.s], adapter[n.s].kv, cached[n.s], pos[n.s], Told[n.s])
  PROVE  IInv'
<1>1. CallBecomes(r, n)
  BY DEF CallBecomes, ThreadBecomes, SameHandler, IInv, Typed
<1>2. ASSUME n.s \in Live
      PROVE  /\ LiveCall(n) /\ Doomed(rpc[r]) = Doomed(n)
             /\ n.pc \in Holding => n.ref = "first" /\ adapter[n.s].obj = "first"
             /\ Unthreatened(n.s) /\ n.handler = "run" =>
                  Phase(n, hist[n.s], adapter[n.s].kv, cached[n.s], pos[n.s], Told[n.s])
  <2>1. n.handler = rpc[r].handler /\ n.cancel = rpc[r].cancel
    BY DEF ThreadBecomes, SameHandler
  <2> QED
    BY <1>2, <2>1, ThreadServes
<1>3. n.handler = rpc[r].handler
  BY DEF ThreadBecomes, SameHandler
<1> QED
  BY <1>1, <1>2, <1>3, QuietStep


-----------------------------------------------------------------------------
(* How a thread changes its call.                                            *)

\* A call that only moves to another place.
LEMMA GotoCall ==
  ASSUME rpc \in [Rpc -> Calls], NEW r \in Rpc, NEW p \in Pcs, Goto(r, p)
  PROVE  \E n \in Calls :
           /\ rpc' = [rpc EXCEPT ![r] = n] /\ SameHandler(n, rpc[r]) /\ n.pc = p
           /\ n.ref = rpc[r].ref /\ n.tok = rpc[r].tok /\ n.queue = rpc[r].queue /\ n.out = rpc[r].out
<1> DEFINE n == [rpc[r] EXCEPT !.pc = p]
<1>1. rpc[r] \in Calls /\ rpc' = [rpc EXCEPT ![r] = n]
  BY DEF Goto
<1>2. /\ n \in Calls /\ SameHandler(n, rpc[r]) /\ n.pc = p
      /\ n.ref = rpc[r].ref /\ n.tok = rpc[r].tok /\ n.queue = rpc[r].queue /\ n.out = rpc[r].out
  BY <1>1 DEF Calls, SameHandler
<1> QED
  BY <1>1, <1>2

\* A coordinator's frame that is left holds nothing.
LEMMA LeftCall ==
  ASSUME NEW o \in Calls
  PROVE  /\ Left(o) \in Calls /\ SameHandler(Left(o), o)
         /\ Left(o).ref = "none" /\ Left(o).tok = <<>> /\ Left(o).queue = o.queue /\ Left(o).out = o.out
<1>1. <<>> \in Seq(Token)
  OBVIOUS
<1> QED
  BY <1>1 DEF Left, Calls, SameHandler

\* Unwinding a generation.
LEMMA UnwindCall ==
  ASSUME rpc \in [Rpc -> Calls], NEW r \in Rpc, NEW p \in Pcs, Unwind(r, p)
  PROVE  \E n \in Calls :
           /\ rpc' = [rpc EXCEPT ![r] = n] /\ SameHandler(n, rpc[r]) /\ n.pc = p
           /\ n.queue = rpc[r].queue /\ n.out = rpc[r].out
<1> DEFINE l == Left(rpc[r])
           n == [l EXCEPT !.pc = p]
<1>1. rpc[r] \in Calls /\ rpc' = [rpc EXCEPT ![r] = n]
  BY DEF Unwind
<1>2. /\ l \in Calls /\ SameHandler(l, rpc[r]) /\ l.queue = rpc[r].queue /\ l.out = rpc[r].out
  BY <1>1, LeftCall
<1> HIDE DEF l
<1>3. n \in Calls /\ SameHandler(n, rpc[r]) /\ n.pc = p /\ n.queue = rpc[r].queue /\ n.out = rpc[r].out
  BY <1>2 DEF Calls, SameHandler
<1> QED
  BY <1>1, <1>3

\* An append ends with its outcome.
LEMMA FinishCall ==
  ASSUME rpc \in [Rpc -> Calls], NEW r \in Rpc, NEW out \in {"ok", "cancelled", "error"}, Finish(r, out)
  PROVE  \E n \in Calls :
           /\ rpc' = [rpc EXCEPT ![r] = n] /\ SameHandler(n, rpc[r]) /\ n.pc = "over"
           /\ n.queue = rpc[r].queue /\ n.out = out
<1> DEFINE l == Left(rpc[r])
           n == [l EXCEPT !.pc = "over", !.out = out]
<1>1. rpc[r] \in Calls /\ rpc' = [rpc EXCEPT ![r] = n]
  BY DEF Finish
<1>2. l \in Calls /\ SameHandler(l, rpc[r]) /\ l.queue = rpc[r].queue
  BY <1>1, LeftCall
<1> HIDE DEF l
<1>3. n \in Calls /\ SameHandler(n, rpc[r]) /\ n.pc = "over" /\ n.queue = rpc[r].queue /\ n.out = out
  <2>1. "over" \in Pcs /\ out \in {"none", "ok", "cancelled", "error"}
    BY DEF Pcs
  <2>2. n \in Calls /\ n.pc = "over" /\ n.out = out
    BY <1>2, <2>1 DEF Calls
  <2>3. SameHandler(n, l) /\ n.queue = l.queue
    BY <1>2 DEF Calls, SameHandler
  <2> QED
    BY <1>2, <2>2, <2>3 DEF SameHandler
<1> QED
  BY <1>1, <1>3

\* A call that raises is at an end.
LEMMA RaiseCall ==
  ASSUME rpc \in [Rpc -> Calls], NEW r \in Rpc, Raise(r)
  PROVE  \E n \in Calls :
           /\ rpc' = [rpc EXCEPT ![r] = n] /\ SameHandler(n, rpc[r]) /\ n.queue = rpc[r].queue
           /\ n.pc = IF n.kind = "append" THEN "over" ELSE "failing"
<1>1. CASE rpc[r].kind = "append"
  <2>1. Finish(r, "error")
    BY <1>1 DEF Raise
  <2> QED
    BY <1>1, <2>1, FinishCall DEF SameHandler
<1>2. CASE rpc[r].kind # "append"
  <2>1. Unwind(r, "failing") /\ "failing" \in Pcs
    BY <1>2 DEF Raise, Pcs
  <2> QED
    BY <1>2, <2>1, UnwindCall DEF SameHandler
<1> QED
  BY <1>1, <1>2

\* So is one that has written its slab's bytes.
LEMMA SyncedCall ==
  ASSUME rpc \in [Rpc -> Calls], NEW r \in Rpc, AfterSync(r)
  PROVE  \E n \in Calls :
           /\ rpc' = [rpc EXCEPT ![r] = n] /\ SameHandler(n, rpc[r]) /\ n.queue = rpc[r].queue
           /\ n.kind = "append" => n.pc = "over" /\ n.out = "ok"
           /\ n.kind # "append" => n.pc = "done"
<1>1. CASE rpc[r].kind = "append"
  <2>1. Finish(r, "ok")
    BY <1>1 DEF AfterSync
  <2> QED
    BY <1>1, <2>1, FinishCall DEF SameHandler
<1>2. CASE rpc[r].kind # "append"
  <2>1. Unwind(r, "done") /\ "done" \in Pcs
    BY <1>2 DEF AfterSync, Pcs
  <2> QED
    BY <1>2, <2>1, UnwindCall DEF SameHandler
<1> QED
  BY <1>1, <1>2

\* A put fills the empty queue; over a full one it is dropped, once cancelled.
LEMMA PutCall ==
  ASSUME rpc \in [Rpc -> Calls], NEW r \in Rpc, NEW e \in {"token", "done", "error", "end"},
         NEW p \in Pcs, Put(r, e, p)
  PROVE  \E n \in Calls :
           /\ rpc' = [rpc EXCEPT ![r] = n] /\ SameHandler(n, rpc[r]) /\ n.pc = p
           /\ n.ref = rpc[r].ref /\ n.out = rpc[r].out
           /\ n.queue = IF rpc[r].queue = <<>> THEN <<e>> ELSE rpc[r].queue
           /\ rpc[r].queue = <<>> \/ rpc[r].cancel
<1> DEFINE q == IF rpc[r].queue = <<>> THEN <<e>> ELSE rpc[r].queue
           n == [rpc[r] EXCEPT !.queue = q, !.pc = p]
<1>1. rpc[r] \in Calls /\ rpc' = [rpc EXCEPT ![r] = n] /\ (rpc[r].queue = <<>> \/ rpc[r].cancel)
  BY DEF Put, CanPut
<1>2. q \in Seq({"token", "done", "error", "end"})
  <2>1. rpc[r].queue \in Seq({"token", "done", "error", "end"})
    BY <1>1 DEF Calls
  <2>2. <<e>> \in Seq({"token", "done", "error", "end"})
    OBVIOUS
  <2> QED
    BY <2>1, <2>2
<1> HIDE DEF q
<1>3. /\ n \in Calls /\ SameHandler(n, rpc[r]) /\ n.pc = p /\ n.queue = q
      /\ n.ref = rpc[r].ref /\ n.out = rpc[r].out
  BY <1>1, <1>2 DEF Calls, SameHandler
<1> QED
  BY <1>1, <1>3 DEF q


\* The append of a surviving session has its handler, and no cancel.
LEMMA LiveAppend ==
  ASSUME IInv, NEW r \in Rpc, InUse(r), rpc[r].kind = "append", rpc[r].s \in Live, rpc[r].pc # "over"
  PROVE  rpc[r].handler = "run" /\ ~rpc[r].cancel
<1>1. Of(r, rpc[r].s) /\ Surviving(rpc[r].s) /\ rpc[r] \in Calls
  BY DEF IInv, Typed, Of
<1>2. LiveCall(rpc[r])
  BY <1>1 DEF Surviving
<1> QED
  BY <1>1, <1>2 DEF LiveCall, Calls

\* The places of a thread by the kind of its call.
LEMMA KindOf ==
  ASSUME IInv, NEW r \in Rpc, InUse(r)
  PROVE  /\ rpc \in [Rpc -> Calls] /\ rpc[r] \in Calls /\ CallOK(rpc[r]) /\ rpc[r].s \in issued
         /\ rpc[r].s \in Sid /\ rpc[r].kind \in {"append", "generate"}
         /\ issued \subseteq Sid /\ gens \subseteq issued
         /\ rpc[r].kind = "append" =>
              rpc[r].pc \in {"lookup", "resolve", "drive", "mirror", "extend", "advance", "sync", "write", "over"}
  BY DEF IInv, Typed, Guard, Calls, InUse, CallOK, Holding

\* The guard of GenerationCoordinator, the lookup and the argmax.
LEMMA EntryStep ==
  ASSUME IInv, NEW r \in Rpc, \/ AcquireGeneration(r) \/ get_session(r) \/ greedy_next_token_id(r)
                              \/ ReadBytes(r)
  PROVE  IInv'
<1> DEFINE o == rpc[r]
<1>0. InUse(r)
  BY DEF AcquireGeneration, get_session, greedy_next_token_id, ReadBytes, At
<1>1. /\ rpc \in [Rpc -> Calls] /\ o \in Calls /\ CallOK(o) /\ o.s \in issued /\ o.s \in Sid
      /\ o.kind \in {"append", "generate"} /\ gens \subseteq issued
      /\ o.kind = "append" =>
           o.pc \in {"lookup", "resolve", "drive", "mirror", "extend", "advance", "sync", "write", "over"}
  BY <1>0, KindOf
<1>2. CASE AcquireGeneration(r)
  <2>1. /\ o.pc = "guard" /\ gens' \subseteq issued /\ UNCHANGED <<store, session, adapter>>
        /\ ops' = ops /\ issued' = issued /\ cancels' = cancels
    BY <1>1, <1>2 DEF AcquireGeneration, At
  <2>2. PICK p \in {"errput", "lookup"} : Goto(r, p)
    BY <1>2 DEF AcquireGeneration
  <2>3. p \in Pcs
    BY DEF Pcs
  <2>4. PICK n \in Calls :
          /\ rpc' = [rpc EXCEPT ![r] = n] /\ SameHandler(n, o) /\ n.pc = p
          /\ n.ref = o.ref /\ n.tok = o.tok /\ n.queue = o.queue /\ n.out = o.out
    BY <1>1, <2>2, <2>3, GotoCall
  <2>5. CallOK(n)
    BY <1>1, <2>1, <2>4 DEF CallOK, SameHandler, Holding, Terminal
  <2>6. ThreadBecomes(r, n)
    BY <1>0, <2>1, <2>4, <2>5 DEF ThreadBecomes
  <2>7. /\ o.pc \notin Terminal /\ n.pc \notin Holding /\ n.kind # "append"
    BY <1>1, <2>1, <2>4 DEF Terminal, Holding, SameHandler
  <2>8. ASSUME NEW h, NEW k, NEW c, NEW x, NEW a, Phase(o, h, k, c, x, a) PROVE Phase(n, h, k, c, x, a)
    BY <1>1, <2>1, <2>4, <2>7, <2>8 DEF Phase, Owed, SameHandler
  <2> QED
    BY <2>1, <2>6, <2>7, <2>8, ThreadQuiet
<1>3. CASE get_session(r)
  <2>1. /\ o.pc = "lookup" /\ UNCHANGED <<store, session, adapter>>
        /\ ops' = ops /\ issued' = issued /\ cancels' = cancels /\ gens' = gens
    BY <1>3 DEF get_session, At, guards
  <2>2. ASSUME NEW n \in Calls, rpc' = [rpc EXCEPT ![r] = n], SameHandler(n, o), n.queue = o.queue,
               n.pc \in Terminal \cup {"resolve"}, o.s \in Live => n.pc = "resolve",
               n.kind = "append" => n.pc \in {"over", "resolve"}
        PROVE  IInv'
    <3>1. CallOK(n)
      BY <1>1, <2>1, <2>2 DEF CallOK, SameHandler, Holding, Terminal
    <3>2. ThreadBecomes(r, n)
      BY <1>0, <1>1, <2>1, <2>2, <3>1 DEF ThreadBecomes
    <3>3. o.pc \notin Terminal /\ n.pc \notin Holding
      BY <2>1, <2>2 DEF Terminal, Holding
    <3>4. ASSUME n.s \in Live, NEW h, NEW k, NEW c, NEW x, NEW a, Phase(o, h, k, c, x, a)
          PROVE  Phase(n, h, k, c, x, a)
      BY <1>1, <2>1, <2>2, <3>4 DEF Phase, Owed, SameHandler
    <3>5. n.s \in Live => n.pc = "resolve"
      BY <2>2 DEF SameHandler
    <3> QED
      BY <2>1, <3>2, <3>3, <3>4, <3>5, ThreadQuiet
  <2>3. CASE o.kind = "append" /\ o.cancel
    <3>1. Finish(r, "cancelled")
      BY <1>3, <2>3 DEF get_session
    <3>2. o.s \notin Live
      BY <1>0, <2>1, <2>3, LiveAppend
    <3>3. PICK n \in Calls :
            /\ rpc' = [rpc EXCEPT ![r] = n] /\ SameHandler(n, o) /\ n.pc = "over"
            /\ n.queue = o.queue /\ n.out = "cancelled"
      BY <1>1, <3>1, FinishCall
    <3> QED
      BY <2>2, <3>2, <3>3 DEF Terminal
  <2>4. CASE ~(o.kind = "append" /\ o.cancel) /\ o.s \notin Live
    <3>1. Raise(r)
      BY <1>3, <2>4 DEF get_session
    <3>2. PICK n \in Calls :
            /\ rpc' = [rpc EXCEPT ![r] = n] /\ SameHandler(n, o) /\ n.queue = o.queue
            /\ n.pc = IF n.kind = "append" THEN "over" ELSE "failing"
      BY <1>1, <3>1, RaiseCall
    <3> QED
      BY <2>2, <2>4, <3>2 DEF Terminal
  <2>5. CASE ~(o.kind = "append" /\ o.cancel) /\ o.s \in Live
    <3>1. Goto(r, "resolve") /\ "resolve" \in Pcs
      BY <1>3, <2>5 DEF get_session, Pcs
    <3>2. PICK n \in Calls :
            /\ rpc' = [rpc EXCEPT ![r] = n] /\ SameHandler(n, o) /\ n.pc = "resolve"
            /\ n.ref = o.ref /\ n.tok = o.tok /\ n.queue = o.queue /\ n.out = o.out
      BY <1>1, <3>1, GotoCall
    <3> QED
      BY <2>2, <3>2
  <2> QED
    BY <2>3, <2>4, <2>5
<1>4. CASE greedy_next_token_id(r)
  <2>1. /\ o.pc = "check" /\ UNCHANGED <<store, session, adapter>>
        /\ ops' = ops /\ issued' = issued /\ cancels' = cancels /\ gens' = gens
    BY <1>4 DEF greedy_next_token_id, At, guards
  <2>2. ASSUME NEW n \in Calls, rpc' = [rpc EXCEPT ![r] = n], SameHandler(n, o), n.queue = o.queue,
               \/ n.pc \in {"done", "failing"}
               \/ n.pc = "commit" /\ n.ref = o.ref /\ Len(n.tok) = 1
        PROVE  IInv'
    <3>1. CallOK(n)
      BY <1>1, <2>1, <2>2 DEF CallOK, SameHandler, Holding, Terminal
    <3>2. ThreadBecomes(r, n)
      BY <1>0, <1>1, <2>1, <2>2, <3>1 DEF ThreadBecomes
    <3>3. /\ o.pc \notin Terminal /\ n.kind # "append"
          /\ n.pc \in Holding => o.pc \in Holding /\ n.ref = o.ref
      BY <1>1, <2>1, <2>2 DEF Terminal, Holding, SameHandler
    <3>4. ASSUME NEW h, NEW k, NEW c, NEW x, NEW a, Phase(o, h, k, c, x, a) PROVE Phase(n, h, k, c, x, a)
      BY <1>1, <2>1, <2>2, <3>3, <3>4 DEF Phase, Owed, SameHandler
    <3> QED
      BY <2>1, <3>2, <3>3, <3>4, ThreadQuiet
  <2>3. ASSUME NEW p \in {"done", "failing"}, Unwind(r, p) PROVE IInv'
    <3>1. p \in Pcs
      BY DEF Pcs
    <3> QED
      BY <1>1, <2>2, <2>3, <3>1, UnwindCall
  <2>4. CASE o.cancel
    BY <1>4, <2>3, <2>4 DEF greedy_next_token_id
  <2>5. CASE ~o.cancel /\ Bound(r) /\ Cache(r) = <<>>
    BY <1>4, <2>3, <2>5 DEF greedy_next_token_id
  <2>6. CASE ~o.cancel /\ ~(Bound(r) /\ Cache(r) = <<>>)
    <3> DEFINE kv == Cache(r)
               t == IF kv = <<>> THEN <<o.s>> ELSE <<kv[Len(kv)]>>
               n == [o EXCEPT !.pc = "commit", !.tok = t]
    <3>1. rpc' = [rpc EXCEPT ![r] = n]
      BY <1>1, <1>4, <2>6 DEF greedy_next_token_id
    <3>2. kv \in Seq(Token)
      BY <1>1 DEF Cache, IInv, Typed, Verifiers
    <3>3. t \in Seq(Token) /\ Len(t) = 1
      <4> HIDE DEF kv
      <4>1. CASE kv = <<>>
        BY <1>1, <4>1 DEF Token
      <4>2. CASE kv # <<>>
        <5>1. Len(kv) \in 1..Len(kv)
          BY <3>2, <4>2
        <5>2. kv[Len(kv)] \in Token
          BY <3>2, <5>1
        <5>3. <<kv[Len(kv)]>> \in Seq(Token)
          BY <5>2
        <5> QED
          BY <4>2, <5>3
      <4> QED
        BY <4>1, <4>2
    <3> HIDE DEF t
    <3>4. "commit" \in Pcs
      BY DEF Pcs
    <3>5. /\ n \in Calls /\ SameHandler(n, o) /\ n.queue = o.queue /\ n.pc = "commit" /\ n.ref = o.ref
          /\ n.tok = t
      BY <1>1, <3>3, <3>4 DEF Calls, SameHandler
    <3> HIDE DEF n
    <3> QED
      BY <2>2, <3>1, <3>3, <3>5
  <2> QED
    BY <2>4, <2>5, <2>6
<1>5. CASE ReadBytes(r)
  <2>1. /\ o.pc = "sync" /\ UNCHANGED <<store, session, adapter>>
        /\ ops' = ops /\ issued' = issued /\ cancels' = cancels /\ gens' = gens
    BY <1>5 DEF ReadBytes, At, guards
  <2>2. CASE store.slab[o.s] = None
    <3>1. AfterSync(r)
      BY <1>5, <2>2 DEF ReadBytes
    <3>2. PICK n \in Calls :
            /\ rpc' = [rpc EXCEPT ![r] = n] /\ SameHandler(n, o) /\ n.queue = o.queue
            /\ n.kind = "append" => n.pc = "over" /\ n.out = "ok"
            /\ n.kind # "append" => n.pc = "done"
      BY <1>1, <3>1, SyncedCall
    <3>3. CallOK(n)
      BY <1>1, <2>1, <3>2 DEF CallOK, SameHandler, Holding, Terminal
    <3>4. ThreadBecomes(r, n)
      BY <1>0, <1>1, <2>1, <3>2, <3>3 DEF ThreadBecomes
    <3>5. n.s \notin Live /\ n.pc \notin Holding
      BY <1>1, <2>2, <3>2 DEF IInv, Sessions, StoreOK, SameHandler, Live, Holding
    <3> QED
      BY <2>1, <3>4, <3>5, ThreadQuiet
  <2>3. CASE store.slab[o.s] # None
    <3> DEFINE k == Len(Cache(r))
               n == [o EXCEPT !.pc = "write", !.bytes = k]
    <3>1. rpc' = [rpc EXCEPT ![r] = n]
      BY <1>1, <1>5, <2>3 DEF ReadBytes
    <3>2. k \in Nat
      BY <1>1 DEF Cache, IInv, Typed, Verifiers
    <3> HIDE DEF k
    <3>3. "write" \in Pcs
      BY DEF Pcs
    <3>4. /\ n \in Calls /\ SameHandler(n, o) /\ n.queue = o.queue /\ n.pc = "write" /\ n.ref = o.ref
      BY <1>1, <3>2, <3>3 DEF Calls, SameHandler
    <3> HIDE DEF n
    <3>5. CallOK(n)
      BY <1>1, <2>1, <3>4 DEF CallOK, SameHandler, Holding, Terminal
    <3>6. ThreadBecomes(r, n)
      BY <1>0, <1>1, <2>1, <3>1, <3>4, <3>5 DEF ThreadBecomes
    <3>7. o.pc \notin Terminal /\ o.pc \in Holding
      BY <2>1 DEF Terminal, Holding
    <3>8. ASSUME NEW h, NEW kv, NEW c, NEW x, NEW a, Phase(o, h, kv, c, x, a) PROVE Phase(n, h, kv, c, x, a)
      BY <1>1, <2>1, <3>4, <3>8 DEF Phase, Owed, SameHandler
    <3> QED
      BY <2>1, <3>4, <3>6, <3>7, <3>8, ThreadQuiet
  <2> QED
    BY <2>2, <2>3
<1> QED
  BY <1>2, <1>3, <1>4, <1>5


\* The generation thread fills its queue; the generator's finally block.
LEMMA StreamStep ==
  ASSUME IInv, NEW r \in Rpc, \/ EmitToken(r) \/ EmitDone(r) \/ EmitError(r) \/ EmitEnd(r)
                              \/ ReleaseGeneration(r)
  PROVE  IInv'
<1> DEFINE o == rpc[r]
<1>0. InUse(r)
  BY DEF EmitToken, EmitDone, EmitError, EmitEnd, ReleaseGeneration, At
<1>1. /\ rpc \in [Rpc -> Calls] /\ o \in Calls /\ CallOK(o) /\ o.s \in issued
      /\ o.kind \in {"append", "generate"} /\ gens \subseteq issued
      /\ o.kind = "append" =>
           o.pc \in {"lookup", "resolve", "drive", "mirror", "extend", "advance", "sync", "write", "over"}
  BY <1>0, KindOf
<1>2. UNCHANGED <<store, session, adapter>> /\ ops' = ops /\ issued' = issued /\ cancels' = cancels
  BY DEF EmitToken, EmitDone, EmitError, EmitEnd, ReleaseGeneration, guards
<1>3. CASE EmitToken(r)
  <2>1. o.pc = "emit" /\ gens' = gens /\ o.kind = "generate"
    BY <1>1, <1>3 DEF EmitToken, At, guards
  <2>2. PICK p \in {"break", "sync", "check"} : Put(r, "token", p) /\ (p = "break" => o.cancel)
    BY <1>3 DEF EmitToken
  <2>3. p \in Pcs
    BY DEF Pcs
  <2>4. PICK n \in Calls :
          /\ rpc' = [rpc EXCEPT ![r] = n] /\ SameHandler(n, o) /\ n.pc = p
          /\ n.ref = o.ref /\ n.out = o.out
          /\ n.queue = IF o.queue = <<>> THEN <<"token">> ELSE o.queue
          /\ o.queue = <<>> \/ o.cancel
    BY <1>1, <2>2, <2>3, PutCall
  <2>5. CallOK(n)
    BY <1>1, <2>1, <2>4 DEF CallOK, SameHandler, Holding, Terminal
  <2>6. ThreadBecomes(r, n)
    BY <1>0, <1>1, <1>2, <2>1, <2>4, <2>5 DEF ThreadBecomes
  <2>7. /\ o.pc \notin Terminal /\ o.pc \in Holding /\ n.kind # "append"
    BY <2>1, <2>4 DEF Terminal, Holding, SameHandler
  <2>8. ASSUME NEW h, NEW k, NEW c, NEW x, NEW a, ~n.cancel, Phase(o, h, k, c, x, a)
        PROVE  Phase(n, h, k, c, x, a)
    <3>1. o.queue = <<>> /\ n.queue = <<"token">> /\ p \in {"sync", "check"}
      BY <2>2, <2>4, <2>8 DEF SameHandler
    <3>2. Owed(o) = 1 /\ Owed(n) = 1
      BY <2>1, <2>4, <3>1 DEF Owed, SameHandler
    <3> QED
      BY <2>1, <2>4, <2>8, <3>1, <3>2 DEF Phase
  <2> QED
    BY <1>2, <2>4, <2>6, <2>7, <2>8, ThreadQuiet
<1>4. ASSUME o.pc \in {"done", "errput", "endput", "break"}, gens' = gens,
             NEW e \in {"done", "error", "end"}, NEW p \in Terminal, Put(r, e, p)
      PROVE  IInv'
  <2>1. p \in Pcs /\ o.kind = "generate" /\ o.pc \in Terminal
    BY <1>1, <1>4 DEF Pcs, Terminal
  <2>2. PICK n \in Calls :
          /\ rpc' = [rpc EXCEPT ![r] = n] /\ SameHandler(n, o) /\ n.pc = p
          /\ n.ref = o.ref /\ n.out = o.out
          /\ n.queue = IF o.queue = <<>> THEN <<e>> ELSE o.queue
          /\ o.queue = <<>> \/ o.cancel
    BY <1>1, <1>4, <2>1, PutCall
  <2>3. <<e>> # <<"token">>
    BY <1>4
  <2>4. p \notin Holding /\ p # "advance" /\ p # "emit" /\ p # "mirror" /\ p # "extend"
    BY DEF Terminal, Holding
  <2>5. CallOK(n)
    BY <1>1, <1>4, <2>1, <2>2, <2>3, <2>4 DEF CallOK, SameHandler, Terminal
  <2>6. ThreadBecomes(r, n)
    BY <1>0, <1>1, <1>2, <1>4, <2>2, <2>5 DEF ThreadBecomes
  <2>7. n.kind # "append" /\ n.pc \in Terminal /\ n.pc \notin Holding
    BY <2>1, <2>2, <2>4 DEF SameHandler
  <2>8. ASSUME NEW h, NEW k, NEW c, NEW x, NEW a, ~n.cancel, Phase(o, h, k, c, x, a)
        PROVE  Phase(n, h, k, c, x, a)
    <3>1. o.queue = <<>> /\ n.queue = <<e>>
      BY <2>2, <2>8 DEF SameHandler
    <3>2. Owed(o) = 0 /\ Owed(n) = 0
      BY <1>4, <2>1, <2>2, <2>3, <2>4, <3>1 DEF Owed, SameHandler
    <3> QED
      BY <1>4, <2>2, <2>4, <2>8, <3>2 DEF Phase
  <2> QED
    BY <1>2, <2>6, <2>7, <2>8, ThreadQuiet
<1>5. CASE EmitDone(r)
  BY <1>4, <1>5 DEF EmitDone, At, guards, Terminal
<1>6. CASE EmitError(r)
  BY <1>4, <1>6 DEF EmitError, At, guards, Terminal
<1>7. CASE EmitEnd(r)
  BY <1>4, <1>7 DEF EmitEnd, At, guards, Terminal
<1>8. CASE ReleaseGeneration(r)
  <2>1. PICK p \in {"errput", "endput", "over"} : Goto(r, p)
    BY <1>8 DEF ReleaseGeneration
  <2>2. o.pc \in {"failing", "unguard", "suspended"} /\ gens' \subseteq issued
    BY <1>1, <1>8 DEF ReleaseGeneration
  <2>3. p \in Pcs /\ p \in Terminal /\ p \notin Holding /\ o.pc \in Terminal /\ o.kind = "generate"
    BY <1>1, <2>2 DEF Pcs, Terminal, Holding
  <2>4. PICK n \in Calls :
          /\ rpc' = [rpc EXCEPT ![r] = n] /\ SameHandler(n, o) /\ n.pc = p
          /\ n.ref = o.ref /\ n.tok = o.tok /\ n.queue = o.queue /\ n.out = o.out
    BY <1>1, <2>1, <2>3, GotoCall
  <2>5. CallOK(n)
    BY <1>1, <2>2, <2>3, <2>4 DEF CallOK, SameHandler, Terminal
  <2>6. ThreadBecomes(r, n)
    BY <1>0, <1>1, <1>2, <2>2, <2>4, <2>5 DEF ThreadBecomes
  <2>7. n.kind # "append"
    BY <2>3, <2>4 DEF SameHandler
  <2>8. ASSUME NEW h, NEW k, NEW c, NEW x, NEW a, Phase(o, h, k, c, x, a) PROVE Phase(n, h, k, c, x, a)
    BY <2>1, <2>2, <2>3, <2>4, <2>8 DEF Phase, Owed, SameHandler
  <2> QED
    BY <1>2, <2>3, <2>4, <2>6, <2>7, <2>8, ThreadQuiet
<1> QED
  BY <1>3, <1>5, <1>6, <1>7, <1>8


-----------------------------------------------------------------------------
(* Steps of a thread that write its session.                                 *)

\* Removing a session takes it, its slab and its verifier away, and no other.
LEMMA RemovedFacts ==
  ASSUME IInv, NEW s \in Sid, s \in Live => Remove({s}), s \notin Live => UNCHANGED <<store, adapter>>
  PROVE  /\ StoreOK(store') /\ Live' = Live \ {s} /\ adapter' \in [Sid -> Verifiers]
         /\ \A t \in Sid \ {s} : adapter'[t] = adapter[t]
         /\ adapter'[s].obj = "none" => adapter'[s].kv = <<>>
<1>1. StoreOK(store) /\ adapter \in [Sid -> Verifiers]
  BY DEF IInv, Typed, Sessions
<1>2. CASE s \in Live
  <2>1. store' = Without(store, {s}) /\ adapter' = Unbound({s}) /\ {s} \in SUBSET Entries(store.lru)
    BY <1>2 DEF Remove, Live
  <2>2. StoreOK(store') /\ Live' = Live \ {s}
    BY <1>1, <2>1, WithoutOK DEF Live
  <2>3. Absent \in Verifiers
    <3>1. <<>> \in Seq(Token)
      OBVIOUS
    <3> QED
      BY <3>1 DEF Absent, Verifiers
  <2> QED
    BY <1>1, <2>1, <2>2, <2>3 DEF Unbound, Absent
<1>3. CASE s \notin Live
  BY <1>1, <1>3 DEF Live, IInv, Sessions
<1> QED
  BY <1>2, <1>3

\* What a thread owes to the session it writes.
ThreadKeeps(r, n) ==
  LET s == n.s IN
  /\ rpc[r].pc \notin Terminal
  /\ n.kind = "append" /\ n.pc = "over" => n.out = "ok"
  /\ adapter'[s].obj # "late"
  /\ adapter[s].obj = "first" => adapter'[s].obj = "first"
  /\ n.pc \in Holding => n.ref = "first" /\ adapter'[s].obj = "first"
  /\ /\ rpc[r].handler = "run"
     /\ Phase(rpc[r], hist[s], adapter[s].kv, cached[s], pos[s], Told[s])
     => Phase(n, hist'[s], adapter'[s].kv, cached'[s], pos'[s], Told'[s])

\* A step of the thread that writes its session, its verifier or the store.
LEMMA ThreadWrite ==
  ASSUME IInv, NEW r \in Rpc, NEW n, ThreadBecomes(r, n), Elsewhere(n.s), DataTyped,
         StoreOK(store'), Live' \subseteq Live,
         adapter'[n.s].obj = "none" => adapter'[n.s].kv = <<>>,
         n.s \in Live' => ThreadKeeps(r, n)
  PROVE  IInv'
<1>1. CallBecomes(r, n)
  BY DEF CallBecomes, ThreadBecomes, SameHandler, IInv, Typed
<1>2. n.s \in Live' => Serves(r, n)
  <2> SUFFICES ASSUME n.s \in Live' PROVE Serves(r, n)
    OBVIOUS
  <2>1. n.s \in Live /\ ThreadKeeps(r, n)
    OBVIOUS
  <2>2. rpc[r].pc \notin Terminal /\ rpc[r].pc # "over" /\ (n.kind = "append" /\ n.pc = "over" => n.out = "ok")
    BY <2>1 DEF ThreadKeeps, Terminal
  <2>3. /\ LiveCall(n) /\ Doomed(rpc[r]) = Doomed(n)
        /\ rpc[r].handler = "gone" /\ ~Doomed(n) => rpc[r].pc \in Terminal
        /\ Unthreatened(n.s) /\ rpc[r].handler = "run" =>
              Phase(rpc[r], hist[n.s], adapter[n.s].kv, cached[n.s], pos[n.s], Told[n.s])
    BY <2>1, <2>2, ThreadServes
  <2>4. n.handler = rpc[r].handler
    BY DEF ThreadBecomes, SameHandler
  <2> QED
    BY <2>1, <2>2, <2>3, <2>4 DEF Serves, ThreadKeeps
<1> QED
  BY <1>1, <1>2, CallStep

\* What a call adds is a sequence of tokens.
LEMMA FedType ==
  ASSUME IInv, NEW r \in Rpc, InUse(r)
  PROVE  /\ Added(r) = Fed(rpc[r]) /\ Added(r) \in Seq(Token)
         /\ rpc[r].kind = "append" => Len(Added(r)) = rpc[r].n
         /\ rpc[r].kind = "generate" /\ rpc[r].pc \in {"commit", "mirror", "extend"} => Len(Added(r)) = 1
<1> DEFINE o == rpc[r]
<1>1. o \in Calls /\ o.s \in Sid /\ CallOK(o) /\ o.kind \in {"append", "generate"}
  BY KindOf
<1>2. o.n \in Nat /\ o.tok \in Seq(Token)
  BY <1>1 DEF Calls
<1>3. CASE o.kind = "append"
  <2> DEFINE f == [i \in 1..o.n |-> o.s]
  <2>1. f \in Seq(Token) /\ Len(f) = o.n
    BY <1>1, <1>2 DEF Token
  <2> QED
    BY <1>3, <2>1 DEF Added, Fed
<1>4. CASE o.kind = "generate"
  BY <1>1, <1>2, <1>4 DEF Added, Fed, CallOK
<1> QED
  BY <1>1, <1>3, <1>4

\* The thread of a surviving session holds the registry's verifier.
LEMMA LiveCache ==
  ASSUME IInv, NEW r \in Rpc, InUse(r), rpc[r].pc \in Holding
  PROVE  /\ Cache(r) \in Seq(Token) /\ rpc[r].ref # "none"
         /\ rpc[r].s \in Live => /\ Bound(r) /\ Cache(r) = adapter[rpc[r].s].kv
                                 /\ rpc[r].ref = "first" /\ adapter[rpc[r].s].obj = "first"
<1>1. rpc[r].s \in Sid /\ CallOK(rpc[r])
  BY KindOf
<1>2. Cache(r) \in Seq(Token)
  BY <1>1 DEF Cache, IInv, Typed, Verifiers
<1>3. ASSUME rpc[r].s \in Live PROVE rpc[r].ref = "first" /\ adapter[rpc[r].s].obj = "first"
  <2>1. Of(r, rpc[r].s) /\ Surviving(rpc[r].s)
    BY <1>3 DEF IInv, Of
  <2> QED
    BY <2>1 DEF Surviving
<1> QED
  BY <1>1, <1>2, <1>3 DEF Cache, Bound, CallOK

\* The forward writes the cache of the session's verifier, if it is still bound.
LEMMA ForwardFacts ==
  ASSUME IInv, NEW r \in Rpc, InUse(r), rpc[r].pc \in Holding, NEW kv \in Seq(Token), Forward(r, kv)
  PROVE  LET s == rpc[r].s IN
         /\ adapter' \in [Sid -> Verifiers] /\ \A t \in Sid \ {s} : adapter'[t] = adapter[t]
         /\ adapter'[s].obj = adapter[s].obj
         /\ adapter'[s].obj = "none" => adapter'[s].kv = <<>>
         /\ s \in Live => adapter'[s].kv = kv
<1> DEFINE s == rpc[r].s
<1>1. s \in Sid /\ adapter \in [Sid -> Verifiers]
  BY KindOf DEF IInv, Typed
<1>2. adapter[s].obj = "none" => adapter[s].kv = <<>>
  BY <1>1 DEF IInv, Sessions
<1>3. CASE Bound(r)
  <2>1. adapter' = [adapter EXCEPT ![s].kv = kv] /\ adapter[s].obj # "none"
    BY <1>3, LiveCache DEF Forward, Bound
  <2> QED
    BY <1>1, <2>1 DEF Verifiers
<1>4. CASE ~Bound(r)
  BY <1>1, <1>2, <1>4, LiveCache DEF Forward
<1> QED
  BY <1>3, <1>4


\* The forward of an append or of a generated token.
LEMMA ForwardStep ==
  ASSUME IInv, NEW r \in Rpc, DriveVerifier(r) \/ append_accepted_tokens(r)
  PROVE  IInv'
<1> DEFINE o == rpc[r]
           s == o.s
<1>0. InUse(r) /\ o.pc \in {"drive", "commit"}
  BY DEF DriveVerifier, append_accepted_tokens, At
<1>1. /\ rpc \in [Rpc -> Calls] /\ o \in Calls /\ CallOK(o) /\ s \in issued /\ s \in Sid
      /\ o.kind \in {"append", "generate"} /\ gens \subseteq issued
  BY <1>0, KindOf
<1>2. /\ UNCHANGED <<store, session, ops, gens, issued, cancels>> /\ Goto(r, "mirror")
      /\ \/ o.pc = "drive" /\ Forward(r, IF pos[s] = 0 THEN Added(r) ELSE Cache(r) \o Added(r))
         \/ o.pc = "commit" /\ Forward(r, Cache(r) \o Added(r))
  BY DEF DriveVerifier, append_accepted_tokens, At, guards
<1>3. o.pc \in Holding /\ o.pc \notin Terminal /\ "mirror" \in Pcs
  BY <1>0 DEF Holding, Terminal, Pcs
<1>4. PICK n \in Calls :
        /\ rpc' = [rpc EXCEPT ![r] = n] /\ SameHandler(n, o) /\ n.pc = "mirror"
        /\ n.ref = o.ref /\ n.tok = o.tok /\ n.queue = o.queue /\ n.out = o.out
  BY <1>1, <1>2, <1>3, GotoCall
<1>5. CallOK(n)
  BY <1>0, <1>1, <1>4 DEF CallOK, SameHandler, Holding, Terminal
<1>6. ThreadBecomes(r, n)
  BY <1>0, <1>1, <1>2, <1>4, <1>5 DEF ThreadBecomes
<1>7. /\ Cache(r) \in Seq(Token) /\ Added(r) \in Seq(Token) /\ Added(r) = Fed(o)
      /\ s \in Live => Cache(r) = adapter[s].kv /\ o.ref = "first" /\ adapter[s].obj = "first"
  BY <1>0, <1>3, LiveCache, FedType
<1>8. Cache(r) \o Added(r) \in Seq(Token)
  BY <1>7
<1>9. PICK x \in Seq(Token) :
        /\ Forward(r, x)
        /\ x = Cache(r) \o Added(r) \/ (pos[s] = 0 /\ x = Added(r))
  BY <1>2, <1>7, <1>8
<1>10. /\ adapter' \in [Sid -> Verifiers] /\ \A t \in Sid \ {s} : adapter'[t] = adapter[t]
       /\ adapter'[s].obj = adapter[s].obj
       /\ adapter'[s].obj = "none" => adapter'[s].kv = <<>>
       /\ s \in Live => adapter'[s].kv = x
  BY <1>0, <1>3, <1>9, ForwardFacts
<1>11. /\ hist' = hist /\ cached' = cached /\ pos' = pos /\ acked' = acked /\ lost' = lost /\ Told' = Told /\ store' = store
  BY <1>2, ToldSame DEF session, told
<1>12. DataTyped /\ Elsewhere(s)
  BY <1>10, <1>11 DEF DataTyped, Elsewhere, IInv, Typed
<1>13. StoreOK(store') /\ Live' = Live
  BY <1>11 DEF IInv, Sessions, Live
<1>14. n.s = s
  BY <1>4 DEF SameHandler
<1>15. ASSUME s \in Live PROVE ThreadKeeps(r, n)
  <2>1. n.ref = "first" /\ adapter'[s].obj = "first" /\ n.pc = "mirror"
    BY <1>4, <1>7, <1>10, <1>15
  <2>2. ASSUME Phase(o, hist[s], adapter[s].kv, cached[s], pos[s], Told[s])
        PROVE  Phase(n, hist[s], adapter'[s].kv, cached[s], pos[s], Told[s])
    <3>1. /\ adapter[s].kv = hist[s] /\ cached[s] = hist[s] /\ pos[s] = Len(hist[s])
          /\ Told[s] + Owed(o) = Len(hist[s]) /\ hist[s] \in Seq(Token)
      BY <1>0, <1>1, <2>2 DEF Phase, IInv, Typed
    <3>2. Fed(n) = Fed(o) /\ Owed(n) = Owed(o)
      BY <1>0, <1>1, <1>4 DEF Fed, Owed, SameHandler
    <3>3. adapter'[s].kv = hist[s] \o Fed(o)
      <4>1. CASE x = Cache(r) \o Added(r)
        BY <1>7, <1>10, <1>15, <3>1, <4>1
      <4>2. CASE pos[s] = 0 /\ x = Added(r)
        <5>1. hist[s] = <<>>
          <6> DEFINE h == hist[s]
          <6>1. h \in Seq(Token) /\ Len(h) = 0
            BY <3>1, <4>2
          <6> HIDE DEF h
          <6>2. h = <<>>
            BY <6>1
          <6> QED
            BY <6>2 DEF h
        <5>2. <<>> \o Added(r) = Added(r)
          BY <1>7
        <5> QED
          BY <1>7, <1>10, <1>15, <4>2, <5>1, <5>2
      <4> QED
        BY <1>9, <4>1, <4>2
    <3> QED
      BY <1>4, <3>1, <3>2, <3>3 DEF Phase
  <2> QED
    BY <1>3, <1>11, <1>14, <2>1, <2>2 DEF ThreadKeeps
<1> QED
  BY <1>6, <1>10, <1>12, <1>13, <1>14, <1>15, ThreadWrite

\* The mirror of the cache, after the cancel poll of an append.
LEMMA MirrorStep ==
  ASSUME IInv, NEW r \in Rpc, MirrorCache(r)
  PROVE  IInv'
<1> DEFINE o == rpc[r]
           s == o.s
<1>0. InUse(r) /\ o.pc = "mirror"
  BY DEF MirrorCache, At
<1>1. /\ rpc \in [Rpc -> Calls] /\ o \in Calls /\ CallOK(o) /\ s \in issued /\ s \in Sid
      /\ o.kind \in {"append", "generate"} /\ gens \subseteq issued
  BY <1>0, KindOf
<1>2. /\ hist' = hist /\ pos' = pos /\ acked' = acked /\ lost' = lost /\ Told' = Told /\ store' = store /\ adapter' = adapter
      /\ ops' = ops /\ gens' = gens /\ issued' = issued /\ cancels' = cancels
  BY ToldSame DEF MirrorCache, guards, told
<1>3. o.pc \in Holding /\ o.pc \notin Terminal /\ "extend" \in Pcs
  BY <1>0 DEF Holding, Terminal, Pcs
<1>4. /\ Cache(r) \in Seq(Token)
      /\ s \in Live => Cache(r) = adapter[s].kv /\ o.ref = "first" /\ adapter[s].obj = "first"
  BY <1>0, <1>3, LiveCache
<1>5. StoreOK(store') /\ Live' = Live /\ (adapter'[s].obj = "none" => adapter'[s].kv = <<>>)
  BY <1>1, <1>2 DEF IInv, Sessions, Live
<1>6. CASE o.kind = "append" /\ o.cancel
  <2>1. Finish(r, "cancelled") /\ cached' = cached
    BY <1>6 DEF MirrorCache
  <2>2. s \notin Live
    BY <1>0, <1>6, LiveAppend
  <2>3. PICK n \in Calls :
          /\ rpc' = [rpc EXCEPT ![r] = n] /\ SameHandler(n, o) /\ n.pc = "over"
          /\ n.queue = o.queue /\ n.out = "cancelled"
    BY <1>1, <2>1, FinishCall
  <2>4. CallOK(n) /\ n.s = s
    BY <1>0, <1>1, <1>6, <2>3 DEF CallOK, SameHandler, Holding, Terminal
  <2>5. ThreadBecomes(r, n)
    BY <1>0, <1>1, <1>2, <2>3, <2>4 DEF ThreadBecomes
  <2>6. DataTyped /\ Elsewhere(s)
    BY <1>2, <2>1 DEF DataTyped, Elsewhere, IInv, Typed
  <2> QED
    BY <1>5, <2>2, <2>4, <2>5, <2>6, ThreadWrite
<1>7. CASE ~(o.kind = "append" /\ o.cancel)
  <2>1. Goto(r, "extend") /\ cached' = [cached EXCEPT ![s] = Cache(r)]
    BY <1>7 DEF MirrorCache
  <2>2. PICK n \in Calls :
          /\ rpc' = [rpc EXCEPT ![r] = n] /\ SameHandler(n, o) /\ n.pc = "extend"
          /\ n.ref = o.ref /\ n.tok = o.tok /\ n.queue = o.queue /\ n.out = o.out
    BY <1>1, <1>3, <2>1, GotoCall
  <2>3. CallOK(n) /\ n.s = s
    BY <1>0, <1>1, <2>2 DEF CallOK, SameHandler, Holding, Terminal
  <2>4. ThreadBecomes(r, n)
    BY <1>0, <1>1, <1>2, <2>2, <2>3 DEF ThreadBecomes
  <2>5. DataTyped /\ Elsewhere(s) /\ cached'[s] = Cache(r)
    BY <1>1, <1>2, <1>4, <2>1 DEF DataTyped, Elsewhere, IInv, Typed
  <2>6. ASSUME s \in Live PROVE ThreadKeeps(r, n)
    <3>1. n.ref = "first" /\ adapter'[s].obj = "first" /\ n.pc = "extend"
      BY <1>2, <1>4, <2>2, <2>6
    <3>2. ASSUME Phase(o, hist[s], adapter[s].kv, cached[s], pos[s], Told[s])
          PROVE  Phase(n, hist[s], adapter[s].kv, cached'[s], pos[s], Told[s])
      <4>1. Fed(n) = Fed(o) /\ Owed(n) = Owed(o)
        BY <1>0, <1>1, <2>2 DEF Fed, Owed, SameHandler
      <4> QED
        BY <1>0, <1>4, <2>2, <2>5, <2>6, <3>2, <4>1 DEF Phase
    <3> QED
      BY <1>2, <1>3, <2>3, <3>1, <3>2 DEF ThreadKeeps
  <2> QED
    BY <1>5, <2>3, <2>4, <2>5, <2>6, ThreadWrite
<1> QED
  BY <1>6, <1>7

\* A thread that raises in a session that is or gets removed.
LEMMA RaisedStep ==
  ASSUME IInv, NEW r \in Rpc, InUse(r), Raise(r), UNCHANGED <<issued, ops, gens, cancels>>,
         DataTyped, Elsewhere(rpc[r].s), StoreOK(store'), Live' \subseteq Live, rpc[r].s \notin Live',
         adapter'[rpc[r].s].obj = "none" => adapter'[rpc[r].s].kv = <<>>
  PROVE  IInv'
<1> DEFINE o == rpc[r]
<1>1. rpc \in [Rpc -> Calls] /\ CallOK(o) /\ o.kind \in {"append", "generate"} /\ gens \subseteq issued
  BY KindOf
<1>2. PICK n \in Calls :
        /\ rpc' = [rpc EXCEPT ![r] = n] /\ SameHandler(n, o) /\ n.queue = o.queue
        /\ n.pc = IF n.kind = "append" THEN "over" ELSE "failing"
  BY <1>1, RaiseCall
<1>3. CallOK(n) /\ n.s = o.s
  BY <1>1, <1>2 DEF CallOK, SameHandler, Holding, Terminal
<1>4. ThreadBecomes(r, n)
  BY <1>1, <1>2, <1>3 DEF ThreadBecomes
<1> QED
  BY <1>3, <1>4, ThreadWrite

\* Resolving the verifier of the session.
LEMMA ResolveStep ==
  ASSUME IInv, NEW r \in Rpc, verifier_for(r)
  PROVE  IInv'
<1> DEFINE o == rpc[r]
           s == o.s
           v == Resolved(s)
           empty == o.kind = "append" /\ o.n = 0
           unprimed == o.kind = "generate" /\ pos[s] = 0
<1>0. InUse(r) /\ o.pc = "resolve"
  BY DEF verifier_for, At
<1>1. /\ rpc \in [Rpc -> Calls] /\ o \in Calls /\ CallOK(o) /\ s \in issued /\ s \in Sid
      /\ o.kind \in {"append", "generate"} /\ gens \subseteq issued
  BY <1>0, KindOf
<1>2. /\ hist' = hist /\ cached' = cached /\ pos' = pos /\ acked' = acked /\ lost' = lost /\ Told' = Told
      /\ ops' = ops /\ gens' = gens /\ issued' = issued /\ cancels' = cancels
      /\ adapter' = [adapter EXCEPT ![s] = v]
      /\ store' = IF empty /\ s \in Live THEN Touch(store, s) ELSE store
  BY ToldSame DEF verifier_for, session, guards, told
<1>3. /\ v \in Verifiers /\ v.obj # "none" /\ v.kv = adapter[s].kv
      /\ s \in Live => v.obj = "first"
      /\ v.obj \in {"none", "first", "late"}
  <2>1. adapter[s] \in Verifiers /\ (adapter[s].obj = "none" => adapter[s].kv = <<>>)
    BY <1>1 DEF IInv, Typed, Sessions
  <2>2. s \in Live => adapter[s].obj # "late"
    BY DEF IInv, Sessions
  <2>3. <<>> \in Seq(Token)
    OBVIOUS
  <2> QED
    BY <2>1, <2>2, <2>3 DEF Resolved, Verifiers
<1> HIDE DEF v
<1>4. DataTyped /\ Elsewhere(s) /\ adapter'[s] = v
  BY <1>1, <1>2, <1>3 DEF DataTyped, Elsewhere, IInv, Typed
<1>5. StoreOK(store') /\ Live' = Live
  BY <1>2, TouchOK DEF IInv, Sessions, Live
<1>6. o.pc \notin Terminal
  BY <1>0 DEF Terminal
<1>7. ASSUME NEW n \in Calls, rpc' = [rpc EXCEPT ![r] = n], SameHandler(n, o), n.queue = o.queue,
             \/ n.kind = "append" /\ n.n = 0 /\ n.pc = "over" /\ n.out = "ok"
             \/ n.kind = "generate" /\ n.pc = "failing"
             \/ n.kind = "append" /\ n.pc = "drive" /\ n.ref = v.obj
             \/ n.kind = "generate" /\ n.pc = "check" /\ n.ref = v.obj
      PROVE  IInv'
  <2>1. CallOK(n) /\ n.s = s
    BY <1>0, <1>1, <1>3, <1>7 DEF CallOK, SameHandler, Holding, Terminal
  <2>2. ThreadBecomes(r, n)
    BY <1>0, <1>1, <1>2, <1>7, <2>1 DEF ThreadBecomes
  <2>3. ASSUME s \in Live PROVE ThreadKeeps(r, n)
    <3>1. ASSUME NEW h, NEW k, NEW c, NEW x, NEW a, Phase(o, h, k, c, x, a) PROVE Phase(n, h, k, c, x, a)
      BY <1>0, <1>1, <1>7, <3>1 DEF Phase, Owed, SameHandler
    <3>2. n.pc \in Holding => n.ref = "first"
      BY <1>3, <1>7, <2>3 DEF Holding
    <3>3. /\ adapter'[s].obj = "first" /\ adapter'[s].kv = adapter[s].kv
          /\ n.kind = "append" /\ n.pc = "over" => n.out = "ok"
      BY <1>3, <1>4, <1>7, <2>3
    <3> QED
      BY <1>2, <1>6, <2>1, <3>1, <3>2, <3>3 DEF ThreadKeeps
  <2> QED
    BY <1>3, <1>4, <1>5, <2>1, <2>2, <2>3, ThreadWrite
<1>8. CASE empty
  <2>1. Finish(r, "ok")
    BY <1>8 DEF verifier_for
  <2>2. PICK n \in Calls :
          /\ rpc' = [rpc EXCEPT ![r] = n] /\ SameHandler(n, o) /\ n.pc = "over"
          /\ n.queue = o.queue /\ n.out = "ok"
    BY <1>1, <2>1, FinishCall
  <2>3. n.kind = "append" /\ n.n = 0
    BY <1>8, <2>2 DEF SameHandler
  <2> QED
    BY <1>7, <2>2, <2>3
<1>9. CASE ~empty /\ unprimed
  <2>1. Raise(r)
    BY <1>9 DEF verifier_for
  <2>2. PICK n \in Calls :
          /\ rpc' = [rpc EXCEPT ![r] = n] /\ SameHandler(n, o) /\ n.queue = o.queue
          /\ n.pc = IF n.kind = "append" THEN "over" ELSE "failing"
    BY <1>1, <2>1, RaiseCall
  <2>3. n.kind = "generate"
    BY <1>9, <2>2 DEF SameHandler
  <2> QED
    BY <1>7, <2>2, <2>3
<1>10. CASE ~empty /\ ~unprimed
  <2> DEFINE p == IF o.kind = "append" THEN "drive" ELSE "check"
             n == [o EXCEPT !.ref = v.obj, !.pc = p]
  <2>1. rpc' = [rpc EXCEPT ![r] = n]
    BY <1>1, <1>10 DEF verifier_for, v
  <2>2. p \in Pcs
    BY DEF Pcs
  <2> HIDE DEF p
  <2>3. n \in Calls /\ SameHandler(n, o) /\ n.queue = o.queue /\ n.pc = p /\ n.ref = v.obj /\ n.kind = o.kind
    BY <1>1, <1>3, <2>2 DEF Calls, SameHandler
  <2> HIDE DEF n
  <2> QED
    BY <1>1, <1>7, <2>1, <2>3 DEF p
<1> QED
  BY <1>8, <1>9, <1>10

\* SessionStore.append_tokens with the length invariant INV-1.
LEMMA ExtendStep ==
  ASSUME IInv, NEW r \in Rpc, ExtendHistory(r)
  PROVE  IInv'
<1> DEFINE o == rpc[r]
           s == o.s
<1>0. InUse(r) /\ o.pc = "extend"
  BY DEF ExtendHistory, At
<1>1. /\ rpc \in [Rpc -> Calls] /\ o \in Calls /\ CallOK(o) /\ s \in issued /\ s \in Sid
      /\ o.kind \in {"append", "generate"} /\ gens \subseteq issued
  BY <1>0, KindOf
<1>2. /\ cached' = cached /\ pos' = pos /\ acked' = acked /\ lost' = lost /\ Told' = Told
      /\ ops' = ops /\ gens' = gens /\ issued' = issued /\ cancels' = cancels
  BY ToldSame DEF ExtendHistory, guards, told
<1>3. o.pc \in Holding /\ o.pc \notin Terminal /\ "advance" \in Pcs
  BY <1>0 DEF Holding, Terminal, Pcs
<1>4. /\ Added(r) \in Seq(Token) /\ Added(r) = Fed(o)
      /\ o.kind = "append" => Len(Added(r)) = o.n
      /\ o.kind = "generate" => Len(Added(r)) = 1
      /\ s \in Live => o.ref = "first" /\ adapter[s].obj = "first"
  BY <1>0, <1>3, LiveCache, FedType
<1>5. CASE s \notin Live
  <2>1. Raise(r) /\ store' = store /\ adapter' = adapter /\ hist' = hist
    BY <1>5 DEF ExtendHistory
  <2>2. DataTyped /\ Elsewhere(s) /\ StoreOK(store') /\ Live' = Live
    BY <1>2, <2>1 DEF DataTyped, Elsewhere, IInv, Typed, Sessions, Live
  <2>3. adapter'[s].obj = "none" => adapter'[s].kv = <<>>
    BY <1>1, <2>1 DEF IInv, Sessions
  <2> QED
    BY <1>0, <1>2, <1>5, <2>1, <2>2, <2>3, RaisedStep
<1>6. CASE s \in Live
  <2> DEFINE h == hist[s] \o Added(r)
  <2>1. hist' = [hist EXCEPT ![s] = h]
    BY <1>6 DEF ExtendHistory
  <2>2. hist[s] \in Seq(Token)
    BY <1>1 DEF IInv, Typed
  <2>3. h \in Seq(Token) /\ Len(h) = Len(hist[s]) + Len(Added(r))
    <3> DEFINE g == hist[s]
               e == Added(r)
    <3>1. g \in Seq(Token) /\ e \in Seq(Token)
      BY <1>4, <2>2
    <3> HIDE DEF g, e
    <3>2. g \o e \in Seq(Token) /\ Len(g \o e) = Len(g) + Len(e)
      BY <3>1
    <3> QED
      BY <3>2 DEF g, e
  <2>4. hist' \in [Sid -> Seq(Token)] /\ hist'[s] = h /\ \A t \in Sid \ {s} : hist'[t] = hist[t]
    <3> HIDE DEF h
    <3> QED
      BY <1>1, <2>1, <2>3 DEF IInv, Typed
  <2>5. CASE Len(cached[s]) = Len(adapter[s].kv)
    <3>1. Goto(r, "advance") /\ store' = Touch(store, s) /\ adapter' = adapter
      BY <1>6, <2>5 DEF ExtendHistory
    <3>2. PICK n \in Calls :
            /\ rpc' = [rpc EXCEPT ![r] = n] /\ SameHandler(n, o) /\ n.pc = "advance"
            /\ n.ref = o.ref /\ n.tok = o.tok /\ n.queue = o.queue /\ n.out = o.out
      BY <1>1, <1>3, <3>1, GotoCall
    <3>3. CallOK(n) /\ n.s = s
      BY <1>0, <1>1, <3>2 DEF CallOK, SameHandler, Holding, Terminal
    <3>4. ThreadBecomes(r, n)
      BY <1>0, <1>1, <1>2, <3>2, <3>3 DEF ThreadBecomes
    <3>5. DataTyped /\ Elsewhere(s)
      BY <1>2, <2>4, <3>1 DEF DataTyped, Elsewhere, IInv, Typed
    <3>6. StoreOK(store') /\ Live' = Live /\ (adapter'[s].obj = "none" => adapter'[s].kv = <<>>)
      BY <1>1, <1>6, <3>1, TouchOK DEF IInv, Sessions, Live
    <3>7. ThreadKeeps(r, n)
      <4>1. n.ref = "first" /\ adapter'[s].obj = "first"
        BY <1>4, <1>6, <3>1, <3>2
      <4>2. ASSUME Phase(o, hist[s], adapter[s].kv, cached[s], pos[s], Told[s])
            PROVE  Phase(n, hist'[s], adapter[s].kv, cached[s], pos[s], Told[s])
        <5>1. adapter[s].kv = h /\ cached[s] = adapter[s].kv /\ Told[s] + Owed(o) = Len(hist[s])
          BY <1>0, <1>4, <4>2 DEF Phase
        <5>2. \E i, j \in Nat : Owed(o) = i /\ Len(Added(r)) = j /\ Owed(n) = i + j
          <6>1. CASE o.kind = "append"
            <7>1. Owed(o) = 0 /\ Owed(n) = o.n /\ o.n \in Nat
              BY <1>0, <1>1, <3>2, <6>1 DEF Owed, SameHandler, Calls
            <7> QED
              BY <1>4, <6>1, <7>1
          <6>2. CASE o.kind = "generate"
            <7> DEFINE i == IF o.queue = <<"token">> THEN 1 ELSE 0
            <7>1. Owed(o) = i + 0 /\ Owed(n) = i + 1 /\ i \in Nat /\ Len(Added(r)) = 1
              BY <1>0, <1>4, <3>2, <6>2 DEF Owed, SameHandler
            <7> HIDE DEF i
            <7>2. Owed(o) = i /\ 1 \in Nat
              BY <7>1
            <7> QED
              BY <7>1, <7>2
          <6> QED
            BY <1>1, <6>1, <6>2
        <5>3. Told[s] + Owed(n) = Len(h)
          <6> DEFINE e == Told[s]
                     l == Len(hist[s])
          <6>1. e \in Nat /\ e + Owed(o) = l /\ Len(h) = l + Len(Added(r))
            BY <1>1, <2>3, <5>1, ToldType DEF IInv, Typed
          <6> HIDE DEF h, e, l
          <6>2. e + Owed(n) = Len(h)
            BY <5>2, <6>1
          <6> QED
            BY <6>2 DEF e
        <5> HIDE DEF h
        <5> QED
          BY <2>4, <3>2, <5>1, <5>3 DEF Phase
      <4> QED
        BY <1>2, <1>3, <3>1, <3>2, <3>3, <4>1, <4>2 DEF ThreadKeeps
    <3> QED
      BY <3>3, <3>4, <3>5, <3>6, <3>7, ThreadWrite
  <2>6. CASE Len(cached[s]) # Len(adapter[s].kv)
    <3>1. Raise(r) /\ Remove({s})
      BY <1>6, <2>6 DEF ExtendHistory
    <3>2. /\ StoreOK(store') /\ Live' = Live \ {s} /\ adapter' \in [Sid -> Verifiers]
          /\ \A t \in Sid \ {s} : adapter'[t] = adapter[t]
          /\ adapter'[s].obj = "none" => adapter'[s].kv = <<>>
      BY <1>1, <1>6, <3>1, RemovedFacts
    <3>3. DataTyped /\ Elsewhere(s)
      BY <1>2, <2>4, <3>2 DEF DataTyped, Elsewhere, IInv, Typed
    <3> QED
      BY <1>0, <1>2, <3>1, <3>2, <3>3, RaisedStep
  <2> QED
    BY <2>5, <2>6
<1> QED
  BY <1>5, <1>6

\* SessionStore.record_position_advance with the position invariant INV-2.
LEMMA AdvanceStep ==
  ASSUME IInv, NEW r \in Rpc, AdvancePosition(r)
  PROVE  IInv'
<1> DEFINE o == rpc[r]
           s == o.s
           x == Len(Cache(r))
<1>0. InUse(r) /\ o.pc = "advance"
  BY DEF AdvancePosition, At
<1>1. /\ rpc \in [Rpc -> Calls] /\ o \in Calls /\ CallOK(o) /\ s \in issued /\ s \in Sid
      /\ o.kind \in {"append", "generate"} /\ gens \subseteq issued
  BY <1>0, KindOf
<1>2. /\ hist' = hist /\ cached' = cached /\ acked' = acked /\ lost' = lost /\ Told' = Told
      /\ ops' = ops /\ gens' = gens /\ issued' = issued /\ cancels' = cancels
  BY ToldSame DEF AdvancePosition, guards, told
<1>3. o.pc \in Holding /\ o.pc \notin Terminal
  BY <1>0 DEF Holding, Terminal
<1>4. /\ x \in Nat
      /\ s \in Live => x = Len(adapter[s].kv) /\ o.ref = "first" /\ adapter[s].obj = "first"
  BY <1>0, <1>3, LiveCache
<1> HIDE DEF x
<1>5. CASE s \notin Live
  <2>1. Raise(r) /\ store' = store /\ adapter' = adapter /\ pos' = pos
    BY <1>5 DEF AdvancePosition
  <2>2. DataTyped /\ Elsewhere(s) /\ StoreOK(store') /\ Live' = Live
    BY <1>2, <2>1 DEF DataTyped, Elsewhere, IInv, Typed, Sessions, Live
  <2>3. adapter'[s].obj = "none" => adapter'[s].kv = <<>>
    BY <1>1, <2>1 DEF IInv, Sessions
  <2> QED
    BY <1>0, <1>2, <1>5, <2>1, <2>2, <2>3, RaisedStep
<1>6. CASE s \in Live /\ x < pos[s]
  <2>1. Raise(r) /\ Remove({s}) /\ pos' = pos
    BY <1>6 DEF AdvancePosition, x
  <2>2. /\ StoreOK(store') /\ Live' = Live \ {s} /\ adapter' \in [Sid -> Verifiers]
        /\ \A t \in Sid \ {s} : adapter'[t] = adapter[t]
        /\ adapter'[s].obj = "none" => adapter'[s].kv = <<>>
    BY <1>1, <1>6, <2>1, RemovedFacts
  <2>3. DataTyped /\ Elsewhere(s)
    BY <1>2, <2>1, <2>2 DEF DataTyped, Elsewhere, IInv, Typed
  <2> QED
    BY <1>0, <1>2, <2>1, <2>2, <2>3, RaisedStep
<1>7. CASE s \in Live /\ ~(x < pos[s])
  <2> DEFINE m == IF o.kind = "generate" THEN o.made + 1 ELSE o.made
             p == IF o.kind = "generate" THEN "emit" ELSE "sync"
             n == [o EXCEPT !.made = m, !.pc = p]
  <2>1. /\ pos' = [pos EXCEPT ![s] = x] /\ store' = Touch(store, s) /\ adapter' = adapter
        /\ rpc' = [rpc EXCEPT ![r] = n]
    BY <1>1, <1>7 DEF AdvancePosition, x
  <2>2. p \in Pcs /\ m \in Nat
    BY <1>1 DEF Pcs, Calls
  <2> HIDE DEF p, m
  <2>3. n \in Calls /\ SameHandler(n, o) /\ n.queue = o.queue /\ n.pc = p /\ n.ref = o.ref
    BY <1>1, <2>2 DEF Calls, SameHandler
  <2> HIDE DEF n
  <2>4. CallOK(n) /\ n.s = s
    BY <1>0, <1>1, <2>3 DEF CallOK, SameHandler, Holding, Terminal, p
  <2>5. ThreadBecomes(r, n)
    BY <1>0, <1>1, <1>2, <2>1, <2>3, <2>4 DEF ThreadBecomes
  <2>6. DataTyped /\ Elsewhere(s) /\ pos'[s] = x
    BY <1>1, <1>2, <1>4, <2>1 DEF DataTyped, Elsewhere, IInv, Typed
  <2>7. StoreOK(store') /\ Live' = Live /\ (adapter'[s].obj = "none" => adapter'[s].kv = <<>>)
    BY <1>1, <1>7, <2>1, TouchOK DEF IInv, Sessions, Live
  <2>8. ThreadKeeps(r, n)
    <3>1. n.ref = "first" /\ adapter'[s].obj = "first" /\ ~(n.kind = "append" /\ n.pc = "over")
      BY <1>4, <1>7, <2>1, <2>3 DEF p
    <3>2. ASSUME Phase(o, hist[s], adapter[s].kv, cached[s], pos[s], Told[s])
          PROVE  Phase(n, hist[s], adapter[s].kv, cached[s], pos'[s], Told[s])
      <4>1. Owed(n) = Owed(o)
        BY <1>0, <1>1, <2>3 DEF Owed, SameHandler, p
      <4>2. n.pc \in {"emit", "sync"}
        BY <2>3 DEF p
      <4> QED
        BY <1>0, <1>4, <1>7, <2>6, <3>2, <4>1, <4>2 DEF Phase
    <3> QED
      BY <1>2, <1>3, <2>1, <2>4, <3>1, <3>2 DEF ThreadKeeps
  <2> QED
    BY <2>4, <2>5, <2>6, <2>7, <2>8, ThreadWrite
<1> QED
  BY <1>5, <1>6, <1>7

\* The unlocked write of the slab's bytes.
LEMMA WriteStep ==
  ASSUME IInv, NEW r \in Rpc, WriteBytes(r)
  PROVE  IInv'
<1> DEFINE o == rpc[r]
           s == o.s
           b == store.slab[s]
<1>0. InUse(r) /\ o.pc = "write"
  BY DEF WriteBytes, At
<1>1. /\ rpc \in [Rpc -> Calls] /\ o \in Calls /\ CallOK(o) /\ s \in issued /\ s \in Sid
      /\ o.kind \in {"append", "generate"} /\ gens \subseteq issued
  BY <1>0, KindOf
<1>2. /\ hist' = hist /\ cached' = cached /\ pos' = pos /\ acked' = acked /\ lost' = lost /\ Told' = Told /\ adapter' = adapter
      /\ ops' = ops /\ gens' = gens /\ issued' = issued /\ cancels' = cancels
  BY ToldSame DEF WriteBytes, session, guards, told
<1>3. /\ DataTyped /\ Elsewhere(s) /\ StoreOK(store)
      /\ adapter'[s].obj = "none" => adapter'[s].kv = <<>>
  BY <1>1, <1>2 DEF DataTyped, Elsewhere, IInv, Typed, Sessions
<1>4. CASE b = None
  <2>1. Raise(r) /\ store' = store
    BY <1>4 DEF WriteBytes
  <2>2. s \notin Live /\ Live' = Live
    BY <1>1, <1>3, <1>4, <2>1 DEF StoreOK, Live
  <2> QED
    BY <1>0, <1>2, <1>3, <2>1, <2>2, RaisedStep
<1>5. CASE b # None
  <2>1. AfterSync(r) /\ store' = [store EXCEPT !.bytes[b] = o.bytes]
    BY <1>5 DEF WriteBytes
  <2>2. o.bytes \in Nat
    BY <1>1 DEF Calls
  <2>3. StoreOK(store') /\ Live' = Live
    BY <1>1, <1>3, <1>5, <2>1, <2>2, BytesOK DEF Live
  <2>4. PICK n \in Calls :
          /\ rpc' = [rpc EXCEPT ![r] = n] /\ SameHandler(n, o) /\ n.queue = o.queue
          /\ n.kind = "append" => n.pc = "over" /\ n.out = "ok"
          /\ n.kind # "append" => n.pc = "done"
    BY <1>1, <2>1, SyncedCall
  <2>5. CallOK(n) /\ n.s = s
    BY <1>0, <1>1, <2>4 DEF CallOK, SameHandler, Holding, Terminal
  <2>6. ThreadBecomes(r, n)
    BY <1>0, <1>1, <1>2, <2>4, <2>5 DEF ThreadBecomes
  <2>7. ASSUME s \in Live PROVE ThreadKeeps(r, n)
    <3>1. adapter[s].obj # "late" /\ o.pc \notin Terminal /\ n.pc \notin Holding
      BY <1>0, <2>4, <2>7 DEF IInv, Sessions, Holding, Terminal
    <3>2. ASSUME NEW h, NEW k, NEW c, NEW x, NEW a, Phase(o, h, k, c, x, a) PROVE Phase(n, h, k, c, x, a)
      BY <1>0, <1>1, <2>4, <3>2 DEF Phase, Owed, SameHandler
    <3> QED
      BY <1>2, <2>4, <2>5, <3>1, <3>2 DEF ThreadKeeps
  <2> QED
    BY <1>3, <2>3, <2>5, <2>6, <2>7, ThreadWrite
<1> QED
  BY <1>4, <1>5

\* Every step of a worker thread keeps the invariant.
LEMMA ThreadStep ==
  ASSUME IInv, NEW r \in Rpc, Thread(r)
  PROVE  IInv'
  BY EntryStep, StreamStep, ForwardStep, MirrorStep, ResolveStep, ExtendStep, AdvanceStep, WriteStep DEF Thread

-----------------------------------------------------------------------------
(* The handlers.                                                             *)

\* The handler changes none of what the thread decides.
SameThread(n, o) ==
  /\ n.kind = o.kind /\ n.s = o.s /\ n.n = o.n /\ n.pc = o.pc /\ n.ref = o.ref
  /\ n.tok = o.tok /\ n.out = o.out

\* A handler's finally blocks.
LEMMA LeaveCall ==
  ASSUME rpc \in [Rpc -> Calls], NEW r \in Rpc, NEW c \in BOOLEAN, Leave(r, c)
  PROVE  \E n \in Calls :
           /\ rpc' = [rpc EXCEPT ![r] = n] /\ ops' = ops \ {n.s} /\ SameThread(n, rpc[r])
           /\ n.queue = rpc[r].queue /\ n.client = rpc[r].client /\ n.callback = rpc[r].callback
           /\ n.handler = "gone" /\ n.completed = c
<1> DEFINE x == rpc[r].cancel \/ rpc[r].kind = "generate"
           n == [rpc[r] EXCEPT !.handler = "gone", !.completed = c, !.cancel = x]
<1>1. rpc[r] \in Calls /\ rpc' = [rpc EXCEPT ![r] = n] /\ ops' = ops \ {rpc[r].s}
  BY DEF Leave
<1>2. x \in BOOLEAN
  OBVIOUS
<1> HIDE DEF x
<1>3. /\ n \in Calls /\ SameThread(n, rpc[r]) /\ n.queue = rpc[r].queue /\ n.client = rpc[r].client
      /\ n.callback = rpc[r].callback /\ n.handler = "gone" /\ n.completed = c
  BY <1>1, <1>2 DEF Calls, SameThread
<1> QED
  BY <1>1, <1>3 DEF SameThread

\* A handler that its client has left.
LEMMA AbandonCall ==
  ASSUME rpc \in [Rpc -> Calls], NEW r \in Rpc, Abandon(r)
  PROVE  \E n \in Calls :
           /\ rpc' = [rpc EXCEPT ![r] = n] /\ ops' = ops \ {n.s} /\ SameThread(n, rpc[r])
           /\ n.queue = rpc[r].queue /\ n.client = rpc[r].client /\ n.callback = rpc[r].callback
           /\ n.handler = "gone" /\ n.completed = rpc[r].completed
<1> DEFINE n == [rpc[r] EXCEPT !.handler = "gone", !.cancel = TRUE]
<1>1. rpc[r] \in Calls /\ rpc' = [rpc EXCEPT ![r] = n] /\ ops' = ops \ {rpc[r].s}
  BY DEF Abandon
<1>2. /\ n \in Calls /\ SameThread(n, rpc[r]) /\ n.queue = rpc[r].queue /\ n.client = rpc[r].client
      /\ n.callback = rpc[r].callback /\ n.handler = "gone" /\ n.completed = rpc[r].completed
  BY <1>1 DEF Calls, SameThread
<1> QED
  BY <1>1, <1>2 DEF SameThread

\* A call that removes its session, if it is still there.
LEMMA RemovalStep ==
  ASSUME IInv, NEW r \in Rpc, NEW n, CallBecomes(r, n), remove_session_if_present(n.s),
         hist' = hist, cached' = cached, pos' = pos, acked' = acked /\ lost' = lost /\ Told' = Told
  PROVE  IInv'
<1>1. n.s \in Sid
  BY KindOf DEF CallBecomes
<1>2. /\ StoreOK(store') /\ Live' = Live \ {n.s} /\ adapter' \in [Sid -> Verifiers]
      /\ \A t \in Sid \ {n.s} : adapter'[t] = adapter[t]
      /\ adapter'[n.s].obj = "none" => adapter'[n.s].kv = <<>>
  BY <1>1, RemovedFacts DEF remove_session_if_present
<1>3. DataTyped /\ Elsewhere(n.s)
  BY <1>2 DEF DataTyped, Elsewhere, IInv, Typed
<1> QED
  BY <1>2, <1>3, CallStep

\* What is known of a call while the store serves its session.
LEMMA LiveFacts ==
  ASSUME IInv, NEW r \in Rpc, InUse(r), rpc[r].s \in Live
  PROVE  LET s == rpc[r].s IN
         /\ LiveCall(rpc[r]) /\ adapter[s].obj # "late"
         /\ rpc[r].pc \in Holding => rpc[r].ref = "first" /\ adapter[s].obj = "first"
         /\ Unthreatened(s) /\ rpc[r].handler = "run" =>
              Phase(rpc[r], hist[s], adapter[s].kv, cached[s], pos[s], Told[s])
<1>1. Of(r, rpc[r].s) /\ Surviving(rpc[r].s) /\ adapter[rpc[r].s].obj # "late"
  BY DEF IInv, Of, Sessions
<1> QED
  BY <1>1 DEF Surviving, Runs, Of

\* A generation that is done owes nothing.
LEMMA NothingOwed ==
  ASSUME NEW o \in Calls, o.kind = "generate", o.pc \in Terminal, o.queue # <<"token">>,
         NEW h \in Seq(Token), NEW k, NEW c, NEW x, NEW a \in Nat, Phase(o, h, k, c, x, a)
  PROVE  Settled(h, k, c, x, a)
<1>1. o.pc # "advance" /\ o.pc # "emit" /\ o.pc # "mirror" /\ o.pc # "extend" /\ Owed(o) = 0
  BY DEF Terminal, Owed
<1>2. k = h /\ c = h /\ x = Len(h) /\ a + 0 = Len(h)
  BY <1>1 DEF Phase
<1>3. a = Len(h)
  BY <1>2
<1> QED
  BY <1>2, <1>3 DEF Settled

\* The append's handler answers; a cancelled append removes its session.
LEMMA AppendReturnsStep ==
  ASSUME IInv, NEW r \in Rpc, AppendReturns(r)
  PROVE  IInv'
<1> DEFINE o == rpc[r]
           s == o.s
<1>0. InUse(r) /\ o.kind = "append" /\ o.handler = "run" /\ o.pc = "over"
  BY DEF AppendReturns, Running
<1>1. /\ rpc \in [Rpc -> Calls] /\ o \in Calls /\ CallOK(o) /\ s \in issued /\ s \in Sid /\ gens \subseteq issued
  BY <1>0, KindOf
<1>2. /\ hist' = hist /\ cached' = cached /\ pos' = pos /\ gens' = gens /\ issued' = issued /\ cancels' = cancels
      /\ Leave(r, o.out = "ok")
      /\ IF o.out = "ok" THEN Tell(r, o.n) ELSE acked' = acked /\ lost' = lost
      /\ o.out = "cancelled" => remove_session_if_present(s)
      /\ o.out # "cancelled" => store' = store /\ adapter' = adapter
  BY DEF AppendReturns, told
<1>3. PICK n \in Calls :
        /\ rpc' = [rpc EXCEPT ![r] = n] /\ ops' = ops \ {n.s} /\ SameThread(n, o)
        /\ n.queue = o.queue /\ n.client = o.client /\ n.callback = o.callback
        /\ n.handler = "gone" /\ n.completed = (o.out = "ok")
  <2>1. (o.out = "ok") \in BOOLEAN
    OBVIOUS
  <2> QED
    BY <1>1, <1>2, <2>1, LeaveCall
<1>4. CallOK(n) /\ n.s = s /\ n.kind = "append" /\ n.pc = "over" /\ n.out = o.out
  BY <1>0, <1>1, <1>3 DEF CallOK, SameThread, Holding, Terminal
<1>5. CallBecomes(r, n)
  BY <1>0, <1>1, <1>2, <1>3, <1>4 DEF CallBecomes, SameThread, IInv, Typed
<1>6. CASE o.out = "cancelled"
  BY <1>2, <1>4, <1>5, <1>6, ToldSame, RemovalStep
<1>7. CASE o.out # "cancelled"
  <2>1. store' = store /\ adapter' = adapter
    BY <1>2, <1>7
  <2>2. /\ acked' \in [Sid -> Nat] /\ lost' \in [Sid -> Nat]
        /\ \A t \in Sid \ {s} : Told'[t] = Told[t]
        /\ o.out = "ok" => Told'[s] = Told[s] + o.n
    <3>1. acked \in [Sid -> Nat] /\ lost \in [Sid -> Nat] /\ Told \in [Sid -> Nat] /\ o.n \in Nat
      BY <1>1, ToldType DEF IInv, Typed, Calls
    <3>2. CASE o.out = "ok"
      BY <1>1, <1>2, <3>1, <3>2, TellAdds
    <3>3. CASE o.out # "ok"
      BY <1>2, <3>1, <3>3, ToldSame
    <3> QED
      BY <3>2, <3>3
  <2>3. DataTyped /\ Elsewhere(s)
    BY <1>2, <2>1, <2>2 DEF DataTyped, Elsewhere, IInv, Typed
  <2>4. StoreOK(store') /\ Live' = Live /\ (adapter'[s].obj = "none" => adapter'[s].kv = <<>>)
    BY <1>1, <2>1 DEF IInv, Sessions, Live
  <2>5. ASSUME s \in Live PROVE Serves(r, n)
    <3>1. /\ LiveCall(o) /\ adapter[s].obj # "late"
          /\ Unthreatened(s) => Phase(o, hist[s], adapter[s].kv, cached[s], pos[s], Told[s])
      BY <1>0, <2>5, LiveFacts
    <3>2. o.out = "ok" /\ n.completed
      BY <1>0, <1>3, <3>1 DEF LiveCall
    <3>3. LiveCall(n) /\ ~Doomed(o) /\ n.pc \notin Holding
      BY <1>0, <1>3, <1>4, <3>2 DEF LiveCall, Terminal, Holding, Doomed
    <3>4. ASSUME Unthreatened(s) PROVE Settled(hist[s], adapter[s].kv, cached[s], pos[s], Told'[s])
      <4>1. Told[s] \in Nat /\ o.n \in Nat /\ Told'[s] = Told[s] + o.n
        BY <1>1, <2>2, <3>2, ToldType DEF IInv, Typed, Calls
      <4>2. Owed(o) = o.n
        BY <1>0 DEF Owed
      <4> QED
        BY <1>0, <3>1, <3>4, <4>1, <4>2 DEF Phase, Settled
    <3> QED
      BY <1>0, <1>2, <1>3, <1>4, <2>1, <3>1, <3>3, <3>4 DEF Serves
  <2> QED
    BY <1>4, <1>5, <2>3, <2>4, <2>5, CallStep
<1> QED
  BY <1>6, <1>7

\* A frame goes to the client.
LEMMA DeliverStep ==
  ASSUME IInv, NEW r \in Rpc, DeliverEvent(r)
  PROVE  IInv'
<1> DEFINE o == rpc[r]
           s == o.s
           c == o.completed \/ o.queue = <<"done">>
           n == [o EXCEPT !.queue = <<>>, !.completed = c]
           token == o.queue = <<"token">>
<1>0. InUse(r) /\ o.kind = "generate" /\ o.handler = "run" /\ o.queue # <<>>
  BY DEF DeliverEvent, Dequeued, Running
<1>1. /\ rpc \in [Rpc -> Calls] /\ o \in Calls /\ CallOK(o) /\ s \in issued /\ s \in Sid /\ gens \subseteq issued
  BY <1>0, KindOf
<1>2. /\ hist' = hist /\ cached' = cached /\ pos' = pos /\ adapter' = adapter /\ store' = store
      /\ gens' = gens /\ ops' = ops /\ issued' = issued /\ cancels' = cancels
      /\ IF token THEN Tell(r, 1) ELSE acked' = acked /\ lost' = lost
      /\ rpc' = [rpc EXCEPT ![r] = n]
  BY <1>1 DEF DeliverEvent, guards, told
<1>3. c \in BOOLEAN /\ <<>> \in Seq({"token", "done", "error", "end"})
  OBVIOUS
<1>4. /\ c => o.pc \in Terminal
      /\ <<>> # <<"token">>
  BY <1>0, <1>1 DEF CallOK
<1> HIDE DEF c
<1>5. /\ n \in Calls /\ SameThread(n, o) /\ n.queue = <<>> /\ n.completed = c /\ n.handler = "run"
      /\ n.cancel = o.cancel /\ n.callback = o.callback /\ n.client = o.client
  BY <1>0, <1>1, <1>3 DEF Calls, SameThread
<1> HIDE DEF n
<1>6. CallOK(n) /\ n.s = s /\ n.kind = "generate" /\ n.pc = o.pc /\ n.ref = o.ref
  BY <1>0, <1>1, <1>4, <1>5 DEF CallOK, SameThread
<1>7. CallBecomes(r, n)
  BY <1>0, <1>1, <1>2, <1>5, <1>6 DEF CallBecomes, IInv, Typed
<1>8. /\ acked' \in [Sid -> Nat] /\ lost' \in [Sid -> Nat] /\ Told \in [Sid -> Nat]
      /\ \A t \in Sid \ {s} : Told'[t] = Told[t]
      /\ Told'[s] = IF token THEN Told[s] + 1 ELSE Told[s]
  <2>1. acked \in [Sid -> Nat] /\ lost \in [Sid -> Nat] /\ Told \in [Sid -> Nat] /\ 1 \in Nat
    BY ToldType DEF IInv, Typed
  <2>2. CASE token
    BY <1>1, <1>2, <2>1, <2>2, TellAdds
  <2>3. CASE ~token
    BY <1>2, <2>1, <2>3, ToldSame
  <2> QED
    BY <2>2, <2>3
<1>9. DataTyped /\ Elsewhere(s)
  BY <1>2, <1>8 DEF DataTyped, Elsewhere, IInv, Typed
<1>10. StoreOK(store') /\ Live' = Live /\ (adapter'[s].obj = "none" => adapter'[s].kv = <<>>)
  BY <1>1, <1>2 DEF IInv, Sessions, Live
<1>11. ASSUME s \in Live PROVE Serves(r, n)
  <2>1. /\ LiveCall(o) /\ adapter[s].obj # "late"
        /\ o.pc \in Holding => o.ref = "first" /\ adapter[s].obj = "first"
        /\ Unthreatened(s) => Phase(o, hist[s], adapter[s].kv, cached[s], pos[s], Told[s])
    BY <1>0, <1>11, LiveFacts
  <2>2. LiveCall(n) /\ ~Doomed(o)
    BY <1>0, <1>5, <1>6, <2>1 DEF LiveCall, Doomed, c
  <2>3. ASSUME Unthreatened(s) PROVE Phase(n, hist[s], adapter[s].kv, cached[s], pos[s], Told'[s])
    <3> DEFINE w == IF o.pc \in {"advance", "emit"} THEN 1 ELSE 0
    <3>1. Owed(n) = 0 + w /\ Owed(o) = (IF token THEN 1 ELSE 0) + w /\ w \in Nat
      BY <1>0, <1>4, <1>5, <1>6 DEF Owed
    <3>2. Told[s] \in Nat /\ Told'[s] = IF token THEN Told[s] + 1 ELSE Told[s]
      BY <1>1, <1>8
    <3> HIDE DEF w
    <3>3. Told'[s] + Owed(n) = Told[s] + Owed(o)
      BY <3>1, <3>2
    <3>4. Fed(n) = Fed(o)
      BY <1>5 DEF Fed, SameThread
    <3> QED
      BY <1>6, <2>1, <2>3, <3>3, <3>4 DEF Phase
  <2> QED
    BY <1>0, <1>2, <1>5, <1>6, <2>1, <2>2, <2>3 DEF Serves
<1> QED
  BY <1>6, <1>7, <1>9, <1>10, <1>11, CallStep

\* The end of the stream.
LEMMA StreamEndsStep ==
  ASSUME IInv, NEW r \in Rpc, StreamEnds(r)
  PROVE  IInv'
<1> DEFINE o == rpc[r]
           s == o.s
           c == o.completed \/ o.queue = <<"end">>
<1>0. InUse(r) /\ o.kind = "generate" /\ o.handler = "run" /\ o.queue # <<>> /\ o.queue # <<"token">>
  BY DEF StreamEnds, Dequeued, Running
<1>1. /\ rpc \in [Rpc -> Calls] /\ o \in Calls /\ CallOK(o) /\ s \in issued /\ s \in Sid /\ gens \subseteq issued
  BY <1>0, KindOf
<1>2. /\ UNCHANGED <<store, session, adapter>> /\ gens' = gens /\ issued' = issued /\ cancels' = cancels
      /\ Leave(r, c)
  BY DEF StreamEnds
<1>3. c \in BOOLEAN
  OBVIOUS
<1>4. o.pc \in Terminal
  BY <1>0, <1>1 DEF CallOK
<1>5. o.completed => c
  OBVIOUS
<1> HIDE DEF c
<1>6. PICK n \in Calls :
        /\ rpc' = [rpc EXCEPT ![r] = n] /\ ops' = ops \ {n.s} /\ SameThread(n, o)
        /\ n.queue = o.queue /\ n.client = o.client /\ n.callback = o.callback
        /\ n.handler = "gone" /\ n.completed = c
  BY <1>1, <1>2, <1>3, LeaveCall
<1>7. CallOK(n) /\ n.s = s /\ n.kind = "generate" /\ n.pc = o.pc /\ n.ref = o.ref
  BY <1>0, <1>1, <1>4, <1>6 DEF CallOK, SameThread
<1>8. CallBecomes(r, n)
  BY <1>0, <1>1, <1>2, <1>6, <1>7 DEF CallBecomes, IInv, Typed
<1>9. ASSUME s \in Live
      PROVE  /\ LiveCall(n) /\ ~Doomed(o) /\ n.pc \notin Holding
             /\ Unthreatened(s) => Settled(hist[s], adapter[s].kv, cached[s], pos[s], Told[s])
  <2>1. /\ LiveCall(o)
        /\ Unthreatened(s) => Phase(o, hist[s], adapter[s].kv, cached[s], pos[s], Told[s])
    BY <1>0, <1>9, LiveFacts
  <2>2. LiveCall(n) /\ ~Doomed(o) /\ n.pc \notin Holding
    BY <1>0, <1>4, <1>5, <1>6, <1>7, <2>1 DEF LiveCall, Doomed, Terminal, Holding
  <2>3. hist[s] \in Seq(Token) /\ Told[s] \in Nat
    BY <1>1, ToldType DEF IInv, Typed
  <2> QED
    BY <1>0, <1>1, <1>4, <2>1, <2>2, <2>3, NothingOwed
<1> QED
  BY <1>2, <1>6, <1>7, <1>8, <1>9, QuietStep

\* A handler that its client has left is abandoned at an await or at a yield.
\* The session goes, unless the generation had completed, or the callback is
\* still to come.
LEMMA AbandonStep ==
  ASSUME IInv, NEW r \in Rpc, DetectCancelled(r) \/ CancelledError(r) \/ GeneratorClosed(r)
  PROVE  IInv'
<1> DEFINE o == rpc[r]
           s == o.s
<1>0. /\ InUse(r) /\ o.handler = "run" /\ o.client = "cancelled" /\ Abandon(r)
      /\ hist' = hist /\ cached' = cached /\ pos' = pos /\ acked' = acked /\ lost' = lost /\ Told' = Told
      /\ gens' = gens /\ issued' = issued /\ cancels' = cancels
  BY ToldSame DEF DetectCancelled, CancelledError, GeneratorClosed, Dequeued, Running, session, told
<1>1. /\ rpc \in [Rpc -> Calls] /\ o \in Calls /\ CallOK(o) /\ s \in issued /\ s \in Sid /\ gens \subseteq issued
      /\ o.kind \in {"append", "generate"}
  BY <1>0, KindOf
<1>2. PICK n \in Calls :
        /\ rpc' = [rpc EXCEPT ![r] = n] /\ ops' = ops \ {n.s} /\ SameThread(n, o)
        /\ n.queue = o.queue /\ n.client = o.client /\ n.callback = o.callback
        /\ n.handler = "gone" /\ n.completed = o.completed
  BY <1>0, <1>1, AbandonCall
<1>3. CallOK(n) /\ n.s = s /\ n.kind = o.kind /\ n.pc = o.pc /\ n.ref = o.ref
  BY <1>1, <1>2 DEF CallOK, SameThread
<1>4. CallBecomes(r, n)
  BY <1>0, <1>1, <1>2, <1>3 DEF CallBecomes, IInv, Typed
<1>5. CASE remove_session_if_present(s)
  BY <1>0, <1>3, <1>4, <1>5, RemovalStep
<1>6. CASE UNCHANGED <<store, adapter>> /\ (o.completed \/ o.kind = "generate")
  <2>1. o.kind = "generate" /\ (o.completed => o.pc \in Terminal /\ o.queue # <<"token">>)
    BY <1>0, <1>1, <1>6 DEF CallOK
  <2>2. ASSUME s \in Live
        PROVE  /\ LiveCall(n) /\ ~Doomed(o)
               /\ n.pc \in Holding => n.ref = "first" /\ adapter[s].obj = "first"
               /\ Unthreatened(s) /\ ~Doomed(n) => Settled(hist[s], adapter[s].kv, cached[s], pos[s], Told[s])
    <3>1. /\ LiveCall(o)
          /\ o.pc \in Holding => o.ref = "first" /\ adapter[s].obj = "first"
          /\ Unthreatened(s) => Phase(o, hist[s], adapter[s].kv, cached[s], pos[s], Told[s])
      BY <1>0, <2>2, LiveFacts
    <3>2. ~o.completed => Doomed(n)
      BY <1>0, <1>2, <3>1 DEF LiveCall, Doomed
    <3>3. LiveCall(n) /\ ~Doomed(o)
      BY <1>0, <1>2, <1>3, <2>1, <3>1, <3>2 DEF LiveCall, Doomed
    <3>4. hist[s] \in Seq(Token) /\ Told[s] \in Nat
      BY <1>1, ToldType DEF IInv, Typed
    <3>5. Unthreatened(s) /\ ~Doomed(n) => Settled(hist[s], adapter[s].kv, cached[s], pos[s], Told[s])
      BY <1>1, <2>1, <3>1, <3>2, <3>4, NothingOwed
    <3> QED
      BY <1>3, <3>1, <3>3, <3>5
  <2>3. UNCHANGED <<store, session, adapter>>
    BY <1>0, <1>6 DEF session, told
  <2> QED
    BY <1>2, <1>3, <1>4, <2>2, <2>3, QuietStep
<1>7. remove_session_if_present(s) \/ (UNCHANGED <<store, adapter>> /\ (o.completed \/ o.kind = "generate"))
  BY DEF DetectCancelled, CancelledError, GeneratorClosed, Running
<1> QED
  BY <1>5, <1>6, <1>7

\* The done callback of the gRPC context.
LEMMA ContextStep ==
  ASSUME IInv, NEW r \in Rpc, ContextDone(r)
  PROVE  IInv'
<1> DEFINE o == rpc[r]
           s == o.s
           x == o.cancel \/ ~o.completed
           n == [o EXCEPT !.callback = TRUE, !.cancel = x]
<1>0. /\ InUse(r) /\ o.client = "cancelled" /\ ~o.callback
      /\ hist' = hist /\ cached' = cached /\ pos' = pos /\ acked' = acked /\ lost' = lost /\ Told' = Told
      /\ gens' = gens /\ ops' = ops /\ issued' = issued /\ cancels' = cancels
      /\ o.completed => store' = store /\ adapter' = adapter
      /\ ~o.completed => remove_session_if_present(s)
  BY ToldSame DEF ContextDone, session, guards, told
<1>1. /\ rpc \in [Rpc -> Calls] /\ o \in Calls /\ CallOK(o) /\ s \in issued /\ s \in Sid /\ gens \subseteq issued
      /\ o.kind \in {"append", "generate"}
  BY <1>0, KindOf
<1>2. rpc' = [rpc EXCEPT ![r] = n]
  BY <1>1 DEF ContextDone
<1>3. x \in BOOLEAN
  OBVIOUS
<1>4. o.completed /\ ~o.cancel => ~x
  OBVIOUS
<1> HIDE DEF x
<1>5. /\ n \in Calls /\ SameThread(n, o) /\ n.queue = o.queue /\ n.client = o.client /\ n.handler = o.handler
      /\ n.callback /\ n.cancel = x /\ n.completed = o.completed
  BY <1>1, <1>3 DEF Calls, SameThread
<1> HIDE DEF n
<1>6. CallOK(n) /\ n.s = s /\ n.kind = o.kind /\ n.pc = o.pc /\ n.ref = o.ref
  BY <1>1, <1>5 DEF CallOK, SameThread
<1>7. CallBecomes(r, n)
  BY <1>0, <1>1, <1>2, <1>5, <1>6 DEF CallBecomes, IInv, Typed
<1>8. CASE ~o.completed
  BY <1>0, <1>6, <1>7, <1>8, RemovalStep
<1>9. CASE o.completed
  <2>1. UNCHANGED <<store, session, adapter>>
    BY <1>0, <1>9 DEF session, told
  <2>2. ASSUME s \in Live
        PROVE  /\ LiveCall(n) /\ ~Doomed(o)
               /\ n.pc \in Holding => n.ref = "first" /\ adapter[s].obj = "first"
               /\ Unthreatened(s) /\ n.handler = "run" =>
                    Phase(n, hist[s], adapter[s].kv, cached[s], pos[s], Told[s])
    <3>1. /\ LiveCall(o)
          /\ o.pc \in Holding => o.ref = "first" /\ adapter[s].obj = "first"
          /\ Unthreatened(s) /\ o.handler = "run" =>
               Phase(o, hist[s], adapter[s].kv, cached[s], pos[s], Told[s])
      BY <1>0, <2>2, LiveFacts
    <3>2. LiveCall(n) /\ ~Doomed(o)
      BY <1>4, <1>5, <1>9, <3>1 DEF LiveCall, Doomed, SameThread
    <3>3. Owed(n) = Owed(o) /\ Fed(n) = Fed(o)
      BY <1>5 DEF Owed, Fed, SameThread
    <3>4. Unthreatened(s) /\ n.handler = "run" =>
               Phase(n, hist[s], adapter[s].kv, cached[s], pos[s], Told[s])
      BY <1>5, <1>6, <3>1, <3>3 DEF Phase
    <3> QED
      BY <1>6, <3>1, <3>2, <3>4
  <2>3. n.handler = o.handler
    BY <1>5
  <2> QED
    BY <1>6, <1>7, <2>1, <2>2, <2>3, QuietStep
<1> QED
  BY <1>8, <1>9

\* The client goes away.
LEMMA ClientStep ==
  ASSUME IInv, NEW r \in Rpc, ClientCancels(r)
  PROVE  IInv'
<1> DEFINE o == rpc[r]
           s == o.s
           n == [o EXCEPT !.client = "cancelled"]
<1>0. /\ InUse(r) /\ o.handler = "run" /\ UNCHANGED <<store, session, adapter>>
      /\ gens' = gens /\ ops' = ops /\ issued' = issued /\ cancels < MaxCancels /\ cancels' = cancels + 1
      /\ rpc' = [rpc EXCEPT ![r] = n]
  BY DEF ClientCancels, guards
<1>1. /\ rpc \in [Rpc -> Calls] /\ o \in Calls /\ CallOK(o) /\ s \in issued /\ s \in Sid /\ gens \subseteq issued
      /\ o.kind \in {"append", "generate"}
  BY <1>0, KindOf
<1>2. cancels' \in 0..MaxCancels
  BY <1>0, LimitAssumption DEF IInv, Typed
<1>3. /\ n \in Calls /\ SameThread(n, o) /\ n.queue = o.queue /\ n.handler = o.handler
      /\ n.callback = o.callback /\ n.cancel = o.cancel /\ n.completed = o.completed
  BY <1>1 DEF Calls, SameThread
<1> HIDE DEF n
<1>4. CallOK(n) /\ n.s = s /\ n.kind = o.kind /\ n.pc = o.pc /\ n.ref = o.ref
  BY <1>1, <1>3 DEF CallOK, SameThread
<1>5. CallBecomes(r, n)
  BY <1>0, <1>1, <1>2, <1>3, <1>4 DEF CallBecomes
<1>6. ASSUME s \in Live
      PROVE  /\ LiveCall(n) /\ ~Doomed(o)
             /\ n.pc \in Holding => n.ref = "first" /\ adapter[s].obj = "first"
             /\ Unthreatened(s) => Phase(n, hist[s], adapter[s].kv, cached[s], pos[s], Told[s])
  <2>1. /\ LiveCall(o)
        /\ o.pc \in Holding => o.ref = "first" /\ adapter[s].obj = "first"
        /\ Unthreatened(s) => Phase(o, hist[s], adapter[s].kv, cached[s], pos[s], Told[s])
    BY <1>0, <1>6, LiveFacts
  <2>2. LiveCall(n) /\ ~Doomed(o)
    BY <1>0, <1>3, <2>1 DEF LiveCall, Doomed, SameThread
  <2>3. Owed(n) = Owed(o) /\ Fed(n) = Fed(o)
    BY <1>3 DEF Owed, Fed, SameThread
  <2> QED
    BY <1>4, <2>1, <2>2, <2>3 DEF Phase
<1> QED
  BY <1>0, <1>3, <1>4, <1>5, <1>6, QuietStep

-----------------------------------------------------------------------------
(* Sessions and calls come and go.                                           *)

\* Collecting a session forgets its history, mirror, position and knowledge.
LEMMA CollectFacts ==
  ASSUME IInv, NEW S \in SUBSET Sid, Collect(S)
  PROVE  /\ hist' \in [Sid -> Seq(Token)] /\ cached' \in [Sid -> Seq(Token)]
         /\ pos' \in [Sid -> Nat] /\ acked' \in [Sid -> Nat] /\ lost' \in [Sid -> Nat]
         /\ \A t \in Sid \ S : hist'[t] = hist[t] /\ cached'[t] = cached[t] /\ pos'[t] = pos[t] /\ Told'[t] = Told[t]
         /\ \A t \in S : Told'[t] = 0
<1>1. <<>> \in Seq(Token) /\ 0 \in Nat
  OBVIOUS
<1>2. /\ hist' = [s \in Sid |-> IF s \in S THEN <<>> ELSE hist[s]]
      /\ cached' = [s \in Sid |-> IF s \in S THEN <<>> ELSE cached[s]]
      /\ pos' = [s \in Sid |-> IF s \in S THEN 0 ELSE pos[s]]
      /\ acked' = [s \in Sid |-> IF s \in S THEN 0 ELSE acked[s]]
      /\ lost' = [s \in Sid |-> IF s \in S THEN 0 ELSE lost[s]]
  BY DEF Collect
<1>3. \A t \in Sid : Told'[t] = IF t \in S THEN 0 ELSE Told[t]
  BY <1>2 DEF Told
<1> QED
  BY <1>1, <1>2, <1>3 DEF IInv, Typed

\* Sessions S leave the store, sessions N enter it.
LEMMA SessionsStep ==
  ASSUME IInv, NEW S \in SUBSET Live, NEW C \in SUBSET S, NEW N \in SUBSET (Sid \ issued),
         StoreOK(store'), Live' = (Live \ S) \cup N, adapter' = Unbound(S), Collect(C),
         issued' = issued \cup N, UNCHANGED <<ops, gens, rpc, cancels>>
  PROVE  IInv'
<1>1. issued \subseteq Sid /\ Live \subseteq issued /\ ops \subseteq issued /\ C \in SUBSET Sid
  BY DEF IInv, Typed, Sessions
<1>2. /\ hist' \in [Sid -> Seq(Token)] /\ cached' \in [Sid -> Seq(Token)]
      /\ pos' \in [Sid -> Nat] /\ acked' \in [Sid -> Nat] /\ lost' \in [Sid -> Nat]
      /\ \A t \in Sid \ S : hist'[t] = hist[t] /\ cached'[t] = cached[t] /\ pos'[t] = pos[t] /\ Told'[t] = Told[t]
  BY <1>1, CollectFacts
<1>3. adapter' \in [Sid -> Verifiers] /\ \A t \in Sid : adapter'[t] = IF t \in S THEN Absent ELSE adapter[t]
  <2>1. <<>> \in Seq(Token)
    OBVIOUS
  <2>2. Absent \in Verifiers
    BY <2>1 DEF Absent, Verifiers
  <2> QED
    BY <2>2 DEF Unbound, IInv, Typed
<1>4. Typed'
  BY <1>1, <1>2, <1>3 DEF IInv, Typed
<1>5. Sessions'
  <2>1. Live' \subseteq issued'
    BY <1>1
  <2>2. ASSUME NEW t \in Sid \ issued' PROVE Blank(t)'
    <3>1. t \notin S /\ Blank(t)
      BY <1>1 DEF IInv, Sessions
    <3> QED
      BY <1>2, <1>3, <3>1 DEF Blank
  <2>3. \A t \in Sid : adapter'[t].obj = "none" => adapter'[t].kv = <<>>
    BY <1>3 DEF Absent, IInv, Sessions
  <2>4. ASSUME NEW t \in Live' PROVE adapter'[t].obj # "late"
    <3>1. CASE t \in Live \ S
      BY <1>1, <1>3, <3>1 DEF IInv, Sessions
    <3>2. CASE t \in N
      BY <1>1, <1>3, <3>2 DEF IInv, Sessions, Blank, Absent
    <3> QED
      BY <3>1, <3>2
  <2> QED
    BY <2>1, <2>2, <2>3, <2>4 DEF Sessions
<1>6. Guard'
  BY DEF IInv, Guard, Runs, InUse
<1>7. ASSUME NEW t \in Live' PROVE Surviving(t)'
  <2>1. /\ \A q \in Rpc : Of(q, t)' <=> Of(q, t)
        /\ \A q \in Rpc : Runs(q)' <=> Runs(q)
    BY DEF Of, Runs, InUse
  <2>2. Unthreatened(t)' <=> Unthreatened(t)
    BY DEF Unthreatened, Of, InUse
  <2>3. CASE t \in Live \ S
    <3>1. Surviving(t) /\ t \in Sid /\ t \notin S
      BY <1>1, <2>3 DEF IInv
    <3>2. /\ hist'[t] = hist[t] /\ cached'[t] = cached[t] /\ pos'[t] = pos[t] /\ Told'[t] = Told[t]
          /\ adapter'[t] = adapter[t]
      BY <1>2, <1>3, <3>1
    <3> QED
      BY <2>1, <2>2, <3>1, <3>2 DEF Surviving
  <2>4. CASE t \in N
    <3>1. t \in Sid /\ t \notin issued /\ t \notin S /\ Blank(t)
      BY <1>1, <2>4 DEF IInv, Sessions
    <3>2. /\ hist'[t] = <<>> /\ cached'[t] = <<>> /\ pos'[t] = 0 /\ Told'[t] = 0 /\ adapter'[t].kv = <<>>
      BY <1>2, <1>3, <3>1 DEF Blank, Absent
    <3>3. Settled(hist'[t], adapter'[t].kv, cached'[t], pos'[t], Told'[t])
      BY <3>2 DEF Settled
    <3>4. \A q \in Rpc : ~Of(q, t) /\ ~(Runs(q) /\ rpc[q].s = t)
      BY <3>1 DEF Of, Runs, IInv, Guard
    <3> QED
      BY <2>1, <3>3, <3>4 DEF Surviving
  <2> QED
    BY <2>3, <2>4
<1> QED
  BY <1>4, <1>5, <1>6, <1>7 DEF IInv

\* Closing and evicting sessions.
LEMMA DepartStep ==
  ASSUME IInv, CloseSession \/ evict_idle
  PROVE  IInv'
<1>1. PICK S \in SUBSET Live : /\ Remove(S) /\ Collect(Collectable(S))
                               /\ UNCHANGED <<issued, ops, gens, rpc, cancels>>
  <2>1. CASE CloseSession
    BY <2>1 DEF CloseSession, guards
  <2>2. CASE evict_idle
    <3>1. PICK k \in 1..Len(store.lru) :
            LET idle == {store.lru[i] : i \in 1..k} IN
            /\ Remove(idle) /\ Collect(Collectable(idle)) /\ UNCHANGED <<issued, ops, gens, rpc, cancels>>
      BY <2>2 DEF evict_idle, guards
    <3>2. {store.lru[i] : i \in 1..k} \subseteq Live
      <4>1. Len(store.lru) \in Nat
        BY Listed DEF IInv, Sessions
      <4> QED
        BY <4>1 DEF Live, Entries
    <3> QED
      BY <3>1, <3>2
  <2> QED
    BY <2>1, <2>2
<1>2. StoreOK(store') /\ Live' = Live \ S
  BY <1>1, WithoutOK DEF IInv, Sessions, Remove, Live
<1>3. Collectable(S) \in SUBSET S /\ {} \in SUBSET (Sid \ issued)
  BY DEF Collectable
<1>4. Live' = (Live \ S) \cup {} /\ issued' = issued \cup {}
  BY <1>1, <1>2
<1> QED
  BY <1>1, <1>2, <1>3, <1>4, SessionsStep DEF Remove

\* Creating a session, after the eviction of the least recently active one
\* from a full store.
LEMMA CreateStep ==
  ASSUME IInv, CreateSession
  PROVE  IInv'
<1> DEFINE full == Cardinality(Live) >= Capacity
           S == IF full THEN {Head(store.lru)} ELSE {}
           st == IF full THEN Without(store, {Head(store.lru)}) ELSE store
<1>1. PICK s \in Sid \ issued :
        /\ \E b \in st.free : store' = [Acquired(st, s, b) EXCEPT !.lru = Append(st.lru, s)]
        /\ adapter' = IF full THEN Unbound({Head(store.lru)}) ELSE adapter
        /\ Collect(Collectable(S))
        /\ issued' = issued \cup {s} /\ UNCHANGED <<ops, gens, rpc, cancels>>
  BY DEF CreateSession, guards
<1>2. PICK b \in st.free : store' = [Acquired(st, s, b) EXCEPT !.lru = Append(st.lru, s)]
  BY <1>1
<1>3. /\ StoreOK(store) /\ store.lru \in Seq(Sid) /\ Len(store.lru) \in Nat
      /\ Cardinality(Live) = Len(store.lru) /\ Live \subseteq issued /\ Len(store.lru) <= Capacity
  BY Listed DEF IInv, Sessions, Live, StoreOK, Stores
<1>4. full => Head(store.lru) \in Live
  <2>1. full => Len(store.lru) >= 1 /\ store.lru # <<>>
    BY <1>3, CapacityAssumption
  <2> QED
    BY <1>3, <2>1 DEF Live, Entries
<1>5. StoreOK(st) /\ Entries(st.lru) = Live \ S /\ Len(st.lru) < Capacity
  <2>1. CASE full
    <3>1. {Head(store.lru)} \in SUBSET Entries(store.lru) /\ {Head(store.lru)} # {}
      BY <1>4, <2>1 DEF Live
    <3>2. /\ StoreOK(Without(store, {Head(store.lru)}))
          /\ Entries(Without(store, {Head(store.lru)}).lru) = Live \ {Head(store.lru)}
          /\ Len(Without(store, {Head(store.lru)}).lru) < Len(store.lru)
      BY <1>3, <3>1, WithoutOK DEF Live
    <3>3. Len(Without(store, {Head(store.lru)}).lru) \in Nat
      BY <3>2, Listed
    <3>4. st = Without(store, {Head(store.lru)}) /\ S = {Head(store.lru)}
      BY <2>1
    <3> HIDE DEF st, S
    <3>5. Len(st.lru) \in Nat /\ Len(st.lru) < Len(store.lru)
      BY <3>2, <3>3, <3>4
    <3>6. Len(st.lru) < Capacity
      BY <1>3, <3>5, CapacityAssumption
    <3> QED
      BY <3>2, <3>4, <3>6
  <2>2. CASE ~full
    BY <1>3, <2>2, CapacityAssumption DEF Live
  <2> QED
    BY <2>1, <2>2
<1>6. S \in SUBSET Live
  BY <1>4
<1>7. adapter' = Unbound(S)
  BY <1>1 DEF Unbound, IInv, Typed
<1> HIDE DEF st, S, full
<1>8. StoreOK(store') /\ Live' = (Live \ S) \cup {s}
  <2>1. s \notin Entries(st.lru)
    BY <1>1, <1>3, <1>5
  <2> QED
    BY <1>2, <1>5, <2>1, AcquiredOK DEF Live
<1>9. Collectable(S) \in SUBSET S /\ {s} \in SUBSET (Sid \ issued)
  BY DEF Collectable
<1> QED
  BY <1>1, <1>6, <1>7, <1>8, <1>9, SessionsStep

\* A call whose handler, thread and callback are gone is forgotten.
LEMMA RetireStep ==
  ASSUME IInv, NEW r \in Rpc, Retire(r)
  PROVE  IInv'
<1> DEFINE S == {s \in Sid \ Live : \A q \in Rpc : rpc'[q].s # s}
<1>1. /\ InUse(r) /\ rpc[r].handler = "gone" /\ ~Doomed(rpc[r]) /\ Collect(S)
      /\ rpc' = [rpc EXCEPT ![r] = NoRpc] /\ store' = store /\ adapter' = adapter
      /\ ops' = ops /\ gens' = gens /\ issued' = issued /\ cancels' = cancels
  BY DEF Retire, guards, Doomed
<1>2. S \in SUBSET Sid /\ S \cap Live = {}
  OBVIOUS
<1> HIDE DEF S
<1>3. /\ hist' \in [Sid -> Seq(Token)] /\ cached' \in [Sid -> Seq(Token)]
      /\ pos' \in [Sid -> Nat] /\ acked' \in [Sid -> Nat] /\ lost' \in [Sid -> Nat]
      /\ \A t \in Sid \ S : hist'[t] = hist[t] /\ cached'[t] = cached[t] /\ pos'[t] = pos[t] /\ Told'[t] = Told[t]
      /\ \A t \in S : hist'[t] = <<>> /\ cached'[t] = <<>> /\ pos'[t] = 0 /\ Told'[t] = 0
  <2>1. \A t \in S : hist'[t] = <<>> /\ cached'[t] = <<>> /\ pos'[t] = 0 /\ Told'[t] = 0
    BY <1>1, <1>2, CollectFacts DEF Collect
  <2> QED
    BY <1>1, <1>2, <2>1, CollectFacts
<1>4. rpc \in [Rpc -> Calls] /\ NoRpc \in Calls
  <2>1. <<>> \in Seq(Token) /\ <<>> \in Seq({"token", "done", "error", "end"}) /\ "over" \in Pcs
    BY DEF Pcs
  <2> QED
    BY <2>1 DEF IInv, Typed, Calls, NoRpc
<1>5. /\ rpc' \in [Rpc -> Calls] /\ ~InUse(r)' /\ \A q \in Rpc \ {r} : rpc'[q] = rpc[q]
  BY <1>1, <1>4 DEF InUse, NoRpc
<1>6. Typed'
  BY <1>1, <1>3, <1>5 DEF IInv, Typed
<1>7. Live' = Live /\ Live \subseteq Sid
  BY <1>1 DEF Live, IInv, Sessions, Typed
<1>8. Sessions'
  <2>1. ASSUME NEW t \in Sid \ issued' PROVE Blank(t)'
    BY <1>1, <1>3 DEF Blank, IInv, Sessions
  <2> QED
    BY <1>1, <1>7, <2>1 DEF IInv, Sessions
<1>9. \A q \in Rpc : Runs(q)' <=> Runs(q)
  BY <1>1, <1>5 DEF Runs, InUse
<1>10. \A q \in Rpc : InUse(q)' => InUse(q) /\ rpc'[q] = rpc[q]
  BY <1>5 DEF InUse
<1>11. \A q \in Rpc : Runs(q) => rpc'[q] = rpc[q]
  BY <1>9, <1>10 DEF Runs
<1>12. Guard'
  BY <1>1, <1>9, <1>10, <1>11 DEF IInv, Guard
<1>13. ASSUME NEW t \in Live' PROVE Surviving(t)'
  <2>1. t \in Live /\ t \in Sid \ S /\ Surviving(t)
    BY <1>2, <1>7 DEF IInv
  <2>2. \A q \in Rpc : Of(q, t)' => Of(q, t) /\ rpc'[q] = rpc[q]
    BY <1>10 DEF Of
  <2>3. ASSUME Unthreatened(t)', NEW q \in Rpc, Of(q, t) PROVE ~Doomed(rpc[q])
    <3>1. CASE q = r
      BY <1>1, <3>1
    <3>2. CASE q # r
      BY <1>5, <2>3, <3>2 DEF Unthreatened, Of, InUse
    <3> QED
      BY <3>1, <3>2
  <2>4. Unthreatened(t)' => Unthreatened(t)
    BY <2>3 DEF Unthreatened
  <2> QED
    BY <1>1, <1>3, <1>9, <1>11, <2>1, <2>2, <2>4 DEF Surviving
<1> QED
  BY <1>6, <1>8, <1>12, <1>13 DEF IInv

\* A call takes the operation guard of its session.
LEMMA OpenStep ==
  ASSUME IInv, AppendTokens \/ Generate
  PROVE  IInv'
<1>1. PICK r \in Rpc, s \in issued \ ops, m \in Nat, w \in {<<"append", "lookup">>, <<"generate", "guard">>} :
        /\ ~InUse(r) /\ ops' = ops \cup {s}
        /\ rpc' = [rpc EXCEPT ![r] = [NoRpc EXCEPT !.kind = w[1], !.s = s, !.n = m,
                                                   !.pc = w[2], !.handler = "run"]]
        /\ UNCHANGED <<issued, cancels, store, session, adapter, gens>>
  <2>1. 0..1 \subseteq Nat /\ 1..MaxNew \subseteq Nat
    BY LimitAssumption
  <2>2. CASE AppendTokens
    BY <2>1, <2>2 DEF AppendTokens, Open
  <2>3. CASE Generate
    BY <2>1, <2>3 DEF Generate, Open
  <2> QED
    BY <2>2, <2>3
<1> DEFINE n == [NoRpc EXCEPT !.kind = w[1], !.s = s, !.n = m, !.pc = w[2], !.handler = "run"]
<1>2. rpc \in [Rpc -> Calls] /\ issued \subseteq Sid /\ ops \subseteq issued
  BY DEF IInv, Typed
<1>3. /\ n \in Calls /\ n.kind = w[1] /\ n.s = s /\ n.pc = w[2] /\ n.handler = "run" /\ ~n.callback
      /\ ~n.cancel /\ ~n.completed /\ n.queue = <<>>
  <2>1. <<>> \in Seq(Token) /\ <<>> \in Seq({"token", "done", "error", "end"})
    OBVIOUS
  <2>2. w[2] \in Pcs /\ w[1] \in {"none", "append", "generate"} /\ s \in Sid \cup {None}
    BY <1>2 DEF Pcs
  <2> QED
    BY <2>1, <2>2 DEF Calls, NoRpc
<1>4. rpc' = [rpc EXCEPT ![r] = n]
  BY <1>1
<1> HIDE DEF n
<1>5. (n.kind = "append" /\ n.pc = "lookup") \/ (n.kind = "generate" /\ n.pc = "guard")
  BY <1>3
<1>6. rpc' \in [Rpc -> Calls] /\ rpc'[r] = n /\ \A q \in Rpc \ {r} : rpc'[q] = rpc[q]
  BY <1>2, <1>3, <1>4
<1>7. /\ store' = store /\ adapter' = adapter /\ hist' = hist /\ cached' = cached /\ pos' = pos /\ acked' = acked /\ lost' = lost /\ Told' = Told
      /\ issued' = issued /\ cancels' = cancels /\ gens' = gens
  BY <1>1, ToldSame DEF session, told
<1>8. Typed'
  BY <1>1, <1>2, <1>6, <1>7 DEF IInv, Typed
<1>9. Sessions' /\ Live' = Live
  BY <1>7 DEF IInv, Sessions, Live, Blank
<1>10. CallOK(n) /\ LiveCall(n) /\ ~Doomed(n) /\ n.pc \notin Holding
  <2>1. <<>> # <<"token">>
    OBVIOUS
  <2> QED
    BY <1>3, <1>5, <2>1 DEF CallOK, LiveCall, Doomed, Holding, Terminal
<1>11. /\ \A q \in Rpc \ {r} : (Runs(q)' <=> Runs(q)) /\ (InUse(q)' <=> InUse(q))
       /\ Runs(r)' /\ ~Runs(r)
  BY <1>1, <1>3, <1>5, <1>6 DEF Runs, InUse
<1>12. \A q \in Rpc : Runs(q) => rpc[q].s # s
  BY <1>1 DEF IInv, Guard
<1>13. Guard'
  <2>1. \A q \in Rpc : InUse(q)' => rpc'[q].s \in issued' /\ CallOK(rpc'[q])
    BY <1>1, <1>3, <1>6, <1>7, <1>10, <1>11 DEF IInv, Guard
  <2>2. \A q \in Rpc : Runs(q)' => rpc'[q].s \in ops'
    BY <1>1, <1>3, <1>6, <1>11 DEF IInv, Guard
  <2>3. \A q, u \in Rpc : Runs(q)' /\ Runs(u)' /\ rpc'[q].s = rpc'[u].s => q = u
    BY <1>3, <1>6, <1>11, <1>12 DEF IInv, Guard
  <2>4. ASSUME NEW t \in ops' PROVE \E q \in Rpc : Runs(q)' /\ rpc'[q].s = t
    <3>1. CASE t = s
      BY <1>3, <1>6, <1>11, <3>1
    <3>2. CASE t \in ops
      <4>1. PICK q \in Rpc : Runs(q) /\ rpc[q].s = t
        BY <3>2 DEF IInv, Guard
      <4> QED
        BY <1>6, <1>11, <4>1
    <3> QED
      BY <1>1, <3>1, <3>2
  <2> QED
    BY <2>1, <2>2, <2>3, <2>4 DEF Guard
<1>14. ASSUME NEW t \in Live' PROVE Surviving(t)'
  <2>1. t \in Live /\ Surviving(t)
    BY <1>9 DEF IInv
  <2>2. \A q \in Rpc \ {r} : Of(q, t)' <=> Of(q, t)
    BY <1>6, <1>11 DEF Of
  <2>3. ~Of(r, t) /\ (Of(r, t)' => t = s)
    BY <1>1, <1>3, <1>6 DEF Of
  <2>4. Unthreatened(t)' => Unthreatened(t)
    BY <1>6, <2>2, <2>3 DEF Unthreatened
  <2>5. \A q \in Rpc : Of(q, t)' => LiveCall(rpc'[q]) /\ (rpc'[q].pc \in Holding =>
                                       rpc'[q].ref = "first" /\ adapter'[t].obj = "first")
    BY <1>6, <1>7, <1>10, <2>1, <2>2 DEF Surviving
  <2>6. ASSUME Unthreatened(t)', t \notin ops'
        PROVE  Settled(hist'[t], adapter'[t].kv, cached'[t], pos'[t], Told'[t])
    BY <1>1, <1>7, <2>1, <2>4, <2>6 DEF Surviving
  <2>7. ASSUME Unthreatened(t)', NEW q \in Rpc, Runs(q)', rpc'[q].s = t
        PROVE  Phase(rpc'[q], hist'[t], adapter'[t].kv, cached'[t], pos'[t], Told'[t])
    <3>1. CASE q # r
      BY <1>6, <1>7, <1>11, <2>1, <2>4, <2>7, <3>1 DEF Surviving
    <3>2. CASE q = r
      <4>1. t = s /\ t \notin ops /\ t \in Sid
        BY <1>1, <1>2, <1>3, <1>6, <2>7, <3>2
      <4>2. Settled(hist[t], adapter[t].kv, cached[t], pos[t], Told[t])
        BY <2>1, <2>4, <2>7, <4>1 DEF Surviving
      <4>3. Owed(n) = 0
        <5>1. <<>> # <<"token">>
          OBVIOUS
        <5> QED
          BY <1>3, <1>5, <5>1 DEF Owed
      <4>4. Told[t] \in Nat /\ Told[t] + 0 = Told[t]
        BY <4>1, ToldType DEF IInv, Typed
      <4>5. n.pc # "advance" /\ n.pc # "mirror" /\ n.pc # "extend"
        BY <1>5
      <4>6. Phase(n, hist[t], adapter[t].kv, cached[t], pos[t], Told[t])
        BY <4>2, <4>3, <4>4, <4>5 DEF Phase, Settled
      <4> QED
        BY <1>6, <1>7, <3>2, <4>6
    <3> QED
      BY <3>1, <3>2
  <2> QED
    BY <2>5, <2>6, <2>7 DEF Surviving
<1> QED
  BY <1>8, <1>9, <1>13, <1>14 DEF IInv

-----------------------------------------------------------------------------
(* The invariant, and what it implies.                                       *)

\* The empty runtime satisfies the invariant.
LEMMA InitInv == Init => IInv
<1> SUFFICES ASSUME Init PROVE IInv
  OBVIOUS
<1>1. <<>> \in Seq(Token) /\ <<>> \in Seq(Sid) /\ <<>> \in Seq({"token", "done", "error", "end"})
  OBVIOUS
<1>2. NoRpc \in Calls /\ Absent \in Verifiers
  BY <1>1 DEF NoRpc, Calls, Absent, Verifiers, Pcs
<1>3. Typed
  BY <1>1, <1>2, LimitAssumption DEF Init, Typed
<1>4. /\ store \in Stores /\ store.lru = <<>> /\ store.slab = [s \in Sid |-> None] /\ store.free = Slab
      /\ store.bytes = [b \in Slab |-> 0]
  BY <1>1 DEF Init, Stores
<1>5. Entries(store.lru) = {} /\ Distinct(store.lru) /\ Len(store.lru) <= Capacity
  BY <1>4, CapacityAssumption DEF Entries, Distinct
<1>6. StoreOK(store)
  BY <1>4, <1>5 DEF StoreOK
<1>7. Live = {}
  BY <1>5 DEF Live
<1>8. Sessions
  <2>1. \A s \in Sid : Told[s] = 0
    BY DEF Init, Told
  <2> QED
    BY <1>6, <1>7, <2>1 DEF Sessions, Init, Blank, Absent
<1>9. Guard
  BY DEF Guard, Init, InUse, Runs, NoRpc
<1> QED
  BY <1>3, <1>7, <1>8, <1>9 DEF IInv

\* Every step preserves it.
LEMMA NextInv == IInv /\ [Next]_vars => IInv'
<1> SUFFICES ASSUME IInv, [Next]_vars PROVE IInv'
  OBVIOUS
<1>1. CASE CreateSession
  BY <1>1, CreateStep
<1>2. CASE CloseSession \/ evict_idle
  BY <1>2, DepartStep
<1>3. CASE AppendTokens \/ Generate
  BY <1>3, OpenStep
<1>4. ASSUME NEW r \in Rpc, Thread(r) PROVE IInv'
  BY <1>4, ThreadStep
<1>5. ASSUME NEW r \in Rpc, Handler(r) PROVE IInv'
  BY <1>5, AppendReturnsStep, DeliverStep, StreamEndsStep, AbandonStep, ContextStep, RetireStep DEF Handler
<1>6. ASSUME NEW r \in Rpc, ClientCancels(r) PROVE IInv'
  BY <1>6, ClientStep
<1>7. CASE UNCHANGED vars
  <2>1. UNCHANGED <<issued, store, hist, cached, pos, acked, lost, Told, adapter, ops, gens, rpc, cancels>>
    BY <1>7, ToldSame DEF vars, session, told, guards
  <2> QED
    BY <2>1 DEF IInv, Typed, Sessions, Guard, Surviving, Live, Blank, Unthreatened, Of, Runs, InUse
<1> QED
  BY <1>1, <1>2, <1>3, <1>4, <1>5, <1>6, <1>7 DEF Next

\* The inductive invariant holds throughout every behaviour.
LEMMA Invariance == Spec => []IInv
  BY InitInv, NextInv, PTL DEF Spec

\* Every variable has its type and the store lists a session once, whatever
\* calls, cancels and removals interleave.
THEOREM TypeCorrect == Spec => []TypeOK
<1>1. IInv => TypeOK
  <2> SUFFICES ASSUME IInv PROVE TypeOK
    OBVIOUS
  <2>1. /\ store \in Stores /\ Cardinality(Live) = Len(store.lru) /\ Live \subseteq issued
        /\ store.lru \in Seq(Sid)
    BY Listed DEF IInv, Sessions, Live, Stores
  <2>2. store.lru \in Seq(issued)
    <3> DEFINE l == store.lru
    <3>1. l \in Seq(Sid) /\ \A i \in 1..Len(l) : l[i] \in issued
      BY <2>1 DEF Live, Entries
    <3> HIDE DEF l
    <3>2. l \in Seq(issued)
      BY <3>1
    <3> QED
      BY <3>2 DEF l
  <2> QED
    BY <2>1, <2>2 DEF IInv, Typed, TypeOK, Stores, Verifiers, Calls
<1> QED
  BY <1>1, Invariance, PTL

\* Slabs and sessions in the store match one to one on every path that
\* creates, closes, evicts or drops a session, so the pool that main() sizes by
\* the store's capacity is never exhausted below it.
THEOREM SlabsHaveOneOwner == Spec => []SlabOwnership
<1>1. IInv => SlabOwnership
  BY DEF IInv, Sessions, StoreOK, SlabOwnership, Live
<1> QED
  BY <1>1, Invariance, PTL

\* No unlocked write of _sync_slab_bytes leaves a byte count on a slab that
\* has gone back to the pool.
THEOREM FreeSlabsStayReset == Spec => []FreeSlabsAreReset
<1>1. IInv => FreeSlabsAreReset
  BY DEF IInv, Sessions, StoreOK, FreeSlabsAreReset
<1> QED
  BY <1>1, Invariance, PTL

\* A session in the store with no call under way is settled.
LEMMA QuiescentSettled ==
  ASSUME IInv, NEW s \in Live, Quiescent(s)
  PROVE  Settled(hist[s], adapter[s].kv, cached[s], pos[s], Told[s])
<1>1. Surviving(s) /\ s \notin ops
  BY DEF IInv, Guard, Quiescent, Runs
<1>2. Unthreatened(s)
  BY DEF Unthreatened, Of, Quiescent
<1> QED
  BY <1>1, <1>2 DEF Surviving

\* Whatever was cancelled, raised or abandoned before, a session that the store
\* still serves has one content: its history is its verifier's cache, the mirror
\* of that cache, and its position.
THEOREM SurvivorsAreConsistent == Spec => []HistoryIsTheCache
<1>1. IInv => HistoryIsTheCache
  BY QuiescentSettled DEF HistoryIsTheCache, Settled
<1> QED
  BY <1>1, Invariance, PTL

\* The client of a surviving session was told of every token in its history,
\* except those of a call that ended after the client had cancelled it: Told
\* counts both, and is the length of the history whenever the session rests.
THEOREM ClientsAreInformed == Spec => []ClientKnowsHistory
<1>1. IInv => ClientKnowsHistory
  <2> SUFFICES ASSUME IInv, NEW s \in Live, Quiescent(s)
               PROVE  acked[s] + lost[s] = Len(hist[s])
    BY DEF ClientKnowsHistory
  <2>1. s \in Sid
    BY DEF IInv, Sessions, Typed
  <2>2. Told[s] = Len(hist[s])
    BY QuiescentSettled DEF Settled
  <2> QED
    BY <2>1, <2>2 DEF Told
<1> QED
  BY <1>1, Invariance, PTL

\* create_session finds a slab: below capacity, which an eviction restores, the
\* pool that main() sizes by that capacity has a free one, so PoolExhausted is
\* never raised.
THEOREM PoolIsNeverExhausted == Spec => [](Len(store.lru) < Capacity => store.free # {})
<1>1. IInv => (Len(store.lru) < Capacity => store.free # {})
  <2> SUFFICES ASSUME IInv, store.free = {} PROVE ~(Len(store.lru) < Capacity)
    OBVIOUS
  <2> DEFINE f == [s \in Live |-> store.slab[s]]
  <2>1. /\ StoreOK(store) /\ IsFiniteSet(Live) /\ Len(store.lru) \in Nat
        /\ Cardinality(Live) = Len(store.lru) /\ \A s \in Live : store.slab[s] \in Slab
    BY Listed DEF IInv, Sessions, Live
  <2>2. \A b \in Slab : \E s \in Live : store.slab[s] = b
    BY <2>1 DEF StoreOK, Live
  <2>3. f \in Surjection(Live, Slab)
    BY <2>1, <2>2 DEF Surjection
  <2> HIDE DEF f
  <2>4. Cardinality(Slab) <= Cardinality(Live)
    BY <2>1, <2>3, FS_Surjection
  <2> QED
    BY <2>1, <2>4, PoolAssumption, CapacityAssumption
<1> QED
  BY <1>1, Invariance, PTL
=============================================================================
