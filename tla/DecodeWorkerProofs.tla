------------------------- MODULE DecodeWorkerProofs -------------------------
(* The safety invariants of DecodeWorker hold for every set of sessions,     *)
(* tokens and snapshots, every model and every number of faults.             *)
EXTENDS DecodeWorker, TLAPS, SequenceTheorems

Busy(s) == call.op \notin {"none", "health"} /\ call.s = s

\* A reply needs a connection and a caller; a dead child holds nothing.
Transport ==
  /\ alive => conn
  /\ ~alive => live = {}
  /\ wire.st # "none" => conn /\ ~Idle
  /\ Idle => call.step = "main"

\* Only a session with an initialised checkpoint counts as restored, and a
\* checkpoint never holds a snapshot that the child rejects.
Generations ==
  /\ \A s \in Session : restored[s] <= gen
  /\ \A s \in Session : restored[s] = gen => cp[s].init
  /\ \A s \in Session : s \notin open => cp[s] = FreshCheckpoint /\ restored[s] = 0
  /\ \A s \in Session : cp[s].snap \notin BadSnapshots
  /\ \A s \in Session : ~cp[s].init => History(cp[s]) = <<>>

\* The call under way is for an open session in a state it may be started in.
CallOK ==
  /\ call.op \notin {"none", "health", "close"} => call.s \in open
  /\ call.op \in {"append", "generate", "prefill", "importInit", "import"} => call.s \notin dirty
  /\ call.op \in {"append", "prefill", "importInit", "import"} => call.toks # <<>>
  /\ call.op \in {"append", "generate"} /\ call.step = "main" /\ cp[call.s].init
       => restored[call.s] = gen
  /\ call.step # "main" => call.op \notin {"none", "health", "close"} /\ cp[call.s].init
  /\ call.step \in {"import", "replay"} => cp[call.s].snap # <<>>

\* What the child holds for a session that no call is working on.
Settled(s) ==
  /\ restored[s] = gen => s \in live /\ kv[s] = History(cp[s])
  /\ ~cp[s].init => s \notin live

Resting == alive => /\ live \subseteq open
                    /\ \A s \in open \ dirty : ~Busy(s) => Settled(s)

\* The child's history of the session under way, once it answered.
Holds(h) == alive => call.s \in live /\ kv[call.s] = h

\* The restore of a checkpoint, request by request.
RestoreProgress ==
  LET c == cp[call.s] IN
  /\ call.step # "main" => wire.st # "err"
  /\ call.step = "init" /\ wire.st = "ok"
       => Holds(IF c.snap = <<>> THEN c.replay ELSE <<>>)
  /\ call.step = "import" => /\ alive => call.s \in live
                             /\ wire.st = "ok" => Holds(c.snap)
  /\ call.step = "replay" => IF wire.st = "ok" THEN Holds(c.snap \o c.replay)
                             ELSE Holds(c.snap)

\* The operation itself: before, and after, the child executed it.
MainProgress ==
  call.step = "main" =>
    LET h == History(cp[call.s]) IN
    /\ call.op \in {"append", "generate"} /\ wire.st # "ok" /\ alive => Settled(call.s)
    /\ call.op = "append" /\ wire.st = "ok"
         => cp[call.s].init /\ wire.state = h \o call.toks /\ Holds(wire.state)
    /\ call.op = "generate" /\ wire.st = "ok"
         => /\ cp[call.s].init /\ h # <<>>
            /\ wire.state = Append(h, Greedy(h)) /\ Holds(wire.state)
    /\ call.op \in {"prefill", "reset", "importInit"} => wire.st # "err"
    /\ call.op = "prefill" /\ wire.st = "ok"
         => wire.state = call.toks /\ Holds(wire.state)
    /\ call.op = "reset" /\ wire.st = "ok" => wire.state = <<>> /\ Holds(wire.state)
    /\ call.op = "import" /\ wire.st = "ok"
         => /\ wire.state = call.toks /\ call.toks \notin BadSnapshots
            /\ Holds(wire.state)
    /\ call.op = "close" /\ wire.st \in {"ok", "err"} /\ alive => call.s \notin live

IInv == /\ TypeOK /\ Transport /\ Generations /\ CallOK /\ Resting
        /\ RestoreProgress /\ MainProgress /\ ProxyMatchesCheckpoint

-----------------------------------------------------------------------------
(* Facts about the operators of the model.                                   *)

\* greedy_next_token_id returns a token id.
LEMMA GreedyType == \A h : Greedy(h) \in Token
  BY SessionAssumption DEF Greedy

\* The resting values of the call, the wire and the child are well typed.
LEMMA CallTyped == NoCall \in Call /\ Quiet \in Wire /\ NoKV \in [Session -> Seq(Token)]
  <1>1. NoCall \in Call
    BY SessionAssumption DEF NoCall, Call, Ops
  <1>2. Quiet \in Wire
    BY DEF Quiet, Wire
  <1>3. NoKV \in [Session -> Seq(Token)]
    BY DEF NoKV
  <1> QED BY <1>1, <1>2, <1>3

\* The tokens of a request are a sequence of tokens.
LEMMA RequestType == TypeOK => Request.toks \in Seq(Token)
  BY DEF TypeOK, Request, Call, Checkpoint

\* Which calls, at which step, send which request.
LEMMA RequestOrigin ==
  ASSUME TypeOK
  PROVE  /\ Request.op = "Init" =>
              \/ /\ call.step = "init"
                 /\ Request.toks = IF cp[call.s].snap = <<>> THEN cp[call.s].replay ELSE <<>>
              \/ call.step = "main" /\ call.op = "prefill" /\ Request.toks = call.toks
              \/ call.step = "main" /\ call.op \in {"importInit", "reset"} /\ Request.toks = <<>>
         /\ Request.op = "ImportSnapshot" =>
              \/ call.step = "import" /\ Request.toks = cp[call.s].snap
              \/ call.step = "main" /\ call.op = "import" /\ Request.toks = call.toks
         /\ Request.op = "Append" =>
              \/ call.step = "replay" /\ Request.toks = cp[call.s].replay
              \/ call.step = "main" /\ call.op = "append" /\ Request.toks = call.toks
         /\ Request.op = "GenerateStep" => call.step = "main" /\ call.op = "generate"
         /\ Request.op = "Close" => call.step = "main" /\ call.op = "close"
         /\ Request.op = "Health" => call.step = "main" /\ call.op \in {"none", "health"}
  <1>1. call.step \in {"init", "import", "replay", "main"} /\ call.op \in Ops \cup {"none"}
    BY DEF TypeOK, Call
  <1>2. CASE call.step = "init"
    BY <1>2 DEF Request
  <1>3. CASE call.step = "import"
    BY <1>3 DEF Request
  <1>4. CASE call.step = "replay"
    BY <1>4 DEF Request
  <1>5. CASE call.step = "main"
    BY <1>1, <1>5 DEF Request, Ops
  <1> QED BY <1>1, <1>2, <1>3, <1>4, <1>5

\* A checkpoint stands for a sequence of tokens.
LEMMA HistoryType == \A c \in Checkpoint : History(c) \in Seq(Token)
  BY DEF Checkpoint, History

\* A request or a reply that carries tokens is a value of the wire.
LEMMA WireTyped ==
  ASSUME NEW st \in {"none", "sent", "ok", "err"}, NEW h \in Seq(Token)
  PROVE  [st |-> st, state |-> h] \in Wire
  BY DEF Wire

\* _session_request moves from one request of a call to the next.
LEMMA CallUpdate ==
  ASSUME NEW c \in Call, NEW st \in {"init", "import", "replay", "main"}, NEW n \in 0..2
  PROVE  /\ [c EXCEPT !.step = st, !.try = n] \in Call
         /\ [c EXCEPT !.step = st, !.try = n].op = c.op
         /\ [c EXCEPT !.step = st, !.try = n].s = c.s
         /\ [c EXCEPT !.step = st, !.try = n].toks = c.toks
         /\ [c EXCEPT !.step = st, !.try = n].step = st
  <1>1. [c EXCEPT !.step = st, !.try = n] \in Call
    BY Zenon DEF Call
  <1>2. /\ [c EXCEPT !.step = st, !.try = n].op = c.op
        /\ [c EXCEPT !.step = st, !.try = n].s = c.s
        /\ [c EXCEPT !.step = st, !.try = n].toks = c.toks
        /\ [c EXCEPT !.step = st, !.try = n].step = st
    BY DEF Call
  <1> QED BY <1>1, <1>2

\* Tokens acknowledged after the snapshot extend the replay list.
LEMMA ReplayUpdate ==
  ASSUME NEW o \in Checkpoint, NEW r \in Seq(Token)
  PROVE  /\ [o EXCEPT !.replay = r] \in Checkpoint
         /\ [o EXCEPT !.replay = r].snap = o.snap
         /\ [o EXCEPT !.replay = r].replay = r
         /\ [o EXCEPT !.replay = r].init = o.init
  BY DEF Checkpoint

\* Replaying blocks one after another is replaying their concatenation.
LEMMA Regroup == \A a, b, d \in Seq(Token) : a \o (b \o d) = (a \o b) \o d
  <1> TAKE a, b, d \in Seq(Token)
  <1> QED
    BY ONLY a \in Seq(Token), b \in Seq(Token), d \in Seq(Token), ConcatAssociative, SMTT(30)

\* The same, with the empty block on either side.
LEMMA ConcatFacts ==
  ASSUME NEW a \in Seq(Token), NEW b \in Seq(Token), NEW d \in Seq(Token)
  PROVE  <<>> \o a = a /\ a \o <<>> = a /\ a \o (b \o d) = (a \o b) \o d
  <1>1. <<>> \o a = a /\ a \o <<>> = a
    BY Zenon, ConcatEmptySeq
  <1>2. a \o (b \o d) = (a \o b) \o d
    BY Zenon, Regroup
  <1> QED BY <1>1, <1>2

\* Committing one token to the replay extends the whole history by it.
LEMMA ConcatAppend ==
  ASSUME NEW a \in Seq(Token), NEW b \in Seq(Token), NEW t \in Token
  PROVE  a \o Append(b, t) = Append(a \o b, t)
  <1>1. Append(b, t) = b \o <<t>> /\ Append(a \o b, t) = (a \o b) \o <<t>>
    BY AppendIsConcat
  <1>2. <<t>> \in Seq(Token)
    OBVIOUS
  <1> QED BY <1>1, <1>2, ConcatAssociative

\* Serving one session leaves what the child holds for the others alone.
LEMMA ServeOthers ==
  ASSUME IInv, Busy(call.s), NEW h, kv' = [kv EXCEPT ![call.s] = h],
         live' = live, alive' = alive, call' = call, UNCHANGED router
  PROVE  Resting'
  <1> SUFFICES ASSUME alive, NEW r \in open \ dirty, ~Busy(r) PROVE Settled(r)'
    BY DEF IInv, Resting, router, Busy
  <1>1. Settled(r)
    BY DEF IInv, Resting
  <1>2. r # call.s /\ r \in Session
    BY DEF IInv, TypeOK, Busy
  <1>3. kv'[r] = kv[r]
    BY <1>2 DEF IInv, TypeOK
  <1> QED BY <1>1, <1>3 DEF Settled, router

\* A session without committed tokens.
LEMMA FreshTyped == FreshCheckpoint \in Checkpoint /\ History(FreshCheckpoint) = <<>>
  BY DEF FreshCheckpoint, Checkpoint, History

\* Committing a reply that extends the history the checkpoint stands for.
LEMMA StepCommit ==
  ASSUME IInv, NEW c \in Checkpoint, Commit(c), call.s \in open, wire.st = "ok",
         History(c) = wire.state, c.init, c.snap \notin BadSnapshots, Holds(wire.state),
         MarkCurrent \/ (restored' = restored /\ restored[call.s] = gen),
         dirty' = dirty \/ dirty' = dirty \ {call.s}, dirty' # dirty => call.op = "reset",
         call.op \in Ops \ {"close", "health"}
  PROVE  IInv'
  <1> DEFINE s == call.s
  <1>0. /\ s \in Session /\ wire.state \in Seq(Token)
        /\ call' = NoCall /\ NoCall.op = "none" /\ NoCall.step = "main"
        /\ wire' = Quiet /\ Quiet.st = "none"
    BY DEF IInv, TypeOK, Wire, Commit, Finish, NoCall, Quiet
  <1>1. /\ cp' = [cp EXCEPT ![s] = c] /\ proxy' = [proxy EXCEPT ![s] = wire.state]
        /\ restored' = [restored EXCEPT ![s] = gen]
        /\ open' = open /\ gen' = gen /\ conn' = conn /\ faults' = faults
        /\ alive' = alive /\ hung' = hung /\ live' = live /\ kv' = kv
    BY <1>0 DEF IInv, TypeOK, Commit, MarkCurrent, worker
  <1>2. TypeOK'
    <2>1. last' \in Outcome
      BY DEF IInv, TypeOK, Commit, Finish, Outcome
    <2> QED BY <1>0, <1>1, <2>1, CallTyped DEF IInv, TypeOK
  <1>3. Transport'
    BY <1>0, <1>1 DEF IInv, Transport, Idle
  <1>4. Generations'
    <2> SUFFICES ASSUME NEW r \in Session
                 PROVE  /\ restored'[r] <= gen /\ (restored'[r] = gen => cp'[r].init)
                        /\ (r \notin open => cp'[r] = FreshCheckpoint /\ restored'[r] = 0)
                        /\ cp'[r].snap \notin BadSnapshots
                        /\ (~cp'[r].init => History(cp'[r]) = <<>>)
      BY <1>1 DEF Generations
    <2>1. CASE r = s
      BY <2>1, <1>0, <1>1 DEF IInv, TypeOK
    <2>2. CASE r # s
      BY <2>2, <1>0, <1>1 DEF IInv, TypeOK, Generations
    <2> QED BY <2>1, <2>2
  <1>5. CallOK'
    BY <1>0 DEF CallOK
  <1>6. Resting'
    <2> SUFFICES ASSUME alive, NEW r \in open, r \notin dirty'
                 PROVE  Settled(r)'
      BY <1>1 DEF IInv, Resting
    <2>1. CASE r = s
      BY <2>1, <1>0, <1>1 DEF Settled, Holds, IInv, TypeOK
    <2>2. CASE r # s
      <3>1. r \in open \ dirty /\ ~Busy(r)
        BY <2>2 DEF Busy
      <3>2. Settled(r)
        BY <3>1 DEF IInv, Resting
      <3>3. cp'[r] = cp[r] /\ restored'[r] = restored[r]
        BY <1>0, <1>1, <2>2 DEF IInv, TypeOK
      <3> QED BY <3>2, <3>3, <1>1 DEF Settled
    <2> QED BY <2>1, <2>2
  <1>7. RestoreProgress'
    BY <1>0 DEF RestoreProgress
  <1>8. MainProgress'
    BY <1>0 DEF MainProgress
  <1>9. ProxyMatchesCheckpoint'
    <2> SUFFICES ASSUME NEW r \in open PROVE proxy'[r] = History(cp'[r])
      BY <1>1 DEF ProxyMatchesCheckpoint
    <2>1. CASE r = s
      BY <2>1, <1>0, <1>1 DEF IInv, TypeOK
    <2>2. CASE r # s
      BY <2>2, <1>0, <1>1 DEF IInv, TypeOK, ProxyMatchesCheckpoint
    <2> QED BY <2>1, <2>2
  <1> QED BY <1>2, <1>3, <1>4, <1>5, <1>6, <1>7, <1>8, <1>9 DEF IInv

\* prefill: the checkpoint becomes the prompt the child has just cached.
LEMMA StepCommitPrefill == IInv /\ CommitPrefill => IInv'
  <1> SUFFICES ASSUME IInv, CommitPrefill PROVE IInv'
    OBVIOUS
  <1> DEFINE c == Whole(<<>>, call.toks)
  <1>1. c \in Checkpoint /\ c.init /\ c.snap = <<>> /\ History(c) = call.toks
    BY DEF IInv, TypeOK, Call, Checkpoint, Whole, History
  <1>2. wire.state = call.toks /\ Holds(wire.state) /\ call.s \in open
    BY DEF IInv, CommitPrefill, Answered, MainProgress, CallOK
  <1>3. c.snap \notin BadSnapshots
    BY <1>1, SnapshotAssumption
  <1> QED BY <1>1, <1>2, <1>3, StepCommit DEF CommitPrefill, Answered, Ops

\* import_snapshot: the checkpoint becomes the snapshot the child accepted.
LEMMA StepCommitImport == IInv /\ CommitImport => IInv'
  <1> SUFFICES ASSUME IInv, CommitImport PROVE IInv'
    OBVIOUS
  <1> DEFINE c == Whole(call.toks, <<>>)
  <1>1. c \in Checkpoint /\ c.init /\ c.snap = call.toks /\ History(c) = call.toks
    BY DEF IInv, TypeOK, Call, Checkpoint, Whole, History
  <1>2. /\ wire.state = call.toks /\ Holds(wire.state) /\ call.s \in open
        /\ call.toks \notin BadSnapshots
    BY DEF IInv, CommitImport, Answered, MainProgress, CallOK
  <1> QED BY <1>1, <1>2, StepCommit DEF CommitImport, Answered, Ops

\* reset: checkpoint, proxy and child are empty, and the session is usable again.
LEMMA StepCommitReset == IInv /\ CommitReset => IInv'
  <1> SUFFICES ASSUME IInv, CommitReset PROVE IInv'
    OBVIOUS
  <1> DEFINE c == Whole(<<>>, <<>>)
  <1>1. c \in Checkpoint /\ c.init /\ c.snap = <<>> /\ History(c) = <<>>
    BY DEF Checkpoint, Whole, History
  <1>2. wire.state = <<>> /\ Holds(wire.state) /\ call.s \in open
    BY DEF IInv, CommitReset, Answered, MainProgress, CallOK
  <1>3. c.snap \notin BadSnapshots
    BY <1>1, SnapshotAssumption
  <1> QED BY <1>1, <1>2, <1>3, StepCommit DEF CommitReset, Answered, Ops

\* append_accepted_tokens: the child already holds the history with the new block.
LEMMA StepCommitAppend == IInv /\ CommitAppend => IInv'
  <1> SUFFICES ASSUME IInv, CommitAppend PROVE IInv'
    OBVIOUS
  <1> DEFINE o == cp[call.s]
             c == [o EXCEPT !.replay = @ \o call.toks]
  <1>1. /\ o \in Checkpoint /\ call.toks \in Seq(Token)
        /\ o.snap \in Seq(Token) /\ o.replay \in Seq(Token)
    BY DEF IInv, TypeOK, Call, Checkpoint
  <1>2. /\ wire.state = History(o) \o call.toks /\ Holds(wire.state) /\ call.s \in open
        /\ o.init /\ restored[call.s] = gen
    BY DEF IInv, CommitAppend, Answered, MainProgress, CallOK
  <1>3. o.replay \o call.toks \in Seq(Token)
    BY <1>1
  <1>4. c \in Checkpoint /\ c.init /\ c.snap = o.snap /\ c.replay = o.replay \o call.toks
    <2>1. c = [o EXCEPT !.replay = o.replay \o call.toks]
      OBVIOUS
    <2> QED BY <2>1, <1>1, <1>2, <1>3, ReplayUpdate
  <1>5. History(c) = wire.state
    <2>1. o.snap \o (o.replay \o call.toks) = (o.snap \o o.replay) \o call.toks
      <3> HIDE DEF o, c
      <3> QED BY Zenon, <1>1, Regroup
    <2> QED BY <2>1, <1>2, <1>4 DEF History
  <1>6. c.snap \notin BadSnapshots
    BY <1>4 DEF IInv, Generations, TypeOK, Call
  <1>7. Commit(c) /\ restored' = restored /\ dirty' = dirty /\ wire.st = "ok" /\ call.op = "append"
    BY DEF CommitAppend, Answered
  <1> HIDE DEF c
  <1> QED BY <1>2, <1>4, <1>5, <1>6, <1>7, StepCommit DEF Ops

\* generate_step: the token of the reply is the greedy one of the committed history.
LEMMA StepCommitGenerate == IInv /\ CommitGenerate => IInv'
  <1> SUFFICES ASSUME IInv, CommitGenerate PROVE IInv'
    OBVIOUS
  <1> DEFINE o == cp[call.s]
             t == Greedy(History(o))
             c == [o EXCEPT !.replay = Append(@, wire.state[Len(wire.state)])]
  <1>1. /\ o \in Checkpoint /\ o.snap \in Seq(Token) /\ o.replay \in Seq(Token)
        /\ History(o) \in Seq(Token) /\ t \in Token
    BY GreedyType DEF IInv, TypeOK, Call, Checkpoint, History
  <1>2. /\ wire.state = Append(History(o), t) /\ Holds(wire.state) /\ call.s \in open
        /\ o.init /\ restored[call.s] = gen
    BY DEF IInv, CommitGenerate, Answered, MainProgress, CallOK
  <1>a. wire.state[Len(wire.state)] = t
    <2> HIDE DEF t
    <2> QED BY <1>1, <1>2
  <1>3. Append(o.replay, t) \in Seq(Token)
    <2> HIDE DEF t
    <2> QED BY <1>1
  <1>4. c \in Checkpoint /\ c.init /\ c.snap = o.snap /\ c.replay = Append(o.replay, t)
    <2>1. PICK r \in Seq(Token) : r = Append(o.replay, t)
      BY <1>3
    <2>2. c = [o EXCEPT !.replay = r]
      BY <1>a, <2>1
    <2>3. /\ [o EXCEPT !.replay = r] \in Checkpoint
          /\ [o EXCEPT !.replay = r].snap = o.snap
          /\ [o EXCEPT !.replay = r].replay = r
          /\ [o EXCEPT !.replay = r].init = o.init
      BY <1>1, ReplayUpdate
    <2> HIDE DEF c, o, t
    <2> QED BY <2>1, <2>2, <2>3, <1>2
  <1>5. History(c) = wire.state
    <2>1. o.snap \o Append(o.replay, t) = Append(o.snap \o o.replay, t)
      BY <1>1, ConcatAppend
    <2> QED BY <2>1, <1>2, <1>4 DEF History
  <1>6. c.snap \notin BadSnapshots
    BY <1>4 DEF IInv, Generations, TypeOK, Call
  <1>7. Commit(c) /\ restored' = restored /\ dirty' = dirty /\ wire.st = "ok" /\ call.op = "generate"
    BY DEF CommitGenerate, Answered
  <1> HIDE DEF c
  <1> QED BY <1>2, <1>4, <1>5, <1>6, <1>7, StepCommit DEF Ops

\* Taking the client lock, with the stale-generation test in front of the retries.
LEMMA StepStart ==
  ASSUME IInv, NEW op \in Ops, NEW s \in Session, NEW toks \in Seq(Token), Start(op, s, toks),
         op \notin {"health", "close"} => s \in open,
         op \in {"append", "generate", "prefill", "importInit", "import"} => s \notin dirty,
         op \in {"append", "prefill", "importInit", "import"} => toks # <<>>
  PROVE  IInv'
  <1>1. /\ call'.op = op /\ call'.s = s /\ call'.toks = toks /\ call' \in Call
        /\ call'.step = (IF NeedsRestore(op, s) THEN "init" ELSE "main")
    BY DEF Start, Call
  <1>2. wire.st = "none" /\ call.op = "none" /\ wire' = wire
    BY DEF IInv, Transport, Idle, Start
  <1>3. TypeOK'
    BY <1>1 DEF IInv, TypeOK, Start, worker, router
  <1>4. Transport'
    BY <1>1, <1>2 DEF IInv, Transport, Idle, Start, worker, router, Ops
  <1>5. Generations' /\ ProxyMatchesCheckpoint'
    BY DEF IInv, Generations, ProxyMatchesCheckpoint, Start, router
  <1>6. CallOK'
    BY <1>1 DEF IInv, CallOK, NeedsRestore, Start, router
  <1>7. Resting'
    BY <1>2 DEF IInv, Resting, Settled, Busy, Start, router, worker
  <1>8. RestoreProgress'
    BY <1>1, <1>2 DEF RestoreProgress, NeedsRestore
  <1>9. MainProgress'
    <2> SUFFICES ASSUME op \in {"append", "generate"}, alive PROVE Settled(s)
      BY <1>1, <1>2 DEF MainProgress, Settled, Start, router, worker
    <2> QED BY <1>2 DEF IInv, Resting, Busy
  <1> QED BY <1>3, <1>4, <1>5, <1>6, <1>7, <1>8, <1>9 DEF IInv

\* get: a new session starts with a fresh checkpoint and no K/V in the child.
LEMMA Stepget == ASSUME NEW s \in Session PROVE IInv /\ get(s) => IInv'
  <1> SUFFICES ASSUME IInv, get(s) PROVE IInv'
    OBVIOUS
  <1>1. /\ cp[s] = FreshCheckpoint /\ restored[s] = 0 /\ (s \notin live \/ ~alive)
        /\ cp' = [cp EXCEPT ![s] = FreshCheckpoint]
    BY DEF IInv, Generations, Resting, get
  <1>2. cp' = cp
    BY DEF IInv, TypeOK, Generations, get
  <1>3. TypeOK'
    BY <1>2 DEF IInv, TypeOK, get, worker
  <1>4. Transport' /\ CallOK' /\ RestoreProgress' /\ MainProgress'
    BY <1>2 DEF IInv, Transport, CallOK, RestoreProgress, MainProgress, Idle, get, worker
  <1>5. Generations'
    BY <1>2 DEF IInv, Generations, get
  <1>6. Resting'
    <2> SUFFICES ASSUME alive, NEW r \in open', r \notin dirty, ~Busy(r) PROVE Settled(r)
      BY <1>2 DEF IInv, Resting, Settled, Busy, get, worker
    <2>1. CASE r = s
      <3>1. cp[s] = FreshCheckpoint /\ restored[s] = 0 /\ s \notin live /\ gen # 0
        BY DEF IInv, TypeOK, Generations, Resting, get
      <3> QED BY <2>1, <3>1 DEF Settled
    <2>2. CASE r # s
      BY <2>2 DEF IInv, Resting, get
    <2> QED BY <2>1, <2>2
  <1>7. ProxyMatchesCheckpoint'
    <2> SUFFICES ASSUME NEW r \in open' PROVE proxy'[r] = History(cp[r])
      BY <1>2 DEF ProxyMatchesCheckpoint
    <2>1. CASE r = s
      BY <2>1, FreshTyped DEF IInv, TypeOK, Generations, get
    <2>2. CASE r # s
      BY <2>2 DEF IInv, TypeOK, ProxyMatchesCheckpoint, get
    <2> QED BY <2>1, <2>2
  <1> QED BY <1>3, <1>4, <1>5, <1>6, <1>7 DEF IInv

\* Every public operation of a session starts in a state it may be started in.
LEMMA StepBegin == ASSUME NEW s \in Session PROVE IInv /\ Begin(s) => IInv'
  <1> SUFFICES ASSUME IInv, Begin(s) PROVE IInv'
    OBVIOUS
  <1>0. <<>> \in Seq(Token)
    OBVIOUS
  <1>1. CASE prefill(s)
    BY <1>1, StepStart, PromptAssumption DEF prefill, Usable, Ops
  <1>2. CASE append_accepted_tokens(s)
    BY <1>2, StepStart, PromptAssumption DEF append_accepted_tokens, Usable, Ops
  <1>3. CASE generate_step(s)
    BY <1>0, <1>3, StepStart DEF generate_step, Usable, Ops
  <1>4. CASE import_snapshot(s)
    BY <1>4, StepStart, SnapshotAssumption DEF import_snapshot, Usable, Ops
  <1>5. CASE reset(s)
    BY <1>0, <1>5, StepStart DEF reset, Ops
  <1>6. CASE close_session(s)
    BY <1>0, <1>6, StepStart DEF close_session, Ops
  <1>7. CASE get(s)
    BY <1>7, Stepget
  <1> QED BY <1>1, <1>2, <1>3, <1>4, <1>5, <1>6, <1>7 DEF Begin

\* The child's Init replaces whatever it held for the session.
LEMMA StepServeInit == IInv /\ ServeInit => IInv'
  <1> SUFFICES ASSUME IInv, ServeInit PROVE IInv'
    OBVIOUS
  <1>1. TypeOK'
    <2>1. live' \subseteq Session
      BY RequestType DEF IInv, TypeOK, Call, ServeInit
    <2>2. kv' \in [Session -> Seq(Token)]
      BY RequestType DEF IInv, TypeOK, ServeInit, Reply
    <2>3. wire' \in Wire
      BY RequestType DEF IInv, Wire, ServeInit, Reply
    <2> QED BY <2>1, <2>2, <2>3 DEF IInv, TypeOK, ServeInit, Serving, router
  <1>2. Transport'
    BY DEF IInv, Transport, Idle, ServeInit, Serving, router
  <1>3. Generations'
    BY DEF IInv, Generations, ServeInit, Serving, router
  <1>4. CallOK'
    BY DEF IInv, CallOK, ServeInit, Serving, router
  <1>5. Resting'
    BY RequestOrigin DEF IInv, TypeOK, Resting, Busy, Settled, ServeInit, Serving, Reply, router, CallOK
  <1>6. RestoreProgress'
    BY RequestOrigin DEF IInv, TypeOK, RestoreProgress, Holds, ServeInit, Serving, Reply, router, CallOK
  <1>7. MainProgress'
    BY RequestOrigin DEF IInv, TypeOK, MainProgress, Holds, ServeInit, Serving, Reply, CallOK
  <1>8. ProxyMatchesCheckpoint'
    BY DEF IInv, ProxyMatchesCheckpoint, ServeInit, Serving, router
  <1> QED BY <1>1, <1>2, <1>3, <1>4, <1>5, <1>6, <1>7, <1>8 DEF IInv

\* The child's ImportSnapshot: accepted, rejected, or the session is unknown.
LEMMA StepServeImportSnapshot == IInv /\ ServeImportSnapshot => IInv'
  <1> SUFFICES ASSUME IInv, ServeImportSnapshot PROVE IInv'
    OBVIOUS
  <1>1. TypeOK'
    <2>1. /\ Request.toks \in Seq(Token) /\ kv[call.s] \in Seq(Token)
          /\ <<>> \in Seq(Token) /\ call.s \in Session
      BY RequestType, GreedyType DEF IInv, TypeOK, Call
    <2>2. \E h \in Seq(Token) : kv' = [kv EXCEPT ![call.s] = h]
      BY <2>1 DEF ServeImportSnapshot, Reply, Refuse
    <2>3. wire' \in Wire
      BY <2>1, WireTyped DEF ServeImportSnapshot, Reply, Refuse
    <2>4. kv' \in [Session -> Seq(Token)]
      BY <2>1, <2>2 DEF IInv, TypeOK
    <2>5. live' = live
      BY DEF ServeImportSnapshot, Reply, Refuse
    <2> QED BY <2>3, <2>4, <2>5 DEF IInv, TypeOK, ServeImportSnapshot, Serving, router
  <1>2. Transport'
    BY DEF IInv, Transport, Idle, ServeImportSnapshot, Serving, router
  <1>3. Generations'
    BY DEF IInv, Generations, ServeImportSnapshot, Serving, router
  <1>4. CallOK'
    BY DEF IInv, CallOK, ServeImportSnapshot, Serving, router
  <1>5. Resting'
    <2>1. Busy(call.s)
      BY RequestOrigin DEF IInv, ServeImportSnapshot, Serving, Busy, CallOK
    <2> QED BY <2>1, ServeOthers DEF ServeImportSnapshot, Serving, Reply, Refuse
  <1>6. RestoreProgress'
    <2>1. CASE call.step = "import"
      <3>1. /\ Request.toks = cp[call.s].snap /\ Request.toks \notin BadSnapshots
            /\ call.s \in live /\ call.s \in Session
        BY <2>1, RequestOrigin DEF IInv, TypeOK, Call, ServeImportSnapshot, Serving,
           Generations, RestoreProgress
      <3>2. Reply(Request.toks) /\ live' = live
        BY <3>1 DEF ServeImportSnapshot
      <3>3. kv'[call.s] = cp[call.s].snap /\ wire'.st = "ok"
        BY <3>1, <3>2 DEF Reply, IInv, TypeOK
      <3> QED BY <2>1, <3>1, <3>2, <3>3 DEF RestoreProgress, Holds, ServeImportSnapshot, Serving, router
    <2>2. CASE call.step = "main"
      BY <2>2 DEF RestoreProgress, ServeImportSnapshot, Serving
    <2> QED BY <2>1, <2>2, RequestOrigin DEF IInv, ServeImportSnapshot, Serving
  <1>7. MainProgress'
    BY RequestOrigin DEF IInv, TypeOK, MainProgress, Holds, ServeImportSnapshot, Serving, Reply, Refuse, Call
  <1>8. ProxyMatchesCheckpoint'
    BY DEF IInv, ProxyMatchesCheckpoint, ServeImportSnapshot, Serving, router
  <1> QED BY <1>1, <1>2, <1>3, <1>4, <1>5, <1>6, <1>7, <1>8 DEF IInv

\* The child's Append, for a replay and for the operation itself.
LEMMA StepServeAppend == IInv /\ ServeAppend => IInv'
  <1> SUFFICES ASSUME IInv, ServeAppend PROVE IInv'
    OBVIOUS
  <1>1. TypeOK'
    <2>1. /\ kv[call.s] \o Request.toks \in Seq(Token) /\ kv[call.s] \in Seq(Token)
          /\ <<>> \in Seq(Token) /\ call.s \in Session
      BY RequestType, GreedyType DEF IInv, TypeOK, Call
    <2>2. \E h \in Seq(Token) : kv' = [kv EXCEPT ![call.s] = h]
      BY <2>1 DEF ServeAppend, Reply, Refuse
    <2>3. wire' \in Wire
      BY <2>1, WireTyped DEF ServeAppend, Reply, Refuse
    <2>4. kv' \in [Session -> Seq(Token)]
      BY <2>1, <2>2 DEF IInv, TypeOK
    <2>5. live' = live
      BY DEF ServeAppend, Reply, Refuse
    <2> QED BY <2>3, <2>4, <2>5 DEF IInv, TypeOK, ServeAppend, Serving, router
  <1>2. Transport'
    BY DEF IInv, Transport, Idle, ServeAppend, Serving, router
  <1>3. Generations'
    BY DEF IInv, Generations, ServeAppend, Serving, router
  <1>4. CallOK'
    BY DEF IInv, CallOK, ServeAppend, Serving, router
  <1>5. Resting'
    <2>1. Busy(call.s)
      BY RequestOrigin DEF IInv, ServeAppend, Serving, Busy, CallOK
    <2> QED BY <2>1, ServeOthers DEF ServeAppend, Serving, Reply, Refuse
  <1>6. RestoreProgress'
    <2>1. CASE call.step = "replay"
      <3>1. /\ Request.toks = cp[call.s].replay /\ kv[call.s] = cp[call.s].snap
            /\ call.s \in live /\ call.s \in Session /\ cp[call.s].snap # <<>>
        BY <2>1, RequestOrigin DEF IInv, TypeOK, ServeAppend, Serving, RestoreProgress, Holds, CallOK
      <3>2. Reply(kv[call.s] \o Request.toks) /\ live' = live
        BY <3>1 DEF ServeAppend, Unprefilled
      <3>3. kv'[call.s] = cp[call.s].snap \o cp[call.s].replay /\ wire'.st = "ok"
        BY <3>1, <3>2 DEF Reply, IInv, TypeOK
      <3> QED BY <2>1, <3>1, <3>2, <3>3 DEF RestoreProgress, Holds, ServeAppend, Serving, router
    <2>2. CASE call.step = "main"
      BY <2>2 DEF RestoreProgress, ServeAppend, Serving
    <2> QED BY <2>1, <2>2, RequestOrigin DEF IInv, ServeAppend, Serving
  <1>7. MainProgress'
    <2> SUFFICES ASSUME call.step = "main" PROVE MainProgress'
      BY DEF MainProgress, ServeAppend, Serving
    <2>1. /\ call.op = "append" /\ Request.toks = call.toks /\ Settled(call.s)
          /\ call.s \in Session /\ (cp[call.s].init => restored[call.s] = gen)
      BY RequestOrigin DEF IInv, TypeOK, ServeAppend, Serving, MainProgress, CallOK
    <2>2. CASE Refuse(kv[call.s])
      <3>1. kv' = kv /\ wire'.st = "err"
        BY <2>1, <2>2 DEF Refuse, IInv, TypeOK
      <3> QED BY <2>1, <2>2, <3>1 DEF MainProgress, Settled, ServeAppend, Serving, router, Refuse
    <2>3. CASE call.s \in live /\ Reply(kv[call.s] \o Request.toks) /\ UNCHANGED live
      <3>1. cp[call.s].init /\ kv[call.s] = History(cp[call.s])
        BY <2>1, <2>3 DEF Settled
      <3>2. /\ kv'[call.s] = History(cp[call.s]) \o call.toks
            /\ wire'.st = "ok" /\ wire'.state = History(cp[call.s]) \o call.toks
        BY <2>1, <2>3, <3>1 DEF Reply, IInv, TypeOK
      <3> QED BY <2>1, <2>3, <3>1, <3>2 DEF MainProgress, Holds, ServeAppend, Serving, router
    <2> QED BY <2>2, <2>3 DEF ServeAppend, Unprefilled
  <1>8. ProxyMatchesCheckpoint'
    BY DEF IInv, ProxyMatchesCheckpoint, ServeAppend, Serving, router
  <1> QED BY <1>1, <1>2, <1>3, <1>4, <1>5, <1>6, <1>7, <1>8 DEF IInv

\* The child's GenerateStep appends the greedy token of what it holds.
LEMMA StepServeGenerateStep == IInv /\ ServeGenerateStep => IInv'
  <1> SUFFICES ASSUME IInv, ServeGenerateStep PROVE IInv'
    OBVIOUS
  <1>1. TypeOK'
    <2>1. /\ Append(kv[call.s], Greedy(kv[call.s])) \in Seq(Token) /\ kv[call.s] \in Seq(Token)
          /\ <<>> \in Seq(Token) /\ call.s \in Session
      BY RequestType, GreedyType DEF IInv, TypeOK, Call
    <2>2. \E h \in Seq(Token) : kv' = [kv EXCEPT ![call.s] = h]
      BY <2>1 DEF ServeGenerateStep, Reply, Refuse
    <2>3. wire' \in Wire
      BY <2>1, WireTyped DEF ServeGenerateStep, Reply, Refuse
    <2>4. kv' \in [Session -> Seq(Token)]
      BY <2>1, <2>2 DEF IInv, TypeOK
    <2>5. live' = live
      BY DEF ServeGenerateStep, Reply, Refuse
    <2> QED BY <2>3, <2>4, <2>5 DEF IInv, TypeOK, ServeGenerateStep, Serving, router
  <1>2. Transport'
    BY DEF IInv, Transport, Idle, ServeGenerateStep, Serving, router
  <1>3. Generations'
    BY DEF IInv, Generations, ServeGenerateStep, Serving, router
  <1>4. CallOK'
    BY DEF IInv, CallOK, ServeGenerateStep, Serving, router
  <1>5. Resting'
    <2>1. Busy(call.s)
      BY RequestOrigin DEF IInv, ServeGenerateStep, Serving, Busy, CallOK
    <2> QED BY <2>1, ServeOthers DEF ServeGenerateStep, Serving, Reply, Refuse
  <1>6. RestoreProgress'
    BY RequestOrigin DEF IInv, RestoreProgress, ServeGenerateStep, Serving
  <1>7. MainProgress'
    <2>1. /\ call.op = "generate" /\ Settled(call.s)
          /\ call.s \in Session /\ (cp[call.s].init => restored[call.s] = gen)
      BY RequestOrigin DEF IInv, TypeOK, ServeGenerateStep, Serving, MainProgress, CallOK
    <2>2. CASE Refuse(kv[call.s])
      <3>1. kv' = kv /\ wire'.st = "err"
        BY <2>1, <2>2 DEF Refuse, IInv, TypeOK
      <3> QED BY <2>1, <2>2, <3>1 DEF MainProgress, Settled, ServeGenerateStep, Serving, router, Refuse
    <2>3. CASE /\ call.s \in live /\ kv[call.s] # <<>> /\ UNCHANGED live
               /\ Reply(Append(kv[call.s], Greedy(kv[call.s])))
      <3>1. cp[call.s].init /\ kv[call.s] = History(cp[call.s])
        BY <2>1, <2>3 DEF Settled
      <3>2. /\ kv'[call.s] = Append(History(cp[call.s]), Greedy(History(cp[call.s])))
            /\ wire'.st = "ok" /\ wire'.state = kv'[call.s]
        BY <2>1, <2>3, <3>1 DEF Reply, IInv, TypeOK
      <3> QED BY <2>1, <2>3, <3>1, <3>2 DEF MainProgress, Holds, ServeGenerateStep, Serving, router
    <2> QED BY <2>2, <2>3 DEF ServeGenerateStep, Unprefilled
  <1>8. ProxyMatchesCheckpoint'
    BY DEF IInv, ProxyMatchesCheckpoint, ServeGenerateStep, Serving, router
  <1> QED BY <1>1, <1>2, <1>3, <1>4, <1>5, <1>6, <1>7, <1>8 DEF IInv

\* The child's Close drops the session's K/V.
LEMMA StepServeClose == IInv /\ ServeClose => IInv'
  <1> SUFFICES ASSUME IInv, ServeClose PROVE IInv'
    OBVIOUS
  <1>1. TypeOK'
    <2>1. live' \subseteq Session
      BY RequestType DEF IInv, TypeOK, ServeClose
    <2>2. kv' \in [Session -> Seq(Token)]
      BY RequestType DEF IInv, TypeOK, Call, ServeClose, Reply
    <2>3. wire' \in Wire
      BY RequestType DEF IInv, Wire, ServeClose, Reply
    <2> QED BY <2>1, <2>2, <2>3 DEF IInv, TypeOK, ServeClose, Serving, router
  <1>2. Transport'
    BY DEF IInv, Transport, Idle, ServeClose, Serving, router
  <1>3. Generations'
    BY DEF IInv, Generations, ServeClose, Serving, router
  <1>4. CallOK'
    BY DEF IInv, CallOK, ServeClose, Serving, router
  <1>5. Resting'
    BY RequestOrigin DEF IInv, TypeOK, Resting, Busy, Settled, ServeClose, Serving, Reply, router
  <1>6. RestoreProgress'
    BY RequestOrigin DEF IInv, RestoreProgress, ServeClose, Serving
  <1>7. MainProgress'
    BY RequestOrigin DEF IInv, MainProgress, ServeClose, Serving
  <1>8. ProxyMatchesCheckpoint'
    BY DEF IInv, ProxyMatchesCheckpoint, ServeClose, Serving, router
  <1> QED BY <1>1, <1>2, <1>3, <1>4, <1>5, <1>6, <1>7, <1>8 DEF IInv

\* The child's Health changes no session.
LEMMA StepServeHealth == IInv /\ ServeHealth => IInv'
  <1> SUFFICES ASSUME IInv, ServeHealth PROVE IInv'
    OBVIOUS
  <1>1. TypeOK'
    <2>1. wire' \in Wire
      BY RequestType DEF IInv, TypeOK, Wire, ServeHealth, Serving
    <2> QED BY <2>1 DEF IInv, TypeOK, ServeHealth, Serving, router
  <1>2. Transport'
    BY DEF IInv, Transport, Idle, ServeHealth, Serving, router
  <1>3. Generations'
    BY DEF IInv, Generations, ServeHealth, Serving, router
  <1>4. CallOK'
    BY DEF IInv, CallOK, ServeHealth, Serving, router
  <1>5. Resting'
    BY RequestOrigin DEF IInv, Resting, Busy, Settled, ServeHealth, Serving, router
  <1>6. RestoreProgress'
    BY RequestOrigin DEF IInv, RestoreProgress, ServeHealth, Serving
  <1>7. MainProgress'
    BY RequestOrigin DEF IInv, MainProgress, ServeHealth, Serving
  <1>8. ProxyMatchesCheckpoint'
    BY DEF IInv, ProxyMatchesCheckpoint, ServeHealth, Serving, router
  <1> QED BY <1>1, <1>2, <1>3, <1>4, <1>5, <1>6, <1>7, <1>8 DEF IInv

\* Sending a request changes nothing but the wire.
LEMMA StepSend == IInv /\ Send => IInv'
  <1> SUFFICES ASSUME IInv, Send PROVE IInv'
    OBVIOUS
  <1>1. TypeOK'
    <2>1. wire' \in Wire
      BY CallTyped DEF IInv, TypeOK, Wire, Send
    <2> QED BY <2>1 DEF IInv, TypeOK, Send, worker, router
  <1>2. Transport'
    BY DEF IInv, Transport, Idle, Send, worker, router
  <1>3. Generations'
    BY DEF IInv, Generations, Send, router
  <1>4. CallOK'
    BY DEF IInv, CallOK, Send, router
  <1>5. Resting'
    BY DEF IInv, Resting, Busy, Settled, Send, worker, router
  <1>6. RestoreProgress'
    BY DEF IInv, RestoreProgress, Holds, Send, worker, router
  <1>7. MainProgress'
    BY DEF IInv, MainProgress, Settled, Send, worker, router
  <1>8. ProxyMatchesCheckpoint'
    BY DEF IInv, ProxyMatchesCheckpoint, Send, router
  <1> QED BY <1>1, <1>2, <1>3, <1>4, <1>5, <1>6, <1>7, <1>8 DEF IInv

\* An end of file on the socket stops the child for good.
LEMMA StepEof == IInv /\ Eof => IInv'
  <1> SUFFICES ASSUME IInv, Eof PROVE IInv'
    OBVIOUS
  <1>1. TypeOK'
    <2>1. kv' \in [Session -> Seq(Token)]
      BY CallTyped DEF IInv, TypeOK, Call, Eof, Stop
    <2>2. wire' \in Wire
      BY CallTyped DEF IInv, TypeOK, Wire, Eof, Stop
    <2> QED BY <2>1, <2>2 DEF IInv, TypeOK, Eof, Stop
  <1>2. Transport'
    BY DEF IInv, Transport, Idle, Quiet, Eof, Stop
  <1>3. Generations'
    BY DEF IInv, Generations, Eof
  <1>4. CallOK'
    BY DEF IInv, CallOK, Eof
  <1>5. Resting'
    BY DEF IInv, Resting, Eof, Stop
  <1>6. RestoreProgress'
    BY DEF IInv, RestoreProgress, Holds, Quiet, Eof, Stop
  <1>7. MainProgress'
    BY DEF IInv, MainProgress, Quiet, Eof, Stop
  <1>8. ProxyMatchesCheckpoint'
    BY DEF IInv, ProxyMatchesCheckpoint, Eof
  <1> QED BY <1>1, <1>2, <1>3, <1>4, <1>5, <1>6, <1>7, <1>8 DEF IInv

\* A new child holds nothing, and the advanced generation makes every session stale.
LEMMA StepRestart == IInv /\ Restart => IInv'
  <1> SUFFICES ASSUME IInv, Restart PROVE IInv'
    OBVIOUS
  <1>1. TypeOK'
    <2>1. gen' \in Nat \ {0}
      BY DEF IInv, TypeOK, Restart, FirstStep
    <2>2. call' \in Call
      <3>1. FirstStep(call.s) \in {"init", "import", "replay", "main"} /\ 2 \in 0..2
        BY DEF FirstStep
      <3>2. call \in Call /\ call' = [call EXCEPT !.step = FirstStep(call.s), !.try = 2]
        BY DEF IInv, TypeOK, Restart
      <3> QED BY <3>1, <3>2, CallUpdate
    <2> QED BY <2>1, <2>2 DEF IInv, TypeOK, Restart
  <1>2. Transport'
    BY DEF IInv, Transport, Idle, Restart, Disconnected
  <1>3. Generations'
    BY DEF IInv, TypeOK, Generations, Restart
  <1>4. CallOK'
    <2>1. /\ call'.op = call.op /\ call'.s = call.s /\ call'.toks = call.toks
          /\ call'.step = FirstStep(call.s)
      <3>2. call \in Call /\ call' = [call EXCEPT !.step = FirstStep(call.s), !.try = 2]
        BY DEF IInv, TypeOK, Restart
      <3> QED BY <3>2 DEF Call
    <2>2. restored[call.s] <= gen /\ gen \in Nat /\ restored[call.s] \in Nat
      BY DEF IInv, TypeOK, Call, Generations
    <2>3. call.op \notin {"none", "health", "close"}
      BY DEF Restart, Disconnected, Retriable, Direct, Idle
    <2>4. /\ open' = open /\ dirty' = dirty /\ cp' = cp /\ restored' = restored
          /\ (cp[call.s].init => FirstStep(call.s) = "init")
          /\ FirstStep(call.s) \in {"init", "main"}
          /\ (FirstStep(call.s) # "main" => cp[call.s].init)
      BY <2>3 DEF Restart, FirstStep, IInv, CallOK
    <2> QED BY <2>1, <2>3, <2>4 DEF IInv, CallOK
  <1>5. Resting'
    <2>1. live = {} /\ live' = live
      BY DEF IInv, Transport, Restart, Disconnected
    <2>2. ASSUME NEW r \in Session PROVE restored'[r] # gen'
      <3>1. restored[r] \in Nat /\ gen \in Nat /\ restored[r] <= gen
        BY DEF IInv, TypeOK, Generations
      <3> QED BY <3>1 DEF Restart
    <2> QED BY <2>1, <2>2 DEF Resting, Settled, IInv, TypeOK, Restart
  <1>6. RestoreProgress'
    BY DEF IInv, RestoreProgress, Restart, Disconnected, FirstStep
  <1>7. MainProgress'
    BY DEF IInv, TypeOK, MainProgress, Settled, Restart, Disconnected, Call, Transport, Generations
  <1>8. ProxyMatchesCheckpoint'
    BY DEF IInv, ProxyMatchesCheckpoint, Restart
  <1> QED BY <1>1, <1>2, <1>3, <1>4, <1>5, <1>6, <1>7, <1>8 DEF IInv

\* A call that may not be retried ends with DecodeWorkerUnavailable.
LEMMA StepGiveUp == IInv /\ GiveUp => IInv'
  <1> SUFFICES ASSUME IInv, GiveUp PROVE IInv'
    OBVIOUS
  <1>1. TypeOK'
    <2>1. call' \in Call
      BY CallTyped DEF IInv, GiveUp, Finish
    <2>2. last' \in Outcome
      BY DEF IInv, TypeOK, Outcome, Call, GiveUp, Finish
    <2>3. dirty' \subseteq Session
      BY DEF IInv, TypeOK, Call, GiveUp, Dirtied
    <2> QED BY <2>1, <2>2, <2>3 DEF IInv, TypeOK, GiveUp, worker
  <1>2. Transport'
    BY DEF IInv, Transport, NoCall, GiveUp, Disconnected, Finish, worker
  <1>3. Generations'
    BY DEF IInv, Generations, GiveUp
  <1>4. CallOK'
    BY DEF IInv, CallOK, NoCall, GiveUp, Finish
  <1>5. Resting'
    BY DEF IInv, Resting, GiveUp, Disconnected, worker, Transport
  <1>6. RestoreProgress'
    BY DEF IInv, RestoreProgress, NoCall, GiveUp, Finish
  <1>7. MainProgress'
    BY DEF IInv, MainProgress, GiveUp, Disconnected, worker, Transport
  <1>8. ProxyMatchesCheckpoint'
    BY DEF IInv, ProxyMatchesCheckpoint, GiveUp
  <1> QED BY <1>1, <1>2, <1>3, <1>4, <1>5, <1>6, <1>7, <1>8 DEF IInv

\* A call the child refused ends; a refused import leaves its session dirty.
LEMMA StepRemoteError == IInv /\ RemoteError => IInv'
  <1> SUFFICES ASSUME IInv, RemoteError PROVE IInv'
    OBVIOUS
  <1>1. TypeOK'
    <2>1. call' \in Call
      BY CallTyped DEF IInv, RemoteError, Finish
    <2>2. last' \in Outcome
      BY DEF IInv, TypeOK, Outcome, Call, RemoteError, Finish
    <2>3. dirty' \subseteq Session
      BY DEF IInv, TypeOK, Call, RemoteError, Dirtied
    <2>4. wire' \in Wire
      BY CallTyped DEF IInv, RemoteError
    <2> QED BY <2>1, <2>2, <2>3, <2>4 DEF IInv, TypeOK, RemoteError, worker
  <1>2. Transport'
    BY DEF IInv, Transport, Quiet, NoCall, RemoteError, Finish, worker
  <1>3. Generations'
    BY DEF IInv, Generations, RemoteError
  <1>4. CallOK'
    BY DEF IInv, CallOK, NoCall, RemoteError, Finish
  <1>5. Resting'
    <2> SUFFICES ASSUME alive, NEW r \in open, r \notin dirty' PROVE Settled(r)
      BY DEF IInv, Resting, Settled, RemoteError, worker
    <2>1. CASE Busy(r)
      <3>1. call.step = "main" /\ call.op \in {"append", "generate"}
        BY <2>1 DEF IInv, TypeOK, Call, Ops, RestoreProgress, MainProgress, RemoteError, Dirtied, Importing, Busy
      <3> QED BY <2>1, <3>1 DEF IInv, MainProgress, RemoteError, Busy
    <2>2. CASE ~Busy(r)
      <3>1. r \notin dirty
        BY <2>2 DEF RemoteError, Dirtied, Importing, Busy
      <3> QED BY <2>2, <3>1 DEF IInv, Resting
    <2> QED BY <2>1, <2>2
  <1>6. RestoreProgress'
    BY DEF IInv, RestoreProgress, NoCall, RemoteError, Finish
  <1>7. MainProgress'
    BY DEF IInv, MainProgress, NoCall, RemoteError, Finish
  <1>8. ProxyMatchesCheckpoint'
    BY DEF IInv, ProxyMatchesCheckpoint, RemoteError
  <1> QED BY <1>1, <1>2, <1>3, <1>4, <1>5, <1>6, <1>7, <1>8 DEF IInv

\* A restore goes on to its next request, and marks the session restored at the last.
LEMMA StepRestoring == IInv /\ Restoring => IInv'
  <1> SUFFICES ASSUME IInv, Restoring PROVE IInv'
    OBVIOUS
  <1>1. TypeOK'
    <2>1. call' \in Call
      <3>1. NextStep \in {"init", "import", "replay", "main"}
        BY DEF NextStep
      <3>2. (IF NextStep = "main" /\ call.try = 0 THEN 1 ELSE call.try) \in 0..2
        BY DEF IInv, TypeOK, Call
      <3>3. /\ call \in Call
            /\ call' = [call EXCEPT !.step = NextStep,
                          !.try = IF NextStep = "main" /\ call.try = 0 THEN 1 ELSE call.try]
        BY DEF IInv, TypeOK, Restoring
      <3> QED BY <3>1, <3>2, <3>3, CallUpdate
    <2>2. restored' \in [Session -> Nat]
      BY DEF IInv, TypeOK, Call, Restoring, NextStep
    <2>3. wire' \in Wire
      BY CallTyped DEF IInv, TypeOK, Wire, Restoring, NextStep
    <2> QED BY <2>1, <2>2, <2>3 DEF IInv, TypeOK, Restoring, worker
  <1>2. Transport'
    BY DEF IInv, Transport, Idle, Restoring, worker
  <1>3. Generations'
    BY DEF IInv, TypeOK, Generations, Restoring, CallOK
  <1>4. CallOK'
    BY DEF IInv, TypeOK, CallOK, Restoring, NextStep
  <1>5. Resting'
    BY DEF IInv, TypeOK, Resting, Busy, Settled, Restoring, worker, CallOK
  <1>6. RestoreProgress'
    BY DEF IInv, RestoreProgress, Holds, Quiet, Restoring, NextStep, worker
  <1>7. MainProgress'
    <2>1. /\ call'.op = call.op /\ call'.s = call.s /\ call'.step = NextStep
          /\ wire'.st = "none" /\ call.op \notin {"none", "health", "close"}
      <3>1. NextStep \in {"init", "import", "replay", "main"}
        BY DEF NextStep
      <3>2. (IF NextStep = "main" /\ call.try = 0 THEN 1 ELSE call.try) \in 0..2
        BY DEF IInv, TypeOK, Call
      <3>3. /\ call \in Call
            /\ call' = [call EXCEPT !.step = NextStep,
                          !.try = IF NextStep = "main" /\ call.try = 0 THEN 1 ELSE call.try]
        BY DEF IInv, TypeOK, Restoring
      <3>4. call'.op = call.op /\ call'.s = call.s /\ call'.step = NextStep
        BY <3>3 DEF Call
      <3> QED BY <3>4 DEF IInv, Restoring, Quiet, CallOK
    <2> SUFFICES ASSUME NextStep = "main", alive PROVE Settled(call.s)'
      BY <2>1 DEF MainProgress, Restoring, worker
    <2>2. /\ cp[call.s].init /\ <<>> \in Seq(Token)
          /\ cp[call.s].snap \in Seq(Token) /\ cp[call.s].replay \in Seq(Token)
      BY DEF IInv, TypeOK, CallOK, Restoring, Checkpoint
    <2>3. call.s \in live /\ kv[call.s] = History(cp[call.s])
      <3>1. CASE call.step = "init"
        BY <3>1, <2>2, ConcatFacts DEF NextStep, Restoring, IInv, RestoreProgress, Holds, History
      <3>2. CASE call.step = "import"
        BY <3>2, <2>2, ConcatFacts DEF NextStep, Restoring, IInv, RestoreProgress, Holds, History
      <3>3. CASE call.step = "replay"
        BY <3>3 DEF Restoring, IInv, RestoreProgress, Holds, History
      <3> QED BY <3>1, <3>2, <3>3 DEF IInv, TypeOK, Call, Restoring
    <2> QED BY <2>2, <2>3 DEF Settled, Restoring, worker
  <1>8. ProxyMatchesCheckpoint'
    BY DEF IInv, ProxyMatchesCheckpoint, Restoring
  <1> QED BY <1>1, <1>2, <1>3, <1>4, <1>5, <1>6, <1>7, <1>8 DEF IInv

\* The Init of an import is answered and ImportSnapshot follows.
LEMMA StepImportInitDone == IInv /\ ImportInitDone => IInv'
  <1> SUFFICES ASSUME IInv, ImportInitDone PROVE IInv'
    OBVIOUS
  <1>1. TypeOK'
    <2>1. call' \in Call
      <3>1. call \in Call /\ "import" \in Ops /\ 1 \in 0..2
        BY DEF IInv, TypeOK, Ops
      <3>2. call' = [call EXCEPT !.op = "import", !.try = 1]
        BY DEF ImportInitDone
      <3> QED BY <3>1, <3>2, Zenon DEF Call
    <2>2. wire' \in Wire
      BY CallTyped DEF IInv, TypeOK, Wire, ImportInitDone, Answered
    <2> QED BY <2>1, <2>2 DEF IInv, TypeOK, ImportInitDone, worker, router
  <1>2. Transport'
    BY DEF IInv, Transport, Quiet, ImportInitDone, Answered, worker, router
  <1>3. Generations'
    BY DEF IInv, Generations, ImportInitDone, router
  <1>4. CallOK'
    BY DEF IInv, CallOK, ImportInitDone, Answered, router
  <1>5. Resting'
    BY DEF IInv, TypeOK, Resting, Busy, Settled, ImportInitDone, worker, router
  <1>6. RestoreProgress'
    BY DEF IInv, RestoreProgress, ImportInitDone, Answered
  <1>7. MainProgress'
    BY DEF IInv, MainProgress, Quiet, ImportInitDone
  <1>8. ProxyMatchesCheckpoint'
    BY DEF IInv, ProxyMatchesCheckpoint, ImportInitDone, router
  <1> QED BY <1>1, <1>2, <1>3, <1>4, <1>5, <1>6, <1>7, <1>8 DEF IInv

\* The answer to Health changes no session.
LEMMA StepHealthDone == IInv /\ HealthDone => IInv'
  <1> SUFFICES ASSUME IInv, HealthDone PROVE IInv'
    OBVIOUS
  <1>1. TypeOK'
    <2>1. call' \in Call
      BY CallTyped DEF IInv, HealthDone, Finish
    <2>2. last' \in Outcome
      BY DEF IInv, TypeOK, HealthDone, Answered, Finish
    <2>3. wire' \in Wire
      BY CallTyped DEF IInv, HealthDone
    <2> QED BY <2>1, <2>2, <2>3 DEF IInv, TypeOK, HealthDone, worker, router
  <1>2. Transport'
    BY DEF IInv, Transport, Quiet, NoCall, HealthDone, Finish, worker, router
  <1>3. Generations'
    BY DEF IInv, Generations, HealthDone, router
  <1>4. CallOK'
    BY DEF IInv, CallOK, NoCall, HealthDone, Finish
  <1>5. Resting'
    BY DEF IInv, Resting, Busy, Settled, HealthDone, Answered, worker, router
  <1>6. RestoreProgress'
    BY DEF IInv, RestoreProgress, NoCall, HealthDone, Finish
  <1>7. MainProgress'
    BY DEF IInv, MainProgress, NoCall, HealthDone, Finish
  <1>8. ProxyMatchesCheckpoint'
    BY DEF IInv, ProxyMatchesCheckpoint, HealthDone, router
  <1> QED BY <1>1, <1>2, <1>3, <1>4, <1>5, <1>6, <1>7, <1>8 DEF IInv

\* close_session forgets the session, whether or not the child answered.
LEMMA StepCloseDone == IInv /\ CloseDone => IInv'
  <1> SUFFICES ASSUME IInv, CloseDone PROVE IInv'
    OBVIOUS
  <1>1. TypeOK'
    <2>1. cp' \in [Session -> Checkpoint]
      BY FreshTyped DEF IInv, TypeOK, Call, CloseDone
    <2>2. proxy' \in [Session -> Seq(Token)]
      BY DEF IInv, TypeOK, Call, CloseDone
    <2>3. call' \in Call
      BY CallTyped DEF IInv, CloseDone, Finish
    <2>4. last' \in Outcome
      BY DEF IInv, TypeOK, Outcome, Call, CloseDone, Finish
    <2>5. wire' \in Wire
      BY CallTyped DEF IInv, TypeOK, Wire, CloseDone, Finish
    <2>6. restored' \in [Session -> Nat]
      BY DEF IInv, TypeOK, Call, CloseDone, Finish
    <2>7. open' \subseteq Session
      BY DEF IInv, TypeOK, CloseDone, Finish
    <2>8. dirty' \subseteq Session
      BY DEF IInv, TypeOK, Call, CloseDone, Finish
    <2> QED BY <2>1, <2>2, <2>3, <2>4, <2>5, <2>6, <2>7, <2>8 DEF IInv, TypeOK, CloseDone, worker
  <1>2. Transport'
    BY DEF IInv, Transport, Quiet, NoCall, CloseDone, Finish, worker
  <1>3. Generations'
    <2> SUFFICES ASSUME NEW r \in Session
                 PROVE  /\ restored'[r] <= gen /\ (restored'[r] = gen => cp'[r].init)
                        /\ (r \notin open' => cp'[r] = FreshCheckpoint /\ restored'[r] = 0)
                        /\ cp'[r].snap \notin BadSnapshots
                        /\ (~cp'[r].init => History(cp'[r]) = <<>>)
      BY DEF Generations, CloseDone
    <2>1. CASE r = call.s
      BY <2>1, FreshTyped, SnapshotAssumption DEF IInv, TypeOK, CloseDone, FreshCheckpoint
    <2>2. CASE r # call.s
      BY <2>2 DEF IInv, TypeOK, Generations, CloseDone
    <2> QED BY <2>1, <2>2
  <1>4. CallOK'
    BY DEF IInv, CallOK, NoCall, CloseDone, Finish
  <1>5. Resting'
    BY DEF IInv, TypeOK, Resting, Busy, Settled, CloseDone, Disconnected, worker, CallOK, Transport, MainProgress
  <1>6. RestoreProgress'
    BY DEF IInv, RestoreProgress, NoCall, CloseDone, Finish
  <1>7. MainProgress'
    BY DEF IInv, MainProgress, NoCall, CloseDone, Finish
  <1>8. ProxyMatchesCheckpoint'
    BY DEF IInv, TypeOK, ProxyMatchesCheckpoint, CloseDone
  <1> QED BY <1>1, <1>2, <1>3, <1>4, <1>5, <1>6, <1>7, <1>8 DEF IInv

\* A child that exits on its own takes all K/V with it.
LEMMA StepWorkerDies == IInv /\ WorkerDies => IInv'
  <1> SUFFICES ASSUME IInv, WorkerDies PROVE IInv'
    OBVIOUS
  <1>1. TypeOK'
    <2>1. kv' \in [Session -> Seq(Token)]
      BY CallTyped DEF IInv, TypeOK, Call, WorkerDies, Fault
    <2>2. faults' \in Nat
      BY DEF IInv, TypeOK, WorkerDies, Fault
    <2> QED BY <2>1, <2>2 DEF IInv, TypeOK, WorkerDies, router
  <1>2. Transport'
    BY DEF IInv, Transport, Idle, WorkerDies, router
  <1>3. Generations'
    BY DEF IInv, Generations, WorkerDies, router
  <1>4. CallOK'
    BY DEF IInv, CallOK, WorkerDies, router
  <1>5. Resting'
    BY DEF IInv, Resting, WorkerDies
  <1>6. RestoreProgress'
    BY DEF IInv, RestoreProgress, Holds, WorkerDies
  <1>7. MainProgress'
    BY DEF IInv, MainProgress, Holds, WorkerDies, router
  <1>8. ProxyMatchesCheckpoint'
    BY DEF IInv, ProxyMatchesCheckpoint, WorkerDies, router
  <1> QED BY <1>1, <1>2, <1>3, <1>4, <1>5, <1>6, <1>7, <1>8 DEF IInv

\* A child that hangs keeps what it holds and answers nothing.
LEMMA StepWorkerHangs == IInv /\ WorkerHangs => IInv'
  <1> SUFFICES ASSUME IInv, WorkerHangs PROVE IInv'
    OBVIOUS
  <1> USE DEF WorkerHangs, router
  <1>1. TypeOK'
    <2>1. faults' \in Nat
      BY DEF IInv, TypeOK, Fault
    <2> QED BY <2>1 DEF IInv, TypeOK
  <1>2. Transport' /\ Generations' /\ CallOK' /\ ProxyMatchesCheckpoint'
    BY DEF IInv, Transport, Idle, Generations, CallOK, ProxyMatchesCheckpoint
  <1>3. Resting'
    BY DEF IInv, Resting, Busy, Settled
  <1>4. RestoreProgress'
    BY DEF IInv, RestoreProgress, Holds
  <1>5. MainProgress'
    BY DEF IInv, MainProgress, Holds, Settled
  <1> QED BY <1>1, <1>2, <1>3, <1>4, <1>5 DEF IInv

\* A timeout kills the child, whether or not it had executed the request.
LEMMA StepTimeout == IInv /\ Timeout => IInv'
  <1> SUFFICES ASSUME IInv, Timeout PROVE IInv'
    OBVIOUS
  <1>1. TypeOK'
    <2>1. kv' \in [Session -> Seq(Token)]
      BY CallTyped DEF IInv, Timeout, Stop
    <2>2. wire' \in Wire
      BY CallTyped DEF IInv, Timeout, Stop
    <2>3. faults' \in Nat
      BY DEF IInv, TypeOK, Timeout, Stop, Fault
    <2> QED BY <2>1, <2>2, <2>3 DEF IInv, TypeOK, Timeout, Stop
  <1>2. Transport'
    BY DEF IInv, Transport, Idle, Quiet, Timeout, Stop
  <1>3. Generations'
    BY DEF IInv, Generations, Timeout
  <1>4. CallOK'
    BY DEF IInv, CallOK, Timeout
  <1>5. Resting'
    BY DEF IInv, Resting, Timeout, Stop
  <1>6. RestoreProgress'
    BY DEF IInv, RestoreProgress, Holds, Quiet, Timeout, Stop
  <1>7. MainProgress'
    BY DEF IInv, MainProgress, Quiet, Timeout, Stop
  <1>8. ProxyMatchesCheckpoint'
    BY DEF IInv, ProxyMatchesCheckpoint, Timeout
  <1> QED BY <1>1, <1>2, <1>3, <1>4, <1>5, <1>6, <1>7, <1>8 DEF IInv

\* A cancel kills the child and leaves the checkpoint as it was.
LEMMA StepCancel == IInv /\ Cancel => IInv'
  <1> SUFFICES ASSUME IInv, Cancel PROVE IInv'
    OBVIOUS
  <1>1. TypeOK'
    <2>1. kv' \in [Session -> Seq(Token)]
      BY CallTyped DEF IInv, Cancel, Stop
    <2>2. wire' \in Wire
      BY CallTyped DEF IInv, Cancel, Stop
    <2>3. call' \in Call
      BY CallTyped DEF IInv, Cancel, Finish
    <2>4. last' \in Outcome
      BY DEF IInv, TypeOK, Outcome, Call, Cancel, Finish
    <2>5. faults' \in Nat
      BY DEF IInv, TypeOK, Cancel, Fault
    <2> QED BY <2>1, <2>2, <2>3, <2>4, <2>5 DEF IInv, TypeOK, Cancel, Stop
  <1>2. Transport'
    BY DEF IInv, Transport, Quiet, NoCall, Cancel, Stop, Finish
  <1>3. Generations'
    BY DEF IInv, Generations, Cancel
  <1>4. CallOK'
    BY DEF IInv, CallOK, NoCall, Cancel, Finish
  <1>5. Resting'
    BY DEF IInv, Resting, Cancel, Stop
  <1>6. RestoreProgress'
    BY DEF IInv, RestoreProgress, NoCall, Cancel, Finish
  <1>7. MainProgress'
    BY DEF IInv, MainProgress, NoCall, Cancel, Finish
  <1>8. ProxyMatchesCheckpoint'
    BY DEF IInv, ProxyMatchesCheckpoint, Cancel
  <1> QED BY <1>1, <1>2, <1>3, <1>4, <1>5, <1>6, <1>7, <1>8 DEF IInv

\* A child that cannot be started ends the call.
LEMMA StepStartFails == IInv /\ StartFails => IInv'
  <1> SUFFICES ASSUME IInv, StartFails PROVE IInv'
    OBVIOUS
  <1>1. TypeOK'
    <2>1. call' \in Call
      BY CallTyped DEF IInv, StartFails, Finish
    <2>2. last' \in Outcome
      BY DEF IInv, TypeOK, Outcome, Call, StartFails, Finish
    <2>3. dirty' \subseteq Session
      BY DEF IInv, TypeOK, Call, StartFails, Dirtied
    <2>4. faults' \in Nat
      BY DEF IInv, TypeOK, StartFails, Fault
    <2> QED BY <2>1, <2>2, <2>3, <2>4 DEF IInv, TypeOK, StartFails, worker
  <1>2. Transport'
    BY DEF IInv, Transport, NoCall, StartFails, Disconnected, Finish, worker
  <1>3. Generations'
    BY DEF IInv, Generations, StartFails
  <1>4. CallOK'
    BY DEF IInv, CallOK, NoCall, StartFails, Finish
  <1>5. Resting'
    BY DEF IInv, Resting, StartFails, Disconnected, worker, Transport
  <1>6. RestoreProgress'
    BY DEF IInv, RestoreProgress, NoCall, StartFails, Finish
  <1>7. MainProgress'
    BY DEF IInv, MainProgress, StartFails, Disconnected, worker, Transport
  <1>8. ProxyMatchesCheckpoint'
    BY DEF IInv, ProxyMatchesCheckpoint, StartFails
  <1> QED BY <1>1, <1>2, <1>3, <1>4, <1>5, <1>6, <1>7, <1>8 DEF IInv

\* hard_kill between two calls loses the child and nothing else.
LEMMA Stephard_kill == IInv /\ hard_kill => IInv'
  <1> SUFFICES ASSUME IInv, hard_kill PROVE IInv'
    OBVIOUS
  <1>1. TypeOK'
    <2>1. kv' \in [Session -> Seq(Token)]
      BY CallTyped DEF IInv, hard_kill, Stop
    <2>2. wire' \in Wire
      BY CallTyped DEF IInv, hard_kill, Stop
    <2>3. faults' \in Nat
      BY DEF IInv, TypeOK, hard_kill, Stop, Fault
    <2> QED BY <2>1, <2>2, <2>3 DEF IInv, TypeOK, hard_kill, Stop
  <1>2. Transport'
    BY DEF IInv, Transport, Quiet, hard_kill, Stop
  <1>3. Generations'
    BY DEF IInv, Generations, hard_kill
  <1>4. CallOK'
    BY DEF IInv, CallOK, hard_kill
  <1>5. Resting'
    BY DEF IInv, Resting, hard_kill, Stop
  <1>6. RestoreProgress'
    BY DEF IInv, RestoreProgress, hard_kill, Transport
  <1>7. MainProgress'
    BY DEF IInv, MainProgress, Quiet, hard_kill, Stop
  <1>8. ProxyMatchesCheckpoint'
    BY DEF IInv, ProxyMatchesCheckpoint, hard_kill
  <1> QED BY <1>1, <1>2, <1>3, <1>4, <1>5, <1>6, <1>7, <1>8 DEF IInv

-----------------------------------------------------------------------------
(* The inductive invariant and what follows from it.                         *)

\* After __init__ the child is empty and no session is open.
LEMMA InitIInv == Init => IInv
  <1> SUFFICES ASSUME Init PROVE IInv
    OBVIOUS
  <1>1. TypeOK
    <2>1. /\ cp \in [Session -> Checkpoint] /\ last \in Outcome /\ call \in Call
          /\ restored \in [Session -> Nat] /\ proxy \in [Session -> Seq(Token)]
      BY FreshTyped, CallTyped DEF Init, Outcome, Call
    <2>2. /\ kv \in [Session -> Seq(Token)] /\ wire \in Wire
          /\ live \subseteq Session /\ open \subseteq Session /\ dirty \subseteq Session
          /\ gen \in Nat \ {0} /\ faults \in Nat
      BY CallTyped DEF Init
    <2>3. alive \in BOOLEAN /\ hung \in BOOLEAN /\ conn \in BOOLEAN
      BY DEF Init
    <2> QED BY <2>1, <2>2, <2>3 DEF TypeOK
  <1>2. Transport /\ CallOK /\ Resting /\ RestoreProgress /\ MainProgress
    BY DEF Init, Transport, CallOK, Resting, RestoreProgress, MainProgress, NoCall, Quiet
  <1>3. Generations
    BY FreshTyped, SnapshotAssumption DEF Init, Generations, FreshCheckpoint
  <1>4. ProxyMatchesCheckpoint
    BY DEF Init, ProxyMatchesCheckpoint
  <1> QED BY <1>1, <1>2, <1>3, <1>4 DEF IInv

\* The invariant is inductive: one lemma for each action of Next.
LEMMA Inductive == IInv /\ [Next]_vars => IInv'
  <1> SUFFICES ASSUME IInv, [Next]_vars PROVE IInv'
    OBVIOUS
  <1>1. CASE \E s \in Session : Begin(s)
    BY <1>1, StepBegin
  <1>2. CASE health
    <2>1. PICK s \in Session : Start("health", s, <<>>)
      BY <1>2 DEF health
    <2>2. <<>> \in Seq(Token)
      OBVIOUS
    <2> QED BY <2>1, <2>2, StepStart DEF Ops
  <1>3. CASE Serve
    BY <1>3, StepServeInit, StepServeImportSnapshot, StepServeAppend,
       StepServeGenerateStep, StepServeClose, StepServeHealth DEF Serve
  <1>4. CASE Route
    BY <1>4, StepSend, StepEof, StepRestart, StepGiveUp, StepRemoteError, StepRestoring,
       StepCommitPrefill, StepCommitAppend, StepCommitGenerate, StepImportInitDone,
       StepCommitImport, StepCommitReset, StepHealthDone, StepCloseDone DEF Route
  <1>5. CASE Environment
    BY <1>5, StepWorkerDies, StepWorkerHangs, StepTimeout, StepCancel, StepStartFails, Stephard_kill
       DEF Environment
  <1>6. CASE UNCHANGED vars
    <2> USE <1>6 DEF vars, worker, router, IInv
    <2>1. TypeOK' /\ Transport' /\ Generations' /\ CallOK' /\ ProxyMatchesCheckpoint'
      BY DEF TypeOK, Transport, Generations, CallOK, ProxyMatchesCheckpoint, Idle
    <2>2. Resting'
      BY DEF Resting, Settled, Busy
    <2>3. RestoreProgress'
      BY DEF RestoreProgress, Holds
    <2>4. MainProgress'
      BY DEF MainProgress, Holds, Settled
    <2> QED BY <2>1, <2>2, <2>3, <2>4
  <1> QED BY <1>1, <1>2, <1>3, <1>4, <1>5, <1>6 DEF Next

\* The inductive invariant holds in every reachable state.
THEOREM Invariance == Spec => []IInv
  BY InitIInv, Inductive, PTL DEF Spec

\* Every reachable state of the client and its child is well typed.
THEOREM TypeCorrect == Spec => []TypeOK
  <1>1. IInv => TypeOK
    BY DEF IInv
  <1> QED BY <1>1, Invariance, PTL

\* A restored session holds, in the child, exactly its acknowledged history.
THEOREM RestoredIsFaithful == Spec => []WorkerMatchesCheckpoint
  <1>1. IInv => WorkerMatchesCheckpoint
    BY DEF IInv, Resting, Settled, Busy, Idle, WorkerMatchesCheckpoint
  <1> QED BY <1>1, Invariance, PTL

\* What a proxy tells the session store is the acknowledged history.
THEOREM ProxyIsFaithful == Spec => []ProxyMatchesCheckpoint
  <1>1. IInv => ProxyMatchesCheckpoint
    BY DEF IInv
  <1> QED BY <1>1, Invariance, PTL

\* close_session leaves no K/V behind, whatever happened to its request.
THEOREM CloseLeavesNoKV == Spec => []NoOrphanedKV
  <1>1. IInv => NoOrphanedKV
    BY DEF IInv, Resting, NoOrphanedKV
  <1> QED BY <1>1, Invariance, PTL

-----------------------------------------------------------------------------
(* DecodeWorkerClient implements DecodeSession: behind restarts, restores and *)
(* retries every operation is applied to the committed history once or not at *)
(* all, for every set of sessions and any number of faults.                   *)

\* What each operation does to a committed history.
After(h) == CASE call.op \in {"prefill", "import"} -> call.toks
              [] call.op = "append"                -> h \o call.toks
              [] call.op = "generate"              -> Append(h, Greedy(h))
              [] OTHER                             -> <<>>

\* Checkpoints, open sessions and the caller's operation stay as they are.
Invisible == UNCHANGED <<open, cp, pendingOp>>

\* A client with no session and no operation is the initial abstract state.
LEMMA InitRefines == Init => Abstract!Init
  BY FreshTyped DEF Init, Abstract!Init, Abstract!NoOp, pendingOp, NoCall

\* A step that changes none of the three is a stutter of the abstract session.
LEMMA InvisibleRefines == Invisible => UNCHANGED Abstract!vars
  BY DEF Invisible, Abstract!vars

\* Taking the client lock for an operation submits it.
LEMMA BeginSubmits ==
  ASSUME IInv, NEW op \in {"prefill", "append", "generate", "importInit", "reset", "close"},
         NEW s \in Session, NEW toks \in Prompts \cup Snapshots \cup {<<>>}, Start(op, s, toks),
         op = "close" \/ s \in open
  PROVE  Abstract!Next
  <1> DEFINE kind == IF op = "importInit" THEN "import" ELSE op
  <1>1. Abstract!Submit(kind, s, toks)
    <2>1. pendingOp = Abstract!NoOp
      BY DEF Start, Idle, pendingOp, Abstract!NoOp
    <2>2. pendingOp' = Abstract!Op(kind, s, toks)
      BY DEF Start, pendingOp, Abstract!Op
    <2>3. open' = open /\ cp' = cp
      BY DEF Start, router
    <2> QED BY <2>1, <2>2, <2>3 DEF Abstract!Submit
  <1>2. kind \in Abstract!Kinds
    BY DEF Abstract!Kinds
  <1> QED BY <1>1, <1>2 DEF Abstract!Next

\* An operation ends and the checkpoint of its session alone moves on.
LEMMA CommitRefines ==
  ASSUME IInv, NEW c \in Checkpoint, call.op \in {"prefill", "append", "generate", "import", "reset", "close"},
         call' = NoCall, cp' = [cp EXCEPT ![call.s] = c],
         History(c) = After(History(cp[call.s])),
         call.op = "generate" => History(cp[call.s]) # <<>>,
         open' = IF call.op = "close" THEN open \ {call.s} ELSE open
  PROVE  Abstract!Next
  <1> DEFINE log == [s \in Session |-> History(cp[s])]
  <1>1. call.s \in Session /\ cp \in [Session -> Checkpoint]
    BY DEF IInv, TypeOK, Call
  <1>2. pendingOp = [op |-> call.op, s |-> call.s, toks |-> call.toks] /\ pendingOp # Abstract!NoOp
    BY DEF pendingOp, Abstract!NoOp
  <1>3. log[call.s] = History(cp[call.s])
    BY <1>1
  <1>4. Abstract!Effect(pendingOp) = After(History(cp[call.s]))
    BY <1>2, <1>3 DEF Abstract!Effect, After
  <1>5. log' = [log EXCEPT ![call.s] = History(c)]
    BY <1>1
  <1>6. pendingOp' = Abstract!NoOp
    BY DEF pendingOp, Abstract!NoOp, NoCall
  <1>7. Abstract!Commit
    BY <1>2, <1>3, <1>4, <1>5, <1>6 DEF Abstract!Commit
  <1> QED BY <1>7 DEF Abstract!Next

\* An operation other than close ends in an error and leaves the history alone.
LEMMA AbortRefines ==
  ASSUME call.op # "close", call' = NoCall, UNCHANGED <<open, cp>>
  PROVE  Abstract!Next \/ UNCHANGED Abstract!vars
  <1>1. CASE call.op \in {"none", "health"}
    BY <1>1, InvisibleRefines DEF Invisible, pendingOp, NoCall
  <1>2. CASE call.op \notin {"none", "health"}
    <2>1. pendingOp # Abstract!NoOp /\ pendingOp.op # "close" /\ pendingOp' = Abstract!NoOp
      BY <1>2 DEF pendingOp, Abstract!NoOp, NoCall
    <2>2. Abstract!Abort
      BY <2>1 DEF Abstract!Abort
    <2> QED BY <2>2 DEF Abstract!Next
  <1> QED BY <1>1, <1>2

\* The public operations: get opens a session, the others hand over an operation.
LEMMA BeginRefines == ASSUME NEW s \in Session, IInv, Begin(s) PROVE Abstract!Next
  <1>1. CASE prefill(s)
    BY <1>1, BeginSubmits DEF prefill, Usable
  <1>2. CASE append_accepted_tokens(s)
    BY <1>2, BeginSubmits DEF append_accepted_tokens, Usable
  <1>3. CASE generate_step(s)
    BY <1>3, BeginSubmits DEF generate_step, Usable
  <1>4. CASE import_snapshot(s)
    BY <1>4, BeginSubmits DEF import_snapshot, Usable
  <1>5. CASE reset(s)
    BY <1>5, BeginSubmits DEF reset
  <1>6. CASE close_session(s)
    BY <1>6, BeginSubmits DEF close_session
  <1>7. CASE get(s)
    <2> DEFINE log == [r \in Session |-> History(cp[r])]
    <2>1. cp \in [Session -> Checkpoint] /\ cp' = [cp EXCEPT ![s] = FreshCheckpoint]
      BY <1>7 DEF get, IInv, TypeOK
    <2>2. log' = [log EXCEPT ![s] = <<>>]
      BY <2>1, FreshTyped
    <2>3. pendingOp = Abstract!NoOp /\ pendingOp' = Abstract!NoOp
      BY <1>7 DEF get, Idle, pendingOp, Abstract!NoOp
    <2>4. Abstract!Open(s)
      BY <1>7, <2>2, <2>3 DEF get, Abstract!Open
    <2> QED BY <2>4 DEF Abstract!Next
  <1> QED BY <1>1, <1>2, <1>3, <1>4, <1>5, <1>6, <1>7 DEF Begin

\* The child's steps are not visible to the caller.
LEMMA ServeRefines == ASSUME Serve PROVE UNCHANGED Abstract!vars
  <1>1. UNCHANGED <<router, call>>
    BY DEF Serve, ServeInit, ServeImportSnapshot, ServeAppend, ServeGenerateStep, ServeClose,
       ServeHealth, Serving
  <1> QED BY <1>1, InvisibleRefines DEF Invisible, router, pendingOp

\* Each successful reply commits its operation exactly once.
LEMMA ReplyRefines ==
  ASSUME IInv, \/ CommitPrefill \/ CommitAppend \/ CommitGenerate \/ CommitImport \/ CommitReset
               \/ CloseDone
  PROVE  Abstract!Next
  <1> DEFINE o == cp[call.s]
  <1>0. /\ o \in Checkpoint /\ o.snap \in Seq(Token) /\ o.replay \in Seq(Token)
        /\ call.toks \in Seq(Token) /\ History(o) \in Seq(Token)
    BY HistoryType DEF IInv, TypeOK, Call, Checkpoint
  <1>1. CASE CommitPrefill
    <2> DEFINE c == Whole(<<>>, call.toks)
    <2>1. c \in Checkpoint /\ History(c) = call.toks
      BY <1>0 DEF History, Whole, Checkpoint
    <2>2. /\ call.op = "prefill" /\ call' = NoCall /\ cp' = [cp EXCEPT ![call.s] = c]
          /\ open' = open /\ After(History(o)) = call.toks
      BY <1>1 DEF CommitPrefill, Commit, Finish, Answered, After
    <2> HIDE DEF c
    <2> QED BY <2>1, <2>2, CommitRefines
  <1>2. CASE CommitAppend
    <2> DEFINE c == [o EXCEPT !.replay = @ \o call.toks]
    <2>1. c \in Checkpoint /\ c.snap = o.snap /\ c.replay = o.replay \o call.toks
      <3>1. c = [o EXCEPT !.replay = o.replay \o call.toks] /\ o.replay \o call.toks \in Seq(Token)
        BY <1>0
      <3> QED BY <1>0, <3>1, ReplayUpdate
    <2>2. o.snap \o (o.replay \o call.toks) = (o.snap \o o.replay) \o call.toks
      <3>1. o.snap \in Seq(Token) /\ o.replay \in Seq(Token) /\ call.toks \in Seq(Token)
        BY <1>0
      <3> HIDE DEF o, c
      <3> QED BY Zenon, <3>1, Regroup
    <2>3. History(c) = History(o) \o call.toks
      BY <2>1, <2>2 DEF History
    <2>4. /\ call.op = "append" /\ call' = NoCall /\ cp' = [cp EXCEPT ![call.s] = c]
          /\ open' = open
      BY <1>2 DEF CommitAppend, Commit, Finish, Answered
    <2>5. After(History(o)) = History(o) \o call.toks
      BY <2>4 DEF After
    <2> HIDE DEF c
    <2> QED BY <2>1, <2>3, <2>4, <2>5, CommitRefines
  <1>3. CASE CommitGenerate
    <2> DEFINE t == Greedy(History(o))
               c == [o EXCEPT !.replay = Append(@, wire.state[Len(wire.state)])]
    <2>1. wire.state = Append(History(o), t) /\ History(o) # <<>> /\ t \in Token
      BY <1>3, GreedyType DEF IInv, CommitGenerate, Answered, MainProgress
    <2>2. wire.state[Len(wire.state)] = t
      <3> HIDE DEF t
      <3> QED BY <1>0, <2>1
    <2>3. c \in Checkpoint /\ c.snap = o.snap /\ c.replay = Append(o.replay, t)
      <3>1. Append(o.replay, t) \in Seq(Token)
        <4>1. t \in Token /\ o.replay \in Seq(Token)
          BY <1>0, <2>1
        <4> HIDE DEF t, o
        <4> QED BY <4>1
      <3>2. PICK r \in Seq(Token) : r = Append(o.replay, t)
        BY <3>1
      <3>3. c = [o EXCEPT !.replay = r]
        BY <2>2, <3>2
      <3>4. /\ [o EXCEPT !.replay = r] \in Checkpoint
            /\ [o EXCEPT !.replay = r].snap = o.snap
            /\ [o EXCEPT !.replay = r].replay = r
        BY <1>0, ReplayUpdate
      <3> HIDE DEF c, o, t
      <3> QED BY <3>2, <3>3, <3>4
    <2>4. o.snap \o Append(o.replay, t) = Append(o.snap \o o.replay, t)
      BY <1>0, <2>1, ConcatAppend
    <2>5. History(c) = Append(History(o), t)
      BY <2>3, <2>4 DEF History
    <2>6. /\ call.op = "generate" /\ call' = NoCall /\ cp' = [cp EXCEPT ![call.s] = c]
          /\ open' = open
      BY <1>3 DEF CommitGenerate, Commit, Finish, Answered
    <2>7. After(History(o)) = Append(History(o), t)
      BY <2>6 DEF After
    <2> HIDE DEF c, t
    <2> QED BY <2>1, <2>3, <2>5, <2>6, <2>7, CommitRefines
  <1>4. CASE CommitImport
    <2> DEFINE c == Whole(call.toks, <<>>)
    <2>1. c \in Checkpoint /\ History(c) = call.toks
      BY <1>0 DEF History, Whole, Checkpoint
    <2>2. /\ call.op = "import" /\ call' = NoCall /\ cp' = [cp EXCEPT ![call.s] = c]
          /\ open' = open /\ After(History(o)) = call.toks
      BY <1>4 DEF CommitImport, Commit, Finish, Answered, After
    <2> HIDE DEF c
    <2> QED BY <2>1, <2>2, CommitRefines
  <1>5. CASE CommitReset
    <2> DEFINE c == Whole(<<>>, <<>>)
    <2>1. c \in Checkpoint /\ History(c) = <<>>
      BY DEF History, Whole, Checkpoint
    <2>2. /\ call.op = "reset" /\ call' = NoCall /\ cp' = [cp EXCEPT ![call.s] = c]
          /\ open' = open /\ After(History(o)) = <<>>
      BY <1>5 DEF CommitReset, Commit, Finish, Answered, After
    <2> HIDE DEF c
    <2> QED BY <2>1, <2>2, CommitRefines
  <1>6. CASE CloseDone
    <2>1. /\ call.op = "close" /\ call' = NoCall /\ open' = open \ {call.s}
          /\ cp' = [cp EXCEPT ![call.s] = FreshCheckpoint] /\ After(History(o)) = <<>>
      BY <1>6 DEF CloseDone, Finish, After
    <2> QED BY <2>1, FreshTyped, CommitRefines
  <1> QED BY <1>1, <1>2, <1>3, <1>4, <1>5, <1>6

\* The router's other steps retry, restore or give up.
LEMMA RouteRefines ==
  ASSUME IInv, Route PROVE Abstract!Next \/ UNCHANGED Abstract!vars
  <1>1. CASE Send \/ Eof \/ Restart \/ Restoring
    <2>1. /\ UNCHANGED <<open, cp>>
          /\ call'.op = call.op /\ call'.s = call.s /\ call'.toks = call.toks
      <3>1. CASE Send \/ Eof
        BY <3>1 DEF Send, Eof, router
      <3>2. CASE Restart
        <4>1. FirstStep(call.s) \in {"init", "import", "replay", "main"} /\ 2 \in 0..2
          BY DEF FirstStep
        <4>2. call \in Call /\ call' = [call EXCEPT !.step = FirstStep(call.s), !.try = 2]
          BY <3>2 DEF Restart, IInv, TypeOK
        <4>3. call'.op = call.op /\ call'.s = call.s /\ call'.toks = call.toks
          BY <4>2 DEF Call
        <4> QED BY <3>2, <4>3 DEF Restart
      <3>3. CASE Restoring
        <4> DEFINE n == IF NextStep = "main" /\ call.try = 0 THEN 1 ELSE call.try
        <4>1. NextStep \in {"init", "import", "replay", "main"} /\ call \in Call
          BY DEF NextStep, IInv, TypeOK
        <4>2. n \in 0..2
          BY <4>1 DEF Call
        <4>3. call' = [call EXCEPT !.step = NextStep, !.try = n]
          BY <3>3 DEF Restoring
        <4> HIDE DEF n
        <4>4. call'.op = call.op /\ call'.s = call.s /\ call'.toks = call.toks
          BY <4>1, <4>3 DEF Call
        <4> QED BY <3>3, <4>4 DEF Restoring
      <3> QED BY <1>1, <3>1, <3>2, <3>3
    <2> QED BY <2>1, InvisibleRefines DEF Invisible, pendingOp
  <1>2. CASE ImportInitDone
    <2>1. /\ UNCHANGED <<open, cp>> /\ call.op = "importInit"
          /\ call'.op = "import" /\ call'.s = call.s /\ call'.toks = call.toks
      BY <1>2 DEF ImportInitDone, Answered, router, IInv, TypeOK, Call
    <2> QED BY <2>1, InvisibleRefines DEF Invisible, pendingOp
  <1>3. CASE GiveUp \/ RemoteError \/ HealthDone
    BY <1>3, AbortRefines DEF GiveUp, RemoteError, HealthDone, Finish, Answered, router
  <1> QED BY <1>1, <1>2, <1>3, ReplyRefines DEF Route

\* Faults are visible only when they end the operation.
LEMMA FaultRefines ==
  ASSUME Environment PROVE Abstract!Next \/ UNCHANGED Abstract!vars
  <1>1. CASE WorkerDies \/ WorkerHangs \/ Timeout \/ hard_kill
    BY <1>1, InvisibleRefines DEF WorkerDies, WorkerHangs, Timeout, hard_kill, Invisible, pendingOp, router
  <1>2. CASE Cancel \/ StartFails
    BY <1>2, AbortRefines DEF Cancel, StartFails, Cancellable, Retriable, Direct, Finish
  <1> QED BY <1>1, <1>2 DEF Environment

\* Every step of client and child is one of the abstract session, or invisible.
LEMMA StepRefines == IInv /\ [Next]_vars => [Abstract!Next]_(Abstract!vars)
  <1> SUFFICES ASSUME IInv, [Next]_vars PROVE Abstract!Next \/ UNCHANGED Abstract!vars
    OBVIOUS
  <1>1. CASE health
    BY <1>1, InvisibleRefines DEF health, Start, Idle, Invisible, pendingOp, router
  <1>2. CASE UNCHANGED vars
    BY <1>2, InvisibleRefines DEF vars, router, Invisible, pendingOp
  <1> QED BY <1>1, <1>2, BeginRefines, ServeRefines, RouteRefines, FaultRefines DEF Next

\* The client implements exactly-once operations: through any sequence of
\* crashes, timeouts, cancels, restarts and retries, what a caller submits is
\* applied to the committed history once or not at all.
THEOREM ClientIsExactlyOnce == Spec => ExactlyOnce
  BY InitRefines, StepRefines, Invariance, PTL DEF Spec, ExactlyOnce
=============================================================================
