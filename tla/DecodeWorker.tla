---------------------------- MODULE DecodeWorker ----------------------------
(* The decode-worker process boundary of                                     *)
(* inference_engine/backends/mlx/decode_worker.py: a router-side client that *)
(* owns one child process over a socket, a proof checkpoint per session, and *)
(* the restart / restore / retry logic that makes a step survive the child.  *)
(*                                                                           *)
(* The client's RLock is held for a whole operation, so at most one `call`   *)
(* is under way; what interleaves with it is the child process, its death,   *)
(* the request deadline and the caller's cancel event.                       *)
EXTENDS Naturals, Sequences, FiniteSets

CONSTANTS Session,        \* router session ids
          Token,          \* token ids
          Prompts,        \* blocks handed to prefill / append_accepted_tokens
          Snapshots,      \* token prefixes whose snapshots may be imported
          BadSnapshots,   \* those the child's import validation rejects
          Argmax(_),      \* argmax of the child's logits after a history
          MaxLen,         \* bound: tokens in one session's history
          MaxFaults       \* bound: deaths, hangs, timeouts, cancels, failed starts

ASSUME SessionAssumption == Session # {} /\ Token # {}
ASSUME PromptAssumption == Prompts \subseteq Seq(Token) \ {<<>>}
ASSUME SnapshotAssumption == /\ Snapshots \subseteq Seq(Token) \ {<<>>}
                             /\ BadSnapshots \subseteq Snapshots
ASSUME BoundAssumption == MaxLen \in Nat /\ MaxFaults \in Nat

VARIABLES alive,     \* the child process exists
          hung,      \* it exists but neither reads nor writes its socket
          live,      \* keys of _WorkerRuntime.sessions
          kv,        \* history held by the child's verifier of a session
          conn,      \* DecodeWorkerClient._socket is not None
          gen,       \* _generation
          restored,  \* _restored_generation, 0 where there is no entry
          open,      \* keys of _checkpoints (and of _proxies)
          cp,        \* the ProofCheckpoint of each open session
          proxy,     \* the history last applied to the session's proxy
          dirty,     \* sessions whose caller must reset after a failed import
          call,      \* the operation that holds _lock
          wire,      \* the request in flight and its reply
          last,      \* how the latest session operation ended
          faults     \* faults so far

worker == <<alive, hung, live, kv>>
router == <<conn, gen, restored, open, cp, proxy, dirty>>
vars == <<worker, router, call, wire, last, faults>>

\* snap = <<>> stands for "no snapshot": an exported snapshot has tokens.
FreshCheckpoint == [snap |-> <<>>, replay |-> <<>>, init |-> FALSE]

\* The committed history a checkpoint stands for.
History(c) == c.snap \o c.replay

\* Seeded bug: the argmax runs over a padded logits row.
GreedyOverPadding(h) == Cardinality(Token) + 1

\* greedy_next_token_id: a function of the history, and always a vocabulary id.
Greedy(h) == IF Argmax(h) \in Token THEN Argmax(h) ELSE CHOOSE t \in Token : TRUE

NoCall == [op |-> "none", s |-> CHOOSE s \in Session : TRUE, toks |-> <<>>,
           step |-> "main", try |-> 1]

Quiet == [st |-> "none", state |-> <<>>]

\* Operations of DecodeWorkerClient that call _request_locked directly.
Direct == {"close", "health"}

Cancellable == {"prefill", "append", "generate"}

Idle == call.op = "none"

-----------------------------------------------------------------------------
(* Starting an operation.                                                    *)

\* _restore_locked has nothing to do for a session without a checkpoint.
FirstStep(s) == IF s \in open /\ cp[s].init THEN "init" ELSE "main"

\* The stale-generation test in front of the retry loop of _session_request.
NeedsRestore(op, s) == /\ op \in {"append", "generate"}
                       /\ cp[s].init
                       /\ restored[s] # gen

Start(op, s, toks) ==
  /\ Idle
  /\ LET stale == NeedsRestore(op, s) IN
     call' = [op |-> op, s |-> s, toks |-> toks,
              step |-> IF stale THEN "init" ELSE "main",
              try |-> IF stale THEN 0 ELSE 1]
  /\ UNCHANGED <<worker, router, wire, last, faults>>

\* A caller in prefill_cache_runtime._try_import answers a failed import
\* with reset() before it does anything else with the session.
Usable(s) == s \in open /\ s \notin dirty

Room(s, n) == Len(History(cp[s])) + n <= MaxLen

prefill(s) == \E t \in Prompts : Usable(s) /\ Start("prefill", s, t)

append_accepted_tokens(s) ==
  \E t \in Prompts : Usable(s) /\ Room(s, Len(t)) /\ Start("append", s, t)

generate_step(s) == Usable(s) /\ Room(s, 1) /\ Start("generate", s, <<>>)

\* Two _session_requests: Init with no tokens, then ImportSnapshot.
import_snapshot(s) == \E t \in Snapshots : Usable(s) /\ Start("importInit", s, t)

reset(s) == s \in open /\ Start("reset", s, <<>>)

close_session(s) == Start("close", s, <<>>)

health == \E s \in Session : s = NoCall.s /\ Start("health", s, <<>>)

get(s) == /\ Idle /\ s \notin open
          /\ open' = open \cup {s}
          /\ cp' = [cp EXCEPT ![s] = FreshCheckpoint]
          /\ proxy' = [proxy EXCEPT ![s] = <<>>]
          /\ UNCHANGED <<worker, conn, gen, restored, dirty, call, wire, last, faults>>

-----------------------------------------------------------------------------
(* One request: _request_with_payload_locked and the child's dispatch.       *)

Request ==
  LET c == cp[call.s] IN
  CASE call.step = "init"   -> [op |-> "Init",
                                toks |-> IF c.snap = <<>> THEN c.replay ELSE <<>>]
    [] call.step = "import" -> [op |-> "ImportSnapshot", toks |-> c.snap]
    [] call.step = "replay" -> [op |-> "Append", toks |-> c.replay]
    [] call.step = "main" /\ call.op = "prefill"  -> [op |-> "Init", toks |-> call.toks]
    [] call.step = "main" /\ call.op \in {"importInit", "reset"} -> [op |-> "Init", toks |-> <<>>]
    [] call.step = "main" /\ call.op = "import"   -> [op |-> "ImportSnapshot", toks |-> call.toks]
    [] call.step = "main" /\ call.op = "append"   -> [op |-> "Append", toks |-> call.toks]
    [] call.step = "main" /\ call.op = "generate" -> [op |-> "GenerateStep", toks |-> <<>>]
    [] call.step = "main" /\ call.op = "close"    -> [op |-> "Close", toks |-> <<>>]
    [] OTHER                                      -> [op |-> "Health", toks |-> <<>>]

\* sendall returned: the whole request is in the socket.
Send == /\ ~Idle /\ conn /\ wire.st = "none"
        /\ wire' = [st |-> "sent", state |-> <<>>]
        /\ UNCHANGED <<worker, router, call, last, faults>>

\* The child answers the request in flight, with its new state or an error; the
\* router may select the reply from its first byte on.
Reply(h) == /\ kv' = [kv EXCEPT ![call.s] = h]
            /\ wire' = [st |-> "ok", state |-> h]

Refuse(h) == /\ kv' = [kv EXCEPT ![call.s] = h]
             /\ wire' = [st |-> "err", state |-> <<>>]
             /\ UNCHANGED live

Serving(op) == /\ alive /\ ~hung /\ wire.st = "sent" /\ Request.op = op
               /\ UNCHANGED <<alive, hung, router, call, last, faults>>

ServeInit == /\ Serving("Init")
             /\ live' = live \cup {call.s}
             /\ Reply(Request.toks)

ServeImportSnapshot ==
  /\ Serving("ImportSnapshot")
  /\ \/ call.s \notin live /\ Refuse(<<>>)
     \/ call.s \in live /\ Request.toks \in BadSnapshots /\ Refuse(<<>>)
     \/ /\ call.s \in live /\ Request.toks \notin BadSnapshots
        /\ Reply(Request.toks) /\ UNCHANGED live

\* An unknown session, or one whose verifier was never prefilled.
Unprefilled(s) == s \notin live \/ kv[s] = <<>>

ServeAppend ==
  /\ Serving("Append")
  /\ \/ Unprefilled(call.s) /\ Refuse(kv[call.s])
     \/ ~Unprefilled(call.s) /\ Reply(kv[call.s] \o Request.toks) /\ UNCHANGED live

ServeGenerateStep ==
  /\ Serving("GenerateStep")
  /\ LET h == kv[call.s] IN
     \/ Unprefilled(call.s) /\ Refuse(h)
     \/ ~Unprefilled(call.s) /\ Reply(Append(h, Greedy(h))) /\ UNCHANGED live

\* Seeded bug: Close answers but keeps the K/V.
ServeCloseKeepsKV == Serving("Close") /\ Reply(<<>>) /\ UNCHANGED live

ServeClose == /\ Serving("Close")
              /\ live' = live \ {call.s}
              /\ Reply(<<>>)

ServeHealth == /\ Serving("Health")
               /\ wire' = [st |-> "ok", state |-> <<>>]
               /\ UNCHANGED <<live, kv>>

-----------------------------------------------------------------------------
(* Losing the child.  The client's socket has no timeout of its own: sendall *)
(* and recv wait for the child as long as it lives, and the deadline is only *)
(* looked at between the two, while no byte of the reply has arrived.        *)

NoKV == [s \in Session |-> <<>>]

\* _stop_locked(hard=True): the socket is dropped and the child is killed.
Stop == /\ conn' = FALSE /\ alive' = FALSE /\ hung' = FALSE
        /\ live' = {} /\ kv' = NoKV
        /\ wire' = Quiet

Fault == faults < MaxFaults /\ faults' = faults + 1

Finish(result) == /\ call' = NoCall
                  /\ last' = IF call.op = "health" THEN last
                             ELSE [s |-> call.s, result |-> result]

\* The child exits on its own; a whole reply it has sent can still be read.
WorkerDies == /\ alive /\ Fault
              /\ alive' = FALSE /\ hung' = FALSE /\ live' = {} /\ kv' = NoKV
              /\ UNCHANGED <<router, call, wire, last>>

\* The child stops making progress: idle, computing, or in a frame.
WorkerHangs == /\ alive /\ ~hung /\ Fault
               /\ hung' = TRUE
               /\ UNCHANGED <<alive, live, kv, router, call, wire, last>>

\* The child died before its whole reply was sent.
Eof == /\ wire.st # "none" /\ ~alive
       /\ Stop
       /\ UNCHANGED <<gen, restored, open, cp, proxy, dirty, call, last, faults>>

\* Only the deadline ends the wait for a child that hangs before it replies.
Silent == hung /\ wire.st = "sent"

\* The router is inside sendall, or in the middle of a reply, of a child that
\* hangs; a frame that is in the socket buffers as a whole still goes through.
Blocked == hung /\ conn /\ ~Idle /\ wire.st # "sent"

\* The deadline passes before the reply is selected; the child may already
\* have executed the request.
Timeout == /\ wire.st # "none" /\ alive
           /\ IF Silent THEN UNCHANGED faults ELSE Fault
           /\ Stop
           /\ UNCHANGED <<gen, restored, open, cp, proxy, dirty, call, last>>

\* cancel_event is only passed with the request itself, not while restoring.
Cancel == /\ wire.st # "none" /\ call.step = "main" /\ call.op \in Cancellable
          /\ Fault /\ Stop /\ Finish("cancelled")
          /\ UNCHANGED <<gen, restored, open, cp, proxy, dirty>>

hard_kill == /\ Idle /\ conn /\ Fault /\ Stop
             /\ UNCHANGED <<gen, restored, open, cp, proxy, dirty, call, last>>

-----------------------------------------------------------------------------
(* _session_request: restart, restore and one retry.                         *)

Disconnected == ~Idle /\ ~conn /\ wire.st = "none"

Retriable == call.step = "main" /\ call.try = 1 /\ call.op \notin Direct

\* Seeded bug: start() does not advance _generation.
RestartSameGeneration ==
  /\ Disconnected /\ Retriable
  /\ conn' = TRUE /\ alive' = TRUE
  /\ call' = [call EXCEPT !.step = FirstStep(call.s), !.try = 2]
  /\ UNCHANGED <<hung, live, kv, gen, restored, open, cp, proxy, dirty, wire, last, faults>>

\* start(), then _restore_locked of the session the call is for.
Restart == /\ Disconnected /\ Retriable
           /\ gen' = gen + 1
           /\ conn' = TRUE /\ alive' = TRUE
           /\ call' = [call EXCEPT !.step = FirstStep(call.s), !.try = 2]
           /\ UNCHANGED <<hung, live, kv, restored, open, cp, proxy, dirty, wire, last, faults>>

\* A failed import makes the caller reset the session.
Importing == call.op \in {"importInit", "import"}

Dirtied == IF Importing THEN dirty \cup {call.s}
           ELSE IF call.op = "reset" THEN dirty \ {call.s} ELSE dirty

StartFails == /\ Disconnected /\ Retriable /\ Fault
              /\ Finish("unavailable")
              /\ dirty' = Dirtied
              /\ UNCHANGED <<worker, conn, gen, restored, open, cp, proxy, wire>>

GiveUp == /\ Disconnected /\ ~Retriable /\ call.op # "close"
          /\ Finish("unavailable")
          /\ dirty' = Dirtied
          /\ UNCHANGED <<worker, conn, gen, restored, open, cp, proxy, wire, faults>>

RemoteError == /\ wire.st = "err" /\ call.op # "close"
               /\ Finish("remote")
               /\ dirty' = Dirtied
               /\ wire' = Quiet
               /\ UNCHANGED <<worker, conn, gen, restored, open, cp, proxy, faults>>

\* Seeded bug: the restore imports the snapshot again and again.
NextStepReimports == IF cp[call.s].snap # <<>> THEN "import" ELSE "main"

NextStep == LET c == cp[call.s] IN
  IF call.step = "init" /\ c.snap # <<>> THEN "import"
  ELSE IF call.step = "import" /\ c.replay # <<>> THEN "replay" ELSE "main"

Restoring == /\ wire.st = "ok" /\ call.step # "main"
             /\ wire' = Quiet
             /\ call' = [call EXCEPT !.step = NextStep,
                           !.try = IF NextStep = "main" /\ @ = 0 THEN 1 ELSE @]
             /\ restored' = IF NextStep = "main" THEN [restored EXCEPT ![call.s] = gen]
                            ELSE restored
             /\ UNCHANGED <<worker, conn, gen, open, cp, proxy, dirty, last, faults>>

-----------------------------------------------------------------------------
(* The reply arrived: the proxy commits the operation to the checkpoint.     *)

Answered(ops) == wire.st = "ok" /\ call.step = "main" /\ call.op \in ops

\* checkpoint update, _apply(state) and return to the caller
Commit(c) == /\ cp' = [cp EXCEPT ![call.s] = c]
             /\ proxy' = [proxy EXCEPT ![call.s] = wire.state]
             /\ wire' = Quiet
             /\ Finish("ok")
             /\ UNCHANGED <<worker, conn, gen, open, faults>>

Whole(snap, replay) == [snap |-> snap, replay |-> replay, init |-> TRUE]

\* _mark_current
MarkCurrent == restored' = [restored EXCEPT ![call.s] = gen]

CommitPrefill == /\ Answered({"prefill"}) /\ MarkCurrent
                 /\ Commit(Whole(<<>>, call.toks))
                 /\ UNCHANGED dirty

\* Seeded bug: each attempt of an append records its tokens.
CommitAppendPerAttempt ==
  /\ Answered({"append"})
  /\ Commit([cp[call.s] EXCEPT !.replay = IF call.try = 2 THEN @ \o call.toks \o call.toks
                                         ELSE @ \o call.toks])
  /\ UNCHANGED <<restored, dirty>>

CommitAppend == /\ Answered({"append"})
                /\ Commit([cp[call.s] EXCEPT !.replay = @ \o call.toks])
                /\ UNCHANGED <<restored, dirty>>

\* The router commits the token_id of the reply: the last one of its state.
CommitGenerate == /\ Answered({"generate"})
                  /\ Commit([cp[call.s] EXCEPT
                               !.replay = Append(@, wire.state[Len(wire.state)])])
                  /\ UNCHANGED <<restored, dirty>>

ImportInitDone == /\ Answered({"importInit"})
                  /\ call' = [call EXCEPT !.op = "import", !.try = 1]
                  /\ wire' = Quiet
                  /\ UNCHANGED <<worker, router, last, faults>>

\* Seeded bug: an import keeps the tokens replayed over the old snapshot.
CommitImportKeepsReplay == /\ Answered({"import"}) /\ MarkCurrent
                           /\ Commit(Whole(call.toks, cp[call.s].replay))
                           /\ UNCHANGED dirty

CommitImport == /\ Answered({"import"}) /\ MarkCurrent
                /\ Commit(Whole(call.toks, <<>>))
                /\ UNCHANGED dirty

CommitReset == /\ Answered({"reset"}) /\ MarkCurrent
               /\ Commit(Whole(<<>>, <<>>))
               /\ dirty' = dirty \ {call.s}

HealthDone == /\ Answered({"health"})
              /\ wire' = Quiet /\ Finish("ok")
              /\ UNCHANGED <<worker, router, faults>>

\* close_session swallows a DecodeWorkerError and drops the router's state.
CloseDone == /\ call.op = "close"
             /\ Disconnected \/ wire.st \in {"ok", "err"}
             /\ wire' = Quiet /\ Finish("ok")
             /\ open' = open \ {call.s}
             /\ cp' = [cp EXCEPT ![call.s] = FreshCheckpoint]
             /\ proxy' = [proxy EXCEPT ![call.s] = <<>>]
             /\ restored' = [restored EXCEPT ![call.s] = 0]
             /\ dirty' = dirty \ {call.s}
             /\ UNCHANGED <<worker, conn, gen, faults>>

-----------------------------------------------------------------------------
\* __init__ ends with a successful start().
Init == /\ alive = TRUE /\ hung = FALSE /\ live = {} /\ kv = NoKV
        /\ conn = TRUE /\ gen = 1 /\ restored = [s \in Session |-> 0]
        /\ open = {} /\ cp = [s \in Session |-> FreshCheckpoint]
        /\ proxy = [s \in Session |-> <<>>] /\ dirty = {}
        /\ call = NoCall /\ wire = Quiet
        /\ last = [s |-> NoCall.s, result |-> "ok"]
        /\ faults = 0

Begin(s) == \/ prefill(s) \/ append_accepted_tokens(s) \/ generate_step(s)
            \/ import_snapshot(s) \/ reset(s) \/ close_session(s) \/ get(s)

Serve == \/ ServeInit \/ ServeImportSnapshot \/ ServeAppend
         \/ ServeGenerateStep \/ ServeClose \/ ServeHealth

Route == \/ Send \/ Eof \/ Restart \/ GiveUp \/ RemoteError \/ Restoring
         \/ CommitPrefill \/ CommitAppend \/ CommitGenerate \/ ImportInitDone
         \/ CommitImport \/ CommitReset \/ HealthDone \/ CloseDone

Environment == WorkerDies \/ WorkerHangs \/ Timeout \/ Cancel \/ StartFails \/ hard_kill

Next == \/ \E s \in Session : Begin(s)
        \/ health \/ Serve \/ Route \/ Environment

Spec == Init /\ [][Next]_vars

\* A child that does not hang answers, a deadline passes, and the router thread
\* that holds the lock goes on unless it waits in a transfer.
FairSpec == Spec /\ WF_vars(Serve \/ (~Blocked /\ Route) \/ (Silent /\ Timeout))
-----------------------------------------------------------------------------
(* Properties.                                                               *)

Ops == {"prefill", "append", "generate", "importInit", "import", "reset", "close", "health"}
Checkpoint == [snap : Seq(Token), replay : Seq(Token), init : BOOLEAN]
Call == [op : Ops \cup {"none"}, s : Session, toks : Seq(Token),
         step : {"init", "import", "replay", "main"}, try : 0..2]
Wire == [st : {"none", "sent", "ok", "err"}, state : Seq(Token)]
Outcome == [s : Session, result : {"ok", "unavailable", "remote", "cancelled"}]

\* Every variable holds a value the client or the child can hold.
TypeOK ==
  /\ alive \in BOOLEAN /\ hung \in BOOLEAN /\ conn \in BOOLEAN /\ gen \in Nat \ {0} /\ faults \in Nat
  /\ live \subseteq Session /\ open \subseteq Session /\ dirty \subseteq Session
  /\ kv \in [Session -> Seq(Token)] /\ proxy \in [Session -> Seq(Token)]
  /\ restored \in [Session -> Nat] /\ cp \in [Session -> Checkpoint]
  /\ call \in Call /\ wire \in Wire /\ last \in Outcome

\* A session the router believes restored into the running child has there
\* exactly the history its checkpoint stands for: no crash, timeout or retry
\* leaves an unacknowledged token behind or loses an acknowledged one.
WorkerMatchesCheckpoint ==
  Idle /\ alive =>
    \A s \in open \ dirty : restored[s] = gen => s \in live /\ kv[s] = History(cp[s])

\* cached_token_sequence / next_global_position on the proxy describe the
\* committed history, so the session store never sees a retried token twice.
ProxyMatchesCheckpoint == \A s \in open : proxy[s] = History(cp[s])

\* A session the router closed holds no K/V in the running child, although
\* close_session ignores a failed Close request.
NoOrphanedKV == Idle /\ alive => live \subseteq open

\* The thread that holds the client lock leaves the operation, whatever the
\* child does, with one exception: the deadline covers only the wait for a
\* reply, so a child that hangs for ever while the request is being written or
\* in the middle of its reply keeps the lock for ever.
CallsTerminate == ~Idle ~> (Idle \/ []Blocked)

\* The client implements exactly-once operations on committed histories.
pendingOp == IF call.op \in {"none", "health"} THEN [op |-> "none"]
             ELSE [op |-> IF call.op = "importInit" THEN "import" ELSE call.op,
                   s |-> call.s, toks |-> call.toks]
Abstract == INSTANCE DecodeSession WITH
              Blocks <- Prompts \cup Snapshots \cup {<<>>},
              log <- [s \in Session |-> History(cp[s])], pending <- pendingOp
ExactlyOnce == Abstract!Init /\ [][Abstract!Next]_(Abstract!vars)

\* ADR 0017: after a lost child "the next request follows the same restore
\* path". So a caller that asks a session for its next token again and again is not
\* told "unavailable" for ever once the faults are over.
Asking(s) == call.s = s /\ call.op = "generate"
RetriesRecover ==
  \A s \in Session : []<>Asking(s) /\ []<>~Asking(s) =>
    []<>(last.s = s /\ last.result # "unavailable")
=============================================================================
