---------------------------- MODULE DecodeSession ----------------------------
(* What DecodeWorkerClient promises its callers, with the worker process, its *)
(* crashes and the retries out of sight: every session has one committed      *)
(* history, at most one operation is under way, and that operation is applied *)
(* to the history exactly once or not at all.                                 *)
EXTENDS Sequences

CONSTANTS Session,      \* router session ids
          Blocks,       \* token sequences an operation may carry
          Greedy(_)     \* the model's argmax over a committed history

VARIABLES open,         \* sessions the client holds a checkpoint for
          log,          \* committed history of each session
          pending       \* the operation under way, or NoOp

vars == <<open, log, pending>>

NoOp == [op |-> "none"]

\* The operation a caller hands to its session proxy.
Op(kind, s, toks) == [op |-> kind, s |-> s, toks |-> toks]

Init == open = {} /\ log = [s \in Session |-> <<>>] /\ pending = NoOp

Open(s) == /\ pending = NoOp /\ s \notin open
           /\ open' = open \cup {s}
           /\ log' = [log EXCEPT ![s] = <<>>]
           /\ UNCHANGED pending

Submit(kind, s, toks) == /\ pending = NoOp
                         /\ kind = "close" \/ s \in open
                         /\ pending' = Op(kind, s, toks)
                         /\ UNCHANGED <<open, log>>

\* What the operation does to the committed history.
Effect(p) ==
  CASE p.op \in {"prefill", "import"} -> p.toks
    [] p.op = "append"                -> log[p.s] \o p.toks
    [] p.op = "generate"              -> Append(log[p.s], Greedy(log[p.s]))
    [] OTHER                          -> <<>>

Commit == /\ pending # NoOp
          /\ pending.op = "generate" => log[pending.s] # <<>>
          /\ log' = [log EXCEPT ![pending.s] = Effect(pending)]
          /\ open' = IF pending.op = "close" THEN open \ {pending.s} ELSE open
          /\ pending' = NoOp

\* Every operation but Close may fail; then the history is untouched.
Abort == /\ pending # NoOp /\ pending.op # "close"
         /\ pending' = NoOp
         /\ UNCHANGED <<open, log>>

Kinds == {"prefill", "append", "generate", "import", "reset", "close"}

Next == \/ \E s \in Session : Open(s)
        \/ \E kind \in Kinds, s \in Session, toks \in Blocks : Submit(kind, s, toks)
        \/ Commit
        \/ Abort

Spec == Init /\ [][Next]_vars
=============================================================================
