---------------------------- MODULE Orchestration ---------------------------
(* The autoresearch proof loop: the supervisor (autoresearch/prefill/         *)
(* supervisor.py), the host gates it calls (architecture_v7.py,               *)
(* definition_resolution.py) and the GAN process it starts and waits for      *)
(* (scripts/agent_gan_repl.py).  The two share files: candidate.py, the proof *)
(* ledger, the orchestration checkpoint, the definition store and the         *)
(* results.  One step is the work up to the next durable write, so a crash    *)
(* between any two writes is a behaviour.                                     *)
EXTENDS ProofMachine

CONSTANTS Seed,       \* the obligation the seeded candidate targets
          Rounds,     \* strategy_stagnation_rounds
          MaxVer,     \* bound: ledger version
          MaxFaults,  \* bound: crashes and experiment timeouts
          MaxAsks     \* bound: operator events and strategy triggers

ASSUME BoundsAssumption == /\ {Rounds, MaxFaults, MaxAsks} \subseteq Nat
                           /\ MaxVer \in Nat \ {0}
ASSUME SeedAssumption == Seed \in Oblig

VARIABLES cand,     \* candidate.py
          ledger,   \* the proof ledger: version and pending leaves
          cp,       \* the orchestration checkpoint, or None
          store,    \* definition store: commits, and the gap of a query whose
                    \* fingerprint no checkpoint has saved
          results,  \* results file: hypotheses tried, last outcome, rows
                    \* without progress, whether some row was kept
          inbox,    \* operator_event.json (a state or None), trigger file
          run,      \* the running process: place, backups, in-memory ledger
          env       \* faults and operator requests so far

vars == <<cand, ledger, cp, store, results, inbox, run, env>>

Idle == [pc |-> "loop", first |-> FALSE, prev |-> None, old |-> None, led |-> None,
         pick |-> None, out |-> "", certified |-> FALSE, late |-> FALSE]
At(pc) == run.pc = pc
Step(pc) == run' = [run EXCEPT !.pc = pc]
Saved(c) == cp' = c

-----------------------------------------------------------------------------
(* run_supervisor_iterations, between two iterations.                        *)

\* A typed operator event takes the machine out of BLOCKED; the checkpoint is
\* saved first and the event file removed after it.
ApplyEvent ==
  /\ At("loop") /\ cp # None /\ cp.state = "BLOCKED" /\ inbox.event # None
  /\ CanGo(cp, inbox.event) /\ Saved(Goto(cp, inbox.event)) /\ Step("unlink")
  /\ UNCHANGED <<cand, ledger, store, results, inbox, env>>

UnlinkEvent == /\ At("unlink") /\ inbox' = [inbox EXCEPT !.event = None] /\ Step("loop")
               /\ UNCHANGED <<cand, ledger, cp, store, results, env>>

\* Seeded bug: the supervisor leaves every adapter stop to the operator.
ClearInfrastructureNever == FALSE

\* quiescent-infrastructure-retry
ClearInfrastructure ==
  /\ At("loop") /\ cp # None /\ cp.state # "BLOCKED" /\ cp.adapter = "INFRASTRUCTURE_BLOCKED"
  /\ Saved([cp EXCEPT !.adapter = ""])
  /\ UNCHANGED <<cand, ledger, store, results, inbox, run, env>>

\* blocked_policy "wait": a blocked machine is polled and nothing is started.
Poll == /\ At("loop") /\ cp # None
        /\ \/ cp.state = "BLOCKED" /\ inbox.event = None
           \/ cp.adapter \in {"ADAPTER_BLOCKED", "INTEGRATION_BLOCKED"}
        /\ UNCHANGED vars

\* run_iteration takes its backups; without a pending leaf it raises.
BeginIteration ==
  /\ At("loop") /\ ~Halted(cp)
  /\ run' = IF ledger.open = {} THEN [Idle EXCEPT !.pc = "over"]
            ELSE [Idle EXCEPT !.pc = IF cp = None THEN "create" ELSE "gate",
                              !.first = run.first, !.prev = cand, !.old = ledger, !.pick = cand]
  /\ UNCHANGED <<cand, ledger, cp, store, results, inbox, env>>

CreateCheckpoint ==
  /\ At("create") /\ Saved(Fresh("STRATEGY_TOURNAMENT", cand, ledger.ver)) /\ Step("gate")
  /\ UNCHANGED <<cand, ledger, store, results, inbox, env>>

-----------------------------------------------------------------------------
(* run_host_definition_gate.                                                 *)

GateActs == /\ cp.state \in {"DEFINITION_RESOLUTION", "DECOMPOSER", "STRATEGY_TOURNAMENT",
                             "MATHEMATICAL_STAGNATION"}
            /\ "audit" \in cp.arts /\ cp.missing # {}

\* The gap the checkpoint is on, committed or not; else an uncommitted one.
Gaps == IF cp.gap \in cp.missing THEN {cp.gap} ELSE cp.missing \ store.commits

NoGate == /\ At("gate") /\ ~GateActs /\ Step("choose")
          /\ UNCHANGED <<cand, ledger, cp, store, results, inbox, env>>

NoOpenQuery == /\ At("gate") /\ GateActs /\ Gaps = {}
               /\ Saved([cp EXCEPT !.gap = None]) /\ Step("loop")
               /\ UNCHANGED <<cand, ledger, store, results, inbox, env>>

\* A query the store has answered is replayed.
Resolutions(g) == IF store.query = g THEN {"IDEMPOTENT_REPLAY"}
                  ELSE {"COMMITTED", "PARENT_STATEMENT_UNDERSPECIFIED", "INTERFACE_REQUIRED"}

\* resolve_one_concept writes the store.
ResolveConcept ==
  /\ At("gate") /\ GateActs
  /\ \E g \in Gaps :
       \E s \in Resolutions(g) :
         /\ store' = [commits |-> IF s = "COMMITTED" THEN store.commits \cup {g} ELSE store.commits,
                      query |-> g]
         /\ run' = [run EXCEPT !.pc = "resolved", !.out = s, !.pick = g]
  /\ UNCHANGED <<cand, ledger, cp, results, inbox, env>>

PersistResolution ==
  /\ At("resolved") /\ Saved([cp EXCEPT !.state = "DEFINITION_RESOLUTION", !.gap = run.pick])
  /\ Step("route")
  /\ UNCHANGED <<cand, ledger, store, results, inbox, env>>

\* The query's fingerprint is saved with the routed state: it is never asked
\* in the same words again.
RouteResolution ==
  /\ At("route") /\ Step("loop") /\ store' = [store EXCEPT !.query = None]
  /\ Saved(Goto(cp, CASE run.out = "COMMITTED" -> "STRATEGY_TOURNAMENT"
                      [] run.out = "IDEMPOTENT_REPLAY" -> "PARENT_STATEMENT_UNDERSPECIFIED"
                      [] OTHER -> "PREMISE_AUDIT"))
  /\ UNCHANGED <<cand, ledger, results, inbox, env>>

-----------------------------------------------------------------------------
(* The candidate of the iteration.                                           *)

\* should_resume_downstream
Resumes == cp.state \in Resumable /\ cp.cand = cand /\ ~inbox.trigger

\* strategy_trigger_reason: a trigger file, a falsified branch, stagnation.
Triggered == \/ inbox.trigger
             \/ results.last # "STAGNATED" /\ (results.last = "FALSIFIED" \/ results.idle >= Rounds)

\* candidate_novelty_rejections is empty
Novel(c) == c # cand /\ c \notin results.tried

\* build_host_candidate: the current target while it is pending, else a leaf.
RepairTargets == IF cand.ob \in ledger.open THEN {cand.ob} ELSE ledger.open
HostCandidates == {[ob |-> o, hyp |-> "host"] : o \in RepairTargets}

\* What run_iteration proposes: the current candidate as a baseline, the host
\* candidate, or the model's, which the host's replaces when it is deferred or
\* repeats.
Proposals ==
  IF ~Triggered
  THEN IF run.first /\ ~results.kept THEN {cand} ELSE HostCandidates
  ELSE HostCandidates \cup {c \in [ob : ledger.open, hyp : {"gemma"}] : Novel(c)}

\* render_candidate: the seeded file is not what the supervisor would write.
Rendered(c) == IF c.hyp = "seed" THEN [c EXCEPT !.hyp = "base"] ELSE c

\* The resumed candidate is written again; the checkpoint keeps the hash of the
\* old bytes.
Resume == /\ At("choose") /\ Resumes /\ cand' = Rendered(cand) /\ Step("entry")
          /\ UNCHANGED <<ledger, cp, store, results, inbox, env>>

\* The trigger file is consumed before the candidate is written.
Select == /\ At("choose") /\ ~Resumes
          /\ \E c \in Proposals : /\ Novel(c)
                                  /\ run' = [run EXCEPT !.pc = "write", !.pick = c]
          /\ inbox' = [inbox EXCEPT !.trigger = FALSE]
          /\ UNCHANGED <<cand, ledger, cp, store, results, env>>

\* CandidateNoveltyStagnation: nothing new to try, the machine blocks.
Stagnate ==
  /\ At("choose") /\ ~Resumes
  /\ \E c \in Proposals :
       /\ ~Novel(c)
       /\ results' = [results EXCEPT !.tried = @ \cup {Rendered(c)}, !.last = "STAGNATED",
                                     !.idle = IF @ < Rounds THEN @ + 1 ELSE @]
  /\ CanGo(cp, "BLOCKED") /\ Saved(Goto(cp, "BLOCKED")) /\ run' = Idle
  /\ UNCHANGED <<cand, ledger, store, inbox, env>>

WriteCandidate == /\ At("write") /\ cand' = Rendered(run.pick) /\ Step("fresh")
                  /\ UNCHANGED <<ledger, cp, store, results, inbox, env>>

FreshCheckpoint ==
  /\ At("fresh") /\ Saved(Fresh("STRATEGY_TOURNAMENT", cand, ledger.ver)) /\ Step("entry")
  /\ UNCHANGED <<cand, ledger, store, results, inbox, env>>

-----------------------------------------------------------------------------
(* run_architecture_v7_entry, called by the supervisor before the GAN and by  *)
(* the GAN once a proposition elaborates (run.certified).                    *)

\* Seeded bug: a tournament with missing definitions is sent to the contract.
PrecontractIgnoresGaps(c) == ~c.elab

\* precontract_reasons is not empty, for the gaps or the elaboration
Precontract(c) == c.missing # {} \/ ~c.elab

AfterEntry == IF ~run.certified THEN "gan" ELSE "search"

NoTournament == /\ At("entry") /\ cp.state # "STRATEGY_TOURNAMENT" /\ Step("gan")
                /\ UNCHANGED <<cand, ledger, cp, store, results, inbox, env>>

Tournament ==
  /\ At("entry") /\ cp.state = "STRATEGY_TOURNAMENT"
  /\ \E quarantined \in BOOLEAN :  \* the branch history names the target
       IF Precontract(cp) \/ quarantined
       THEN /\ Saved([cp EXCEPT !.state = "DECOMPOSER", !.contract = FALSE])
            /\ Step(IF run.certified THEN "save" ELSE "gan")
       ELSE /\ Saved([cp EXCEPT !.state = "RESEARCH_CONTRACT_GATE", !.contract = TRUE])
            /\ Step("contract")
  /\ UNCHANGED <<cand, ledger, store, results, inbox, env>>

\* The host builds the plan from the very sets gate_research_contract compares
\* it with, so a target that elaborates and lacks no definition is accepted.
AcceptContract == /\ At("contract") /\ Saved(Goto(cp, "PROOF_SEARCH")) /\ Step(AfterEntry)
                  /\ UNCHANGED <<cand, ledger, store, results, inbox, env>>

-----------------------------------------------------------------------------
(* The GAN process: a certified resume, or a generator and critic turn.      *)

GanEntry == IF cp.state \in Certified /\ cp.cand = cand THEN "certify" ELSE "turn"

\* Seeded bug: the target is not looked up among the pending leaves.
StartGanUnchecked ==
  /\ At("gan") /\ run' = [run EXCEPT !.pc = GanEntry, !.led = ledger, !.certified = TRUE]
  /\ UNCHANGED <<cand, ledger, cp, store, results, inbox, env>>

\* A target that is no pending leaf ends the process with an error.
StartGan ==
  /\ At("gan")
  /\ run' = IF cand.ob \notin ledger.open THEN [run EXCEPT !.pc = "raise"]
            ELSE [run EXCEPT !.pc = GanEntry, !.led = ledger, !.certified = TRUE]
  /\ UNCHANGED <<cand, ledger, cp, store, results, inbox, env>>

\* A premise suspicion is saved before its review; this turn decomposes nothing.
SuspectPremise ==
  /\ At("turn") /\ run.led.ver < MaxVer
  /\ ledger' = [run.led EXCEPT !.ver = @ + 1]
  /\ run' = [run EXCEPT !.pc = "review", !.led = ledger']
  /\ UNCHANGED <<cand, cp, store, results, inbox, env>>

\* Seeded bug: the version counts the verdict and the turn.
VerdictBumpsTwice ==
  /\ At("turn") \/ At("review")
  /\ run.led.ver < MaxVer
  /\ run' = [run EXCEPT !.led.ver = @ + 2, !.pc = "save", !.out = "UNRESOLVED"]
  /\ UNCHANGED <<cand, ledger, cp, store, results, inbox, env>>

\* apply_critic_verdicts, in memory: the target is decided or stays open; an
\* unresolved one may ask for a certified decomposition.
Verdict ==
  /\ At("turn") \/ At("review")
  /\ run.led.ver < MaxVer
  /\ \E out \in {"PROVED", "FALSIFIED", "UNRESOLVED", "DECOMPOSE"} :
       /\ out = "DECOMPOSE" => At("turn")
       /\ run' = [run EXCEPT
            !.led = [ver |-> @.ver + 1,
                     open |-> IF out \in {"PROVED", "FALSIFIED"} THEN @.open \ {cand.ob} ELSE @.open],
            !.pc = IF out = "DECOMPOSE" THEN "certify" ELSE "save",
            !.out = out]
  /\ UNCHANGED <<cand, ledger, cp, store, results, inbox, env>>

\* Any exception inside the turn that its roles' handlers let out: the report
\* says failed, the exit status 0.
GanError == /\ run.pc \in {"turn", "review", "typed", "decompose"} /\ Step("failed")
            /\ UNCHANGED <<cand, ledger, cp, store, results, inbox, env>>

-----------------------------------------------------------------------------
(* run_certified_decomposition and _run_typed_ir_v2.                         *)

\* The checkpoint is used when it is bound to this candidate and ledger and
\* its artifacts load; otherwise the roles start again at the auditor.
Certify ==
  /\ At("certify")
  /\ LET bound == Bound(cp, cand, run.led.ver)
         retried == [cp EXCEPT !.adapter = IF @ = "INFRASTRUCTURE_BLOCKED" THEN "" ELSE @]
         c == IF ~bound THEN Fresh("DEFINITION_AUDITOR", cand, run.led.ver)
              ELSE IF Loadable(cp) THEN retried
              ELSE [retried EXCEPT !.state = "DEFINITION_AUDITOR", !.arts = {}, !.missing = {}]
     IN IF cp.state = "BLOCKED" \/ (bound /\ cp.adapter = "ADAPTER_BLOCKED")
        THEN Step("save") /\ UNCHANGED cp
        ELSE Saved(c) /\ Step(IF "audit" \in c.arts THEN "typed" ELSE "audit")
  /\ UNCHANGED <<cand, ledger, store, results, inbox, env>>

\* The auditor's artifact is saved under the state the checkpoint is in; its
\* hash makes every definition query a new one.
PersistAudit ==
  /\ At("audit") /\ Step("audited") /\ store' = [store EXCEPT !.query = None]
  /\ \E m \in SUBSET Gap : Saved([cp EXCEPT !.arts = @ \cup {"audit"}, !.missing = m])
  /\ UNCHANGED <<cand, ledger, results, inbox, env>>

Stopped(status) == Saved([cp EXCEPT !.adapter = status]) /\ Step("save")

\* An illegal transition raises inside the adapter's try block.
AfterAudit == /\ At("audited")
              /\ IF CanGo(cp, "COUNTEREXAMPLE_WORKER")
                 THEN Saved(Goto(cp, "COUNTEREXAMPLE_WORKER")) /\ Step("typed")
                 ELSE Stopped("ADAPTER_BLOCKED")
              /\ UNCHANGED <<cand, ledger, store, results, inbox, env>>

\* A role's inference or decoding fails: what each handler records.
RoleFails ==
  /\ \/ run.pc \in {"audit", "decompose", "search"} /\ Stopped("ADAPTER_BLOCKED")
     \/ run.pc \in {"typed", "decompose"} /\ Stopped("INFRASTRUCTURE_BLOCKED")
  /\ UNCHANGED <<cand, ledger, store, results, inbox, env>>

\* transition raises out of the process's turn when the table forbids it.
TryGoto(c, s, pc) == IF CanGo(cp, s) THEN Saved(Goto(c, s)) /\ Step(pc)
                     ELSE Step("failed") /\ UNCHANGED cp

\* No registered move, or a proposal of the wrong shape.
BeginDecompositionIteration ==
  /\ run.pc \in {"typed", "decompose"} /\ TryGoto(cp, "DECOMPOSER", "save")
  /\ UNCHANGED <<cand, ledger, store, results, inbox, env>>

SynthesisMode == cp.state = "SYNTHESIS" \/ ~cp.ranked
CanSynthesize == cp.state = "SYNTHESIS" \/ CanGo(cp, "SYNTHESIS")

\* Candidates are ranked by the synthesis role, or by the host again.
Rank ==
  /\ At("typed")
  /\ IF ~SynthesisMode THEN Saved([cp EXCEPT !.adapter = ""]) /\ Step("decompose")
     ELSE IF CanSynthesize
     THEN Saved([cp EXCEPT !.state = "DECOMPOSER", !.ranked = TRUE, !.adapter = ""]) /\ Step("decompose")
     ELSE Step("failed") /\ UNCHANGED cp
  /\ UNCHANGED <<cand, ledger, store, results, inbox, env>>

SynthesisRejected ==
  /\ At("typed") /\ SynthesisMode /\ CanSynthesize
  /\ Saved([cp EXCEPT !.state = "SYNTHESIS", !.adapter = "INTEGRATION_BLOCKED"]) /\ Step("save")
  /\ UNCHANGED <<cand, ledger, store, results, inbox, env>>

PersistProposal ==
  /\ At("decompose") /\ Saved([cp EXCEPT !.arts = @ \cup {"decomposer"}]) /\ Step("proposed")
  /\ UNCHANGED <<cand, ledger, store, results, inbox, env>>

\* Through MATH_IR_TRANSLATION to the host gate, saved once.
ToHostGate ==
  /\ At("proposed")
  /\ IF CanGo(cp, "MATH_IR_TRANSLATION") THEN Saved(Goto(cp, "HOST_TYPED_IR_GATE")) /\ Step("gates")
     ELSE Step("failed") /\ UNCHANGED cp
  /\ UNCHANGED <<cand, ledger, store, results, inbox, env>>

\* run_host_gates: the proposition elaborates and the tournament is rerun; or
\* the move is withdrawn and synthesis starts over; or the machine blocks.
GatesPass == /\ At("gates") /\ Step("entry")
             /\ Saved([cp EXCEPT !.state = "STRATEGY_TOURNAMENT", !.elab = TRUE])
             /\ UNCHANGED <<cand, ledger, store, results, inbox, env>>

GatesBackjump ==
  /\ At("gates") /\ Step("save")
  /\ Saved([cp EXCEPT !.state = "SYNTHESIS", !.ranked = FALSE, !.arts = @ \ {"decomposer"}])
  /\ UNCHANGED <<cand, ledger, store, results, inbox, env>>

GatesReject == /\ At("gates") /\ Saved(Goto(cp, "BLOCKED")) /\ Step("save")
               /\ UNCHANGED <<cand, ledger, store, results, inbox, env>>

\* The stepwise proof search ends proved or not; its final validation may raise.
Proved == /\ At("search") /\ Saved(Goto(cp, "ADVERSARIAL_REVIEW")) /\ Step("save")
          /\ UNCHANGED <<cand, ledger, store, results, inbox, env>>

NotProved == /\ At("search") /\ Step("save")
             /\ UNCHANGED <<cand, ledger, cp, store, results, inbox, env>>

ProofInvalid == /\ At("search") /\ Step("failed")
                /\ UNCHANGED <<cand, ledger, cp, store, results, inbox, env>>

\* No certificate is verified, so no child is persisted; the ledger is saved.
SaveLedger == /\ At("save") /\ ledger' = run.led /\ Step("done")
              /\ UNCHANGED <<cand, cp, store, results, inbox, env>>

-----------------------------------------------------------------------------
(* The rest of run_iteration.                                                *)

Pending == cp # None /\ cp.state \in Resumable
Row(last, keep) == [tried |-> results.tried \cup {cand}, last |-> last,
                    idle |-> IF keep THEN 0 ELSE IF results.idle < Rounds THEN results.idle + 1
                             ELSE results.idle,
                    kept |-> results.kept \/ keep]

\* The report is evaluated; a candidate that is not kept is reverted unless a
\* role is pending.
Evaluate ==
  /\ At("done") /\ ~run.late
  /\ \E keep \in BOOLEAN :
       /\ keep => run.out \in {"PROVED", "FALSIFIED"}
       /\ results' = Row(IF run.out = "FALSIFIED" THEN "FALSIFIED" ELSE "other", keep)
       /\ cand' = IF ~keep /\ ~Pending THEN run.prev ELSE cand
  /\ run' = Idle
  /\ UNCHANGED <<ledger, cp, store, inbox, env>>

\* Seeded bug: a failed evaluation always takes the previous candidate back.
RestoredAlways == run.prev

\* candidate.py after an exception: kept for a pending role of this candidate.
Restored == IF Pending /\ cp.cand = cand THEN cand ELSE run.prev

\* A failed report, or an evaluation that raises, leaves a row; repeated
\* outside a semantic continuation it opens the circuit breaker.
EvaluationFails ==
  /\ run.pc \in {"done", "failed"} /\ ~run.late
  /\ results' = Row("other", FALSE) /\ cand' = Restored
  /\ run' \in {Idle} \cup IF Pending /\ ~Halted(cp) THEN {} ELSE {[Idle EXCEPT !.pc = "over"]}
  /\ UNCHANGED <<ledger, cp, store, inbox, env>>

\* run_gan_experiment timed out: it kills the shell, reads the orphan's output
\* to its end and raises.
Late == /\ run.pc \in {"done", "failed"} /\ run.late /\ Step("raise")
        /\ UNCHANGED <<cand, ledger, cp, store, results, inbox, env>>

\* The health check, the ledger or the strategy model's transport raises.
ChoiceFails == /\ At("choose") /\ Step("raise")
               /\ UNCHANGED <<cand, ledger, cp, store, results, inbox, env>>

\* An exception before the experiment completed: candidate and ledger are
\* restored, the checkpoint is not, and the supervisor exits.
Raise == /\ At("raise") /\ cand' = Restored /\ ledger' = run.old
         /\ run' = [Idle EXCEPT !.pc = "down"]
         /\ UNCHANGED <<cp, store, results, inbox, env>>

-----------------------------------------------------------------------------
(* Faults and the operator.                                                  *)

Gan == {"turn", "review", "certify", "audit", "audited", "typed", "decompose", "proposed",
        "gates", "search", "save"}

Timeout == /\ run.pc \in Gan /\ ~run.late /\ env.faults < MaxFaults
           /\ run' = [run EXCEPT !.late = TRUE] /\ env' = [env EXCEPT !.faults = @ + 1]
           /\ UNCHANGED <<cand, ledger, cp, store, results, inbox>>

\* Supervisor and GAN die together: only files survive.
Crash == /\ run.pc \notin {"down", "over"} /\ env.faults < MaxFaults
         /\ run' = [Idle EXCEPT !.pc = "down"]
         /\ env' = [env EXCEPT !.faults = @ + 1, !.crashed = TRUE]
         /\ UNCHANGED <<cand, ledger, cp, store, results, inbox>>

\* The operator starts the supervisor again.
Restart == /\ run.pc \in {"down", "over"} /\ run' = [Idle EXCEPT !.first = TRUE]
           /\ UNCHANGED <<cand, ledger, cp, store, results, inbox, env>>

DropEvent == /\ inbox.event = None /\ env.asks < MaxAsks
             /\ \E s \in Allowed("BLOCKED") \ {"BLOCKED"} : inbox' = [inbox EXCEPT !.event = s]
             /\ env' = [env EXCEPT !.asks = @ + 1]
             /\ UNCHANGED <<cand, ledger, cp, store, results, run>>

DropTrigger == /\ ~inbox.trigger /\ env.asks < MaxAsks
               /\ inbox' = [inbox EXCEPT !.trigger = TRUE] /\ env' = [env EXCEPT !.asks = @ + 1]
               /\ UNCHANGED <<cand, ledger, cp, store, results, run>>

-----------------------------------------------------------------------------
\* A campaign starts without a checkpoint, or with one of an older schema; its
\* candidate is as shipped, or as an earlier supervisor wrote it.
Init == /\ cand \in [ob : {Seed}, hyp : {"seed", "base"}] /\ ledger = [ver |-> 1, open |-> Oblig]
        /\ cp \in {None} \cup Migrated(cand, 1)
        /\ store = [commits |-> {}, query |-> None]
        /\ results = [tried |-> {}, last |-> "other", idle |-> 0, kept |-> FALSE]
        /\ inbox = [event |-> None, trigger |-> FALSE]
        /\ run = [Idle EXCEPT !.first = TRUE]
        /\ env = [faults |-> 0, asks |-> 0, crashed |-> FALSE]

Supervise == \/ ApplyEvent \/ UnlinkEvent \/ ClearInfrastructure \/ BeginIteration \/ CreateCheckpoint
             \/ NoGate \/ NoOpenQuery \/ ResolveConcept \/ PersistResolution \/ RouteResolution
             \/ Resume \/ Select \/ Stagnate \/ WriteCandidate \/ FreshCheckpoint \/ ChoiceFails
             \/ NoTournament \/ Tournament \/ AcceptContract
             \/ Evaluate \/ EvaluationFails \/ Late \/ Raise

Turn == \/ StartGan \/ SuspectPremise \/ Verdict \/ GanError \/ Certify \/ PersistAudit \/ AfterAudit
        \/ RoleFails \/ BeginDecompositionIteration \/ Rank \/ SynthesisRejected \/ PersistProposal
        \/ ToHostGate \/ GatesPass \/ GatesBackjump \/ GatesReject \/ Proved \/ NotProved
        \/ ProofInvalid \/ SaveLedger

Next == \/ Supervise \/ Turn \/ Poll
        \/ Timeout \/ Crash \/ Restart \/ DropEvent \/ DropTrigger

Spec == Init /\ [][Next]_vars

\* A running supervisor goes on, and so does the process it waits for once only
\* the ledger is left to save.  Nothing is assumed of the roles: their calls to
\* the runtime have no deadline, and a hung one hangs the iteration.
FairSpec == Spec /\ WF_vars(Supervise \/ SaveLedger)
-----------------------------------------------------------------------------
Pcs == Gan \cup {"loop", "unlink", "create", "gate", "resolved", "route", "choose", "write", "fresh",
                 "entry", "contract", "gan", "done", "failed", "raise", "down", "over"}
Ledger == [ver : 0..MaxVer, open : SUBSET Oblig]
Outcome == {"", "COMMITTED", "PARENT_STATEMENT_UNDERSPECIFIED", "INTERFACE_REQUIRED",
            "IDEMPOTENT_REPLAY", "PROVED", "FALSIFIED", "UNRESOLVED", "DECOMPOSE"}

\* Every variable has its type.
TypeOK ==
  /\ cand \in Candidate /\ ledger \in Ledger /\ cp \in Checkpoint \cup {None}
  /\ store \in [commits : SUBSET Gap, query : Gap \cup {None}]
  /\ results \in [tried : SUBSET Candidate, last : {"other", "FALSIFIED", "STAGNATED"},
                  idle : 0..Rounds, kept : BOOLEAN]
  /\ inbox \in [event : ProofState \cup {None}, trigger : BOOLEAN]
  /\ run \in [pc : Pcs, first : BOOLEAN, prev : Candidate \cup {None}, old : Ledger \cup {None},
              led : Ledger \cup {None}, pick : Candidate \cup Gap \cup {None}, out : Outcome,
              certified : BOOLEAN, late : BOOLEAN]
  /\ env \in [faults : 0..MaxFaults, asks : 0..MaxAsks, crashed : BOOLEAN]

\* "BLOCKED can be exited only by an explicit typed event": no gate, role,
\* failed iteration, crash or restart rewrites a blocked checkpoint; it
\* changes only while an operator's event lies in its file.
BlockedNeedsOperator ==
  [][cp # None /\ cp.state = "BLOCKED" => cp' = cp \/ inbox.event # None]_vars

\* "A candidate remains active until an explicit Strategy trigger": between
\* iterations the candidate file holds the candidate the pending role belongs
\* to, after kept, reverted, failed and timed-out experiments alike.  Its bytes
\* are the ones the checkpoint has the hash of, but for a seeded file that a
\* resumed iteration has rendered: that role is not resumed again.  (A crash
\* may separate the two writes; then the role is not resumed either.)
PendingRoleHasItsCandidate ==
  run.pc \in {"loop", "down"} /\ ~env.crashed /\ Pending /\ cp.state # "BLOCKED"
    => cand \in {cp.cand, Rendered(cp.cand)}

\* Proof search runs only under a contract, on an elaborated proposition with
\* no missing definition, for the candidate in the file and the ledger the
\* turn has read, whatever checkpoint the turn was resumed from.
SearchIsContracted ==
  At("search") => /\ cp.contract /\ cp.elab /\ cp.missing = {}
                  /\ Bound(cp, cand, run.led.ver)

\* No role works on an obligation that an earlier turn has decided, although
\* a checkpoint for it may still be resumable.
WorkOnPendingTarget == run.pc \in Gan \ {"save"} => cand.ob \in ledger.open

\* "quiescent-infrastructure-retry": a role stopped by the infrastructure is
\* retried, unless the supervisor itself has stopped.
InfrastructureRetries ==
  AdapterStatus(cp) = "INFRASTRUCTURE_BLOCKED"
     ~> AdapterStatus(cp) = "" \/ run.pc \in {"down", "over"}
=============================================================================
