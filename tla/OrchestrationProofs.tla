------------------------ MODULE OrchestrationProofs -------------------------
(* The safety properties of the proof loop hold for every set of obligations *)
(* and definitions, any number of rounds, crashes, timeouts, operator events *)
(* and ledger versions.                                                      *)
EXTENDS Orchestration, TLAPS

Between == {"loop", "unlink", "down", "over"}   \* no iteration is running
Early == {"create", "gate", "resolved", "route", "choose", "write"}
Ended == {"save", "done", "failed", "raise"}
Entered == Gan \cup {"entry", "contract", "gan", "done", "failed"}
Role == {"audit", "audited", "typed", "decompose", "proposed", "gates", "search"}

\* run_architecture_v7_entry was called by the GAN process.
Reentered == run.certified /\ run.pc \in {"entry", "contract"}

\* An iteration has its backups, a checkpoint once one is made, and the value
\* that its next write takes from memory.
Backups ==
  /\ run.pc \notin Between => run.prev \in Candidate /\ run.old \in Ledger
  /\ run.pc \notin Between \cup {"create"} => cp # None
  /\ run.pc = "write" => run.pick \in Candidate
  /\ run.pc = "resolved" => run.pick \in Gap
  /\ run.pc \in Early => run.prev = cand

\* Only the GAN process sets certified, and it has read the ledger.
Process ==
  /\ run.pc \in Early \cup {"fresh", "gan"} => ~run.certified
  /\ run.pc \in Gan => run.certified
  /\ run.pc \in Gan \/ Reentered => run.led \in Ledger
  /\ run.pc \in {"turn", "review"} => run.led.open = ledger.open
  /\ run.pc \in Gan \ {"save"} \/ Reentered => cand.ob \in ledger.open

\* An iteration never starts on, and only ever ends with, a blocked machine.
Unblocked == run.pc \notin Between \cup Ended => cp = None \/ cp.state # "BLOCKED"

\* The checkpoint is this candidate's, or the one of the bytes that a resumed
\* iteration has rendered and still has in its backup.
Mine == cp.cand = cand \/ (cand = Rendered(cp.cand) /\ run.prev = cp.cand)

\* From its entry to the end of the experiment the checkpoint is this
\* candidate's and resumable, by its very bytes once the roles run; a failed
\* iteration can still take the backup.
OwnCheckpoint ==
  /\ run.pc \in Entered => Mine /\ cp.state \in Resumable
  /\ run.pc \in Role \/ Reentered => cp.cand = cand
  /\ run.pc = "raise" => run.prev = cand \/ (Mine /\ cp.state \in Resumable)
  /\ ~env.crashed /\ cp # None /\ run.pc # "fresh" => cand \in {cp.cand, Rendered(cp.cand)}

\* A role works on the ledger the process read; the contract was given to an
\* elaborated target that lacks no definition.
Contracted ==
  /\ run.pc \in Role \/ Reentered => cp.ver = run.led.ver
  /\ Reentered /\ At("entry") => cp.state = "STRATEGY_TOURNAMENT"
  /\ run.pc \in {"contract", "search"} => cp.contract /\ cp.elab /\ cp.missing = {}

\* The inductive invariant.
IInv == TypeOK /\ Backups /\ Process /\ Unblocked /\ OwnCheckpoint /\ Contracted


Runs == [pc : Pcs, first : BOOLEAN, prev : Candidate \cup {None}, old : Ledger \cup {None},
         led : Ledger \cup {None}, pick : Candidate \cup Gap \cup {None}, out : Outcome,
         certified : BOOLEAN, late : BOOLEAN]

\* The files other than the checkpoint, which most steps leave alone.
Files == <<cand, ledger, store, results, inbox, env>>

\* Moving to another place changes nothing else in the process.
LEMMA StepFacts ==
  ASSUME run \in Runs, NEW p \in Pcs, Step(p)
  PROVE  /\ run' \in Runs /\ run'.pc = p /\ run'.prev = run.prev /\ run'.old = run.old
         /\ run'.led = run.led /\ run'.pick = run.pick /\ run'.certified = run.certified
  BY DEF Step, Runs

\* A transition changes nothing but the state.
LEMMA GotoFacts ==
  ASSUME NEW c \in Checkpoint, NEW s \in ProofState
  PROVE  /\ Goto(c, s) \in Checkpoint /\ Goto(c, s).state = s /\ Goto(c, s).cand = c.cand
         /\ Goto(c, s).ver = c.ver /\ Goto(c, s).missing = c.missing /\ Goto(c, s).elab = c.elab
         /\ Goto(c, s).contract = c.contract
  BY DEF Goto, Checkpoint

\* A fresh checkpoint is one, and carries nothing over.
LEMMA FreshFacts ==
  ASSUME NEW s \in ProofState, NEW c \in Candidate, NEW v \in Nat
  PROVE  /\ Fresh(s, c, v) \in Checkpoint /\ Fresh(s, c, v).state = s
         /\ Fresh(s, c, v).cand = c /\ Fresh(s, c, v).ver = v /\ Fresh(s, c, v).arts = {}
  BY DEF Fresh, Checkpoint, Adapter

\* Rendering a candidate makes a candidate.
LEMMA RenderedFacts == ASSUME NEW c \in Candidate PROVE Rendered(c) \in Candidate
  BY DEF Rendered, Candidate

\* A step that writes a checkpoint and moves the process keeps the types.
LEMMA StepTyped ==
  ASSUME TypeOK, NEW p \in Pcs, Step(p), UNCHANGED Files, cp' \in Checkpoint \cup {None}
  PROVE  TypeOK'
<1>1. run' \in Runs
  BY StepFacts DEF TypeOK, Runs
<1> QED
  BY <1>1 DEF TypeOK, Files, Runs

\* So does one that leaves the checkpoint alone.
LEMMA MoveTyped ==
  ASSUME TypeOK, NEW p \in Pcs, Step(p), UNCHANGED <<Files, cp>>
  PROVE  TypeOK'
<1>1. run' \in Runs
  BY StepFacts DEF TypeOK, Runs
<1> QED
  BY <1>1 DEF TypeOK, Files, Runs

\* ApplyEvent, AcceptContract and the other steps that follow the table.
LEMMA GotoStep ==
  ASSUME IInv, NEW s \in ProofState, NEW p \in Pcs, cp # None, cp' = Goto(cp, s), Step(p),
         UNCHANGED Files
  PROVE  /\ TypeOK' /\ cp' # None /\ cp \in Checkpoint
         /\ cp'.state = s /\ cp'.cand = cp.cand /\ cp'.ver = cp.ver /\ cp'.missing = cp.missing
         /\ cp'.elab = cp.elab /\ cp'.contract = cp.contract
<1>1. cp \in Checkpoint
  BY DEF IInv, TypeOK
<1>2. Goto(cp, s) \in Checkpoint
  BY <1>1, GotoFacts
<1>3. TypeOK'
  BY <1>2, StepTyped DEF IInv
<1>4. cp' # None
  BY <1>2, NoneAssumption
<1> QED
  BY <1>1, <1>3, <1>4, GotoFacts

\* The proof contracts are accepted on the way to the search or to the GAN.
LEMMA AcceptContractStep == ASSUME IInv, AcceptContract PROVE IInv'
<1>1. /\ run.pc = "contract" /\ cp' = Goto(cp, "PROOF_SEARCH") /\ cp # None /\ UNCHANGED Files
      /\ AfterEntry \in Pcs /\ Step(AfterEntry)
  BY DEF AcceptContract, At, Saved, IInv, Backups, Between, AfterEntry, Pcs, Gan, Files
<1>2. run \in Runs
  BY DEF IInv, TypeOK, Runs
<1>3. "PROOF_SEARCH" \in ProofState \cap Resumable
  BY DEF ProofState, RoleOrder, Resumable
<1> QED
  BY <1>1, <1>2, <1>3, StepFacts, GotoStep DEF IInv, Backups, Process, Unblocked, OwnCheckpoint, Mine,
     Contracted, Between, Early, Ended, Entered, Role, Reentered, At, Gan, AfterEntry, Files


\* A move of the process that writes no file.
LEMMA MoveFacts ==
  ASSUME IInv, NEW p \in Pcs, Step(p), UNCHANGED <<Files, cp>>
  PROVE  /\ TypeOK' /\ run' \in Runs /\ run'.pc = p /\ run'.prev = run.prev /\ run'.old = run.old
         /\ run'.led = run.led /\ run'.pick = run.pick /\ run'.certified = run.certified
<1>1. run \in Runs
  BY DEF IInv, TypeOK, Runs
<1> QED
  BY <1>1, StepFacts, MoveTyped DEF IInv

\* The supervisor and the process move on without a write.
LEMMA MovesStep ==
  ASSUME IInv, \/ NoGate \/ Resume \/ ChoiceFails \/ NoTournament \/ Late
               \/ GanError \/ NotProved \/ ProofInvalid
  PROVE  IInv'
<1>1. CASE NoGate
  <2>1. Step("choose") /\ "choose" \in Pcs /\ UNCHANGED <<Files, cp>>
    BY <1>1 DEF NoGate, Files, Pcs, Gan
  <2> QED
    BY <1>1, <2>1, MoveFacts DEF NoGate, IInv, Backups, Process, Unblocked, OwnCheckpoint, Mine,
       Contracted, Between, Early, Ended, Entered, Role, Reentered, At, Gan, Pcs, Files
<1>2. CASE Resume
  <2>1. /\ run.pc = "choose" /\ Step("entry") /\ "entry" \in Pcs /\ cand' = Rendered(cand)
        /\ UNCHANGED <<ledger, cp, store, results, inbox, env>>
        /\ cp.cand = cand /\ cp.state \in Resumable
    BY <1>2 DEF Resume, Resumes, At, Pcs
  <2>2. run \in Runs /\ cand \in Candidate
    BY DEF IInv, TypeOK, Runs
  <2>3. /\ run' \in Runs /\ run'.pc = "entry" /\ run'.prev = run.prev /\ run'.old = run.old
        /\ run'.certified = run.certified
    BY <2>1, <2>2, StepFacts
  <2>4. TypeOK'
    BY <2>1, <2>2, <2>3, RenderedFacts DEF IInv, TypeOK, Runs
  <2> QED
    BY <2>1, <2>3, <2>4 DEF IInv, Backups, Process, Unblocked, OwnCheckpoint, Mine,
       Contracted, Between, Early, Ended, Entered, Role, Reentered, At, Gan, Pcs, Files
<1>3. CASE ChoiceFails
  <2>1. Step("raise") /\ "raise" \in Pcs /\ UNCHANGED <<Files, cp>>
    BY <1>3 DEF ChoiceFails, Files, Pcs, Gan
  <2> QED
    BY <1>3, <2>1, MoveFacts DEF ChoiceFails, IInv, Backups, Process, Unblocked, OwnCheckpoint, Mine,
       Contracted, Between, Early, Ended, Entered, Role, Reentered, At, Gan, Pcs, Files
<1>4. CASE NoTournament
  <2>1. Step("gan") /\ "gan" \in Pcs /\ UNCHANGED <<Files, cp>>
    BY <1>4 DEF NoTournament, Files, Pcs, Gan
  <2> QED
    BY <1>4, <2>1, MoveFacts DEF NoTournament, IInv, Backups, Process, Unblocked, OwnCheckpoint, Mine,
       Contracted, Between, Early, Ended, Entered, Role, Reentered, At, Gan, Pcs, Files
<1>5. CASE Late
  <2>1. Step("raise") /\ "raise" \in Pcs /\ UNCHANGED <<Files, cp>>
    BY <1>5 DEF Late, Files, Pcs, Gan
  <2> QED
    BY <1>5, <2>1, MoveFacts DEF Late, IInv, Backups, Process, Unblocked, OwnCheckpoint, Mine,
       Contracted, Between, Early, Ended, Entered, Role, Reentered, At, Gan, Pcs, Files
<1>6. CASE GanError
  <2>1. Step("failed") /\ "failed" \in Pcs /\ UNCHANGED <<Files, cp>>
    BY <1>6 DEF GanError, Files, Pcs, Gan
  <2> QED
    BY <1>6, <2>1, MoveFacts DEF GanError, IInv, Backups, Process, Unblocked, OwnCheckpoint, Mine,
       Contracted, Between, Early, Ended, Entered, Role, Reentered, At, Gan, Pcs, Files
<1>7. CASE NotProved
  <2>1. Step("save") /\ "save" \in Pcs /\ UNCHANGED <<Files, cp>>
    BY <1>7 DEF NotProved, Files, Pcs, Gan
  <2> QED
    BY <1>7, <2>1, MoveFacts DEF NotProved, IInv, Backups, Process, Unblocked, OwnCheckpoint, Mine,
       Contracted, Between, Early, Ended, Entered, Role, Reentered, At, Gan, Pcs, Files
<1>8. CASE ProofInvalid
  <2>1. Step("failed") /\ "failed" \in Pcs /\ UNCHANGED <<Files, cp>>
    BY <1>8 DEF ProofInvalid, Files, Pcs, Gan
  <2> QED
    BY <1>8, <2>1, MoveFacts DEF ProofInvalid, IInv, Backups, Process, Unblocked, OwnCheckpoint, Mine,
       Contracted, Between, Early, Ended, Entered, Role, Reentered, At, Gan, Pcs, Files
<1> QED
  BY <1>1, <1>2, <1>3, <1>4, <1>5, <1>6, <1>7, <1>8


\* A step that writes a checkpoint and moves the process, and nothing else.
LEMMA WriteFacts ==
  ASSUME IInv, NEW p \in Pcs, Step(p), UNCHANGED Files, cp' \in Checkpoint
  PROVE  /\ TypeOK' /\ cp' # None /\ run' \in Runs /\ run'.pc = p /\ run'.prev = run.prev
         /\ run'.old = run.old /\ run'.led = run.led /\ run'.pick = run.pick
         /\ run'.certified = run.certified
<1>1. run \in Runs
  BY DEF IInv, TypeOK, Runs
<1> QED
  BY <1>1, StepFacts, StepTyped, NoneAssumption DEF IInv

\* Every state a step names is a state of the machine, and a resumable one.
LEMMA Named ==
  {"COUNTEREXAMPLE_WORKER", "DECOMPOSER", "HOST_TYPED_IR_GATE", "BLOCKED", "ADVERSARIAL_REVIEW",
   "PROOF_SEARCH", "STRATEGY_TOURNAMENT", "SYNTHESIS", "RESEARCH_CONTRACT_GATE",
   "DEFINITION_AUDITOR", "DEFINITION_RESOLUTION", "PREMISE_AUDIT"} \subseteq ProofState \cap Resumable
  BY DEF ProofState, RoleOrder, Resumable

\* Steps of the roles and gates that follow the transition table.
LEMMA TransitionsStep ==
  ASSUME IInv, \/ ApplyEvent \/ AfterAudit \/ BeginDecompositionIteration \/ ToHostGate
               \/ GatesReject \/ Proved
  PROVE  IInv'
<1>1. CASE ApplyEvent
  <2>1. /\ inbox.event \in ProofState /\ cp # None /\ cp' = Goto(cp, inbox.event)
        /\ Step("unlink") /\ "unlink" \in Pcs /\ UNCHANGED Files
    BY <1>1 DEF ApplyEvent, Saved, Files, Pcs, IInv, TypeOK
  <2>2. run \in Runs
    BY DEF IInv, TypeOK, Runs
  <2> QED
    BY <1>1, <2>1, <2>2, StepFacts, GotoStep DEF ApplyEvent, IInv, Backups, Process, Unblocked, OwnCheckpoint, Mine,
       Contracted, Between, Early, Ended, Entered, Role, Reentered, At, Gan, Pcs, Files
<1>2. CASE AfterAudit
  <2>1. cp \in Checkpoint /\ UNCHANGED Files /\ run.pc = "audited"
    BY <1>2 DEF AfterAudit, IInv, TypeOK, Backups, Between, At, Files
  <2>2. CASE CanGo(cp, "COUNTEREXAMPLE_WORKER")
    <3>1. cp' = Goto(cp, "COUNTEREXAMPLE_WORKER") /\ Step("typed") /\ "typed" \in Pcs
      BY <1>2, <2>2 DEF AfterAudit, Saved, Pcs, Gan
    <3>2. /\ cp' \in Checkpoint /\ cp'.cand = cp.cand /\ cp'.ver = cp.ver
          /\ cp'.state = "COUNTEREXAMPLE_WORKER"
      BY <2>1, <3>1, GotoFacts, Named
    <3> QED
      BY <2>1, <3>1, <3>2, WriteFacts, Named DEF IInv, Backups, Process, Unblocked, OwnCheckpoint, Mine,
       Contracted, Between, Early, Ended, Entered, Role, Reentered, At, Gan, Pcs, Files
  <2>3. CASE ~CanGo(cp, "COUNTEREXAMPLE_WORKER")
    <3>1. cp' = [cp EXCEPT !.adapter = "ADAPTER_BLOCKED"] /\ Step("save") /\ "save" \in Pcs
      BY <1>2, <2>3 DEF AfterAudit, Stopped, Saved, Pcs, Gan
    <3>2. cp' \in Checkpoint /\ cp'.cand = cp.cand /\ cp'.state = cp.state
      BY <2>1, <3>1 DEF Checkpoint, Adapter
    <3> QED
      BY <2>1, <3>1, <3>2, WriteFacts DEF IInv, Backups, Process, Unblocked, OwnCheckpoint, Mine,
       Contracted, Between, Early, Ended, Entered, Role, Reentered, At, Gan, Pcs, Files
  <2> QED
    BY <2>2, <2>3
<1>3. CASE BeginDecompositionIteration
  <2>1. cp \in Checkpoint /\ UNCHANGED Files /\ run.pc \in {"typed", "decompose"}
    BY <1>3 DEF BeginDecompositionIteration, IInv, TypeOK, Backups, Between, At, Files
  <2>2. CASE CanGo(cp, "DECOMPOSER")
    <3>1. cp' = Goto(cp, "DECOMPOSER") /\ Step("save") /\ "save" \in Pcs
      BY <1>3, <2>2 DEF BeginDecompositionIteration, TryGoto, Saved, Pcs, Gan
    <3>2. cp' \in Checkpoint /\ cp'.cand = cp.cand /\ cp'.state = "DECOMPOSER"
      BY <2>1, <3>1, GotoFacts, Named
    <3> QED
      BY <2>1, <3>1, <3>2, WriteFacts, Named DEF IInv, Backups, Process, Unblocked, OwnCheckpoint, Mine,
       Contracted, Between, Early, Ended, Entered, Role, Reentered, At, Gan, Pcs, Files
  <2>3. CASE ~CanGo(cp, "DECOMPOSER")
    <3>1. cp' = cp /\ Step("failed") /\ "failed" \in Pcs
      BY <1>3, <2>3 DEF BeginDecompositionIteration, TryGoto, Pcs
    <3> QED
      BY <2>1, <3>1, WriteFacts DEF IInv, Backups, Process, Unblocked, OwnCheckpoint, Mine,
       Contracted, Between, Early, Ended, Entered, Role, Reentered, At, Gan, Pcs, Files
  <2> QED
    BY <2>2, <2>3
<1>4. CASE ToHostGate
  <2>1. cp \in Checkpoint /\ UNCHANGED Files /\ run.pc = "proposed"
    BY <1>4 DEF ToHostGate, IInv, TypeOK, Backups, Between, At, Files
  <2>2. CASE CanGo(cp, "MATH_IR_TRANSLATION")
    <3>1. cp' = Goto(cp, "HOST_TYPED_IR_GATE") /\ Step("gates") /\ "gates" \in Pcs
      BY <1>4, <2>2 DEF ToHostGate, Saved, Pcs, Gan
    <3>2. /\ cp' \in Checkpoint /\ cp'.cand = cp.cand /\ cp'.state = "HOST_TYPED_IR_GATE"
          /\ cp'.ver = cp.ver
      BY <2>1, <3>1, GotoFacts, Named
    <3> QED
      BY <2>1, <3>1, <3>2, WriteFacts, Named DEF IInv, Backups, Process, Unblocked, OwnCheckpoint, Mine,
       Contracted, Between, Early, Ended, Entered, Role, Reentered, At, Gan, Pcs, Files
  <2>3. CASE ~CanGo(cp, "MATH_IR_TRANSLATION")
    <3>1. cp' = cp /\ Step("failed") /\ "failed" \in Pcs
      BY <1>4, <2>3 DEF ToHostGate, Pcs
    <3> QED
      BY <2>1, <3>1, WriteFacts DEF IInv, Backups, Process, Unblocked, OwnCheckpoint, Mine,
       Contracted, Between, Early, Ended, Entered, Role, Reentered, At, Gan, Pcs, Files
  <2> QED
    BY <2>2, <2>3
<1>5. CASE GatesReject
  <2>1. cp \in Checkpoint /\ UNCHANGED Files /\ run.pc = "gates"
    BY <1>5 DEF GatesReject, IInv, TypeOK, Backups, Between, At, Files
  <2>2. cp' = Goto(cp, "BLOCKED") /\ Step("save") /\ "save" \in Pcs
    BY <1>5 DEF GatesReject, Saved, Pcs, Gan
  <2>3. cp' \in Checkpoint /\ cp'.cand = cp.cand /\ cp'.state = "BLOCKED"
    BY <2>1, <2>2, GotoFacts, Named
  <2> QED
    BY <2>1, <2>2, <2>3, WriteFacts, Named DEF IInv, Backups, Process, Unblocked, OwnCheckpoint, Mine,
       Contracted, Between, Early, Ended, Entered, Role, Reentered, At, Gan, Pcs, Files
<1>6. CASE Proved
  <2>1. cp \in Checkpoint /\ UNCHANGED Files /\ run.pc = "search"
    BY <1>6 DEF Proved, IInv, TypeOK, Backups, Between, At, Files
  <2>2. cp' = Goto(cp, "ADVERSARIAL_REVIEW") /\ Step("save") /\ "save" \in Pcs
    BY <1>6 DEF Proved, Saved, Pcs, Gan
  <2>3. cp' \in Checkpoint /\ cp'.cand = cp.cand /\ cp'.state = "ADVERSARIAL_REVIEW"
    BY <2>1, <2>2, GotoFacts, Named
  <2> QED
    BY <2>1, <2>2, <2>3, WriteFacts, Named DEF IInv, Backups, Process, Unblocked, OwnCheckpoint, Mine,
       Contracted, Between, Early, Ended, Entered, Role, Reentered, At, Gan, Pcs, Files
<1> QED
  BY <1>1, <1>2, <1>3, <1>4, <1>5, <1>6


\* Steps that edit the checkpoint in place.
LEMMA EditsStep ==
  ASSUME IInv, \/ NoOpenQuery \/ PersistResolution \/ PersistProposal \/ GatesPass
               \/ GatesBackjump \/ SynthesisRejected \/ RoleFails \/ Tournament \/ Rank
  PROVE  IInv'
<1>1. CASE NoOpenQuery
  <2>1. cp \in Checkpoint /\ UNCHANGED Files /\ run.pc = "gate"
    BY <1>1 DEF NoOpenQuery, IInv, TypeOK, Backups, Between, At, Files
  <2>2. cp' = [cp EXCEPT !.gap = None] /\ Step("loop") /\ "loop" \in Pcs
    BY <1>1 DEF NoOpenQuery, Saved, Pcs, Gan
  <2>3. cp' \in Checkpoint /\ cp'.cand = cp.cand
    BY <2>1, <2>2, Named DEF Checkpoint, Adapter
  <2> QED
    BY <1>1, <2>1, <2>2, <2>3, WriteFacts, Named DEF NoOpenQuery, IInv, Backups, Process, Unblocked, OwnCheckpoint, Mine,
       Contracted, Between, Early, Ended, Entered, Role, Reentered, At, Gan, Pcs, Files
<1>2. CASE PersistResolution
  <2>1. cp \in Checkpoint /\ UNCHANGED Files /\ run.pc = "resolved" /\ run.pick \in Gap
    BY <1>2 DEF PersistResolution, IInv, TypeOK, Backups, Between, At, Files
  <2>2. cp' = [cp EXCEPT !.state = "DEFINITION_RESOLUTION", !.gap = run.pick] /\ Step("route") /\ "route" \in Pcs
    BY <1>2 DEF PersistResolution, Saved, Pcs, Gan
  <2>3. cp' \in Checkpoint /\ cp'.cand = cp.cand /\ cp'.state = "DEFINITION_RESOLUTION"
    BY <2>1, <2>2, Named DEF Checkpoint, Adapter
  <2> QED
    BY <1>2, <2>1, <2>2, <2>3, WriteFacts, Named DEF PersistResolution, IInv, Backups, Process, Unblocked, OwnCheckpoint, Mine,
       Contracted, Between, Early, Ended, Entered, Role, Reentered, At, Gan, Pcs, Files
<1>3. CASE PersistProposal
  <2>1. cp \in Checkpoint /\ UNCHANGED Files /\ run.pc = "decompose"
    BY <1>3 DEF PersistProposal, IInv, TypeOK, Backups, Between, At, Files
  <2>2. cp' = [cp EXCEPT !.arts = @ \cup {"decomposer"}] /\ Step("proposed") /\ "proposed" \in Pcs
    BY <1>3 DEF PersistProposal, Saved, Pcs, Gan
  <2>3. cp' \in Checkpoint /\ cp'.cand = cp.cand /\ cp'.state = cp.state /\ cp'.ver = cp.ver
    BY <2>1, <2>2, Named DEF Checkpoint, Adapter
  <2> QED
    BY <1>3, <2>1, <2>2, <2>3, WriteFacts, Named DEF PersistProposal, IInv, Backups, Process, Unblocked, OwnCheckpoint, Mine,
       Contracted, Between, Early, Ended, Entered, Role, Reentered, At, Gan, Pcs, Files
<1>4. CASE GatesPass
  <2>1. cp \in Checkpoint /\ UNCHANGED Files /\ run.pc = "gates"
    BY <1>4 DEF GatesPass, IInv, TypeOK, Backups, Between, At, Files
  <2>2. cp' = [cp EXCEPT !.state = "STRATEGY_TOURNAMENT", !.elab = TRUE] /\ Step("entry") /\ "entry" \in Pcs
    BY <1>4 DEF GatesPass, Saved, Pcs, Gan
  <2>3. /\ cp' \in Checkpoint /\ cp'.cand = cp.cand /\ cp'.ver = cp.ver
        /\ cp'.state = "STRATEGY_TOURNAMENT"
    BY <2>1, <2>2, Named DEF Checkpoint, Adapter
  <2> QED
    BY <1>4, <2>1, <2>2, <2>3, WriteFacts, Named DEF GatesPass, IInv, Backups, Process, Unblocked, OwnCheckpoint, Mine,
       Contracted, Between, Early, Ended, Entered, Role, Reentered, At, Gan, Pcs, Files
<1>5. CASE GatesBackjump
  <2>1. cp \in Checkpoint /\ UNCHANGED Files /\ run.pc = "gates"
    BY <1>5 DEF GatesBackjump, IInv, TypeOK, Backups, Between, At, Files
  <2>2. cp' = [cp EXCEPT !.state = "SYNTHESIS", !.ranked = FALSE, !.arts = @ \ {"decomposer"}]
         /\ Step("save") /\ "save" \in Pcs
    BY <1>5 DEF GatesBackjump, Saved, Pcs, Gan
  <2>3. cp' \in Checkpoint /\ cp'.cand = cp.cand /\ cp'.state = "SYNTHESIS"
    BY <2>1, <2>2, Named DEF Checkpoint, Adapter
  <2> QED
    BY <1>5, <2>1, <2>2, <2>3, WriteFacts, Named DEF GatesBackjump, IInv, Backups, Process, Unblocked, OwnCheckpoint, Mine,
       Contracted, Between, Early, Ended, Entered, Role, Reentered, At, Gan, Pcs, Files
<1>6. CASE SynthesisRejected
  <2>1. cp \in Checkpoint /\ UNCHANGED Files /\ run.pc = "typed"
    BY <1>6 DEF SynthesisRejected, IInv, TypeOK, Backups, Between, At, Files
  <2>2. cp' = [cp EXCEPT !.state = "SYNTHESIS", !.adapter = "INTEGRATION_BLOCKED"]
         /\ Step("save") /\ "save" \in Pcs
    BY <1>6 DEF SynthesisRejected, Saved, Pcs, Gan
  <2>3. cp' \in Checkpoint /\ cp'.cand = cp.cand /\ cp'.state = "SYNTHESIS"
    BY <2>1, <2>2, Named DEF Checkpoint, Adapter
  <2> QED
    BY <1>6, <2>1, <2>2, <2>3, WriteFacts, Named DEF SynthesisRejected, IInv, Backups, Process, Unblocked, OwnCheckpoint, Mine,
       Contracted, Between, Early, Ended, Entered, Role, Reentered, At, Gan, Pcs, Files
<1>7. CASE RoleFails
  <2>1. cp \in Checkpoint /\ UNCHANGED Files /\ run.pc \in Role
    BY <1>7 DEF RoleFails, IInv, TypeOK, Backups, Between, Role, Files
  <2>2. PICK a \in Adapter : cp' = [cp EXCEPT !.adapter = a] /\ Step("save")
    BY <1>7 DEF RoleFails, Stopped, Saved, Adapter
  <2>3. cp' \in Checkpoint /\ cp'.cand = cp.cand /\ cp'.state = cp.state
    BY <2>1, <2>2 DEF Checkpoint
  <2>4. "save" \in Pcs
    BY DEF Pcs, Gan
  <2> QED
    BY <2>1, <2>2, <2>3, <2>4, WriteFacts DEF IInv, Backups, Process, Unblocked, OwnCheckpoint, Mine,
       Contracted, Between, Early, Ended, Entered, Role, Reentered, At, Gan, Pcs, Files
<1>8. CASE Tournament
  <2>1. cp \in Checkpoint /\ UNCHANGED Files /\ run.pc = "entry"
    BY <1>8 DEF Tournament, IInv, TypeOK, Backups, Between, At, Files
  <2>0. PICK quarantined \in BOOLEAN :
          IF Precontract(cp) \/ quarantined
          THEN /\ Saved([cp EXCEPT !.state = "DECOMPOSER", !.contract = FALSE])
               /\ Step(IF run.certified THEN "save" ELSE "gan")
          ELSE /\ Saved([cp EXCEPT !.state = "RESEARCH_CONTRACT_GATE", !.contract = TRUE])
               /\ Step("contract")
    BY <1>8 DEF Tournament
  <2>2. CASE Precontract(cp) \/ quarantined
    <3> DEFINE p == IF run.certified THEN "save" ELSE "gan"
    <3>1. cp' = [cp EXCEPT !.state = "DECOMPOSER", !.contract = FALSE] /\ Step(p) /\ p \in Pcs
      BY <2>0, <2>2 DEF Saved, Pcs, Gan
    <3>2. cp' \in Checkpoint /\ cp'.cand = cp.cand /\ cp'.state = "DECOMPOSER"
      BY <2>1, <3>1, Named DEF Checkpoint
    <3> QED
      BY <2>1, <3>1, <3>2, WriteFacts, Named DEF IInv, Backups, Process, Unblocked, OwnCheckpoint, Mine,
       Contracted, Between, Early, Ended, Entered, Role, Reentered, At, Gan, Pcs, Files
  <2>3. CASE ~(Precontract(cp) \/ quarantined)
    <3>1. /\ cp' = [cp EXCEPT !.state = "RESEARCH_CONTRACT_GATE", !.contract = TRUE]
          /\ Step("contract") /\ "contract" \in Pcs
      BY <2>0, <2>3 DEF Saved, Pcs
    <3>2. /\ cp' \in Checkpoint /\ cp'.cand = cp.cand /\ cp'.state = "RESEARCH_CONTRACT_GATE"
          /\ cp'.contract /\ cp'.elab = cp.elab /\ cp'.missing = cp.missing /\ cp'.ver = cp.ver
      BY <2>1, <3>1, Named DEF Checkpoint
    <3>3. cp.elab /\ cp.missing = {}
      BY <2>1, <2>3 DEF Precontract, Checkpoint
    <3> QED
      BY <2>1, <3>1, <3>2, <3>3, WriteFacts, Named DEF IInv, Backups, Process, Unblocked, OwnCheckpoint, Mine,
       Contracted, Between, Early, Ended, Entered, Role, Reentered, At, Gan, Pcs, Files
  <2> QED
    BY <2>2, <2>3
<1>9. CASE Rank
  <2>1. cp \in Checkpoint /\ UNCHANGED Files /\ run.pc = "typed"
    BY <1>9 DEF Rank, IInv, TypeOK, Backups, Between, At, Files
  <2>2. ASSUME Step("decompose"), cp' \in Checkpoint, cp'.cand = cp.cand, cp'.ver = cp.ver,
               cp'.state \in {cp.state, "DECOMPOSER"}
        PROVE  IInv'
    <3>1. "decompose" \in Pcs
      BY DEF Pcs, Gan
    <3> QED
      BY <2>1, <2>2, <3>1, WriteFacts, Named DEF IInv, Backups, Process, Unblocked, OwnCheckpoint, Mine,
       Contracted, Between, Early, Ended, Entered, Role, Reentered, At, Gan, Pcs, Files
  <2>3. CASE ~SynthesisMode
    <3>1. cp' = [cp EXCEPT !.adapter = ""] /\ Step("decompose")
      BY <1>9, <2>3 DEF Rank, Saved
    <3> QED
      BY <2>1, <2>2, <3>1 DEF Checkpoint, Adapter
  <2>4. CASE SynthesisMode /\ CanSynthesize
    <3>1. /\ cp' = [cp EXCEPT !.state = "DECOMPOSER", !.ranked = TRUE, !.adapter = ""]
          /\ Step("decompose")
      BY <1>9, <2>4 DEF Rank, Saved
    <3> QED
      BY <2>1, <2>2, <3>1, Named DEF Checkpoint, Adapter
  <2>5. CASE SynthesisMode /\ ~CanSynthesize
    <3>1. Step("failed") /\ cp' = cp /\ "failed" \in Pcs
      BY <1>9, <2>5 DEF Rank, Pcs
    <3> QED
      BY <2>1, <3>1, WriteFacts DEF IInv, Backups, Process, Unblocked, OwnCheckpoint, Mine,
       Contracted, Between, Early, Ended, Entered, Role, Reentered, At, Gan, Pcs, Files
  <2> QED
    BY <2>3, <2>4, <2>5
<1> QED
  BY <1>1, <1>2, <1>3, <1>4, <1>5, <1>6, <1>7, <1>8, <1>9


\* A checkpoint is made for the candidate, or found bound to it.
LEMMA FreshStep ==
  ASSUME IInv, CreateCheckpoint \/ FreshCheckpoint \/ Certify
  PROVE  IInv'
<1>1. cand \in Candidate /\ ledger.ver \in Nat
  BY BoundsAssumption DEF IInv, TypeOK, Ledger
<1>2. CASE CreateCheckpoint
  <2>1. /\ run.pc = "create" /\ UNCHANGED Files /\ Step("gate") /\ "gate" \in Pcs
        /\ cp' = Fresh("STRATEGY_TOURNAMENT", cand, ledger.ver)
    BY <1>2 DEF CreateCheckpoint, At, Files, Pcs, Saved
  <2>2. cp' \in Checkpoint /\ cp'.cand = cand /\ cp'.state = "STRATEGY_TOURNAMENT"
    BY <1>1, <2>1, FreshFacts, Named
  <2> QED
    BY <2>1, <2>2, WriteFacts, Named DEF IInv, Backups, Process, Unblocked, OwnCheckpoint, Mine,
       Contracted, Between, Early, Ended, Entered, Role, Reentered, At, Gan, Pcs, Files
<1>3. CASE FreshCheckpoint
  <2>1. /\ run.pc = "fresh" /\ UNCHANGED Files /\ Step("entry") /\ "entry" \in Pcs
        /\ cp' = Fresh("STRATEGY_TOURNAMENT", cand, ledger.ver)
    BY <1>3 DEF FreshCheckpoint, At, Files, Pcs, Saved
  <2>2. cp' \in Checkpoint /\ cp'.cand = cand /\ cp'.state = "STRATEGY_TOURNAMENT"
    BY <1>1, <2>1, FreshFacts, Named
  <2> QED
    BY <2>1, <2>2, WriteFacts, Named DEF IInv, Backups, Process, Unblocked, OwnCheckpoint, Mine,
       Contracted, Between, Early, Ended, Entered, Role, Reentered, At, Gan, Pcs, Files
<1>4. CASE Certify
  <2> DEFINE bound == Bound(cp, cand, run.led.ver)
             status == IF cp.adapter = "INFRASTRUCTURE_BLOCKED" THEN "" ELSE cp.adapter
             retried == [cp EXCEPT !.adapter = status]
             again == [retried EXCEPT !.state = "DEFINITION_AUDITOR", !.arts = {}, !.missing = {}]
             c == IF ~bound THEN Fresh("DEFINITION_AUDITOR", cand, run.led.ver)
                  ELSE IF Loadable(cp) THEN retried ELSE again
  <2>1. cp \in Checkpoint /\ UNCHANGED Files /\ run.pc = "certify" /\ run.led \in Ledger
    BY <1>4 DEF Certify, IInv, TypeOK, Backups, Process, Between, At, Files, Gan
  <2>0. run.led.ver \in Nat
    BY <2>1, BoundsAssumption DEF Ledger
  <2>2. CASE cp.state = "BLOCKED" \/ (bound /\ cp.adapter = "ADAPTER_BLOCKED")
    <3>1. Step("save") /\ cp' = cp /\ "save" \in Pcs
      BY <1>4, <2>2 DEF Certify, Pcs, Gan
    <3> QED
      BY <2>1, <3>1, WriteFacts DEF IInv, Backups, Process, Unblocked, OwnCheckpoint, Mine,
       Contracted, Between, Early, Ended, Entered, Role, Reentered, At, Gan, Pcs, Files
  <2>3. CASE ~(cp.state = "BLOCKED" \/ (bound /\ cp.adapter = "ADAPTER_BLOCKED"))
    <3> DEFINE p == IF "audit" \in c.arts THEN "typed" ELSE "audit"
    <3>1. cp' = c /\ Step(p) /\ p \in Pcs
      BY <1>4, <2>3 DEF Certify, Saved, Pcs, Gan
    <3>2. status \in Adapter
      BY <2>1 DEF Checkpoint, Adapter
    <3>3. /\ retried \in Checkpoint /\ retried.cand = cp.cand /\ retried.ver = cp.ver
          /\ retried.state = cp.state
      <4> HIDE DEF status
      <4> QED
        BY <2>1, <3>2 DEF Checkpoint
    <3>4. /\ again \in Checkpoint /\ again.cand = cp.cand /\ again.ver = cp.ver
          /\ again.state = "DEFINITION_AUDITOR"
      <4> HIDE DEF retried
      <4> QED
        BY <3>3, Named DEF Checkpoint
    <3>5. bound => cp.cand = cand /\ cp.ver = run.led.ver
      BY DEF Bound
    <3>6. /\ cp' \in Checkpoint /\ cp'.cand = cand /\ cp'.ver = run.led.ver
          /\ cp'.state \in {cp.state, "DEFINITION_AUDITOR"}
      <4> HIDE DEF bound, retried, again
      <4> QED
        BY <1>1, <2>0, <3>1, <3>3, <3>4, <3>5, FreshFacts, Named
    <3>7. cp'.state \in Resumable /\ cp'.state # "BLOCKED"
      BY <2>1, <2>3, <3>6, Named DEF IInv, OwnCheckpoint, Entered, Gan
    <3>8. p \in {"typed", "audit"}
      OBVIOUS
    <3> HIDE DEF p, c
    <3> QED
      BY <2>1, <3>1, <3>6, <3>7, <3>8, WriteFacts DEF IInv, Backups, Process, Unblocked, OwnCheckpoint, Mine,
       Contracted, Between, Early, Ended, Entered, Role, Reentered, At, Gan, Pcs, Files
  <2> QED
    BY <2>2, <2>3
<1> QED
  BY <1>2, <1>3, <1>4


\* Steps that also write the definition store, and the infrastructure retry.
LEMMA StoreStep ==
  ASSUME IInv, ResolveConcept \/ RouteResolution \/ PersistAudit \/ ClearInfrastructure
  PROVE  IInv'
<1>0. run \in Runs
  BY DEF IInv, TypeOK, Runs
<1>1. CASE ResolveConcept
  <2>0. PICK g \in Gaps : \E s \in Resolutions(g) :
          /\ store' = [commits |-> IF s = "COMMITTED" THEN store.commits \cup {g} ELSE store.commits,
                       query |-> g]
          /\ run' = [run EXCEPT !.pc = "resolved", !.out = s, !.pick = g]
    BY <1>1 DEF ResolveConcept
  <2>1. PICK s \in Resolutions(g) :
          /\ store' = [commits |-> IF s = "COMMITTED" THEN store.commits \cup {g} ELSE store.commits,
                       query |-> g]
          /\ run' = [run EXCEPT !.pc = "resolved", !.out = s, !.pick = g]
    BY <2>0
  <2>2. /\ run.pc = "gate" /\ cp \in Checkpoint /\ UNCHANGED <<cand, ledger, cp, results, inbox, env>>
    BY <1>1 DEF ResolveConcept, At, IInv, TypeOK, Backups, Between
  <2>3. g \in Gap /\ s \in Outcome
    BY <2>2 DEF Gaps, Resolutions, Outcome, Checkpoint
  <2>4. /\ run' \in Runs /\ run'.pc = "resolved" /\ run'.pick = g /\ run'.prev = run.prev
        /\ run'.old = run.old /\ run'.certified = run.certified /\ run'.led = run.led
    BY <1>0, <2>1, <2>3 DEF Runs, Pcs
  <2>5. store' \in [commits : SUBSET Gap, query : Gap \cup {None}]
    BY <2>1, <2>3 DEF IInv, TypeOK
  <2>6. TypeOK'
    BY <2>2, <2>4, <2>5 DEF IInv, TypeOK, Runs
  <2> QED
    BY <2>2, <2>3, <2>4, <2>6 DEF IInv, Backups, Process, Unblocked, OwnCheckpoint, Mine,
       Contracted, Between, Early, Ended, Entered, Role, Reentered, At, Gan, Pcs
<1>2. CASE RouteResolution
  <2> DEFINE s == CASE run.out = "COMMITTED" -> "STRATEGY_TOURNAMENT"
                    [] run.out = "IDEMPOTENT_REPLAY" -> "PARENT_STATEMENT_UNDERSPECIFIED"
                    [] OTHER -> "PREMISE_AUDIT"
  <2>1. /\ run.pc = "route" /\ cp \in Checkpoint /\ UNCHANGED <<cand, ledger, results, inbox, env>>
        /\ cp' = Goto(cp, s) /\ Step("loop") /\ store' = [store EXCEPT !.query = None]
    BY <1>2 DEF RouteResolution, At, IInv, TypeOK, Backups, Between, Saved
  <2>2. s \in ProofState
    BY DEF ProofState, RoleOrder
  <2> HIDE DEF s
  <2>3. cp' \in Checkpoint /\ cp'.cand = cp.cand
    BY <2>1, <2>2, GotoFacts
  <2>4. run' \in Runs /\ run'.pc = "loop"
    BY <1>0, <2>1, StepFacts DEF Pcs
  <2>5. store' \in [commits : SUBSET Gap, query : Gap \cup {None}]
    BY <2>1 DEF IInv, TypeOK
  <2>6. TypeOK'
    BY <2>1, <2>3, <2>4, <2>5 DEF IInv, TypeOK, Runs
  <2>7. cp # None
    BY <2>1, NoneAssumption
  <2> QED
    BY <2>1, <2>3, <2>4, <2>6, <2>7 DEF IInv, Backups, Process, Unblocked, OwnCheckpoint, Mine,
       Contracted, Between, Early, Ended, Entered, Role, Reentered, At, Gan, Pcs
<1>3. CASE PersistAudit
  <2>1. PICK m \in SUBSET Gap : cp' = [cp EXCEPT !.arts = @ \cup {"audit"}, !.missing = m]
    BY <1>3 DEF PersistAudit, Saved
  <2>2. /\ run.pc = "audit" /\ cp \in Checkpoint /\ UNCHANGED <<cand, ledger, results, inbox, env>>
        /\ Step("audited") /\ store' = [store EXCEPT !.query = None]
    BY <1>3 DEF PersistAudit, At, IInv, TypeOK, Backups, Between
  <2>3. cp' \in Checkpoint /\ cp'.cand = cp.cand /\ cp'.ver = cp.ver /\ cp'.state = cp.state
    BY <2>1, <2>2 DEF Checkpoint
  <2>4. /\ run' \in Runs /\ run'.pc = "audited" /\ run'.prev = run.prev /\ run'.old = run.old
        /\ run'.led = run.led /\ run'.certified = run.certified
    BY <1>0, <2>2, StepFacts DEF Pcs, Gan
  <2>5. store' \in [commits : SUBSET Gap, query : Gap \cup {None}]
    BY <2>2 DEF IInv, TypeOK
  <2>6. TypeOK'
    BY <2>2, <2>3, <2>4, <2>5 DEF IInv, TypeOK, Runs
  <2>7. cp' # None
    BY <2>3, NoneAssumption
  <2> QED
    BY <2>2, <2>3, <2>4, <2>6, <2>7 DEF IInv, Backups, Process, Unblocked, OwnCheckpoint, Mine,
       Contracted, Between, Early, Ended, Entered, Role, Reentered, At, Gan, Pcs
<1>4. CASE ClearInfrastructure
  <2>1. /\ run.pc = "loop" /\ cp \in Checkpoint /\ cp # None /\ cp' = [cp EXCEPT !.adapter = ""]
        /\ UNCHANGED <<cand, ledger, store, results, inbox, run, env>>
    BY <1>4 DEF ClearInfrastructure, At, IInv, TypeOK, Saved
  <2>2. cp' \in Checkpoint /\ cp'.cand = cp.cand
    BY <2>1 DEF Checkpoint, Adapter
  <2>3. TypeOK'
    <3>1. run' \in Runs
      BY <1>0, <2>1
    <3> QED
      BY <2>1, <2>2, <3>1 DEF IInv, TypeOK, Runs
  <2> QED
    BY <2>1, <2>2, <2>3 DEF IInv, Backups, Process, Unblocked, OwnCheckpoint, Mine,
       Contracted, Between, Early, Ended, Entered, Role, Reentered, At, Gan, Pcs
<1> QED
  BY <1>1, <1>2, <1>3, <1>4

\* Between two iterations the process holds nothing.
LEMMA IdleFacts ==
  /\ Idle \in Runs /\ Idle.pc = "loop"
  /\ \A p \in {"down", "over"} : [Idle EXCEPT !.pc = p] \in Runs /\ [Idle EXCEPT !.pc = p].pc = p
  /\ [Idle EXCEPT !.first = TRUE] \in Runs /\ [Idle EXCEPT !.first = TRUE].pc = "loop"
  BY DEF Idle, Runs, Pcs, Outcome


\* The supervisor chooses what the iteration works on, or stops.
LEMMA ChoiceStep ==
  ASSUME IInv, UnlinkEvent \/ BeginIteration \/ Select \/ Stagnate \/ WriteCandidate
  PROVE  IInv'
<1>0. run \in Runs /\ cand \in Candidate /\ ledger \in Ledger /\ results.tried \subseteq Candidate
  BY DEF IInv, TypeOK, Runs
<1>1. CASE UnlinkEvent
  <2>1. /\ run.pc = "unlink" /\ Step("loop") /\ inbox' = [inbox EXCEPT !.event = None]
        /\ UNCHANGED <<cand, ledger, cp, store, results, env>>
    BY <1>1 DEF UnlinkEvent, At
  <2>2. run' \in Runs /\ run'.pc = "loop"
    BY <1>0, <2>1, StepFacts DEF Pcs
  <2>3. inbox' \in [event : ProofState \cup {None}, trigger : BOOLEAN]
    BY <2>1 DEF IInv, TypeOK
  <2>4. TypeOK'
    BY <2>1, <2>2, <2>3 DEF IInv, TypeOK, Runs
  <2> QED
    BY <2>1, <2>2, <2>4 DEF IInv, Backups, Process, Unblocked, OwnCheckpoint, Mine,
       Contracted, Between, Early, Ended, Entered, Role, Reentered, At, Gan, Pcs
<1>2. CASE BeginIteration
  <2> DEFINE p == IF cp = None THEN "create" ELSE "gate"
             n == [Idle EXCEPT !.pc = p, !.first = run.first, !.prev = cand, !.old = ledger, !.pick = cand]
  <2>1. /\ run.pc = "loop" /\ ~Halted(cp) /\ UNCHANGED <<cand, ledger, cp, store, results, inbox, env>>
        /\ run' = IF ledger.open = {} THEN [Idle EXCEPT !.pc = "over"] ELSE n
    BY <1>2 DEF BeginIteration, At
  <2>2. n \in Runs /\ n.pc = p /\ n.prev = cand /\ n.old = ledger /\ ~n.certified
    <3>1. p \in Pcs
      BY DEF Pcs
    <3>2. Idle \in Runs /\ ~Idle.certified
      BY IdleFacts DEF Idle
    <3>3. run.first \in BOOLEAN
      BY <1>0 DEF Runs
    <3> HIDE DEF p
    <3> QED
      BY <1>0, <3>1, <3>2, <3>3 DEF Runs
  <2> HIDE DEF n
  <2>3. CASE ledger.open = {}
    <3>1. run' \in Runs /\ run'.pc = "over"
      BY <2>1, <2>3, IdleFacts
    <3>2. TypeOK'
      BY <2>1, <3>1 DEF IInv, TypeOK, Runs
    <3> QED
      BY <2>1, <3>1, <3>2 DEF IInv, Backups, Process, Unblocked, OwnCheckpoint, Mine,
       Contracted, Between, Early, Ended, Entered, Role, Reentered, At, Gan, Pcs
  <2>4. CASE ledger.open # {}
    <3>1. run' = n
      BY <2>1, <2>4
    <3>2. TypeOK'
      BY <2>1, <2>2, <3>1 DEF IInv, TypeOK, Runs
    <3>3. p = "gate" => cp # None /\ cp.state # "BLOCKED"
      BY <2>1 DEF Halted
    <3> QED
      BY <1>0, <2>1, <2>2, <3>1, <3>2, <3>3 DEF IInv, Backups, Process, Unblocked, OwnCheckpoint, Mine,
       Contracted, Between, Early, Ended, Entered, Role, Reentered, At, Gan, Pcs
  <2> QED
    BY <2>3, <2>4
<1>3. ASSUME NEW c \in Proposals PROVE c \in Candidate
  <2>1. HostCandidates \subseteq Candidate
    BY <1>0 DEF HostCandidates, RepairTargets, Candidate, Ledger
  <2> QED
    BY <1>0, <1>3, <2>1 DEF Proposals, Candidate, Ledger
<1>4. CASE Select
  <2>1. PICK c \in Proposals : run' = [run EXCEPT !.pc = "write", !.pick = c]
    BY <1>4 DEF Select
  <2>2. /\ run.pc = "choose" /\ inbox' = [inbox EXCEPT !.trigger = FALSE]
        /\ UNCHANGED <<cand, ledger, cp, store, results, env>>
    BY <1>4 DEF Select, At
  <2>3. c \in Candidate
    BY <1>3
  <2>4. /\ run' \in Runs /\ run'.pc = "write" /\ run'.pick = c /\ run'.prev = run.prev
        /\ run'.old = run.old /\ run'.certified = run.certified
    BY <1>0, <2>1, <2>3 DEF Runs, Pcs
  <2>5. inbox' \in [event : ProofState \cup {None}, trigger : BOOLEAN]
    BY <2>2 DEF IInv, TypeOK
  <2>6. TypeOK'
    BY <2>2, <2>4, <2>5 DEF IInv, TypeOK, Runs
  <2> QED
    BY <2>2, <2>3, <2>4, <2>6 DEF IInv, Backups, Process, Unblocked, OwnCheckpoint, Mine,
       Contracted, Between, Early, Ended, Entered, Role, Reentered, At, Gan, Pcs
<1>5. CASE Stagnate
  <2>1. PICK c \in Proposals :
          results' = [results EXCEPT !.tried = @ \cup {Rendered(c)}, !.last = "STAGNATED",
                                     !.idle = IF @ < Rounds THEN @ + 1 ELSE @]
    BY <1>5 DEF Stagnate
  <2>2. /\ run.pc = "choose" /\ cp \in Checkpoint /\ cp' = Goto(cp, "BLOCKED") /\ run' = Idle
        /\ UNCHANGED <<cand, ledger, store, inbox, env>>
    BY <1>5 DEF Stagnate, At, Saved, IInv, TypeOK, Backups, Between
  <2>3. Rendered(c) \in Candidate
    BY <1>3, RenderedFacts
  <2>4. results' \in [tried : SUBSET Candidate, last : {"other", "FALSIFIED", "STAGNATED"},
                       idle : 0..Rounds, kept : BOOLEAN]
    <3>1. results.idle \in 0..Rounds /\ Rounds \in Nat
      BY BoundsAssumption DEF IInv, TypeOK
    <3> DEFINE k == IF results.idle < Rounds THEN results.idle + 1 ELSE results.idle
               t == results.tried \cup {Rendered(c)}
    <3>2. k \in 0..Rounds /\ t \subseteq Candidate
      BY <1>0, <2>3, <3>1
    <3>3. results' = [results EXCEPT !.tried = t, !.last = "STAGNATED", !.idle = k]
      BY <2>1
    <3> HIDE DEF k, t
    <3> QED
      BY <3>2, <3>3 DEF IInv, TypeOK
  <2>5. cp' \in Checkpoint /\ cp'.cand = cp.cand
    BY <2>2, GotoFacts, Named
  <2>6. run' \in Runs /\ run'.pc = "loop"
    BY <2>2, IdleFacts
  <2>7. TypeOK'
    BY <2>2, <2>4, <2>5, <2>6 DEF IInv, TypeOK, Runs
  <2> QED
    BY <2>2, <2>5, <2>6, <2>7, NoneAssumption DEF IInv, Backups, Process, Unblocked, OwnCheckpoint, Mine,
       Contracted, Between, Early, Ended, Entered, Role, Reentered, At, Gan, Pcs
<1>6. CASE WriteCandidate
  <2>1. /\ run.pc = "write" /\ cand' = Rendered(run.pick) /\ Step("fresh")
        /\ UNCHANGED <<ledger, cp, store, results, inbox, env>>
    BY <1>6 DEF WriteCandidate, At
  <2>2. Rendered(run.pick) \in Candidate
    BY <2>1, RenderedFacts DEF IInv, Backups
  <2>3. /\ run' \in Runs /\ run'.pc = "fresh" /\ run'.prev = run.prev /\ run'.old = run.old
        /\ run'.certified = run.certified
    BY <1>0, <2>1, StepFacts DEF Pcs
  <2>4. TypeOK'
    BY <2>1, <2>2, <2>3 DEF IInv, TypeOK, Runs
  <2> QED
    BY <2>1, <2>3, <2>4 DEF IInv, Backups, Process, Unblocked, OwnCheckpoint, Mine,
       Contracted, Between, Early, Ended, Entered, Role, Reentered, At, Gan, Pcs
<1> QED
  BY <1>1, <1>2, <1>4, <1>5, <1>6

\* The process reads the ledger, decides in memory and saves at the end.
LEMMA LedgerStep ==
  ASSUME IInv, StartGan \/ SuspectPremise \/ Verdict \/ SaveLedger
  PROVE  IInv'
<1>0. run \in Runs /\ cand \in Candidate /\ ledger \in Ledger /\ MaxVer \in Nat
  BY BoundsAssumption DEF IInv, TypeOK, Runs
<1>1. CASE StartGan
  <2>1. run.pc = "gan" /\ UNCHANGED <<cand, ledger, cp, store, results, inbox, env>>
    BY <1>1 DEF StartGan, At
  <2>2. CASE cand.ob \notin ledger.open
    <3>1. Step("raise") /\ "raise" \in Pcs /\ UNCHANGED <<Files, cp>>
      BY <1>1, <2>2 DEF StartGan, Step, Pcs, Files
    <3> QED
      BY <2>1, <3>1, MoveFacts DEF Files, IInv, Backups, Process, Unblocked, OwnCheckpoint, Mine,
       Contracted, Between, Early, Ended, Entered, Role, Reentered, At, Gan, Pcs
  <2>3. CASE cand.ob \in ledger.open
    <3> DEFINE p == GanEntry
    <3>1. run' = [run EXCEPT !.pc = p, !.led = ledger, !.certified = TRUE]
      BY <1>1, <2>3 DEF StartGan
    <3>2. p \in {"certify", "turn"}
      BY DEF GanEntry
    <3> HIDE DEF p
    <3>3. p \in Pcs
      BY <3>2 DEF Pcs, Gan
    <3>4. /\ run' \in Runs /\ run'.pc = p /\ run'.led = ledger /\ run'.certified
          /\ run'.prev = run.prev /\ run'.old = run.old
      BY <1>0, <3>1, <3>3 DEF Runs
    <3>5. TypeOK'
      BY <2>1, <3>4 DEF IInv, TypeOK, Runs
    <3> QED
      BY <1>0, <2>1, <2>3, <3>2, <3>4, <3>5 DEF IInv, Backups, Process, Unblocked, OwnCheckpoint, Mine,
       Contracted, Between, Early, Ended, Entered, Role, Reentered, At, Gan, Pcs
  <2> QED
    BY <2>2, <2>3
<1>2. CASE SuspectPremise
  <2> DEFINE l == [run.led EXCEPT !.ver = @ + 1]
  <2>1. /\ run.pc = "turn" /\ run.led.ver < MaxVer /\ ledger' = l
        /\ run' = [run EXCEPT !.pc = "review", !.led = l]
        /\ UNCHANGED <<cand, cp, store, results, inbox, env>>
    BY <1>2 DEF SuspectPremise, At
  <2>2. run.led \in Ledger /\ run.led.open = ledger.open
    BY <2>1 DEF IInv, Process, Gan
  <2>3. l \in Ledger /\ l.open = ledger.open
    <3>1. run.led.ver + 1 \in 0..MaxVer
      BY <1>0, <2>1, <2>2 DEF Ledger
    <3> QED
      BY <2>2, <3>1 DEF Ledger
  <2> HIDE DEF l
  <2>4. /\ run' \in Runs /\ run'.pc = "review" /\ run'.led = l /\ run'.certified = run.certified
        /\ run'.prev = run.prev /\ run'.old = run.old
    BY <1>0, <2>1, <2>3 DEF Runs, Pcs, Gan
  <2>5. TypeOK'
    BY <2>1, <2>3, <2>4 DEF IInv, TypeOK, Runs
  <2> QED
    BY <2>1, <2>3, <2>4, <2>5 DEF IInv, Backups, Process, Unblocked, OwnCheckpoint, Mine,
       Contracted, Between, Early, Ended, Entered, Role, Reentered, At, Gan, Pcs
<1>3. CASE Verdict
  <2> DEFINE Led(out) == [ver |-> run.led.ver + 1,
                          open |-> IF out \in {"PROVED", "FALSIFIED"} THEN run.led.open \ {cand.ob}
                                   ELSE run.led.open]
             Pc(out) == IF out = "DECOMPOSE" THEN "certify" ELSE "save"
  <2>1. /\ run.pc \in {"turn", "review"} /\ run.led.ver < MaxVer
        /\ UNCHANGED <<cand, ledger, cp, store, results, inbox, env>>
    BY <1>3 DEF Verdict, At
  <2>2. PICK out \in {"PROVED", "FALSIFIED", "UNRESOLVED", "DECOMPOSE"} :
          run' = [run EXCEPT !.led = Led(out), !.pc = Pc(out), !.out = out]
    BY <1>0, <1>3 DEF Verdict
  <2>3. run.led \in Ledger /\ run.led.open = ledger.open
    BY <2>1 DEF IInv, Process, Gan
  <2>4. Led(out) \in Ledger
    <3>1. run.led.ver + 1 \in 0..MaxVer
      BY <1>0, <2>1, <2>3 DEF Ledger
    <3> QED
      BY <2>3, <3>1 DEF Ledger
  <2>5. Pc(out) \in {"certify", "save"} /\ out \in Outcome
    BY DEF Outcome
  <2>6. Pc(out) \in Pcs
    BY <2>5 DEF Pcs, Gan
  <2> HIDE DEF Led, Pc
  <2>7. /\ run' \in Runs /\ run'.pc = Pc(out) /\ run'.led = Led(out) /\ run'.certified = run.certified
        /\ run'.prev = run.prev /\ run'.old = run.old
    BY <1>0, <2>2, <2>4, <2>5, <2>6 DEF Runs
  <2>8. TypeOK'
    BY <2>1, <2>7 DEF IInv, TypeOK, Runs
  <2> QED
    BY <2>1, <2>4, <2>5, <2>7, <2>8 DEF IInv, Backups, Process, Unblocked, OwnCheckpoint, Mine,
       Contracted, Between, Early, Ended, Entered, Role, Reentered, At, Gan, Pcs
<1>4. CASE SaveLedger
  <2>1. /\ run.pc = "save" /\ ledger' = run.led /\ Step("done")
        /\ UNCHANGED <<cand, cp, store, results, inbox, env>>
    BY <1>4 DEF SaveLedger, At
  <2>2. run.led \in Ledger
    BY <2>1 DEF IInv, Process, Gan
  <2>3. /\ run' \in Runs /\ run'.pc = "done" /\ run'.prev = run.prev /\ run'.old = run.old
        /\ run'.certified = run.certified
    BY <1>0, <2>1, StepFacts DEF Pcs
  <2>4. TypeOK'
    BY <2>1, <2>2, <2>3 DEF IInv, TypeOK, Runs
  <2> QED
    BY <2>1, <2>3, <2>4 DEF IInv, Backups, Process, Unblocked, OwnCheckpoint, Mine,
       Contracted, Between, Early, Ended, Entered, Role, Reentered, At, Gan, Pcs
<1> QED
  BY <1>1, <1>2, <1>3, <1>4


\* An experiment's row, and the candidate it leaves in the file.
LEMMA EndStep ==
  ASSUME IInv, Evaluate \/ EvaluationFails \/ Raise
  PROVE  IInv'
<1>0. run \in Runs /\ cand \in Candidate /\ ledger \in Ledger
  BY DEF IInv, TypeOK, Runs
<1>1. ASSUME NEW last \in {"other", "FALSIFIED"}, NEW keep \in BOOLEAN
      PROVE  Row(last, keep) \in [tried : SUBSET Candidate, last : {"other", "FALSIFIED", "STAGNATED"},
                                  idle : 0..Rounds, kept : BOOLEAN]
  <2>1. /\ results.idle \in 0..Rounds /\ results.tried \subseteq Candidate /\ results.kept \in BOOLEAN
        /\ Rounds \in Nat
    BY BoundsAssumption DEF IInv, TypeOK
  <2> DEFINE k == IF keep THEN 0 ELSE IF results.idle < Rounds THEN results.idle + 1 ELSE results.idle
  <2>2. k \in 0..Rounds
    BY <2>1
  <2> HIDE DEF k
  <2>3. Row(last, keep) = [tried |-> results.tried \cup {cand}, last |-> last, idle |-> k,
                           kept |-> results.kept \/ keep]
    BY DEF Row, k
  <2> QED
    BY <1>0, <2>1, <2>2, <2>3
<1>2. run.pc \in {"done", "failed"} => Pending /\ Mine
  BY DEF IInv, Backups, OwnCheckpoint, Pending, Between, Entered
<1>3. CASE Evaluate
  <2>1. PICK keep \in BOOLEAN :
          /\ results' = Row(IF run.out = "FALSIFIED" THEN "FALSIFIED" ELSE "other", keep)
          /\ cand' = IF ~keep /\ ~Pending THEN run.prev ELSE cand
    BY <1>3 DEF Evaluate
  <2>2. /\ run.pc = "done" /\ run' = Idle /\ UNCHANGED <<ledger, cp, store, inbox, env>>
    BY <1>3 DEF Evaluate, At
  <2>3. cand' = cand
    BY <1>2, <2>1, <2>2
  <2>4. run' \in Runs /\ run'.pc = "loop"
    BY <2>2, IdleFacts
  <2>5. results' \in [tried : SUBSET Candidate, last : {"other", "FALSIFIED", "STAGNATED"},
                       idle : 0..Rounds, kept : BOOLEAN]
    BY <1>1, <2>1
  <2>6. TypeOK'
    BY <2>2, <2>3, <2>4, <2>5 DEF IInv, TypeOK, Runs
  <2> QED
    BY <2>2, <2>3, <2>4, <2>6 DEF IInv, Backups, Process, Unblocked, OwnCheckpoint, Mine,
       Contracted, Between, Early, Ended, Entered, Role, Reentered, At, Gan, Pcs
<1>4. CASE EvaluationFails
  <2>1. /\ run.pc \in {"done", "failed"} /\ results' = Row("other", FALSE) /\ cand' = Restored
        /\ run' \in {Idle, [Idle EXCEPT !.pc = "over"]} /\ UNCHANGED <<ledger, cp, store, inbox, env>>
    BY <1>4 DEF EvaluationFails
  <2>2. cand' \in Candidate /\ cand' \in {cp.cand, Rendered(cp.cand)}
    BY <1>0, <1>2, <2>1 DEF Restored, Mine, IInv, Backups, Between
  <2>3. run' \in Runs /\ run'.pc \in {"loop", "over"}
    BY <2>1, IdleFacts
  <2>4. results' \in [tried : SUBSET Candidate, last : {"other", "FALSIFIED", "STAGNATED"},
                       idle : 0..Rounds, kept : BOOLEAN]
    BY <1>1, <2>1
  <2>5. TypeOK'
    BY <2>1, <2>2, <2>3, <2>4 DEF IInv, TypeOK, Runs
  <2> QED
    BY <2>1, <2>2, <2>3, <2>5 DEF IInv, Backups, Process, Unblocked, OwnCheckpoint, Mine,
       Contracted, Between, Early, Ended, Entered, Role, Reentered, At, Gan, Pcs
<1>5. CASE Raise
  <2>1. /\ run.pc = "raise" /\ cand' = Restored /\ ledger' = run.old
        /\ run' = [Idle EXCEPT !.pc = "down"] /\ UNCHANGED <<cp, store, results, inbox, env>>
    BY <1>5 DEF Raise, At
  <2>2. run.old \in Ledger /\ run.prev \in Candidate /\ cp # None
    BY <2>1 DEF IInv, Backups, Between
  <2>3. cand' \in Candidate /\ cand' \in {cand, cp.cand}
    BY <1>0, <2>1, <2>2 DEF IInv, OwnCheckpoint, Mine, Restored, Pending
  <2>4. run' \in Runs /\ run'.pc = "down"
    BY <2>1, IdleFacts
  <2>5. TypeOK'
    BY <2>1, <2>2, <2>3, <2>4 DEF IInv, TypeOK, Runs
  <2> QED
    BY <2>1, <2>3, <2>4, <2>5 DEF IInv, Backups, Process, Unblocked, OwnCheckpoint, Mine,
       Contracted, Between, Early, Ended, Entered, Role, Reentered, At, Gan, Pcs
<1> QED
  BY <1>3, <1>4, <1>5

\* Timeouts, crashes, restarts and the operator.
LEMMA FaultStep ==
  ASSUME IInv, Timeout \/ Crash \/ Restart \/ DropEvent \/ DropTrigger
  PROVE  IInv'
<1>0. /\ run \in Runs /\ env \in [faults : 0..MaxFaults, asks : 0..MaxAsks, crashed : BOOLEAN]
      /\ inbox \in [event : ProofState \cup {None}, trigger : BOOLEAN]
      /\ MaxFaults \in Nat /\ MaxAsks \in Nat
  BY BoundsAssumption DEF IInv, TypeOK, Runs
<1>1. CASE Timeout
  <2>1. /\ run' = [run EXCEPT !.late = TRUE] /\ env' = [env EXCEPT !.faults = @ + 1]
        /\ env.faults < MaxFaults /\ UNCHANGED <<cand, ledger, cp, store, results, inbox>>
    BY <1>1 DEF Timeout
  <2>2. /\ run' \in Runs /\ run'.pc = run.pc /\ run'.prev = run.prev /\ run'.old = run.old
        /\ run'.led = run.led /\ run'.pick = run.pick /\ run'.certified = run.certified
    BY <1>0, <2>1 DEF Runs
  <2>3. /\ env' \in [faults : 0..MaxFaults, asks : 0..MaxAsks, crashed : BOOLEAN]
        /\ env'.crashed = env.crashed
    BY <1>0, <2>1
  <2>4. TypeOK'
    BY <2>1, <2>2, <2>3 DEF IInv, TypeOK, Runs
  <2> QED
    BY <2>1, <2>2, <2>3, <2>4 DEF IInv, Backups, Process, Unblocked, OwnCheckpoint, Mine,
       Contracted, Between, Early, Ended, Entered, Role, Reentered, At, Gan, Pcs
<1>2. CASE Crash
  <2>1. /\ run' = [Idle EXCEPT !.pc = "down"]
        /\ env' = [env EXCEPT !.faults = @ + 1, !.crashed = TRUE]
        /\ env.faults < MaxFaults /\ UNCHANGED <<cand, ledger, cp, store, results, inbox>>
    BY <1>2 DEF Crash
  <2>2. run' \in Runs /\ run'.pc = "down"
    BY <2>1, IdleFacts
  <2>3. env' \in [faults : 0..MaxFaults, asks : 0..MaxAsks, crashed : BOOLEAN] /\ env'.crashed
    <3> DEFINE k == env.faults + 1
    <3>1. k \in 0..MaxFaults /\ env' = [env EXCEPT !.faults = k, !.crashed = TRUE]
      BY <1>0, <2>1
    <3> HIDE DEF k
    <3> QED
      BY <1>0, <3>1
  <2>4. TypeOK'
    BY <2>1, <2>2, <2>3 DEF IInv, TypeOK, Runs
  <2> QED
    BY <2>1, <2>2, <2>3, <2>4 DEF IInv, Backups, Process, Unblocked, OwnCheckpoint, Mine,
       Contracted, Between, Early, Ended, Entered, Role, Reentered, At, Gan, Pcs
<1>3. CASE Restart
  <2>1. /\ run.pc \in {"down", "over"} /\ run' = [Idle EXCEPT !.first = TRUE]
        /\ UNCHANGED <<cand, ledger, cp, store, results, inbox, env>>
    BY <1>3 DEF Restart
  <2>2. run' \in Runs /\ run'.pc = "loop"
    BY <2>1, IdleFacts
  <2>3. TypeOK'
    BY <2>1, <2>2 DEF IInv, TypeOK, Runs
  <2> QED
    BY <2>1, <2>2, <2>3 DEF IInv, Backups, Process, Unblocked, OwnCheckpoint, Mine,
       Contracted, Between, Early, Ended, Entered, Role, Reentered, At, Gan, Pcs
<1>4. ASSUME env' = [env EXCEPT !.asks = @ + 1], env.asks < MaxAsks,
             inbox' \in [event : ProofState \cup {None}, trigger : BOOLEAN],
             UNCHANGED <<cand, ledger, cp, store, results, run>>
      PROVE  IInv'
  <2>1. /\ env' \in [faults : 0..MaxFaults, asks : 0..MaxAsks, crashed : BOOLEAN]
        /\ env'.crashed = env.crashed
    BY <1>0, <1>4
  <2>2. run' = run /\ run' \in Runs
    BY <1>0, <1>4
  <2>3. TypeOK'
    BY <1>4, <2>1, <2>2 DEF IInv, TypeOK, Runs
  <2> QED
    BY <1>4, <2>1, <2>3 DEF IInv, Backups, Process, Unblocked, OwnCheckpoint, Mine,
       Contracted, Between, Early, Ended, Entered, Role, Reentered, At, Gan, Pcs
<1>5. CASE DropEvent
  <2>1. PICK s \in Allowed("BLOCKED") : inbox' = [inbox EXCEPT !.event = s]
    BY <1>5 DEF DropEvent
  <2>2. Allowed("BLOCKED") \subseteq ProofState
    BY DEF Allowed, ProofState, RoleOrder
  <2>3. inbox' \in [event : ProofState \cup {None}, trigger : BOOLEAN]
    BY <1>0, <2>1, <2>2
  <2> QED
    BY <1>4, <1>5, <2>3 DEF DropEvent
<1>6. CASE DropTrigger
  <2>1. inbox' \in [event : ProofState \cup {None}, trigger : BOOLEAN]
    BY <1>0, <1>6 DEF DropTrigger
  <2> QED
    BY <1>4, <1>6, <2>1 DEF DropTrigger
<1> QED
  BY <1>1, <1>2, <1>3, <1>5, <1>6

\* A campaign starts in the invariant, with no checkpoint or a migrated one.
LEMMA InitInv == Init => IInv
<1> SUFFICES ASSUME Init PROVE IInv
  OBVIOUS
<1>1. cand \in Candidate /\ cand.ob = Seed
  BY SeedAssumption DEF Init, Candidate
<1>2. run \in Runs /\ run.pc = "loop"
  BY IdleFacts DEF Init
<1>3. cp = None \/ (cp \in Checkpoint /\ cp.cand = cand)
  <2> SUFFICES ASSUME cp \in Migrated(cand, 1) PROVE cp \in Checkpoint /\ cp.cand = cand
    BY DEF Init
  <2>1. PICK s \in {"STRATEGY_TOURNAMENT", "DEFINITION_RESOLUTION"},
             a \in {{"audit"}, {"audit", "cex"}}, m \in SUBSET Gap : cp = Reloaded(s, cand, 1, a, m)
    BY DEF Migrated
  <2>2. Fresh(s, cand, 1) \in Checkpoint /\ Fresh(s, cand, 1).cand = cand
    BY <1>1, FreshFacts, Named
  <2> QED
    BY <2>1, <2>2 DEF Reloaded, Checkpoint
<1>4. /\ ledger \in Ledger /\ store \in [commits : SUBSET Gap, query : Gap \cup {None}]
      /\ results \in [tried : SUBSET Candidate, last : {"other", "FALSIFIED", "STAGNATED"},
                      idle : 0..Rounds, kept : BOOLEAN]
      /\ inbox \in [event : ProofState \cup {None}, trigger : BOOLEAN]
      /\ env \in [faults : 0..MaxFaults, asks : 0..MaxAsks, crashed : BOOLEAN]
  BY BoundsAssumption DEF Init, Ledger
<1>5. TypeOK
  BY <1>1, <1>2, <1>3, <1>4 DEF TypeOK, Runs
<1> QED
  BY <1>2, <1>3, <1>5 DEF IInv, Backups, Process, Unblocked, OwnCheckpoint, Mine,
       Contracted, Between, Early, Ended, Entered, Role, Reentered, At, Gan, Pcs

\* Every step of the supervisor, the process, the operator and the
\* environment preserves the invariant.
LEMMA NextInv == IInv /\ [Next]_vars => IInv'
<1> SUFFICES ASSUME IInv, [Next]_vars PROVE IInv'
  OBVIOUS
<1>1. CASE Supervise
  BY <1>1, MovesStep, TransitionsStep, EditsStep, FreshStep, StoreStep, ChoiceStep, EndStep,
     AcceptContractStep DEF Supervise
<1>2. CASE Turn
  BY <1>2, MovesStep, TransitionsStep, EditsStep, FreshStep, StoreStep, LedgerStep DEF Turn
<1>3. CASE Timeout \/ Crash \/ Restart \/ DropEvent \/ DropTrigger
  BY <1>3, FaultStep
<1>4. CASE Poll \/ UNCHANGED vars
  <2>1. UNCHANGED <<cand, ledger, cp, store, results, inbox, run, env>>
    BY <1>4 DEF Poll, vars
  <2>2. TypeOK'
    BY <2>1 DEF IInv, TypeOK
  <2> QED
    BY <2>1, <2>2 DEF IInv, Backups, Process, Unblocked, OwnCheckpoint, Mine,
       Contracted, Between, Early, Ended, Entered, Role, Reentered, At, Gan, Pcs
<1> QED
  BY <1>1, <1>2, <1>3, <1>4 DEF Next

\* The invariant holds in every behaviour.
LEMMA Invariance == Spec => []IInv
  BY InitInv, NextInv, PTL DEF Spec

\* Every file and the process keep their types.
THEOREM TypeCorrect == Spec => []TypeOK
<1>1. IInv => TypeOK
  BY DEF IInv
<1> QED
  BY <1>1, Invariance, PTL

\* Between iterations the candidate file holds the pending role's candidate, or
\* the rendering of it that a resumed iteration has written over it.
THEOREM RolesKeepTheirCandidate == Spec => []PendingRoleHasItsCandidate
<1>1. IInv => PendingRoleHasItsCandidate
  BY DEF IInv, OwnCheckpoint, PendingRoleHasItsCandidate, Pending
<1> QED
  BY <1>1, Invariance, PTL

\* Proof search runs only under a contract for this candidate and ledger.
THEOREM SearchesAreContracted == Spec => []SearchIsContracted
<1>1. IInv => SearchIsContracted
  BY DEF IInv, OwnCheckpoint, Contracted, SearchIsContracted, Bound, At, Role
<1> QED
  BY <1>1, Invariance, PTL

\* No role works on an obligation that was decided.
THEOREM RolesWorkOnPendingTargets == Spec => []WorkOnPendingTarget
<1>1. IInv => WorkOnPendingTarget
  BY DEF IInv, Process, WorkOnPendingTarget
<1> QED
  BY <1>1, Invariance, PTL


\* Only the operator's event changes a blocked checkpoint: an iteration never
\* starts on one, and the process that blocks it writes no other.
THEOREM OnlyTheOperatorUnblocks == Spec => BlockedNeedsOperator
<1> DEFINE Kept == cp # None /\ cp.state = "BLOCKED" => cp' = cp \/ inbox.event # None
<1>1. ASSUME IInv, [Next]_vars PROVE Kept
  <2>1. ASSUME run.pc \notin Between \cup Ended PROVE Kept
    BY <1>1, <2>1 DEF IInv, Unblocked
  <2>2. CASE Supervise
    BY <2>1, <2>2 DEF Supervise, ApplyEvent, UnlinkEvent, ClearInfrastructure, BeginIteration,
       CreateCheckpoint, NoGate, NoOpenQuery, ResolveConcept, PersistResolution, RouteResolution,
       Resume, Select, Stagnate, WriteCandidate, FreshCheckpoint, ChoiceFails, NoTournament,
       Tournament, AcceptContract, Evaluate, EvaluationFails, Late, Raise, At, Between, Ended
  <2>3. CASE Turn
    BY <2>1, <2>3 DEF Turn, StartGan, SuspectPremise, Verdict, GanError, Certify, PersistAudit,
       AfterAudit, RoleFails, BeginDecompositionIteration, Rank, SynthesisRejected, PersistProposal,
       ToHostGate, GatesPass, GatesBackjump, GatesReject, Proved, NotProved, ProofInvalid,
       SaveLedger, At, Between, Ended
  <2>4. CASE UNCHANGED cp
    BY <2>4
  <2> QED
    BY <1>1, <2>2, <2>3, <2>4 DEF Next, Poll, Timeout, Crash, Restart, DropEvent, DropTrigger, vars
<1>2. IInv /\ [Next]_vars => [Kept]_vars
  BY <1>1
<1> QED
  BY <1>2, Invariance, PTL DEF Spec, BlockedNeedsOperator
=============================================================================
