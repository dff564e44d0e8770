---------------------------- MODULE ProofMachine ----------------------------
(* The persisted proof state machine of the autoresearch orchestrator         *)
(* (autoresearch/prefill/orchestration_state.py): its transition table, the   *)
(* checkpoint record with the fields that decide control, and the operations  *)
(* on it.  An operation that raises in the code has a guard here.             *)
EXTENDS FiniteSets, Integers

CONSTANTS Oblig,   \* proof obligations of the ledger
          Gap,     \* missing definitions an audit can name
          None

\* A candidate file is the obligation it targets and its hypothesis: the seeded
\* one, in the bytes candidate.py ships with (seed) or as the supervisor renders
\* it (base), the target's own statement (host), or one proposed by the model.
Candidate == [ob : Oblig, hyp : {"seed", "base", "host", "gemma"}]

RoleOrder == {"DEFINITION_AUDITOR", "COUNTEREXAMPLE_WORKER", "DECOMPOSER", "MATH_IR_TRANSLATION",
              "HOST_TYPED_IR_GATE", "LEAN_ELABORATION_GATE", "PROOF_SEARCH",
              "ADVERSARIAL_REVIEW", "JUDGE", "COMMIT"}

ProofState == RoleOrder \cup
  {"STRATEGY_TOURNAMENT", "RESEARCH_CONTRACT_GATE", "SYNTHESIS", "DEFINITION_RESOLUTION",
   "PARENT_STATEMENT_UNDERSPECIFIED", "PREMISE_AUDIT", "APPROACH_FAILED",
   "DECOMPOSITION_STAGNATED", "MATHEMATICAL_STAGNATION", "BLOCKED", "IDLE"}

\* ALLOWED_TRANSITIONS; the audit-only legacy states are left out.
Allowed(s) ==
  CASE s = "STRATEGY_TOURNAMENT" ->
         {"RESEARCH_CONTRACT_GATE", "DECOMPOSER", "DEFINITION_RESOLUTION", "BLOCKED"}
    [] s = "RESEARCH_CONTRACT_GATE" ->
         {"DECOMPOSER", "MATH_IR_TRANSLATION", "HOST_TYPED_IR_GATE", "STRATEGY_TOURNAMENT",
          "PROOF_SEARCH", "BLOCKED"}
    [] s = "DEFINITION_AUDITOR" -> {"DEFINITION_AUDITOR", "COUNTEREXAMPLE_WORKER", "BLOCKED"}
    [] s = "COUNTEREXAMPLE_WORKER" ->
         {"COUNTEREXAMPLE_WORKER", "DECOMPOSER", "SYNTHESIS", "PREMISE_AUDIT", "BLOCKED"}
    [] s = "SYNTHESIS" -> {"SYNTHESIS", "DEFINITION_RESOLUTION", "DECOMPOSER", "BLOCKED"}
    [] s = "DEFINITION_RESOLUTION" ->
         {"STRATEGY_TOURNAMENT", "PARENT_STATEMENT_UNDERSPECIFIED", "MATHEMATICAL_STAGNATION",
          "PREMISE_AUDIT", "BLOCKED"}
    [] s = "PARENT_STATEMENT_UNDERSPECIFIED" -> {"STRATEGY_TOURNAMENT", "PREMISE_AUDIT", "BLOCKED"}
    [] s = "DECOMPOSER" ->
         {"DECOMPOSER", "MATH_IR_TRANSLATION", "SYNTHESIS", "DEFINITION_RESOLUTION",
          "DECOMPOSITION_STAGNATED", "MATHEMATICAL_STAGNATION", "BLOCKED"}
    [] s = "MATH_IR_TRANSLATION" ->
         {"MATH_IR_TRANSLATION", "DECOMPOSER", "HOST_TYPED_IR_GATE", "PROOF_SEARCH", "BLOCKED"}
    [] s = "HOST_TYPED_IR_GATE" ->
         {"LEAN_ELABORATION_GATE", "DECOMPOSER", "MATH_IR_TRANSLATION", "SYNTHESIS",
          "STRATEGY_TOURNAMENT", "BLOCKED"}
    [] s = "LEAN_ELABORATION_GATE" ->
         {"PROOF_SEARCH", "DECOMPOSER", "MATH_IR_TRANSLATION", "STRATEGY_TOURNAMENT", "BLOCKED"}
    [] s = "PROOF_SEARCH" ->
         {"PROOF_SEARCH", "DECOMPOSER", "MATH_IR_TRANSLATION", "ADVERSARIAL_REVIEW", "BLOCKED"}
    [] s = "ADVERSARIAL_REVIEW" ->
         {"ADVERSARIAL_REVIEW", "DECOMPOSER", "MATH_IR_TRANSLATION", "HOST_TYPED_IR_GATE",
          "LEAN_ELABORATION_GATE", "PROOF_SEARCH", "JUDGE", "BLOCKED"}
    [] s = "JUDGE" -> RoleOrder \cup {"APPROACH_FAILED", "PREMISE_AUDIT", "BLOCKED"}
    [] s = "COMMIT" -> {"IDLE", "COMMIT"}
    [] s = "APPROACH_FAILED" -> {"STRATEGY_TOURNAMENT", "BLOCKED"}
    [] s = "DECOMPOSITION_STAGNATED" ->
         {"SYNTHESIS", "DEFINITION_RESOLUTION", "DECOMPOSER", "STRATEGY_TOURNAMENT", "BLOCKED"}
    [] s = "PREMISE_AUDIT" -> {"PREMISE_AUDIT", "STRATEGY_TOURNAMENT", "BLOCKED"}
    [] s = "MATHEMATICAL_STAGNATION" -> {"DEFINITION_RESOLUTION", "STRATEGY_TOURNAMENT", "BLOCKED"}
    [] s = "BLOCKED" ->
         {"BLOCKED", "STRATEGY_TOURNAMENT", "RESEARCH_CONTRACT_GATE"} \cup (RoleOrder \ {"COMMIT"})
    [] s = "IDLE" -> {"IDLE", "STRATEGY_TOURNAMENT", "BLOCKED"}

CanGo(c, s) == s \in Allowed(c.state)
Goto(c, s) == [c EXCEPT !.state = s]

Adapter == {"", "ADAPTER_BLOCKED", "INFRASTRUCTURE_BLOCKED", "INTEGRATION_BLOCKED"}

Checkpoint ==
  [state : ProofState, adapter : Adapter, cand : Candidate,
   ver : Nat,                                    \* ledger_version
   arts : SUBSET {"audit", "cex", "decomposer"}, \* validated_artifacts the loader reads
   missing : SUBSET Gap,                         \* the audit's missing definitions
   gap : Gap \cup {None},                        \* current_definition_gap_id
   ranked : BOOLEAN,                             \* ranking_hash
   elab : BOOLEAN,                               \* elaborated theorem and proposition hash
   contract : BOOLEAN]                           \* research_contract_id

\* A campaign without a checkpoint is told from one with any checkpoint.
ASSUME NoneAssumption == None \notin Checkpoint

\* A checkpoint made for a candidate; nothing is carried over.
Fresh(s, c, v) == [state |-> s, adapter |-> "", cand |-> c, ver |-> v, arts |-> {}, missing |-> {},
                   gap |-> None, ranked |-> FALSE, elab |-> FALSE, contract |-> FALSE]

\* load_checkpoint on an older schema: audit and counterexample are kept, the
\* other artifacts dropped, and the machine restarts at the strategy or, from
\* REFRAME, at the definitions.
Reloaded(s, c, v, a, m) == [Fresh(s, c, v) EXCEPT !.arts = a, !.missing = m]
Migrated(c, v) == {Reloaded(s, c, v, a, m) : s \in {"STRATEGY_TOURNAMENT", "DEFINITION_RESOLUTION"},
                                             a \in {{"audit"}, {"audit", "cex"}}, m \in SUBSET Gap}

\* binding_mismatch: the checkpoint serves another candidate or ledger.  (Empty
\* fields and version 0 match anything; no checkpoint of a loop has them.)
Bound(c, cand, v) == c.cand = cand /\ c.ver = v

\* load_validated_artifacts walks the roles in order and stops at the first
\* absent one; a decomposer artifact (schema 2) behind a counterexample raises.
Loadable(c) == ~({"audit", "cex", "decomposer"} \subseteq c.arts)

\* RESUMABLE_ORCHESTRATION_STATES
Resumable == ProofState \ {"PARENT_STATEMENT_UNDERSPECIFIED", "APPROACH_FAILED",
                            "DECOMPOSITION_STAGNATED", "MATHEMATICAL_STAGNATION", "IDLE"}
\* certified_resume_states of the REPL
Certified == RoleOrder \cup {"SYNTHESIS", "BLOCKED"}

\* Seeded bug: only an adapter stop keeps the supervisor from an iteration.
HaltedByAdapter(c) == c # None /\ c.adapter # ""

Halted(c) == c # None /\ (c.state = "BLOCKED" \/ c.adapter # "")
AdapterStatus(c) == IF c = None THEN "" ELSE c.adapter
=============================================================================
