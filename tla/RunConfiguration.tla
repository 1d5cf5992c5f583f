-------------------------- MODULE RunConfiguration --------------------------
(***************************************************************************)
(* What a Phase-1 run is configured with, and the two guards over it: the  *)
(* governance freeze record, and validate_run_configuration, which decides *)
(* before execution whether every component matches the mode of the run.   *)
(*                                                                         *)
(* A freeze record is a function from keys to items [frozen, value,        *)
(* blocking].  A configuration is [specs, participants], specs a function  *)
(* from the roles of the model to what is stated of each; "" is left blank.*)
(***************************************************************************)
EXTENDS FiniteSets

CONSTANT None    \* a value that is absent

----------------------------------------------------------------------------
\* Governance.
IsBlockingNow(item) == item.blocking /\ ~item.frozen
BlockingItems(record) == {key \in DOMAIN record : IsBlockingNow(record[key])}
IsRealRunPermitted(record) == BlockingItems(record) = {}

FrozenValue(record, key) ==
    IF key \in DOMAIN record /\ record[key].frozen THEN record[key].value ELSE None

Frozen(value) == [frozen |-> TRUE, value |-> value, blocking |-> FALSE]
Pending(blocking) == [frozen |-> FALSE, value |-> None, blocking |-> blocking]

Conditions == {"sanuvia_persistent", "fm_stateless", "fm_transcript"}

\* The items of the record the gates read.
FreezeRecord(version, digest, build, template) ==
    [experimental_structure |-> Frozen(Conditions),
     retry_policy |-> Frozen(0),
     model_artifact_version |-> Frozen(version),
     chat_template_sha256 |-> Frozen(template),
     artifact_sha256 |-> Frozen(digest),
     llama_cpp_build |-> Frozen(build),
     eval_hardware |-> Pending(FALSE)]

----------------------------------------------------------------------------
\* Configurations.
BoundaryKinds == {"evidence_extraction", "evidence_appraisal",
                  "stateless_baseline", "transcript_baseline"}
Mandatory == {"provider", "model", "prompt_id", "schema_id"}
Missing(spec) == {field \in Mandatory : spec[field] = ""}

Incomplete(config) ==
    {role \in DOMAIN config.specs : Missing(config.specs[role]) # {}}

\* qwen_real_run_config: one deterministic spec for the four boundaries.
FrozenSettings == [temperature |-> 0, seed |-> 0, max_output_tokens |-> 1536,
                   context_window |-> 8192, stop_sequences |-> "none"]

QwenSpec(version) ==
    [provider |-> "local_qwen", model |-> "qwen3-4b", prompt_id |-> "registered",
     schema_id |-> "registered", model_version |-> version,
     quantization |-> "Q4_K_M", backend_id |-> "llama.cpp-gguf",
     settings |-> FrozenSettings]

QwenRealRunConfig(version, participants) ==
    [specs |-> [role \in BoundaryKinds |-> QwenSpec(version)],
     participants |-> participants]

ConfigFromGovernance(record) ==
    QwenRealRunConfig(FrozenValue(record, "model_artifact_version"), {})

----------------------------------------------------------------------------
\* validate_run_configuration.  The components of a run are "scripted", "real"
\* or None; roster is None for an extractor that does not take one.
GoldenProblems(run) ==
    {part \in {"extractor", "stateless", "transcript"} : run[part] # "scripted"}
    \cup {part \in {"appraiser", "resolver"} : run[part] \notin {"scripted", None}}
    \cup IF run.config # None THEN {"config"} ELSE {}

RosterProblem(run) ==
    LET authorized == run.config.participants
    IN  \/ authorized = {}
        \/ run.roster \in {None, {}}
        \/ authorized # {} /\ run.roster # authorized

RealProblems(run) ==
    {part \in {"extractor", "stateless", "transcript", "appraiser", "resolver"} :
       run[part] = "scripted"}
    \cup (IF run.appraiser = None THEN {"appraiser"} ELSE {})
    \cup (IF run.config = None THEN {"config"}
          ELSE Incomplete(run.config)
               \cup (IF RosterProblem(run) THEN {"participants"} ELSE {})
               \cup (IF run.resolver # None
                        /\ "identity_resolution" \notin DOMAIN run.config.specs
                     THEN {"identity_resolution"} ELSE {}))

ValidRunConfiguration(mode, run) ==
    \/ mode = "golden" /\ GoldenProblems(run) = {}
    \/ mode = "real" /\ RealProblems(run) = {}
=============================================================================
