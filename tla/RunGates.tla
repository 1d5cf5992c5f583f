------------------------------ MODULE RunGates ------------------------------
(***************************************************************************)
(* The gates before a real run: preflight-real, over configuration, freeze *)
(* record and what is installed, and server-readiness, which ties the      *)
(* running model server to the approved artifact and probes it once.  Each *)
(* reads the machine in several steps while the machine goes on: a server  *)
(* is stopped, another started, an artifact replaced.  A readiness command *)
(* claims a new directory for its evidence and may die at any step.        *)
(*                                                                         *)
(* A path stands for the file it resolves to, a content for its digest.    *)
(***************************************************************************)
EXTENDS RunConfiguration, Integers

CONSTANTS
    Commands,     \* invocations of server-readiness
    Dirs, Paths,
    Contents,     \* of artifacts
    Servers,      \* [path, plain, build, template] that may be started; plain:
                  \* without --reasoning-format none
    Machines,     \* [files, runtimes, installed, env, git] there may be
    Records,      \* freeze records there may be
    Configs,      \* configurations preflight may be asked about
    Arguments,    \* [dir, path, template] readiness may be called with
    MaxChanges    \* bound on what happens to the machine

ASSUME GatesAssumption ==
    /\ None \notin Paths \cup Contents \cup Dirs
    /\ None \notin [text : Commands \cup {None}, json : Commands \cup {None}]
    /\ \A s \in Servers : s.path \in Paths
    /\ \A a \in Arguments : a.dir \in Dirs /\ a.path \in Paths
    /\ MaxChanges \in Nat

VARIABLES
    machine,     \* what is installed
    server,      \* the running server and the content it loaded, or NoServer
    changes,     \* how often the machine has changed
    record,      \* the freeze record
    dirs,        \* directory -> None or its files, [text, json]
    command,     \* readiness command -> where it stands and what it has read
    preflight    \* [pc, config, found, checks]

vars == <<machine, server, changes, record, dirs, command, preflight>>

\* Two mappings merged into one; f decides where both have an argument.
Over(f, g) == [x \in DOMAIN f \cup DOMAIN g |-> IF x \in DOMAIN f THEN f[x] ELSE g[x]]

NoServer == [path |-> None]
Running == server # NoServer

PASS == "PASS"
BLOCKED == "BLOCKED"
UNAVAILABLE == "UNAVAILABLE"
Check(ok) == IF ok THEN PASS ELSE BLOCKED
Overall(checks) == Check(\A name \in DOMAIN checks : checks[name] = PASS)

----------------------------------------------------------------------------
\* Readiness: what the facts say of the approved artifact and runtime.
LaunchChecks(facts, approved) ==
    IF facts.command = None
    THEN [launch_command_recorded |-> BLOCKED]
    ELSE [launch_command_recorded |-> PASS,
          launch_flags_without_reasoning_format_none |-> Check(facts.command.plain),
          launched_with_approved_artifact |->
              Check(facts.command.path = approved.path)]

\* Mutant: the template is only looked at when a digest was supplied.
TemplateCheckIfSupplied(facts, approved) ==
    Check(approved.template = None \/ facts.template = approved.template)

TemplateCheck(facts, approved) ==
    IF approved.template = None THEN UNAVAILABLE
    ELSE Check(facts.template = approved.template)

IdentityChecks(facts, approved, digest) ==
    Over(LaunchChecks(facts, approved),
         [loaded_artifact_is_approved |-> Check(facts.path = approved.path),
          artifact_digest_verified |-> Check(digest # None /\ digest = approved.digest),
          runtime_build_matches |->
              Check(facts.build # None /\ facts.build = approved.build),
          chat_template_unchanged |-> TemplateCheck(facts, approved)])

\* A reply is None, or its content and whether reasoning was split off.
Replies ==
    {None} \cup (IF ~Running THEN {}
                 ELSE IF ~server.plain
                 THEN {[content |-> "scaffold", reasoning |-> FALSE]}
                 ELSE [content : {"json", "prose", "empty"}, reasoning : BOOLEAN])

ProbeChecks(reply) ==
    IF reply = None
    THEN [server_reachable |-> BLOCKED, generation_completed |-> UNAVAILABLE,
          no_thinking_scaffold_in_content |-> UNAVAILABLE,
          reasoning_content_invariant |-> UNAVAILABLE,
          strict_json_boundary_viable |-> UNAVAILABLE]
    ELSE [server_reachable |-> PASS,
          generation_completed |-> Check(reply.content # "empty"),
          no_thinking_scaffold_in_content |-> Check(reply.content # "scaffold"),
          reasoning_content_invariant |-> Check(~reply.reasoning),
          strict_json_boundary_viable |-> Check(reply.content = "json")]

----------------------------------------------------------------------------
\* Preflight.  Its checks that prompts have not drifted and that Phase 0 is
\* imported from its own tree concern the source alone and are left out.
Detected ==
    LET digest == IF machine.env = None THEN None ELSE machine.files[machine.env]
    IN  [available |-> machine.runtimes # {} /\ digest # None,
         llama |-> machine.runtimes \cap {"llama_cpp", "llama-server"} # {},
         digest |-> digest, build |-> machine.installed]

\* The guard is run over external adapters and an extractor with the roster of
\* the configuration; no resolver is passed.
Representative(config) ==
    [extractor |-> "real", roster |-> config.participants, stateless |-> "real",
     transcript |-> "real", appraiser |-> "real", resolver |-> None,
     config |-> config]

ApprovedModel(spec) == /\ spec.model = "qwen3-4b" /\ spec.quantization = "Q4_K_M"
                       /\ spec.backend_id = "llama.cpp-gguf"

\* Mutant: an unfrozen value has nothing to differ from.
MatchesFrozenIfAny(found, key) ==
    FrozenValue(record, key) = None \/ found = FrozenValue(record, key)

MatchesFrozen(found, key) ==
    /\ found # None /\ FrozenValue(record, key) # None
    /\ found = FrozenValue(record, key)

GovernanceChecks ==
    LET structure == FrozenValue(record, "experimental_structure")
    IN  [governance_freeze_complete |-> Check(IsRealRunPermitted(record)),
         experiment_structure_unchanged |->
             Check(structure # None /\ Conditions \subseteq structure)]

ConfigurationChecks(config) ==
    LET specs == {config.specs[role] : role \in DOMAIN config.specs}
    IN  [real_run_config_complete |-> Check(Incomplete(config) = {}),
         prompts_present |-> Check(\A s \in specs : s.prompt_id = "registered"),
         schemas_present |-> Check(\A s \in specs : s.schema_id = "registered"),
         no_scripted_doubles_in_real |->
             Check(ValidRunConfiguration("real", Representative(config))),
         no_network_dependency |-> Check(\A s \in specs : s.provider = "local_qwen"),
         approved_model_and_quantisation |->
             Check(ApprovedModel(config.specs["evidence_extraction"])),
         approved_generation_config |->
             Check(/\ \A s \in specs : s.settings = FrozenSettings
                   /\ record["retry_policy"].value = 0)]

InstallationChecks(config, found) ==
    [model_installed_available |-> Check(found.available),
     model_version_identifiable |->
         Check(config.specs["evidence_extraction"].model_version # None),
     llama_cpp_backend_available |-> Check(found.llama),
     llama_cpp_build_matches_frozen |->
         Check(MatchesFrozen(found.build, "llama_cpp_build")),
     artifact_sha256_recorded |->
         Check(MatchesFrozen(found.digest, "artifact_sha256"))]

GitCheck ==
    [phase0_git_untouched |-> IF machine.git \in {"missing", "failed"}
                              THEN UNAVAILABLE ELSE Check(machine.git = "clean")]

PreflightChecks(config, found) ==
    Over(Over(GovernanceChecks, ConfigurationChecks(config)),
         Over(InstallationChecks(config, found), GitCheck))

----------------------------------------------------------------------------
Idle == [pc |-> "idle"]

\* A server keeps the content it loaded when its file changes.
Startable == {s \in Servers : machine.files[s.path] # None}
Started(s) == [path |-> s.path, plain |-> s.plain, build |-> s.build,
               template |-> s.template, loaded |-> machine.files[s.path]]

Init ==
    /\ machine \in Machines /\ record \in Records
    /\ server \in {NoServer} \cup {Started(s) : s \in Startable}
    /\ changes = 0
    /\ dirs = [d \in Dirs |-> None]
    /\ command = [c \in Commands |-> Idle]
    /\ preflight = [pc |-> "idle"]

\* The machine.  A server is started, in place of one that was running or not.
Launch(s) ==
    /\ server # Started(s) /\ server' = Started(s)
    /\ UNCHANGED machine

Stop ==
    /\ Running /\ server' = NoServer
    /\ UNCHANGED machine

Replace(path, content) ==
    /\ machine.files[path] # content
    /\ machine' = [machine EXCEPT !.files[path] = content]
    /\ UNCHANGED server

Change ==
    /\ changes < MaxChanges /\ changes' = changes + 1
    /\ \/ \E s \in Startable : Launch(s)
       \/ Stop
       \/ \E path \in Paths, content \in Contents \cup {None} : Replace(path, content)
    /\ UNCHANGED <<record, dirs, command, preflight>>

----------------------------------------------------------------------------
\* server-readiness.
Step(c, now, new) == command' = [command EXCEPT ![c] = Over(new, [@ EXCEPT !.pc = now])]
End(c, how) == command' = [command EXCEPT ![c] = [pc |-> how]]
At(c, pc) == command[c].pc = pc
Read(c) == UNCHANGED <<machine, server, changes, record, dirs, preflight>>

Approved(arguments) ==
    [path |-> arguments.path,
     digest |-> FrozenValue(record, "artifact_sha256"),
     build |-> FrozenValue(record, "llama_cpp_build"),
     template |-> IF arguments.template # None THEN arguments.template
                  ELSE FrozenValue(record, "chat_template_sha256")]

Refuses(dir) ==
    \/ dirs[dir] # None
    \/ \E key \in {"model_artifact_version", "artifact_sha256", "llama_cpp_build"} :
         FrozenValue(record, key) = None

Begin(c, arguments) ==
    /\ At(c, "idle") /\ preflight.pc = "idle"
    /\ IF Refuses(arguments.dir) THEN End(c, "refused")
       ELSE Step(c, "claiming", [dir |-> arguments.dir,
                                 approved |-> Approved(arguments)])
    /\ Read(c)

\* Mutant: the directory may be there already.
ClaimExisting(c) ==
    /\ At(c, "claiming")
    /\ dirs' = [dirs EXCEPT ![command[c].dir] =
                  IF @ = None THEN [text |-> None, json |-> None] ELSE @]
    /\ Step(c, "process", [began |-> changes])
    /\ UNCHANGED <<machine, server, changes, record, preflight>>

\* Another command may have made the directory since: mkdir raises.
Claim(c) ==
    /\ At(c, "claiming")
    /\ IF dirs[command[c].dir] = None
       THEN /\ dirs' = [dirs EXCEPT ![command[c].dir] = [text |-> None, json |-> None]]
            /\ Step(c, "process", [began |-> changes])
       ELSE End(c, "failed") /\ UNCHANGED dirs
    /\ UNCHANGED <<machine, server, changes, record, preflight>>

\* lsof and ps, then /props; either may fail.
ObserveProcess(c) ==
    /\ At(c, "process")
    /\ \E seen \in {None} \cup
                   (IF Running THEN {[path |-> server.path, plain |-> server.plain]}
                    ELSE {}) :
         Step(c, "props", [facts |-> [command |-> seen]])
    /\ Read(c)

ObserveProps(c) ==
    /\ At(c, "props")
    /\ \E props \in {[path |-> None, build |-> None, template |-> None]} \cup
                    (IF Running THEN {[path |-> server.path, build |-> server.build,
                                       template |-> server.template]}
                     ELSE {}) :
         Step(c, "digest", [facts |-> Over(props, command[c].facts)])
    /\ Read(c)

DigestArtifact(c) ==
    /\ At(c, "digest")
    /\ LET approved == command[c].approved
       IN  Step(c, "probe", [checks |-> IdentityChecks(command[c].facts, approved,
                                                       machine.files[approved.path]),
                             facts |-> None])
    /\ Read(c)

\* Nothing changed since the claim, and the file is still what was loaded.
Steady(c) == /\ changes = command[c].began
             /\ Running => machine.files[server.path] = server.loaded

Probe(c) ==
    /\ At(c, "probe")
    /\ \E reply \in Replies :
         LET checks == Over(command[c].checks, ProbeChecks(reply))
         IN  command' = [command EXCEPT ![c] =
               Over([pc |-> "text", dir |-> @.dir, overall |-> Overall(checks)],
                    IF Overall(checks) = BLOCKED THEN <<>>
                    ELSE [approved |-> @.approved, names |-> DOMAIN checks,
                          answered |-> server, steady |-> Steady(c)])]
    /\ Read(c)

WriteReport(c, pc, file, then) ==
    /\ At(c, pc)
    /\ dirs' = [dirs EXCEPT ![command[c].dir][file] = c]
    /\ Step(c, then, <<>>)
    /\ UNCHANGED <<machine, server, changes, record, preflight>>

Die(c) ==
    /\ command[c].pc \notin {"idle", "refused", "failed", "done"}
    /\ End(c, "failed")
    /\ Read(c)

Readiness(c) ==
    \/ \E arguments \in Arguments : Begin(c, arguments)
    \/ Claim(c)
    \/ ObserveProcess(c) \/ ObserveProps(c) \/ DigestArtifact(c) \/ Probe(c)
    \/ WriteReport(c, "text", "text", "json")
    \/ WriteReport(c, "json", "json", "done")
    \/ Die(c)

----------------------------------------------------------------------------
\* preflight-real: what is installed is detected first, git asked last.  The
\* command takes its configuration from governance; callers may supply one.
\* It writes nothing readiness reads, nor the other way about, so a behaviour
\* runs one gate or the other.
Detect ==
    /\ preflight.pc = "idle" /\ \A c \in Commands : At(c, "idle")
    /\ \E config \in Configs \cup {ConfigFromGovernance(record)} :
         preflight' = [pc |-> "detected", config |-> config, found |-> Detected]
    /\ UNCHANGED <<machine, server, changes, record, dirs, command>>

Judge ==
    /\ preflight.pc = "detected"
    /\ preflight' = [pc |-> "done", config |-> preflight.config,
                     found |-> preflight.found,
                     checks |-> PreflightChecks(preflight.config, preflight.found)]
    /\ UNCHANGED <<machine, server, changes, record, dirs, command>>

Next == Change \/ Detect \/ Judge \/ \E c \in Commands : Readiness(c)
Spec == Init /\ [][Next]_vars

----------------------------------------------------------------------------
(* A readiness PASS vouches for one server: when nothing on the machine      *)
(* changed from the claim to the probe, the server that answered the probe   *)
(* runs the approved artifact from the path given, on the approved build,    *)
(* with the approved template and without --reasoning-format none; all       *)
(* twelve checks took part.  The digest is of the file, not of what was      *)
(* loaded, so a server whose file was replaced since it started is excepted. *)
ReadinessVouches ==
    \A c \in Commands :
      At(c, "done") /\ command[c].overall = PASS /\ command[c].steady =>
        LET s == command[c].answered
            approved == command[c].approved
        IN  /\ Cardinality(command[c].names) = 12
            /\ s.path = approved.path /\ s.plain /\ s.build = approved.build
            /\ approved.template # None /\ s.template = approved.template
            /\ s.loaded = approved.digest

(* Readiness evidence is never overwritten, and both files of a directory    *)
(* come from the command that claimed it, however many run at once.          *)
EvidenceStands ==
    [][\A d \in Dirs : dirs[d] # None =>
         /\ dirs'[d] # None
         /\ \A file \in {"text", "json"} :
              dirs[d][file] # None => dirs'[d][file] = dirs[d][file]
         /\ None \notin {dirs'[d].text, dirs'[d].json} =>
              dirs'[d].text = dirs'[d].json]_vars

(* A preflight PASS vouches for the run: over this configuration, real       *)
(* components with its roster, and with a resolver only if one is specified, *)
(* are accepted as REAL and refused as GOLDEN; the freeze record permits the *)
(* run, and what was found installed is the artifact and the build it names. *)
PreflightVouches ==
    preflight.pc = "done" /\ Overall(preflight.checks) = PASS =>
      LET config == preflight.config
          resolvers == {None} \cup IF "identity_resolution" \in DOMAIN config.specs
                                   THEN {"real"} ELSE {}
      IN  /\ \A resolver \in resolvers :
               LET run == [Representative(config) EXCEPT !.resolver = resolver]
               IN  /\ ValidRunConfiguration("real", run)
                   /\ ~ValidRunConfiguration("golden", run)
          /\ BlockingItems(record) = {}
          /\ preflight.found.digest = record["artifact_sha256"].value
          /\ preflight.found.build = record["llama_cpp_build"].value
          /\ {preflight.found.digest, preflight.found.build} \cap {None} = {}
=============================================================================
