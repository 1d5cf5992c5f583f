---------------------------- MODULE RunGates_proofs ----------------------------
(***************************************************************************)
(* Proofs about RunGates, for any number of readiness commands, servers,   *)
(* freeze records and changes of the machine: readiness evidence stands, a *)
(* readiness PASS vouches for the server that answered, and a preflight    *)
(* PASS vouches for the run.                                               *)
(***************************************************************************)
EXTENDS RunGates, FiniteSetTheorems, TLAPS

----------------------------------------------------------------------------
(* The inductive invariant.                                                *)

\* Where a command has read nothing yet that it will judge, and where it has
\* claimed its directory.
Asking == {"claiming", "process", "props", "digest", "probe"}
Reading == {"process", "props", "digest", "probe"}
Claimed == Reading \cup {"text", "json"}

\* The fields a command has where it stands.
HasFields(r) ==
    /\ "pc" \in DOMAIN r
    /\ r.pc \in Asking \cup Claimed => "dir" \in DOMAIN r
    /\ r.pc \in Asking => "approved" \in DOMAIN r
    /\ r.pc \in Reading => "began" \in DOMAIN r
    /\ r.pc \in {"props", "digest", "probe"} => "facts" \in DOMAIN r
    /\ r.pc = "props" => DOMAIN r.facts = {"command"}
    /\ r.pc = "probe" => "checks" \in DOMAIN r
    /\ r.pc \in {"text", "json"} => "overall" \in DOMAIN r
    /\ r.pc \in {"text", "json"} /\ r.overall # BLOCKED =>
         {"approved", "names", "answered", "steady"} \subseteq DOMAIN r

Shape ==
    /\ DOMAIN command = Commands /\ DOMAIN dirs = Dirs
    /\ changes \in Nat
    /\ \A c \in Commands : HasFields(command[c])
    /\ \A d \in Dirs :
         dirs[d] \in {None} \cup [text : Commands \cup {None}, json : Commands \cup {None}]

\* A directory in use belongs to one command, and holds what it wrote so far.
Unwritten == [text |-> None, json |-> None]

Ownership ==
    /\ \A c \in Commands : command[c].pc \in Asking \cup Claimed => command[c].dir \in Dirs
    /\ \A c \in Commands : command[c].pc \in Reading \cup {"text"} =>
         dirs[command[c].dir] = Unwritten
    /\ \A c \in Commands : command[c].pc = "json" =>
         dirs[command[c].dir] = [text |-> c, json |-> None]
    /\ \A c, k \in Commands :
         /\ command[c].pc \in Claimed /\ command[k].pc \in Claimed
         /\ command[c].dir = command[k].dir
         => c = k
    /\ \A d \in Dirs :
         dirs[d] # None /\ dirs[d].json # None => dirs[d].text = dirs[d].json

\* What a command has read is true of the machine it began on.
IdentityNames ==
    {"launch_command_recorded", "launch_flags_without_reasoning_format_none",
     "launched_with_approved_artifact", "loaded_artifact_is_approved",
     "artifact_digest_verified", "runtime_build_matches", "chat_template_unchanged"}
ProbeNames ==
    {"server_reachable", "generation_completed", "no_thinking_scaffold_in_content",
     "reasoning_content_invariant", "strict_json_boundary_viable"}

AllPass(checks) == \A name \in DOMAIN checks : checks[name] = PASS

Matches(s, approved) ==
    /\ s.path = approved.path /\ s.plain /\ s.build = approved.build
    /\ approved.template # None /\ s.template = approved.template

SawProcess(r) ==
    r.facts.command # None =>
      r.facts.command.path = server.path /\ r.facts.command.plain = server.plain

SawProps(r) ==
    /\ r.facts.path # None => r.facts.path = server.path
    /\ r.facts.build # None => r.facts.build = server.build
    /\ r.facts.template # None => r.facts.template = server.template

Judged(r) ==
    AllPass(r.checks) =>
      /\ DOMAIN r.checks = IdentityNames
      /\ r.began = changes =>
           /\ Matches(server, r.approved)
           /\ machine.files[r.approved.path] = r.approved.digest

Vouched(r) ==
    r.overall = PASS =>
      /\ r.names = IdentityNames \cup ProbeNames
      /\ r.steady => Matches(r.answered, r.approved) /\ r.answered.loaded = r.approved.digest

HasRead(r) ==
    /\ r.pc \in Asking => r.approved.path # None
    /\ r.pc \in Reading => r.began \in Nat /\ r.began =< changes
    /\ r.pc \in {"props", "digest"} /\ r.began = changes => SawProcess(r)
    /\ r.pc = "digest" /\ r.began = changes => SawProps(r)
    /\ r.pc = "probe" => Judged(r)
    /\ r.pc \in {"text", "json", "done"} => Vouched(r)

Readings == \A c \in Commands : HasRead(command[c])

\* What preflight passed, apart from git, which is asked of the machine.
Preflighted ==
    preflight.pc = "done" /\ AllPass(preflight.checks) =>
      /\ AllPass(GovernanceChecks) /\ AllPass(ConfigurationChecks(preflight.config))
      /\ AllPass(InstallationChecks(preflight.config, preflight.found))

GatesInv == Shape /\ Ownership /\ Readings /\ Preflighted
----------------------------------------------------------------------------
(* Lemmas about the operators.                                             *)

LEMMA Overlaid ==
    ASSUME NEW f, NEW g
    PROVE  /\ DOMAIN Over(f, g) = DOMAIN f \cup DOMAIN g
           /\ \A x \in DOMAIN f : Over(f, g)[x] = f[x]
           /\ \A x \in DOMAIN g : x \notin DOMAIN f => Over(f, g)[x] = g[x]
  BY DEF Over

\* A step gives a command the new fields and keeps the others.
LEMMA StepFields ==
    ASSUME Shape, NEW c \in Commands, NEW now, NEW new,
           Step(c, now, new), "pc" \notin DOMAIN new
    PROVE  /\ DOMAIN command' = Commands
           /\ \A k \in Commands : k # c => command'[k] = command[k]
           /\ DOMAIN command'[c] = DOMAIN new \cup DOMAIN command[c]
           /\ command'[c].pc = now
           /\ \A x \in DOMAIN new : command'[c][x] = new[x]
           /\ \A x \in DOMAIN command[c] :
                x \notin DOMAIN new /\ x # "pc" => command'[c][x] = command[c][x]
<1> DEFINE old == [command[c] EXCEPT !.pc = now]
<1>1. DOMAIN command = Commands /\ "pc" \in DOMAIN command[c]
  BY DEF Shape, HasFields
<1>2. command' = [command EXCEPT ![c] = Over(new, old)]
  BY DEF Step
<1>3. /\ DOMAIN old = DOMAIN command[c] /\ old["pc"] = now
      /\ \A x \in DOMAIN command[c] : x # "pc" => old[x] = command[c][x]
  BY <1>1
<1> HIDE DEF old
<1>4. /\ DOMAIN command' = Commands /\ command'[c] = Over(new, old)
      /\ \A k \in Commands : k # c => command'[k] = command[k]
  BY <1>1, <1>2
<1>5. /\ DOMAIN Over(new, old) = DOMAIN new \cup DOMAIN old
      /\ \A x \in DOMAIN new : Over(new, old)[x] = new[x]
      /\ \A x \in DOMAIN old : x \notin DOMAIN new => Over(new, old)[x] = old[x]
  BY Overlaid
<1> QED
  BY <1>1, <1>3, <1>4, <1>5

LEMMA EndFields ==
    ASSUME Shape, NEW c \in Commands, NEW how, End(c, how)
    PROVE  /\ DOMAIN command' = Commands
           /\ \A k \in Commands : k # c => command'[k] = command[k]
           /\ DOMAIN command'[c] = {"pc"} /\ command'[c].pc = how
  BY DEF End, Shape

\* A step at which no directory changes keeps each to the command it was of.
LEMMA OwnershipKept ==
    ASSUME Shape, Ownership, NEW c \in Commands, UNCHANGED dirs,
           \A k \in Commands : k # c => command'[k] = command[k],
           \/ command'[c].pc \notin Asking \cup Claimed
           \/ /\ command'[c].pc = "claiming" /\ command'[c].dir \in Dirs
           \/ /\ command[c].pc \in Reading /\ command'[c].pc \in Reading \cup {"text"}
              /\ command'[c].dir = command[c].dir
    PROVE  Ownership'
  BY DEF Ownership, Shape, Asking, Reading, Claimed, Unwritten

\* Whatever is not read is not disturbed either.
LEMMA ReadingsKept ==
    ASSUME Shape, Readings, NEW c \in Commands, UNCHANGED <<machine, server, changes>>,
           \A k \in Commands : k # c => command'[k] = command[k],
           HasRead(command[c])'
    PROVE  Readings'
<1> SUFFICES ASSUME NEW k \in Commands PROVE HasRead(command[k])'
  BY DEF Readings
<1>1. CASE k = c
  BY <1>1
<1>2. CASE k # c
  <2>1. command'[k] = command[k] /\ HasRead(command[k])
    BY <1>2 DEF Readings
  <2> QED
    BY <2>1 DEF HasRead, SawProcess, SawProps, Judged, Vouched
<1> QED
  BY <1>1, <1>2

\* A step of one command at which the machine and the directories stay.
LEMMA ReadingStep ==
    ASSUME Shape, Ownership, Readings, NEW c \in Commands,
           UNCHANGED <<machine, server, changes, dirs>>,
           DOMAIN command' = Commands,
           \A k \in Commands : k # c => command'[k] = command[k],
           \/ command'[c].pc \notin Asking \cup Claimed
           \/ /\ command'[c].pc = "claiming" /\ command'[c].dir \in Dirs
           \/ /\ command[c].pc \in Reading /\ command'[c].pc \in Reading \cup {"text"}
              /\ command'[c].dir = command[c].dir,
           HasFields(command[c])', HasRead(command[c])'
    PROVE  Shape' /\ Ownership' /\ Readings'
<1>1. Shape'
  <2>1. \A k \in Commands : HasFields(command[k])'
    <3> SUFFICES ASSUME NEW k \in Commands, k # c PROVE HasFields(command[k])'
      OBVIOUS
    <3>1. command'[k] = command[k] /\ HasFields(command[k])
      BY DEF Shape
    <3> QED
      BY <3>1 DEF HasFields
  <2> QED
    BY <2>1 DEF Shape
<1> QED
  BY <1>1, OwnershipKept, ReadingsKept

LEMMA EndStep ==
    ASSUME Shape, Ownership, Readings, NEW c \in Commands, NEW how \in {"refused", "failed"},
           End(c, how), UNCHANGED <<machine, server, changes, dirs>>
    PROVE  Shape' /\ Ownership' /\ Readings'
<1>1. /\ DOMAIN command' = Commands
      /\ \A k \in Commands : k # c => command'[k] = command[k]
      /\ DOMAIN command'[c] = {"pc"} /\ command'[c].pc = how
  BY EndFields
<1>2. command'[c].pc \notin Asking \cup Claimed \cup {"done"}
  BY <1>1 DEF Asking, Claimed, Reading
<1>3. HasFields(command[c])' /\ HasRead(command[c])'
  BY <1>1, <1>2 DEF HasFields, HasRead, Asking, Claimed, Reading
<1> QED
  BY <1>1, <1>2, <1>3, ReadingStep

LEMMA BeginStep ==
    ASSUME Shape, Ownership, Readings, NEW c \in Commands, NEW arguments \in Arguments,
           Begin(c, arguments)
    PROVE  Shape' /\ Ownership' /\ Readings'
<1> USE DEF Read
<1>1. CASE End(c, "refused")
  BY <1>1, EndStep DEF Begin
<1>2. CASE ~End(c, "refused")
  <2> DEFINE new == [dir |-> arguments.dir, approved |-> Approved(arguments)]
  <2>1. Step(c, "claiming", new)
    BY <1>2 DEF Begin
  <2>2. /\ DOMAIN new = {"dir", "approved"}
        /\ new["dir"] = arguments.dir /\ new["approved"].path = arguments.path
    BY DEF Approved
  <2>3. arguments.dir \in Dirs /\ arguments.path # None
    BY GatesAssumption
  <2> HIDE DEF new
  <2>4. /\ DOMAIN command' = Commands
        /\ \A k \in Commands : k # c => command'[k] = command[k]
        /\ {"dir", "approved", "pc"} \subseteq DOMAIN command'[c]
        /\ command'[c].pc = "claiming"
        /\ command'[c]["dir"] = arguments.dir
        /\ command'[c]["approved"].path = arguments.path
    BY <2>1, <2>2, StepFields DEF Shape, HasFields
  <2>5. HasFields(command[c])' /\ HasRead(command[c])'
    BY <2>3, <2>4 DEF HasFields, HasRead, Asking, Claimed, Reading
  <2>6. command'[c].dir \in Dirs
    BY <2>3, <2>4
  <2> QED
    BY <2>4, <2>5, <2>6, ReadingStep DEF Begin
<1> QED
  BY <1>1, <1>2

LEMMA ProcessStep ==
    ASSUME Shape, Ownership, Readings, NEW c \in Commands, ObserveProcess(c)
    PROVE  Shape' /\ Ownership' /\ Readings'
<1> USE DEF Read, At
<1>1. command[c].pc = "process" /\ HasFields(command[c]) /\ HasRead(command[c])
  BY DEF ObserveProcess, Shape, Readings
<1>2. PICK seen \in {None} \cup
                    (IF Running THEN {[path |-> server.path, plain |-> server.plain]}
                     ELSE {}) :
        Step(c, "props", [facts |-> [command |-> seen]])
  BY DEF ObserveProcess
<1> DEFINE new == [facts |-> [command |-> seen]]
<1>3. /\ DOMAIN new = {"facts"} /\ DOMAIN new["facts"] = {"command"}
      /\ new["facts"].command = seen
  OBVIOUS
<1>4. seen # None => seen.path = server.path /\ seen.plain = server.plain
  BY <1>2
<1> HIDE DEF new
<1>5. /\ DOMAIN command' = Commands
      /\ \A k \in Commands : k # c => command'[k] = command[k]
      /\ DOMAIN command'[c] = {"facts"} \cup DOMAIN command[c]
      /\ command'[c].pc = "props"
      /\ command'[c]["facts"] = new["facts"]
      /\ \A x \in DOMAIN command[c] : x \notin {"facts", "pc"} =>
           command'[c][x] = command[c][x]
  BY <1>1, <1>2, <1>3, StepFields DEF new
<1>6. /\ "dir" \in DOMAIN command[c] /\ "approved" \in DOMAIN command[c]
      /\ "began" \in DOMAIN command[c] /\ "pc" \in DOMAIN command[c]
  BY <1>1 DEF HasFields, Asking, Claimed, Reading
<1>7. /\ command'[c]["dir"] = command[c]["dir"]
      /\ command'[c]["approved"] = command[c]["approved"]
      /\ command'[c]["began"] = command[c]["began"]
  BY <1>5, <1>6
<1>8. HasFields(command[c])'
  BY <1>3, <1>5, <1>6 DEF HasFields, Asking, Claimed, Reading
<1>9. UNCHANGED <<machine, server, changes, dirs>>
  BY DEF ObserveProcess
<1>10. HasRead(command[c])'
  <2>1. SawProcess(command[c])'
    BY <1>3, <1>4, <1>5, <1>9 DEF SawProcess
  <2>2. /\ command'[c].approved.path # None
        /\ command'[c].began \in Nat /\ command'[c].began =< changes'
    BY <1>1, <1>7, <1>9 DEF HasRead, Asking, Reading
  <2> QED
    BY <2>1, <2>2, <1>5 DEF HasRead, Asking, Reading
<1>11. command[c].pc \in Reading /\ command'[c].pc \in Reading /\ command'[c].dir = command[c].dir
  BY <1>1, <1>5, <1>7 DEF Reading
<1> QED
  BY <1>5, <1>8, <1>9, <1>10, <1>11, ReadingStep

LEMMA PropsStep ==
    ASSUME Shape, Ownership, Readings, NEW c \in Commands, ObserveProps(c)
    PROVE  Shape' /\ Ownership' /\ Readings'
<1> USE DEF Read, At
<1>1. command[c].pc = "props" /\ HasFields(command[c]) /\ HasRead(command[c])
  BY DEF ObserveProps, Shape, Readings
<1>2. PICK props \in {[path |-> None, build |-> None, template |-> None]} \cup
                     (IF Running THEN {[path |-> server.path, build |-> server.build,
                                        template |-> server.template]}
                      ELSE {}) :
        Step(c, "digest", [facts |-> Over(props, command[c].facts)])
  BY DEF ObserveProps
<1>3. DOMAIN props = {"path", "build", "template"}
  BY <1>2
<1>4. /\ props.path # None => props.path = server.path
      /\ props.build # None => props.build = server.build
      /\ props.template # None => props.template = server.template
  BY <1>2
<1> DEFINE read == command[c].facts
           facts == Over(props, read)
           new == [facts |-> facts]
<1>5. /\ facts["path"] = props["path"] /\ facts["build"] = props["build"]
      /\ facts["template"] = props["template"]
      /\ facts["command"] = command[c].facts["command"]
  <2>1. DOMAIN read = {"command"}
    BY <1>1 DEF HasFields
  <2> HIDE DEF read
  <2>2. /\ \A x \in DOMAIN props : facts[x] = props[x]
        /\ \A x \in DOMAIN read : x \notin DOMAIN props => facts[x] = read[x]
    BY Overlaid
  <2> HIDE DEF facts
  <2> QED
    BY <1>3, <2>1, <2>2 DEF read
<1> HIDE DEF facts
<1>6. DOMAIN new = {"facts"} /\ new["facts"] = facts /\ Step(c, "digest", new)
  BY <1>2 DEF facts
<1> HIDE DEF new
<1>7. /\ DOMAIN command' = Commands
      /\ \A k \in Commands : k # c => command'[k] = command[k]
      /\ DOMAIN command'[c] = {"facts"} \cup DOMAIN command[c]
      /\ command'[c].pc = "digest"
      /\ command'[c]["facts"] = facts
      /\ \A x \in DOMAIN command[c] : x \notin {"facts", "pc"} =>
           command'[c][x] = command[c][x]
  BY <1>1, <1>6, StepFields
<1>8. /\ "dir" \in DOMAIN command[c] /\ "approved" \in DOMAIN command[c]
      /\ "began" \in DOMAIN command[c] /\ "pc" \in DOMAIN command[c]
  BY <1>1 DEF HasFields, Asking, Claimed, Reading
<1>9. /\ command'[c]["dir"] = command[c]["dir"]
      /\ command'[c]["approved"] = command[c]["approved"]
      /\ command'[c]["began"] = command[c]["began"]
  BY <1>7, <1>8
<1>10. HasFields(command[c])'
  BY <1>7, <1>8 DEF HasFields, Asking, Claimed, Reading
<1>11. UNCHANGED <<machine, server, changes, dirs>>
  BY DEF ObserveProps
<1>12. HasRead(command[c])'
  <2>1. SawProps(command[c])'
    BY <1>4, <1>5, <1>7, <1>11 DEF SawProps
  <2>2. command[c].began = changes => SawProcess(command[c])
    BY <1>1 DEF HasRead
  <2>3. command'[c].began = changes' => SawProcess(command[c])'
    BY <2>2, <1>5, <1>7, <1>9, <1>11 DEF SawProcess
  <2>4. /\ command'[c].approved.path # None
        /\ command'[c].began \in Nat /\ command'[c].began =< changes'
    BY <1>1, <1>9, <1>11 DEF HasRead, Asking, Reading
  <2> QED
    BY <2>1, <2>3, <2>4, <1>7 DEF HasRead, Asking, Reading
<1>13. command[c].pc \in Reading /\ command'[c].pc \in Reading /\ command'[c].dir = command[c].dir
  BY <1>1, <1>7, <1>9 DEF Reading
<1> QED
  BY <1>7, <1>10, <1>11, <1>12, <1>13, ReadingStep

\* What passing every check of identity says of the facts.
LEMMA IdentityPasses ==
    ASSUME NEW facts, NEW approved, NEW digest, approved.path # None,
           AllPass(IdentityChecks(facts, approved, digest))
    PROVE  /\ DOMAIN IdentityChecks(facts, approved, digest) = IdentityNames
           /\ facts.command # None /\ facts.command.plain
           /\ facts.command.path = approved.path /\ facts.path = approved.path
           /\ facts.build # None /\ facts.build = approved.build
           /\ approved.template # None /\ facts.template = approved.template
           /\ digest = approved.digest
<1> DEFINE launch == LaunchChecks(facts, approved)
           rest == [loaded_artifact_is_approved |-> Check(facts.path = approved.path),
                    artifact_digest_verified |->
                        Check(digest # None /\ digest = approved.digest),
                    runtime_build_matches |->
                        Check(facts.build # None /\ facts.build = approved.build),
                    chat_template_unchanged |-> TemplateCheck(facts, approved)]
           all == Over(launch, rest)
<1>1. IdentityChecks(facts, approved, digest) = all
  BY DEF IdentityChecks
<1>2. /\ DOMAIN rest = {"loaded_artifact_is_approved", "artifact_digest_verified",
                        "runtime_build_matches", "chat_template_unchanged"}
      /\ rest["loaded_artifact_is_approved"] = Check(facts.path = approved.path)
      /\ rest["artifact_digest_verified"] = Check(digest # None /\ digest = approved.digest)
      /\ rest["runtime_build_matches"] =
           Check(facts.build # None /\ facts.build = approved.build)
      /\ rest["chat_template_unchanged"] = TemplateCheck(facts, approved)
  OBVIOUS
<1>3. facts.command = None => DOMAIN launch = {"launch_command_recorded"}
                              /\ launch["launch_command_recorded"] = BLOCKED
  BY DEF LaunchChecks
<1>4. facts.command # None =>
        /\ DOMAIN launch = {"launch_command_recorded",
                            "launch_flags_without_reasoning_format_none",
                            "launched_with_approved_artifact"}
        /\ launch["launch_flags_without_reasoning_format_none"] = Check(facts.command.plain)
        /\ launch["launched_with_approved_artifact"] =
             Check(facts.command.path = approved.path)
  BY DEF LaunchChecks
<1> HIDE DEF launch, rest
<1>5. /\ DOMAIN all = DOMAIN launch \cup DOMAIN rest
      /\ \A x \in DOMAIN launch : all[x] = launch[x]
      /\ \A x \in DOMAIN rest : x \notin DOMAIN launch => all[x] = rest[x]
  BY Overlaid
<1>6. \A x \in DOMAIN all : all[x] = PASS
  BY <1>1 DEF AllPass
<1> HIDE DEF all
<1>7. facts.command # None
  BY <1>3, <1>5, <1>6 DEF PASS, BLOCKED
<1>8. DOMAIN all = IdentityNames
  BY <1>2, <1>4, <1>5, <1>7 DEF IdentityNames
<1>9. Check(facts.command.plain) = PASS /\ Check(facts.command.path = approved.path) = PASS
  BY <1>4, <1>5, <1>6, <1>7
<1>10. /\ Check(facts.path = approved.path) = PASS
       /\ Check(digest # None /\ digest = approved.digest) = PASS
       /\ Check(facts.build # None /\ facts.build = approved.build) = PASS
       /\ TemplateCheck(facts, approved) = PASS
  BY <1>2, <1>4, <1>5, <1>6, <1>7
<1>11. facts.command.plain /\ facts.command.path = approved.path
  BY <1>9 DEF Check, PASS, BLOCKED
<1>12. /\ facts.path = approved.path /\ digest = approved.digest
       /\ facts.build # None /\ facts.build = approved.build
  BY <1>10 DEF Check, PASS, BLOCKED
<1>13. approved.template # None /\ facts.template = approved.template
  BY <1>10 DEF TemplateCheck, Check, PASS, BLOCKED, UNAVAILABLE
<1> QED
  BY <1>1, <1>7, <1>8, <1>11, <1>12, <1>13

LEMMA DigestStep ==
    ASSUME Shape, Ownership, Readings, NEW c \in Commands, DigestArtifact(c)
    PROVE  Shape' /\ Ownership' /\ Readings'
<1> USE DEF Read, At
<1>1. command[c].pc = "digest" /\ HasFields(command[c]) /\ HasRead(command[c])
  BY DEF DigestArtifact, Shape, Readings
<1> DEFINE facts == command[c].facts
           approved == command[c].approved
           digest == machine.files[approved.path]
           checks == IdentityChecks(facts, approved, digest)
           new == [checks |-> checks, facts |-> None]
<1>2. Step(c, "probe", new)
  BY DEF DigestArtifact
<1>3. DOMAIN new = {"checks", "facts"} /\ new["checks"] = checks
  OBVIOUS
<1>4. approved.path # None
  BY <1>1 DEF HasRead, Asking
<1>5. AllPass(checks) =>
        /\ DOMAIN checks = IdentityNames
        /\ facts.command # None /\ facts.command.plain
        /\ facts.command.path = approved.path /\ facts.path = approved.path
        /\ facts.build # None /\ facts.build = approved.build
        /\ approved.template # None /\ facts.template = approved.template
        /\ digest = approved.digest
  <2> HIDE DEF facts, approved, digest
  <2> QED
    BY <1>4, IdentityPasses
<1>6. command[c].began = changes =>
        /\ facts.command # None => facts.command.plain = server.plain
        /\ facts.path # None => facts.path = server.path
        /\ facts.build # None => facts.build = server.build
        /\ facts.template # None => facts.template = server.template
  BY <1>1 DEF HasRead, SawProcess, SawProps
<1>7. AllPass(checks) /\ command[c].began = changes =>
        Matches(server, approved) /\ digest = approved.digest
  <2> HIDE DEF facts, approved, digest, checks
  <2> QED
    BY <1>4, <1>5, <1>6 DEF Matches
<1> HIDE DEF new, checks
<1>8. /\ DOMAIN command' = Commands
      /\ \A k \in Commands : k # c => command'[k] = command[k]
      /\ DOMAIN command'[c] = {"checks", "facts"} \cup DOMAIN command[c]
      /\ command'[c].pc = "probe"
      /\ command'[c]["checks"] = checks
      /\ \A x \in DOMAIN command[c] : x \notin {"checks", "facts", "pc"} =>
           command'[c][x] = command[c][x]
  BY <1>1, <1>2, <1>3, StepFields
<1>9. /\ "dir" \in DOMAIN command[c] /\ "approved" \in DOMAIN command[c]
      /\ "began" \in DOMAIN command[c] /\ "pc" \in DOMAIN command[c]
  BY <1>1 DEF HasFields, Asking, Claimed, Reading
<1>10. /\ command'[c]["dir"] = command[c]["dir"]
       /\ command'[c]["approved"] = command[c]["approved"]
       /\ command'[c]["began"] = command[c]["began"]
  BY <1>8, <1>9
<1>11. HasFields(command[c])'
  BY <1>8, <1>9 DEF HasFields, Asking, Claimed, Reading
<1>12. UNCHANGED <<machine, server, changes, dirs>>
  BY DEF DigestArtifact
<1>13. HasRead(command[c])'
  <2>1. Judged(command[c])'
    BY <1>5, <1>7, <1>8, <1>10, <1>12 DEF Judged, Matches, AllPass
  <2>2. /\ command'[c].approved.path # None
        /\ command'[c].began \in Nat /\ command'[c].began =< changes'
    BY <1>1, <1>10, <1>12 DEF HasRead, Asking, Reading
  <2> QED
    BY <2>1, <2>2, <1>8 DEF HasRead, Asking, Reading
<1>14. command[c].pc \in Reading /\ command'[c].pc \in Reading /\ command'[c].dir = command[c].dir
  BY <1>1, <1>8, <1>10 DEF Reading
<1> QED
  BY <1>8, <1>11, <1>12, <1>13, <1>14, ReadingStep

LEMMA ProbeStep ==
    ASSUME Shape, Ownership, Readings, NEW c \in Commands, Probe(c)
    PROVE  Shape' /\ Ownership' /\ Readings'
<1> USE DEF Read, At
<1>1. command[c].pc = "probe" /\ HasFields(command[c]) /\ HasRead(command[c])
  BY DEF Probe, Shape, Readings
<1> DEFINE checks(reply) == Over(command[c].checks, ProbeChecks(reply))
           base(reply) == [pc |-> "text", dir |-> command[c].dir,
                           overall |-> Overall(checks(reply))]
           extra(reply) == IF Overall(checks(reply)) = BLOCKED THEN <<>>
                           ELSE [approved |-> command[c].approved,
                                 names |-> DOMAIN checks(reply),
                                 answered |-> server, steady |-> Steady(c)]
<1>2. PICK reply \in Replies :
        command' = [command EXCEPT ![c] = Over(base(reply), extra(reply))]
  BY DEF Probe
<1> DEFINE had == command[c].checks
           asked == ProbeChecks(reply)
           all == Over(had, asked)
           result == Overall(all)
           steady == Steady(c)
           kept == [pc |-> "text", dir |-> command[c].dir, overall |-> result]
           more == IF result = BLOCKED THEN <<>>
                   ELSE [approved |-> command[c].approved, names |-> DOMAIN all,
                         answered |-> server, steady |-> steady]
<1>3. command' = [command EXCEPT ![c] = Over(kept, more)]
  BY <1>2
<1>4. DOMAIN asked = ProbeNames
  BY DEF ProbeChecks, ProbeNames
<1>5. /\ DOMAIN all = DOMAIN had \cup ProbeNames
      /\ \A x \in DOMAIN had : all[x] = had[x]
  <2> HIDE DEF had, asked
  <2> QED
    BY <1>4, Overlaid
<1>6. result = PASS => AllPass(had) /\ \A x \in DOMAIN all : all[x] = PASS
  <2> HIDE DEF had, all
  <2> QED
    BY <1>5 DEF Overall, Check, PASS, BLOCKED, AllPass
<1>7. result # BLOCKED => result = PASS
  BY DEF Overall, Check, PASS, BLOCKED
<1>8. /\ DOMAIN kept = {"pc", "dir", "overall"} /\ kept["pc"] = "text"
      /\ kept["dir"] = command[c].dir /\ kept["overall"] = result
  OBVIOUS
<1> HIDE DEF had, asked, all, result
<1>9. result # BLOCKED =>
        /\ DOMAIN more = {"approved", "names", "answered", "steady"}
        /\ more["approved"] = command[c].approved /\ more["names"] = DOMAIN all
        /\ more["answered"] = server /\ more["steady"] = steady
  OBVIOUS
<1>10. DOMAIN command = Commands /\ PASS # BLOCKED
  BY DEF Shape, PASS, BLOCKED
<1> HIDE DEF kept, more
<1>11. /\ DOMAIN Over(kept, more) = DOMAIN kept \cup DOMAIN more
       /\ \A x \in DOMAIN kept : Over(kept, more)[x] = kept[x]
       /\ \A x \in DOMAIN more : x \notin DOMAIN kept => Over(kept, more)[x] = more[x]
  BY Overlaid
<1>12. /\ DOMAIN command' = Commands /\ command'[c] = Over(kept, more)
       /\ \A k \in Commands : k # c => command'[k] = command[k]
  BY <1>3, <1>10
<1>13. /\ {"pc", "dir", "overall"} \subseteq DOMAIN command'[c]
       /\ command'[c]["pc"] = "text" /\ command'[c]["dir"] = command[c].dir
       /\ command'[c]["overall"] = result
  BY <1>8, <1>11, <1>12
<1>14. result # BLOCKED =>
         /\ {"approved", "names", "answered", "steady"} \subseteq DOMAIN command'[c]
         /\ command'[c]["approved"] = command[c].approved
         /\ command'[c]["names"] = DOMAIN all
         /\ command'[c]["answered"] = server /\ command'[c]["steady"] = steady
  BY <1>8, <1>9, <1>11, <1>12
<1>15. HasFields(command[c])'
  BY <1>13, <1>14 DEF HasFields, Asking, Claimed, Reading
<1>16. UNCHANGED <<machine, server, changes, dirs>>
  BY DEF Probe
<1>17. Judged(command[c]) /\ command[c].approved.path # None
  BY <1>1 DEF HasRead, Asking
<1>18. result = PASS =>
         /\ DOMAIN all = IdentityNames \cup ProbeNames
         /\ command[c].began = changes =>
              /\ Matches(server, command[c].approved)
              /\ machine.files[command[c].approved.path] = command[c].approved.digest
  BY <1>5, <1>6, <1>17 DEF Judged, had
<1>19. result = PASS /\ steady =>
         /\ Matches(server, command[c].approved)
         /\ server.loaded = command[c].approved.digest
  <2> SUFFICES ASSUME result = PASS, steady
               PROVE  /\ Matches(server, command[c].approved)
                      /\ server.loaded = command[c].approved.digest
    OBVIOUS
  <2>1. changes = command[c].began /\ (Running => machine.files[server.path] = server.loaded)
    BY DEF Steady
  <2>2. /\ Matches(server, command[c].approved)
        /\ machine.files[command[c].approved.path] = command[c].approved.digest
    BY <1>18, <2>1
  <2>3. server.path = command[c].approved.path /\ server.path # None
    BY <1>17, <2>2 DEF Matches
  <2>4. Running
    BY <2>3 DEF Running, NoServer
  <2> QED
    BY <2>1, <2>2, <2>3, <2>4
<1>20. HasRead(command[c])'
  <2> HIDE DEF steady
  <2>1. SUFFICES ASSUME result = PASS
                 PROVE  /\ command'[c].names = IdentityNames \cup ProbeNames
                        /\ command'[c].steady =>
                             /\ Matches(command'[c].answered, command'[c].approved)
                             /\ command'[c].answered.loaded = command'[c].approved.digest
    BY <1>13 DEF HasRead, Vouched, Matches, Asking, Reading
  <2>2. /\ command'[c].approved = command[c].approved /\ command'[c].names = DOMAIN all
        /\ command'[c].answered = server /\ command'[c].steady = steady
    BY <1>10, <1>14, <2>1
  <2> QED
    BY <1>18, <1>19, <2>1, <2>2
<1>21. /\ command[c].pc \in Reading /\ command'[c].pc \in Reading \cup {"text"}
       /\ command'[c].dir = command[c].dir
  BY <1>1, <1>13 DEF Reading
<1> QED
  BY <1>12, <1>15, <1>16, <1>20, <1>21, ReadingStep

LEMMA ClaimStep ==
    ASSUME Shape, Ownership, Readings, NEW c \in Commands, Claim(c)
    PROVE  Shape' /\ Ownership' /\ Readings'
<1> USE DEF At
<1>1. command[c].pc = "claiming" /\ HasFields(command[c]) /\ HasRead(command[c])
  BY DEF Claim, Shape, Readings
<1> DEFINE d == command[c].dir
           new == [began |-> changes]
<1>2. CASE dirs[d] # None
  BY <1>2, EndStep DEF Claim
<1>3. CASE dirs[d] = None
  <2>1. /\ dirs' = [dirs EXCEPT ![d] = Unwritten] /\ Step(c, "process", new)
        /\ UNCHANGED <<machine, server, changes>>
    BY <1>3 DEF Claim, Unwritten
  <2>2. DOMAIN new = {"began"} /\ new["began"] = changes
    OBVIOUS
  <2>3. d \in Dirs /\ DOMAIN dirs = Dirs
    BY <1>1 DEF Ownership, Shape, Asking
  <2> HIDE DEF new
  <2>4. /\ DOMAIN command' = Commands
        /\ \A k \in Commands : k # c => command'[k] = command[k]
        /\ DOMAIN command'[c] = {"began"} \cup DOMAIN command[c]
        /\ command'[c].pc = "process" /\ command'[c]["began"] = changes
        /\ \A x \in DOMAIN command[c] : x \notin {"began", "pc"} =>
             command'[c][x] = command[c][x]
    BY <2>1, <2>2, StepFields
  <2>5. /\ "dir" \in DOMAIN command[c] /\ "approved" \in DOMAIN command[c]
        /\ "pc" \in DOMAIN command[c]
    BY <1>1 DEF HasFields, Asking, Claimed, Reading
  <2>6. command'[c]["dir"] = d /\ command'[c]["approved"] = command[c]["approved"]
    BY <2>4, <2>5
  <2>7. HasFields(command[c])'
    BY <2>4, <2>5 DEF HasFields, Asking, Claimed, Reading
  <2>8. HasRead(command[c])'
    BY <1>1, <2>1, <2>4, <2>6 DEF HasRead, Asking, Reading, Shape
  <2>9. /\ Unwritten \in [text : Commands \cup {None}, json : Commands \cup {None}]
        /\ \A k \in Commands :
             [text |-> k, json |-> None] \in
               [text : Commands \cup {None}, json : Commands \cup {None}]
    BY DEF Unwritten
  <2>10. /\ Unwritten # None
         /\ \A k \in Commands : [text |-> k, json |-> None] # None
    BY <2>9, GatesAssumption
  <2>11. /\ dirs'[d] = Unwritten /\ DOMAIN dirs' = Dirs
         /\ \A e \in Dirs : e # d => dirs'[e] = dirs[e]
    BY <2>1, <2>3
  <2>12. \A k \in Commands : k # c /\ command[k].pc \in Claimed => command[k].dir # d
    <3> SUFFICES ASSUME NEW k \in Commands, command[k].pc \in Claimed
                 PROVE  command[k].dir # d
      OBVIOUS
    <3>1. command[k].pc = "json" => dirs[command[k].dir] = [text |-> k, json |-> None]
      BY DEF Ownership
    <3>2. command[k].pc # "json" => dirs[command[k].dir] = Unwritten
      BY DEF Ownership, Claimed
    <3> QED
      BY <3>1, <3>2, <2>10, <1>3
  <2>13. Ownership'
    <3>1. \A k \in Commands : command'[k].pc \in Asking \cup Claimed => command'[k].dir \in Dirs
      BY <2>3, <2>4, <2>6 DEF Ownership
    <3>2. \A k \in Commands : command'[k].pc \in Reading \cup {"text"} =>
            dirs'[command'[k].dir] = Unwritten
      <4> SUFFICES ASSUME NEW k \in Commands, k # c,
                          command[k].pc \in Reading \cup {"text"}
                   PROVE  dirs'[command[k].dir] = Unwritten
        BY <2>4, <2>6, <2>11
      <4>1. command[k].dir \in Dirs /\ dirs[command[k].dir] = Unwritten
        BY DEF Ownership, Claimed
      <4> QED
        BY <4>1, <2>11, <2>12
    <3>3. \A k \in Commands : command'[k].pc = "json" =>
            dirs'[command'[k].dir] = [text |-> k, json |-> None]
      <4> SUFFICES ASSUME NEW k \in Commands, k # c, command[k].pc = "json"
                   PROVE  dirs'[command[k].dir] = [text |-> k, json |-> None]
        BY <2>4
      <4>1. command[k].dir \in Dirs /\ dirs[command[k].dir] = [text |-> k, json |-> None]
        BY DEF Ownership, Claimed
      <4>2. command[k].dir # d
        BY <2>12 DEF Claimed
      <4> QED
        BY <4>1, <4>2, <2>11
    <3>4. \A j, k \in Commands :
            /\ command'[j].pc \in Claimed /\ command'[k].pc \in Claimed
            /\ command'[j].dir = command'[k].dir
            => j = k
      BY <2>4, <2>6, <2>12 DEF Ownership
    <3>5. \A e \in Dirs : dirs'[e] # None /\ dirs'[e].json # None =>
                            dirs'[e].text = dirs'[e].json
      BY <2>11 DEF Ownership, Unwritten
    <3> HIDE DEF d
    <3> QED
      BY <3>1, <3>2, <3>3, <3>4, <3>5 DEF Ownership, Unwritten
  <2>14. Shape'
    <3>1. \A k \in Commands : HasFields(command[k])'
      <4> SUFFICES ASSUME NEW k \in Commands, k # c PROVE HasFields(command[k])'
        BY <2>7
      <4>1. command'[k] = command[k] /\ HasFields(command[k])
        BY <2>4 DEF Shape
      <4> QED
        BY <4>1 DEF HasFields
    <3>2. \A e \in Dirs : dirs'[e] \in {None} \cup
            [text : Commands \cup {None}, json : Commands \cup {None}]
      BY <2>9, <2>11 DEF Shape
    <3> QED
      BY <3>1, <3>2, <2>1, <2>4, <2>11 DEF Shape
  <2> QED
    BY <2>1, <2>4, <2>8, <2>13, <2>14, ReadingsKept
<1> QED
  BY <1>2, <1>3

\* Writing one of the two files, the text first.
LEMMA WriteStep ==
    ASSUME Shape, Ownership, Readings, NEW c \in Commands,
           \/ WriteReport(c, "text", "text", "json")
           \/ WriteReport(c, "json", "json", "done")
    PROVE  Shape' /\ Ownership' /\ Readings'
<1> USE DEF At
<1> DEFINE d == command[c].dir
           was == command[c].pc
           now == IF was = "text" THEN "json" ELSE "done"
           wrote == IF was = "text" THEN [text |-> c, json |-> None]
                    ELSE [text |-> c, json |-> c]
           files == [text : Commands \cup {None}, json : Commands \cup {None}]
<1>1. /\ was \in {"text", "json"} /\ HasFields(command[c]) /\ HasRead(command[c])
      /\ Step(c, now, <<>>) /\ UNCHANGED <<machine, server, changes>>
  BY DEF WriteReport, Shape, Readings
<1>2. /\ d \in Dirs /\ DOMAIN dirs = Dirs
      /\ was = "text" => dirs[d] = [text |-> None, json |-> None]
      /\ was = "json" => dirs[d] = [text |-> c, json |-> None]
  BY <1>1 DEF Ownership, Shape, Claimed, Unwritten
<1>3. /\ dirs'[d] = wrote /\ DOMAIN dirs' = Dirs
      /\ \A e \in Dirs : e # d => dirs'[e] = dirs[e]
  <2>1. CASE was = "text"
    <3>1. dirs' = [dirs EXCEPT ![d] = [@ EXCEPT !["text"] = c]]
      BY <2>1 DEF WriteReport
    <3>2. [[text |-> None, json |-> None] EXCEPT !["text"] = c] = [text |-> c, json |-> None]
      OBVIOUS
    <3>3. dirs[d] = [text |-> None, json |-> None] /\ wrote = [text |-> c, json |-> None]
      BY <1>2, <2>1
    <3> HIDE DEF d, was, wrote
    <3> QED
      BY <1>2, <3>1, <3>2, <3>3
  <2>2. CASE was = "json"
    <3>1. dirs' = [dirs EXCEPT ![d] = [@ EXCEPT !["json"] = c]]
      BY <2>2 DEF WriteReport
    <3>2. [[text |-> c, json |-> None] EXCEPT !["json"] = c] = [text |-> c, json |-> c]
      OBVIOUS
    <3>3. dirs[d] = [text |-> c, json |-> None] /\ wrote = [text |-> c, json |-> c]
      BY <1>2, <2>2
    <3> HIDE DEF d, was, wrote
    <3> QED
      BY <1>2, <3>1, <3>2, <3>3
  <2> HIDE DEF d, was, wrote
  <2> QED
    BY <1>1, <2>1, <2>2
<1>4. /\ DOMAIN command' = Commands
      /\ \A k \in Commands : k # c => command'[k] = command[k]
      /\ DOMAIN command'[c] = DOMAIN command[c]
      /\ command'[c].pc = now
      /\ \A x \in DOMAIN command[c] : x # "pc" => command'[c][x] = command[c][x]
  <2> DEFINE new == <<>>
  <2>1. DOMAIN new = {} /\ Step(c, now, new)
    BY <1>1
  <2> HIDE DEF new, now
  <2> QED
    BY <2>1, StepFields
<1>5. "dir" \in DOMAIN command[c] /\ "pc" \in DOMAIN command[c] /\ "overall" \in DOMAIN command[c]
  BY <1>1 DEF HasFields, Claimed
<1>6. command'[c]["dir"] = d /\ command'[c]["overall"] = command[c]["overall"]
  BY <1>4, <1>5
<1>7. command[c].overall # BLOCKED =>
        /\ {"approved", "names", "answered", "steady"} \subseteq DOMAIN command[c]
        /\ command'[c]["approved"] = command[c]["approved"]
        /\ command'[c]["names"] = command[c]["names"]
        /\ command'[c]["answered"] = command[c]["answered"]
        /\ command'[c]["steady"] = command[c]["steady"]
  <2>1. command[c].overall # BLOCKED =>
          {"approved", "names", "answered", "steady"} \subseteq DOMAIN command[c]
    BY <1>1 DEF HasFields
  <2> QED
    BY <1>4, <2>1
<1>8. HasFields(command[c])'
  BY <1>4, <1>5, <1>6, <1>7 DEF HasFields, Asking, Claimed, Reading
<1>9. HasRead(command[c])'
  <2>1. Vouched(command[c])
    BY <1>1 DEF HasRead
  <2>2. command[c].overall = PASS => command[c].overall # BLOCKED
    BY DEF PASS, BLOCKED
  <2>3. Vouched(command[c])'
    BY <2>1, <2>2, <1>6, <1>7 DEF Vouched, Matches
  <2> QED
    BY <2>3, <1>4 DEF HasRead, Asking, Reading
<1>10. wrote \in files
  OBVIOUS
<1>11. Shape'
  <2>1. \A k \in Commands : HasFields(command[k])'
    <3> SUFFICES ASSUME NEW k \in Commands, k # c PROVE HasFields(command[k])'
      BY <1>8
    <3>1. command'[k] = command[k] /\ HasFields(command[k])
      BY <1>4 DEF Shape
    <3> QED
      BY <3>1 DEF HasFields
  <2>2. \A e \in Dirs : dirs'[e] \in {None} \cup files
    <3> HIDE DEF wrote, d
    <3> QED
      BY <1>3, <1>10 DEF Shape
  <2> QED
    BY <2>1, <2>2, <1>1, <1>3, <1>4 DEF Shape
<1>12. \A k \in Commands : k # c /\ command[k].pc \in Claimed => command[k].dir # d
  BY <1>1 DEF Ownership, Claimed
<1>13. Ownership'
  <2>1. \A k \in Commands : command'[k].pc \in Asking \cup Claimed => command'[k].dir \in Dirs
    BY <1>2, <1>4, <1>6 DEF Ownership
  <2>2. \A k \in Commands : command'[k].pc \in Reading \cup {"text"} =>
          dirs'[command'[k].dir] = Unwritten
    <3> SUFFICES ASSUME NEW k \in Commands, k # c, command[k].pc \in Reading \cup {"text"}
                 PROVE  dirs'[command[k].dir] = Unwritten
      BY <1>4 DEF Reading
    <3>1. command[k].dir \in Dirs /\ dirs[command[k].dir] = Unwritten
      BY DEF Ownership, Claimed
    <3>2. command[k].dir # d
      BY <1>12 DEF Claimed
    <3> QED
      BY <3>1, <3>2, <1>3
  <2>3. \A k \in Commands : command'[k].pc = "json" =>
          dirs'[command'[k].dir] = [text |-> k, json |-> None]
    <3>1. CASE was = "text"
      <4> SUFFICES ASSUME NEW k \in Commands, k # c, command[k].pc = "json"
                   PROVE  dirs'[command[k].dir] = [text |-> k, json |-> None]
        BY <1>3, <1>4, <1>6, <3>1
      <4>1. command[k].dir \in Dirs /\ dirs[command[k].dir] = [text |-> k, json |-> None]
        BY DEF Ownership, Claimed
      <4>2. command[k].dir # d
        BY <1>12 DEF Claimed
      <4> QED
        BY <4>1, <4>2, <1>3
    <3>2. CASE was # "text"
      <4> SUFFICES ASSUME NEW k \in Commands, k # c, command[k].pc = "json"
                   PROVE  dirs'[command[k].dir] = [text |-> k, json |-> None]
        BY <1>4, <3>2
      <4>1. command[k].dir \in Dirs /\ dirs[command[k].dir] = [text |-> k, json |-> None]
        BY DEF Ownership, Claimed
      <4>2. command[k].dir # d
        BY <1>12 DEF Claimed
      <4> QED
        BY <4>1, <4>2, <1>3
    <3> QED
      BY <3>1, <3>2
  <2>4. \A j, k \in Commands :
          /\ command'[j].pc \in Claimed /\ command'[k].pc \in Claimed
          /\ command'[j].dir = command'[k].dir
          => j = k
    BY <1>4, <1>6, <1>12 DEF Ownership
  <2>5. \A e \in Dirs : dirs'[e] # None /\ dirs'[e].json # None =>
                          dirs'[e].text = dirs'[e].json
    BY <1>3 DEF Ownership
  <2> HIDE DEF d, wrote
  <2> QED
    BY <2>1, <2>2, <2>3, <2>4, <2>5 DEF Ownership, Unwritten
<1> QED
  BY <1>1, <1>4, <1>9, <1>11, <1>13, ReadingsKept

\* The machine goes on: what was read of it counts no longer.
LEMMA ChangeStep ==
    ASSUME Shape, Ownership, Readings, Change
    PROVE  Shape' /\ Ownership' /\ Readings'
<1>1. UNCHANGED <<dirs, command>> /\ changes' = changes + 1 /\ changes \in Nat
  BY DEF Change, Shape
<1>2. Shape' /\ Ownership'
  BY <1>1 DEF Shape, HasFields, Ownership, Unwritten
<1>3. \A c \in Commands : HasRead(command[c])'
  <2> SUFFICES ASSUME NEW c \in Commands PROVE HasRead(command[c])'
    OBVIOUS
  <2>1. HasRead(command[c])
    BY DEF Readings
  <2>2. command[c].pc \in Reading =>
          command[c].began \in Nat /\ command[c].began =< changes' /\ command[c].began # changes'
    BY <1>1, <2>1 DEF HasRead
  <2>3. command[c].pc = "probe" => Judged(command[c])'
    BY <1>1, <2>1, <2>2 DEF HasRead, Judged, AllPass, Reading
  <2> QED
    BY <1>1, <2>1, <2>2, <2>3 DEF HasRead, Vouched, Matches, Reading
<1> QED
  BY <1>2, <1>3 DEF Readings

LEMMA FrameStep ==
    ASSUME Shape, Ownership, Readings, UNCHANGED <<machine, server, changes, dirs, command>>
    PROVE  Shape' /\ Ownership' /\ Readings'
<1>1. Shape' /\ Ownership'
  BY DEF Shape, HasFields, Ownership, Unwritten
<1>2. Readings'
  BY DEF Readings, HasRead, SawProcess, SawProps, Judged, Vouched, Matches, AllPass
<1> QED
  BY <1>1, <1>2

LEMMA ReadinessStep ==
    ASSUME Shape, Ownership, Readings, NEW c \in Commands, Readiness(c)
    PROVE  Shape' /\ Ownership' /\ Readings'
<1>1. CASE \E arguments \in Arguments : Begin(c, arguments)
  BY <1>1, BeginStep
<1>2. CASE Claim(c)
  BY <1>2, ClaimStep
<1>3. CASE ObserveProcess(c)
  BY <1>3, ProcessStep
<1>4. CASE ObserveProps(c)
  BY <1>4, PropsStep
<1>5. CASE DigestArtifact(c)
  BY <1>5, DigestStep
<1>6. CASE Probe(c)
  BY <1>6, ProbeStep
<1>7. CASE WriteReport(c, "text", "text", "json") \/ WriteReport(c, "json", "json", "done")
  BY <1>7, WriteStep
<1>8. CASE Die(c)
  BY <1>8, EndStep DEF Die, Read
<1> QED
  BY <1>1, <1>2, <1>3, <1>4, <1>5, <1>6, <1>7, <1>8 DEF Readiness

LEMMA PreflightStep ==
    ASSUME Preflighted, [Next]_vars
    PROVE  Preflighted'
<1>1. CASE Judge
  <2> DEFINE config == preflight.config
             found == preflight.found
             governance == GovernanceChecks
             configured == ConfigurationChecks(config)
             installed == InstallationChecks(config, found)
             git == GitCheck
             left == Over(governance, configured)
             right == Over(installed, git)
             checks == Over(left, right)
  <2>1. /\ record' = record
        /\ preflight' = [pc |-> "done", config |-> config, found |-> found,
                         checks |-> checks]
    BY <1>1 DEF Judge, PreflightChecks
  <2>2. preflight'.checks = checks /\ preflight'.config = config /\ preflight'.found = found
    BY <2>1
  <2>3. /\ GovernanceChecks' = GovernanceChecks
        /\ ConfigurationChecks(preflight.config)' = configured
        /\ InstallationChecks(preflight.config, preflight.found)' = installed
    BY <2>1, <2>2 DEF GovernanceChecks, ConfigurationChecks, InstallationChecks, MatchesFrozen
  <2> HIDE DEF governance, configured, installed, git
  <2>4. /\ DOMAIN left = DOMAIN governance \cup DOMAIN configured
        /\ \A x \in DOMAIN governance : left[x] = governance[x]
        /\ \A x \in DOMAIN configured : x \notin DOMAIN governance => left[x] = configured[x]
    BY Overlaid
  <2>5. /\ DOMAIN right = DOMAIN installed \cup DOMAIN git
        /\ \A x \in DOMAIN installed : right[x] = installed[x]
    BY Overlaid
  <2> HIDE DEF left, right
  <2>6. /\ DOMAIN checks = DOMAIN left \cup DOMAIN right
        /\ \A x \in DOMAIN left : checks[x] = left[x]
        /\ \A x \in DOMAIN right : x \notin DOMAIN left => checks[x] = right[x]
    BY Overlaid
  <2>7. /\ DOMAIN governance = {"governance_freeze_complete", "experiment_structure_unchanged"}
        /\ DOMAIN configured =
             {"real_run_config_complete", "prompts_present", "schemas_present",
              "no_scripted_doubles_in_real", "no_network_dependency",
              "approved_model_and_quantisation", "approved_generation_config"}
        /\ DOMAIN installed =
             {"model_installed_available", "model_version_identifiable",
              "llama_cpp_backend_available", "llama_cpp_build_matches_frozen",
              "artifact_sha256_recorded"}
    BY DEF governance, configured, installed, GovernanceChecks, ConfigurationChecks,
           InstallationChecks
  <2> HIDE DEF checks
  <2>8. AllPass(checks) => AllPass(governance) /\ AllPass(configured) /\ AllPass(installed)
    <3> SUFFICES ASSUME \A x \in DOMAIN checks : checks[x] = PASS
                 PROVE  /\ \A x \in DOMAIN governance : governance[x] = PASS
                        /\ \A x \in DOMAIN configured : configured[x] = PASS
                        /\ \A x \in DOMAIN installed : installed[x] = PASS
      BY DEF AllPass
    <3>1. /\ \A x \in DOMAIN left : left[x] = PASS
          /\ \A x \in DOMAIN right : x \notin DOMAIN left => right[x] = PASS
      BY <2>6
    <3>2. \A x \in DOMAIN governance : governance[x] = PASS
      BY <3>1, <2>4
    <3>3. \A x \in DOMAIN configured : x \notin DOMAIN governance
      BY <2>7
    <3>4. \A x \in DOMAIN configured : configured[x] = PASS
      BY <3>1, <3>3, <2>4
    <3>5. \A x \in DOMAIN installed : x \notin DOMAIN left
      BY <2>4, <2>7
    <3>6. \A x \in DOMAIN installed : installed[x] = PASS
      BY <3>1, <3>5, <2>5
    <3> QED
      BY <3>2, <3>4, <3>6
  <2>9. Preflighted' <=>
          (preflight'.pc = "done" /\ AllPass(checks) =>
             AllPass(governance) /\ AllPass(configured) /\ AllPass(installed))
    BY <2>2, <2>3 DEF Preflighted, governance, AllPass
  <2> QED
    BY <2>8, <2>9
<1>2. CASE Detect
  BY <1>2 DEF Detect, Preflighted
<1>3. CASE UNCHANGED <<record, preflight>>
  <2>1. /\ GovernanceChecks' = GovernanceChecks
        /\ ConfigurationChecks(preflight.config)' = ConfigurationChecks(preflight.config)
        /\ InstallationChecks(preflight.config, preflight.found)'
           = InstallationChecks(preflight.config, preflight.found)
    BY <1>3 DEF GovernanceChecks, ConfigurationChecks, InstallationChecks, MatchesFrozen
  <2> QED
    BY <1>3, <2>1 DEF Preflighted, AllPass
<1>4. Judge \/ Detect \/ UNCHANGED <<record, preflight>>
  BY DEF Next, vars, Change, Readiness, Begin, Claim, ObserveProcess, ObserveProps,
         DigestArtifact, Probe, WriteReport, Die, Read
<1> QED
  BY <1>1, <1>2, <1>3, <1>4
----------------------------------------------------------------------------
(* The theorems.                                                           *)

(* The inductive invariant: commands have the fields their place calls for, *)
(* a claimed directory has one owner and holds what that owner wrote so     *)
(* far, what a command read agrees with the machine it began on, and a      *)
(* preflight that passed its checks passed those of each kind.              *)

THEOREM GatesInductive == Spec => []GatesInv
<1>1. Init => GatesInv
  BY DEF Init, Idle, GatesInv, Shape, HasFields, Ownership, Readings, HasRead, Preflighted,
         Asking, Claimed, Reading
<1>2. GatesInv /\ [Next]_vars => GatesInv'
  <2> SUFFICES ASSUME GatesInv, [Next]_vars PROVE GatesInv'
    OBVIOUS
  <2>1. Preflighted'
    BY PreflightStep DEF GatesInv
  <2>2. Shape /\ Ownership /\ Readings
    BY DEF GatesInv
  <2>3. CASE Change
    BY <2>1, <2>2, <2>3, ChangeStep DEF GatesInv
  <2>4. CASE Detect \/ Judge \/ UNCHANGED vars
    BY <2>1, <2>2, <2>4, FrameStep DEF GatesInv, Detect, Judge, vars
  <2>5. CASE \E c \in Commands : Readiness(c)
    BY <2>1, <2>2, <2>5, ReadinessStep DEF GatesInv
  <2> QED
    BY <2>3, <2>4, <2>5 DEF Next
<1> QED
  BY <1>1, <1>2, PTL DEF Spec

LEMMA OneMore ==
    ASSUME NEW S, NEW x, NEW n, NEW m, n \in Nat /\ m = n + 1, x \notin S,
           IsFiniteSet(S) /\ Cardinality(S) = n
    PROVE  IsFiniteSet(S \cup {x}) /\ Cardinality(S \cup {x}) = m
  BY FS_AddElement

LEMMA TwelveNames == Cardinality(IdentityNames \cup ProbeNames) = 12
<1> DEFINE n1 == {"launch_command_recorded"}
           n2 == n1 \cup {"launch_flags_without_reasoning_format_none"}
           n3 == n2 \cup {"launched_with_approved_artifact"}
           n4 == n3 \cup {"loaded_artifact_is_approved"}
           n5 == n4 \cup {"artifact_digest_verified"}
           n6 == n5 \cup {"runtime_build_matches"}
           n7 == n6 \cup {"chat_template_unchanged"}
           n8 == n7 \cup {"server_reachable"}
           n9 == n8 \cup {"generation_completed"}
           n10 == n9 \cup {"no_thinking_scaffold_in_content"}
           n11 == n10 \cup {"reasoning_content_invariant"}
           n12 == n11 \cup {"strict_json_boundary_viable"}
<1>1. IdentityNames \cup ProbeNames = n12
  BY DEF IdentityNames, ProbeNames
<1> HIDE DEF n1, n2, n3, n4, n5, n6, n7, n8, n9, n10, n11, n12
<1>2. IsFiniteSet(n1) /\ Cardinality(n1) = 1
  BY FS_Singleton DEF n1
<1>3. IsFiniteSet(n2) /\ Cardinality(n2) = 2
  <2>1. "launch_flags_without_reasoning_format_none" \notin n1
    BY DEF n1
  <2>2. 1 \in Nat /\ 2 = 1 + 1
    OBVIOUS
  <2> QED
    BY <2>1, <2>2, <1>2, OneMore DEF n2
<1>4. IsFiniteSet(n3) /\ Cardinality(n3) = 3
  <2>1. "launched_with_approved_artifact" \notin n2
    BY DEF n1, n2
  <2>2. 2 \in Nat /\ 3 = 2 + 1
    OBVIOUS
  <2> QED
    BY <2>1, <2>2, <1>3, OneMore DEF n3
<1>5. IsFiniteSet(n4) /\ Cardinality(n4) = 4
  <2>1. "loaded_artifact_is_approved" \notin n3
    BY DEF n1, n2, n3
  <2>2. 3 \in Nat /\ 4 = 3 + 1
    OBVIOUS
  <2> QED
    BY <2>1, <2>2, <1>4, OneMore DEF n4
<1>6. IsFiniteSet(n5) /\ Cardinality(n5) = 5
  <2>1. "artifact_digest_verified" \notin n4
    BY DEF n1, n2, n3, n4
  <2>2. 4 \in Nat /\ 5 = 4 + 1
    OBVIOUS
  <2> QED
    BY <2>1, <2>2, <1>5, OneMore DEF n5
<1>7. IsFiniteSet(n6) /\ Cardinality(n6) = 6
  <2>1. "runtime_build_matches" \notin n5
    BY DEF n1, n2, n3, n4, n5
  <2>2. 5 \in Nat /\ 6 = 5 + 1
    OBVIOUS
  <2> QED
    BY <2>1, <2>2, <1>6, OneMore DEF n6
<1>8. IsFiniteSet(n7) /\ Cardinality(n7) = 7
  <2>1. "chat_template_unchanged" \notin n6
    BY DEF n1, n2, n3, n4, n5, n6
  <2>2. 6 \in Nat /\ 7 = 6 + 1
    OBVIOUS
  <2> QED
    BY <2>1, <2>2, <1>7, OneMore DEF n7
<1>9. IsFiniteSet(n8) /\ Cardinality(n8) = 8
  <2>1. "server_reachable" \notin n7
    BY DEF n1, n2, n3, n4, n5, n6, n7
  <2>2. 7 \in Nat /\ 8 = 7 + 1
    OBVIOUS
  <2> QED
    BY <2>1, <2>2, <1>8, OneMore DEF n8
<1>10. IsFiniteSet(n9) /\ Cardinality(n9) = 9
  <2>1. "generation_completed" \notin n8
    BY DEF n1, n2, n3, n4, n5, n6, n7, n8
  <2>2. 8 \in Nat /\ 9 = 8 + 1
    OBVIOUS
  <2> QED
    BY <2>1, <2>2, <1>9, OneMore DEF n9
<1>11. IsFiniteSet(n10) /\ Cardinality(n10) = 10
  <2>1. "no_thinking_scaffold_in_content" \notin n9
    BY DEF n1, n2, n3, n4, n5, n6, n7, n8, n9
  <2>2. 9 \in Nat /\ 10 = 9 + 1
    OBVIOUS
  <2> QED
    BY <2>1, <2>2, <1>10, OneMore DEF n10
<1>12. IsFiniteSet(n11) /\ Cardinality(n11) = 11
  <2>1. "reasoning_content_invariant" \notin n10
    BY DEF n1, n2, n3, n4, n5, n6, n7, n8, n9, n10
  <2>2. 10 \in Nat /\ 11 = 10 + 1
    OBVIOUS
  <2> QED
    BY <2>1, <2>2, <1>11, OneMore DEF n11
<1>13. IsFiniteSet(n12) /\ Cardinality(n12) = 12
  <2>1. "strict_json_boundary_viable" \notin n11
    BY DEF n1, n2, n3, n4, n5, n6, n7, n8, n9, n10, n11
  <2>2. 11 \in Nat /\ 12 = 11 + 1
    OBVIOUS
  <2> QED
    BY <2>1, <2>2, <1>12, OneMore DEF n12
<1> QED
  BY <1>1, <1>13

(* A readiness PASS, over a machine that stood still from the claim to the  *)
(* probe, vouches for the server that answered: approved artifact, build    *)
(* and template, launched plain, on all twelve checks; for any servers,     *)
(* freeze records and commands running at once.                             *)

THEOREM ReadinessAlwaysVouches == Spec => []ReadinessVouches
<1>1. GatesInv => ReadinessVouches
  <2> SUFFICES ASSUME GatesInv, NEW c \in Commands, At(c, "done"),
                      command[c].overall = PASS, command[c].steady
               PROVE  LET s == command[c].answered
                          approved == command[c].approved
                      IN  /\ Cardinality(command[c].names) = 12
                          /\ s.path = approved.path /\ s.plain /\ s.build = approved.build
                          /\ approved.template # None /\ s.template = approved.template
                          /\ s.loaded = approved.digest
    BY DEF ReadinessVouches
  <2>1. Vouched(command[c])
    BY DEF GatesInv, Readings, HasRead, At
  <2> QED
    BY <2>1, TwelveNames DEF Vouched, Matches
<1> QED
  BY <1>1, GatesInductive, PTL

(* Readiness evidence stands: however many commands run and die, a file of  *)
(* a claimed directory is written once and both come from its claimant.     *)

THEOREM EvidenceAlwaysStands == Spec => EvidenceStands
<1> DEFINE Stands ==
      \A d \in Dirs : dirs[d] # None =>
        /\ dirs'[d] # None
        /\ \A file \in {"text", "json"} :
             dirs[d][file] # None => dirs'[d][file] = dirs[d][file]
        /\ None \notin {dirs'[d].text, dirs'[d].json} => dirs'[d].text = dirs'[d].json
<1>1. GatesInv /\ GatesInv' /\ [Next]_vars => Stands
  <2> SUFFICES ASSUME GatesInv, GatesInv', [Next]_vars, NEW d \in Dirs, dirs[d] # None
               PROVE  /\ dirs'[d] # None
                      /\ \A file \in {"text", "json"} :
                           dirs[d][file] # None => dirs'[d][file] = dirs[d][file]
                      /\ dirs'[d].json # None => dirs'[d].text = dirs'[d].json
    OBVIOUS
  <2> DEFINE files == [text : Commands \cup {None}, json : Commands \cup {None}]
  <2>1. dirs'[d] # None /\ dirs'[d].json # None => dirs'[d].text = dirs'[d].json
    BY DEF GatesInv, Ownership
  <2>2. dirs[d] \in files /\ DOMAIN dirs = Dirs
    BY DEF GatesInv, Shape
  <2>3. CASE UNCHANGED dirs
    BY <2>1, <2>3
  <2>4. ASSUME NEW c \in Commands, Claim(c), ~UNCHANGED dirs
        PROVE  dirs'[d] = dirs[d]
    BY <2>2, <2>4 DEF Claim
  <2>5. ASSUME NEW c \in Commands, WriteReport(c, "text", "text", "json")
        PROVE  /\ dirs'[d] \in files
               /\ \A file \in {"text", "json"} :
                    dirs[d][file] # None => dirs'[d][file] = dirs[d][file]
    <3> DEFINE e == command[c].dir
    <3>1. e \in Dirs /\ dirs[e] = [text |-> None, json |-> None]
      BY <2>5 DEF WriteReport, At, GatesInv, Ownership, Claimed, Unwritten
    <3>2. dirs' = [dirs EXCEPT ![e] = [@ EXCEPT !["text"] = c]]
      BY <2>5 DEF WriteReport
    <3>3. [[text |-> None, json |-> None] EXCEPT !["text"] = c] = [text |-> c, json |-> None]
      OBVIOUS
    <3> HIDE DEF e
    <3>4. dirs'[d] = IF d = e THEN [text |-> c, json |-> None] ELSE dirs[d]
      BY <2>2, <3>1, <3>2, <3>3
    <3>5. [text |-> c, json |-> None] \in files
      OBVIOUS
    <3> QED
      BY <2>2, <3>1, <3>4, <3>5
  <2>6. ASSUME NEW c \in Commands, WriteReport(c, "json", "json", "done")
        PROVE  /\ dirs'[d] \in files
               /\ \A file \in {"text", "json"} :
                    dirs[d][file] # None => dirs'[d][file] = dirs[d][file]
    <3> DEFINE e == command[c].dir
    <3>1. e \in Dirs /\ dirs[e] = [text |-> c, json |-> None]
      BY <2>6 DEF WriteReport, At, GatesInv, Ownership, Claimed, Unwritten
    <3>2. dirs' = [dirs EXCEPT ![e] = [@ EXCEPT !["json"] = c]]
      BY <2>6 DEF WriteReport
    <3>3. [[text |-> c, json |-> None] EXCEPT !["json"] = c] = [text |-> c, json |-> c]
      OBVIOUS
    <3> HIDE DEF e
    <3>4. dirs'[d] = IF d = e THEN [text |-> c, json |-> c] ELSE dirs[d]
      BY <2>2, <3>1, <3>2, <3>3
    <3>5. [text |-> c, json |-> c] \in files
      OBVIOUS
    <3> QED
      BY <2>2, <3>1, <3>4, <3>5
  <2>7. None \notin files
    BY GatesAssumption
  <2>8. \/ UNCHANGED dirs
        \/ \E c \in Commands : \/ Claim(c) \/ WriteReport(c, "text", "text", "json")
                               \/ WriteReport(c, "json", "json", "done")
    BY DEF Next, vars, Change, Detect, Judge, Readiness, Begin, ObserveProcess,
           ObserveProps, DigestArtifact, Probe, Die, Read
  <2> HIDE DEF files
  <2> QED
    BY <2>1, <2>3, <2>4, <2>5, <2>6, <2>7, <2>8
<1> QED
  BY <1>1, GatesInductive, PTL DEF Spec, EvidenceStands

(* A preflight PASS vouches for the run: with real components over the      *)
(* configuration it judged, the guard accepts it as REAL and refuses it as  *)
(* GOLDEN, nothing blocks in the freeze record, and what was found is what  *)
(* the record froze; for any record, configuration and installation.        *)

THEOREM PreflightAlwaysVouches == Spec => []PreflightVouches
<1>1. GatesInv => PreflightVouches
  <2> SUFFICES ASSUME GatesInv, preflight.pc = "done", Overall(preflight.checks) = PASS
               PROVE  LET config == preflight.config
                          resolvers == {None} \cup
                                       IF "identity_resolution" \in DOMAIN config.specs
                                       THEN {"real"} ELSE {}
                      IN  /\ \A resolver \in resolvers :
                               LET run == [Representative(config) EXCEPT !.resolver = resolver]
                               IN  /\ ValidRunConfiguration("real", run)
                                   /\ ~ValidRunConfiguration("golden", run)
                          /\ BlockingItems(record) = {}
                          /\ preflight.found.digest = record["artifact_sha256"].value
                          /\ preflight.found.build = record["llama_cpp_build"].value
                          /\ {preflight.found.digest, preflight.found.build} \cap {None} = {}
    BY DEF PreflightVouches
  <2> DEFINE config == preflight.config
             found == preflight.found
  <2>1. /\ AllPass(GovernanceChecks) /\ AllPass(ConfigurationChecks(config))
        /\ AllPass(InstallationChecks(config, found))
    BY DEF GatesInv, Preflighted, Overall, AllPass, Check, PASS, BLOCKED
  <2>2. BlockingItems(record) = {}
    <3>1. GovernanceChecks["governance_freeze_complete"] = PASS
      BY <2>1 DEF AllPass, GovernanceChecks
    <3>2. Check(IsRealRunPermitted(record)) = PASS
      BY <3>1 DEF GovernanceChecks
    <3> QED
      BY <3>2 DEF Check, PASS, BLOCKED, IsRealRunPermitted
  <2>3. ValidRunConfiguration("real", Representative(config))
    <3>1. ConfigurationChecks(config)["no_scripted_doubles_in_real"] = PASS
      BY <2>1 DEF AllPass, ConfigurationChecks
    <3>2. Check(ValidRunConfiguration("real", Representative(config))) = PASS
      BY <3>1 DEF ConfigurationChecks
    <3> QED
      BY <3>2 DEF Check, PASS, BLOCKED
  <2>4. /\ MatchesFrozen(found.build, "llama_cpp_build")
        /\ MatchesFrozen(found.digest, "artifact_sha256")
    <3>1. /\ InstallationChecks(config, found)["llama_cpp_build_matches_frozen"] = PASS
          /\ InstallationChecks(config, found)["artifact_sha256_recorded"] = PASS
      BY <2>1 DEF AllPass, InstallationChecks
    <3>2. /\ Check(MatchesFrozen(found.build, "llama_cpp_build")) = PASS
          /\ Check(MatchesFrozen(found.digest, "artifact_sha256")) = PASS
      BY <3>1 DEF InstallationChecks
    <3> QED
      BY <3>2 DEF Check, PASS, BLOCKED
  <2>5. /\ found.digest = record["artifact_sha256"].value
        /\ found.build = record["llama_cpp_build"].value
        /\ found.digest # None /\ found.build # None
    BY <2>4 DEF MatchesFrozen, FrozenValue
  <2>6. ASSUME NEW resolver,
               \/ resolver = None
               \/ resolver = "real" /\ "identity_resolution" \in DOMAIN config.specs
        PROVE  LET run == [Representative(config) EXCEPT !.resolver = resolver]
               IN  /\ ValidRunConfiguration("real", run)
                   /\ ~ValidRunConfiguration("golden", run)
    <3> DEFINE rep == Representative(config)
               run == [rep EXCEPT !.resolver = resolver]
    <3>1. /\ rep["extractor"] = "real" /\ rep["stateless"] = "real"
          /\ rep["transcript"] = "real" /\ rep["appraiser"] = "real"
          /\ rep.appraiser = "real" /\ rep["resolver"] = None /\ rep.resolver = None
          /\ rep.config = config /\ rep.roster = config.participants
      BY DEF Representative
    <3>2. /\ run["extractor"] = "real" /\ run["stateless"] = "real"
          /\ run["transcript"] = "real" /\ run["appraiser"] = "real"
          /\ run.appraiser = "real" /\ run["resolver"] = resolver /\ run.resolver = resolver
          /\ run.config = config /\ run.roster = config.participants
      BY DEF Representative
    <3> HIDE DEF rep, run, config
    <3>3. RealProblems(rep) = {}
      BY <2>3 DEF ValidRunConfiguration, rep
    <3>4. /\ None # "scripted" /\ None # "real" /\ config # None /\ Incomplete(config) = {}
          /\ ~RosterProblem(rep)
      BY <3>1, <3>3 DEF RealProblems
    <3>5. ~RosterProblem(run)
      BY <3>1, <3>2, <3>4 DEF RosterProblem
    <3>6. RealProblems(run) = {}
      BY <2>6, <3>2, <3>4, <3>5 DEF RealProblems
    <3>7. "extractor" \in GoldenProblems(run)
      BY <3>2 DEF GoldenProblems
    <3> QED
      BY <3>6, <3>7 DEF ValidRunConfiguration, run, rep
  <2> QED
    BY <2>2, <2>5, <2>6
<1> QED
  BY <1>1, GatesInductive, PTL
=============================================================================
