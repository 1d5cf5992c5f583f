------------------------------- MODULE MCGates -------------------------------
(* Instances of RunGates for TLC.                                            *)
EXTENDS RunGates, TLC

CONSTANTS c1, c2, qwen, other

MCCommands == {c1, c2}
Alike == Permutations(MCCommands)
MCPaths == {"p", "q"}
MCContents == {qwen, other}

\* The approved server, and one that is wrong in each respect.
Good == [path |-> "p", plain |-> TRUE, build |-> 1, template |-> 1]
MCServers == {Good, [Good EXCEPT !.path = "q"], [Good EXCEPT !.plain = FALSE],
              [Good EXCEPT !.build = 2], [Good EXCEPT !.template = 2]}

Installed == [files |-> [p |-> qwen, q |-> None], runtimes |-> {"llama-server"},
              installed |-> 1, env |-> "p", git |-> "clean"]
MCMachines ==
    {[Installed EXCEPT !.runtimes = {"ollama"}, !.git = "failed"],
     [Installed EXCEPT !.files["q"] = other], [Installed EXCEPT !.env = None]}

Full == FreezeRecord("v1", qwen, 1, 1)
MCRecords == {Full, [Full EXCEPT !.chat_template_sha256 = Pending(FALSE)],
              [Full EXCEPT !.artifact_sha256 = Pending(FALSE)]}

Cast == QwenRealRunConfig("v1", {"ann", "bob"})
Resolving == [Cast EXCEPT !.specs = @ @@ ("identity_resolution" :> QwenSpec("v1"))]
MCConfigs == {Cast, Resolving, [Resolving EXCEPT !.specs["identity_resolution"].prompt_id = ""],
              [Cast EXCEPT !.specs["stateless_baseline"].provider = "cloud"],
              [Cast EXCEPT !.specs["evidence_appraisal"].settings.temperature = 1]}

Call(dir, path, template) == [dir |-> dir, path |-> path, template |-> template]
MCArguments == {Call("d", "p", None), Call("d", "q", None), Call("e", "p", 2)}
=============================================================================
