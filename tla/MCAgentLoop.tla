---------------------------- MODULE MCAgentLoop ----------------------------
(***************************************************************************)
(* Small instances of AgentLoop.  Two argument values, one of them         *)
(* elevated; plans of one and two steps that between them need approval    *)
(* or not, take a snapshot or not, are verified by each layer, and name    *)
(* an action no tool is registered for.                                    *)
(***************************************************************************)
EXTENDS AgentLoop

CONSTANTS plain, sudo

S(action, args, expected) ==
  [action |-> action, args |-> args, expected_state |-> expected]

MCArgs == {plain, sudo}
MCElevated == {sudo}
MCUntimed == {sudo}

\* A shell command, then a read-only look.
ShellThenLook == <<S("shell.run", plain, "concrete"),
                   S("system.info", plain, "weak")>>
\* Verified by observation or, failing that, by the LLM.
Kill == <<S("process.kill", plain, "concrete")>>
\* Verified by the LLM alone.
Restart == <<S("ubuntu.systemd.restart", plain, "concrete")>>
\* A write without confirmation, then an action without a tool.
WriteThenOpen == <<S("file.write", plain, "concrete"),
                   S("app.open", plain, "weak")>>

MCPlans == {ShellThenLook, Kill, Restart, WriteThenOpen}
RestartPlans == {Restart}

OrderlyReplies == {"unreachable", "not_json", "bad_shape", "valid"}
=============================================================================
