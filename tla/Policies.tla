------------------------------ MODULE Policies ------------------------------
(***************************************************************************)
(* The static policy of the agent: which actions a step may name, which of *)
(* them need the user's word first, and which tools main.build_tool_router *)
(* really registers.  Everything else in the project reads these sets.     *)
(***************************************************************************)

ACTION_ALLOWLIST ==
  {"shell.run", "file.read", "file.write", "file.delete", "process.list",
   "process.kill", "system.info", "app.open", "browser.open",
   "ubuntu.systemd.failed_units", "ubuntu.systemd.status",
   "ubuntu.systemd.restart"}

REQUIRES_CONFIRMATION ==
  {"shell.run", "file.delete", "process.kill", "ubuntu.systemd.restart"}

\* app.open and browser.open are allowlisted but have no tool.
RegisteredTools == ACTION_ALLOWLIST \ {"app.open", "browser.open"}

\* Tools declared is_read_only, file by file (shell.run is not): a dry run lets
\* them run for real.
SystemReadOnly == {"system.info"}
ProcessReadOnly == {"process.list"}
FileReadOnly == {"file.read"}
SystemdReadOnly == {"ubuntu.systemd.failed_units", "ubuntu.systemd.status"}

ReadOnlyTools ==
  SystemReadOnly \cup ProcessReadOnly \cup FileReadOnly \cup SystemdReadOnly

\* ToolRouter.get finds a tool: allowlisted, then registered.
Routable(action) == action \in ACTION_ALLOWLIST /\ action \in RegisteredTools

=============================================================================
