------------------------------ MODULE Verifier ------------------------------
(***************************************************************************)
(* The three verification layers, cheapest first, as the set of verdicts   *)
(* they can reach on one tool result.  A result is "failed" (success is    *)
(* FALSE; shell.run and systemctl report a non-zero exit so), "simulated"  *)
(* (a dry run) or "ok".                                                    *)
(***************************************************************************)
EXTENDS LLMReplies

ToolResults == {"ok", "failed", "simulated"}
Verdict == {"pass", "fail", "raises"}

\* Actions on whose success the hard layer is content with the tool's word.
HardRule == {"shell.run", "system.info", "process.list", "file.read",
             "file.write", "file.delete"}

\* HardVerifier.verify; "defer" is None.
Hard(action, result) ==
  IF result = "simulated" THEN "pass"
  ELSE IF result = "failed" THEN "fail"
  ELSE IF action \in HardRule THEN "pass"
  ELSE "defer"

\* ObservationVerifier.verify: what re-reading the system may show.
Observation(action) ==
  CASE action \in {"file.write", "file.delete"} -> {"pass", "fail"}
    [] action = "process.kill" -> {"pass", "fail", "defer"}
    [] OTHER -> {"defer"}

Semantic(replies) == UNION {SemanticOutcomes(reply) : reply \in replies}

\* Verifier.verify with all three layers, as build_agent wires it.
Verdicts(action, result, replies) ==
  IF Hard(action, result) # "defer"
  THEN {Hard(action, result)}
  ELSE (Observation(action) \ {"defer"}) \cup
       (IF "defer" \in Observation(action) THEN Semantic(replies) ELSE {})

=============================================================================
