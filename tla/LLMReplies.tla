----------------------------- MODULE LLMReplies -----------------------------
(***************************************************************************)
(* What the agent makes of an LLM's answer.  An answer is abstracted to    *)
(* the first thing the parsing code tells apart:                           *)
(*   unreachable  the backend call raised                                  *)
(*   null         the message content is null or another value that is    *)
(*                neither text nor list (the HTTP backend passes it on     *)
(*                unchecked), or JSON that json.loads itself gives up on   *)
(*                (nested too deep, a number of too many digits)           *)
(*   parts        the content is a list, as some servers send it           *)
(*   not_json     the content is no JSON                                   *)
(*   not_object   JSON, but no object                                      *)
(*   bad_shape    an object with a missing, unknown or ill-typed field     *)
(*   unhashable   an object whose enum field holds a list or an object     *)
(*   valid        what the prompt asked for                                *)
(***************************************************************************)

AllReplies == {"unreachable", "null", "parts", "not_json", "not_object",
               "bad_shape", "unhashable", "valid"}

\* planner._call_and_parse: json.loads of no text is a TypeError, only
\* JSONDecodeError is caught; risk_level not in {...} hashes the value.
PlannerOutcome(reply) ==
  CASE reply = "valid"                          -> "plan"
    [] reply \in {"null", "parts", "unhashable"} -> "raises"
    [] OTHER                                    -> "PlanError"

FIX_STRATEGIES == {"fix_input", "replan", "retry", "abort"}

\* Diagnoser.diagnose: the handler of a TypeError slices the content that
\* caused it, so null leaves the method (a list can be sliced); unknown
\* strategies become abort, other bad fields are repaired and the strategy kept.
DiagnoserOutcomes(reply) ==
  CASE reply \in {"valid", "bad_shape"} -> FIX_STRATEGIES
    [] reply \in {"null", "unhashable"} -> {"raises"}
    [] OTHER                           -> {"abort"}

\* Repairer._fix_input: new args for the same action, or abort.
RepairerOutcome(reply) ==
  CASE reply = "valid" -> "fix_input"
    [] reply = "null"  -> "raises"
    [] OTHER           -> "abort"

\* SemanticVerifier.verify: truthiness of whatever "success" holds.
SemanticOutcomes(reply) ==
  CASE reply \in {"valid", "bad_shape", "unhashable"} -> {"pass", "fail"}
    [] reply = "null"                                -> {"raises"}
    [] OTHER                                         -> {"fail"}

=============================================================================
