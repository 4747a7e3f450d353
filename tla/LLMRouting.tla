----------------------------- MODULE LLMRouting -----------------------------
(***************************************************************************)
(* Which backend answers for which role.  The router is built once, from   *)
(* the configuration; it neither falls back to the other backend when one  *)
(* is down, nor counts a role's failures.  The backends are free to differ *)
(* in what they send: a small local model answers worse than a cloud one.  *)
(***************************************************************************)
EXTENDS LLMReplies

CONSTANTS
  LocalEnabled,  \* MyBotConfig.local_configured()
  CloudReplies,  \* the kinds of answers each backend may send
  LocalReplies

ASSUME RoutingAssumption ==
  /\ LocalEnabled \in BOOLEAN
  /\ CloudReplies \subseteq AllReplies
  /\ LocalReplies \subseteq AllReplies

LLMRole == {"planner", "verifier", "input_repair", "diagnoser", "critic"}

\* RouterConfig.all_one and RouterConfig.default.
AllOne == [role \in LLMRole |-> "cloud"]
Hybrid ==
  [role \in LLMRole |->
     IF role \in {"verifier", "input_repair"} THEN "local" ELSE "cloud"]

\* build_llm_router: every backend a role is mapped to is also registered, so
\* that backend_for always finds one.
RoleMap == IF LocalEnabled THEN Hybrid ELSE AllOne

\* What LLMRouter.complete may hand to the caller of a role.
RepliesTo(role) ==
  IF RoleMap[role] = "local" THEN LocalReplies ELSE CloudReplies

=============================================================================
