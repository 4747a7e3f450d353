---------------------------- MODULE SafetyGuard ----------------------------
(***************************************************************************)
(* safety/guard.py: the dictionary from confirmation tokens to the one     *)
(* action each authorizes, and the three calls that read or change it.     *)
(* The module is a component: AgentLoop instantiates it, GuardCalls puts   *)
(* it behind an arbitrary caller.                                          *)
(***************************************************************************)
EXTENDS Policies

CONSTANTS
  Token,      \* the confirmation tokens that can be granted
  NoToken,    \* the empty token, or None
  NoAction    \* the empty action; also: no entry in the dictionary

ASSUME TokenAssumption == NoToken \notin Token
ASSUME ActionAssumption == NoAction \notin ACTION_ALLOWLIST

VARIABLE tokens   \* self._tokens: what each token is good for

TokensType(Action) == tokens \in [Token -> Action \cup {NoAction}]

GuardInit == tokens = [t \in Token |-> NoAction]

Pending(t) == t \in Token /\ tokens[t] # NoAction

-----------------------------------------------------------------------------
\* grant_confirmation: any action may be bound; granting again rebinds.
Grantable(t, action) == t \in Token /\ action # NoAction

GrantConfirmation(t, action) ==
  /\ Grantable(t, action)
  /\ tokens' = [tokens EXCEPT ![t] = action]

\* validate_action_only: the allowlist alone, nothing is consumed.
ActionAllowed(action) == action \in ACTION_ALLOWLIST

\* The token authorizes the action: granted, not used, bound to it.
Authorizes(t, action) == Pending(t) /\ tokens[t] = action

\* validate returns (TRUE) or raises GuardError (FALSE).
Validates(t, action) ==
  /\ ActionAllowed(action)
  /\ action \in REQUIRES_CONFIRMATION => Authorizes(t, action)

\* Mutants of Consume: it deletes nothing; it deletes before it compares the
\* bound action; it stores None instead of deleting.
Consume_Keeps(t, action) == tokens
Consume_OnMismatch(t, action) ==
  IF t \in Token THEN [tokens EXCEPT ![t] = NoAction] ELSE tokens
Consume_StoresNone(t, action) ==
  IF Validates(t, action) /\ action \in REQUIRES_CONFIRMATION
  THEN [tokens EXCEPT ![t] = NoToken]
  ELSE tokens

\* The dictionary after validate: only a clean match deletes an entry.
Consume(t, action) ==
  IF Validates(t, action) /\ action \in REQUIRES_CONFIRMATION
  THEN [tokens EXCEPT ![t] = NoAction]
  ELSE tokens

Validate(t, action) == tokens' = Consume(t, action)

=============================================================================
