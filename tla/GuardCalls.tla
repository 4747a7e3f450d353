----------------------------- MODULE GuardCalls -----------------------------
(***************************************************************************)
(* SafetyGuard behind an arbitrary caller: any sequence of grants and      *)
(* validations, with empty tokens, empty actions and actions outside the   *)
(* allowlist among them, and tokens granted again before or after use.     *)
(* What one approval can buy is counted in history variables.              *)
(***************************************************************************)
EXTENDS SafetyGuard, Naturals

CONSTANTS
  Unlisted,   \* actions a caller may name that no policy knows
  MaxCalls    \* bound on the calls of one behaviour

ASSUME UnlistedAssumption ==
  Unlisted \cap (ACTION_ALLOWLIST \cup {NoAction}) = {}
ASSUME MaxCallsAssumption == MaxCalls \in Nat

VARIABLES
  grants,     \* how often each token was granted for each action
  passes,     \* how often validate let each confirmed action through, by token
  calls       \* calls made so far

vars == <<tokens, grants, passes, calls>>

Actions == ACTION_ALLOWLIST \cup Unlisted
Tally == [Token -> [Actions -> Nat]]

Init ==
  /\ GuardInit
  /\ grants = [t \in Token |-> [action \in Actions |-> 0]]
  /\ passes = [t \in Token |-> [action \in Actions |-> 0]]
  /\ calls = 0

Called == calls < MaxCalls /\ calls' = calls + 1

Grant(t, action) ==
  /\ Called
  /\ GrantConfirmation(t, action)
  /\ grants' = [grants EXCEPT ![t][action] = @ + 1]
  /\ UNCHANGED passes

\* The empty token or the empty action: GuardError, nothing recorded.
RefuseGrant(t, action) ==
  /\ Called
  /\ ~Grantable(t, action)
  /\ UNCHANGED <<tokens, grants, passes>>

\* validate; a pass of a confirmed action is charged to its token.
Check(t, action) ==
  /\ Called
  /\ Validate(t, action)
  /\ passes' = IF Validates(t, action) /\ action \in REQUIRES_CONFIRMATION
               THEN [passes EXCEPT ![t][action] = @ + 1]
               ELSE passes
  /\ UNCHANGED grants

CheckActionOnly(action) ==
  /\ Called
  /\ ActionAllowed(action)
  /\ UNCHANGED <<tokens, grants, passes>>

Next ==
  \E t \in Token \cup {NoToken}, action \in Actions \cup {NoAction}:
    \/ Grant(t, action)
    \/ RefuseGrant(t, action)
    \/ Check(t, action)
    \/ CheckActionOnly(action)

Spec == Init /\ [][Next]_vars

-----------------------------------------------------------------------------
\* The dictionary maps tokens to actions and the tallies count.
TypeOK ==
  /\ TokensType(Actions)
  /\ grants \in Tally
  /\ passes \in Tally
  /\ calls \in Nat

\* What a token was granted for and has not yet bought.
Outstanding(t, action) == IF tokens[t] = action THEN 1 ELSE 0

\* SINGLE-USE, action-bound (guard.py:3-6): however grants, re-grants and
\* validations are mixed, a token lets an action through at most as often as
\* it was granted for that very action, a grant still pending included.
SingleUse ==
  \A t \in Token, action \in Actions:
    passes[t][action] + Outstanding(t, action) <= grants[t][action]

\* "Do NOT consume the token on action mismatch" (guard.py:79-83): an approval
\* leaves the dictionary only when the very action it was granted for passed.
ApprovalNotBurned ==
  [][\A t \in Token:
       Pending(t) /\ tokens'[t] = NoAction
         => passes'[t][tokens[t]] = passes[t][tokens[t]] + 1]_vars

=============================================================================
