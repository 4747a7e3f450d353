------------------------- MODULE SafetyGuardProofs -------------------------
(***************************************************************************)
(* Proofs about GuardCalls: for every set of tokens, every set of actions  *)
(* outside the policy and every number of calls, a token buys at most what *)
(* it was granted for.  SingleUse counts the pending grant, which makes it *)
(* inductive as it stands once the types are known.                        *)
(***************************************************************************)
EXTENDS GuardCalls, TLAPS

\* Policy facts: the only place where the sets of actions are spelled out.
LEMMA PolicyFacts ==
  REQUIRES_CONFIRMATION \subseteq Actions /\ NoAction \notin Actions
  BY UnlistedAssumption, ActionAssumption
  DEF Actions, REQUIRES_CONFIRMATION, ACTION_ALLOWLIST

\* What a clean match takes for granted.
LEMMA CleanMatch ==
  ASSUME NEW t, NEW action,
         Validates(t, action), action \in REQUIRES_CONFIRMATION
  PROVE  t \in Token /\ tokens[t] = action /\ action \in Actions
  BY PolicyFacts DEF Validates, Authorizes, Pending

\* Type correctness of every call.
LEMMA TypeStep == TypeOK /\ [Next]_vars => TypeOK'
<1> SUFFICES ASSUME TypeOK, [Next]_vars PROVE TypeOK'
  OBVIOUS
<1> USE DEF TypeOK, TokensType, Tally
<1>1. ASSUME NEW t \in Token \cup {NoToken}, NEW action \in Actions \cup {NoAction},
             Grant(t, action)
      PROVE  TypeOK'
  <2>1. /\ t \in Token
        /\ action \in Actions
        /\ tokens' = [tokens EXCEPT ![t] = action]
        /\ grants' = [grants EXCEPT ![t][action] = @ + 1]
        /\ passes' = passes
        /\ calls' = calls + 1
    BY <1>1 DEF Grant, GrantConfirmation, Grantable, Called
  <2>2. tokens' \in [Token -> Actions \cup {NoAction}]
    BY <2>1
  <2>3. grants' \in [Token -> [Actions -> Nat]]
    BY <2>1
  <2> QED
    BY <2>1, <2>2, <2>3
<1>2. ASSUME NEW t \in Token \cup {NoToken}, NEW action \in Actions \cup {NoAction},
             Check(t, action)
      PROVE  TypeOK'
  <2>1. CASE Validates(t, action) /\ action \in REQUIRES_CONFIRMATION
    <3>1. /\ t \in Token
          /\ action \in Actions
          /\ tokens' = [tokens EXCEPT ![t] = NoAction]
          /\ passes' = [passes EXCEPT ![t][action] = @ + 1]
          /\ grants' = grants
          /\ calls' = calls + 1
      BY <1>2, <2>1, CleanMatch DEF Check, Validate, Consume, Called
    <3>2. tokens' \in [Token -> Actions \cup {NoAction}]
      BY <3>1
    <3>3. passes' \in [Token -> [Actions -> Nat]]
      BY <3>1
    <3> QED
      BY <3>1, <3>2, <3>3
  <2>2. CASE ~(Validates(t, action) /\ action \in REQUIRES_CONFIRMATION)
    BY <1>2, <2>2 DEF Check, Validate, Consume, Called
  <2> QED
    BY <2>1, <2>2
<1>3. ASSUME UNCHANGED <<tokens, grants, passes>>, calls' \in Nat
      PROVE  TypeOK'
  BY <1>3
<1>4. calls + 1 \in Nat
  OBVIOUS
<1> QED
  BY <1>1, <1>2, <1>3, <1>4
  DEF Next, vars, RefuseGrant, CheckActionOnly, Called

\* The dictionary and the tallies keep their types.
THEOREM TypeCorrect == Spec => []TypeOK
<1>1. Init => TypeOK
  BY DEF Init, GuardInit, TypeOK, TokensType, Tally
<1> QED
  BY <1>1, TypeStep, PTL DEF Spec

-----------------------------------------------------------------------------
\* A grant pays for one more pass, a pass spends the entry it was matched
\* with, and a refused call does neither.
LEMMA SingleUseStep == TypeOK /\ SingleUse /\ [Next]_vars => SingleUse'
<1> SUFFICES ASSUME TypeOK, SingleUse, [Next]_vars,
                    NEW u \in Token, NEW b \in Actions
             PROVE  (passes[u][b] + Outstanding(u, b) <= grants[u][b])'
  BY DEF SingleUse
<1> USE DEF TypeOK, TokensType, Tally, Outstanding
<1>0. /\ passes[u][b] + Outstanding(u, b) <= grants[u][b]
      /\ passes[u][b] \in Nat
      /\ grants[u][b] \in Nat
      /\ b # NoAction
  BY PolicyFacts DEF SingleUse, Tally
<1>1. ASSUME NEW t \in Token \cup {NoToken}, NEW action \in Actions \cup {NoAction},
             Grant(t, action)
      PROVE  (passes[u][b] + Outstanding(u, b) <= grants[u][b])'
  <2>1. /\ t \in Token
        /\ action \in Actions
        /\ tokens' = [tokens EXCEPT ![t] = action]
        /\ grants' = [grants EXCEPT ![t][action] = @ + 1]
        /\ passes' = passes
    BY <1>1 DEF Grant, GrantConfirmation, Grantable
  <2>2. CASE u = t /\ b = action
    BY <1>0, <2>1, <2>2
  <2>3. CASE ~(u = t /\ b = action)
    BY <1>0, <2>1, <2>3
  <2> QED
    BY <2>2, <2>3
<1>2. ASSUME NEW t \in Token \cup {NoToken}, NEW action \in Actions \cup {NoAction},
             Check(t, action)
      PROVE  (passes[u][b] + Outstanding(u, b) <= grants[u][b])'
  <2>1. CASE Validates(t, action) /\ action \in REQUIRES_CONFIRMATION
    <3>1. /\ t \in Token
          /\ tokens[t] = action
          /\ action \in Actions
          /\ tokens' = [tokens EXCEPT ![t] = NoAction]
          /\ passes' = [passes EXCEPT ![t][action] = @ + 1]
          /\ grants' = grants
      BY <1>2, <2>1, CleanMatch DEF Check, Validate, Consume
    <3> QED
      BY <1>0, <3>1
  <2>2. CASE ~(Validates(t, action) /\ action \in REQUIRES_CONFIRMATION)
    BY <1>0, <1>2, <2>2 DEF Check, Validate, Consume
  <2> QED
    BY <2>1, <2>2
<1>3. ASSUME UNCHANGED <<tokens, grants, passes>>
      PROVE  (passes[u][b] + Outstanding(u, b) <= grants[u][b])'
  BY <1>0, <1>3
<1> QED
  BY <1>1, <1>2, <1>3 DEF Next, vars, RefuseGrant, CheckActionOnly

\* SINGLE-USE and ACTION-BOUND: for every interleaving of grants, re-grants
\* and validations.
THEOREM TokensAreSingleUse == Spec => []SingleUse
<1>1. Init => SingleUse
  BY PolicyFacts DEF Init, GuardInit, SingleUse, Outstanding
<1> QED
  BY <1>1, SingleUseStep, TypeCorrect, PTL DEF Spec

-----------------------------------------------------------------------------
\* An entry leaves the dictionary only in a pass that is charged to it.
LEMMA BurnStep ==
  TypeOK /\ [Next]_vars =>
    [\A t \in Token :
       Pending(t) /\ tokens'[t] = NoAction
         => passes'[t][tokens[t]] = passes[t][tokens[t]] + 1]_vars
<1> SUFFICES ASSUME TypeOK, Next, NEW u \in Token,
                    Pending(u), tokens'[u] = NoAction
             PROVE  passes'[u][tokens[u]] = passes[u][tokens[u]] + 1
  BY DEF vars
<1> USE DEF TypeOK, TokensType, Tally
<1>1. tokens[u] \in Actions /\ tokens[u] # NoAction
  BY DEF Pending
<1>2. ASSUME NEW t \in Token \cup {NoToken}, NEW action \in Actions \cup {NoAction},
             Grant(t, action)
      PROVE  FALSE
  BY <1>1, <1>2 DEF Grant, GrantConfirmation, Grantable
<1>3. ASSUME NEW t \in Token \cup {NoToken}, NEW action \in Actions \cup {NoAction},
             Check(t, action)
      PROVE  passes'[u][tokens[u]] = passes[u][tokens[u]] + 1
  <2>1. Validates(t, action) /\ action \in REQUIRES_CONFIRMATION
    BY <1>1, <1>3 DEF Check, Validate, Consume
  <2>2. /\ t \in Token
        /\ tokens[t] = action
        /\ tokens' = [tokens EXCEPT ![t] = NoAction]
        /\ passes' = [passes EXCEPT ![t][action] = @ + 1]
    BY <1>3, <2>1, CleanMatch DEF Check, Validate, Consume
  <2>3. u = t
    BY <1>1, <2>2
  <2> QED
    BY <1>1, <2>2, <2>3
<1>4. ASSUME tokens' = tokens
      PROVE  FALSE
  BY <1>1, <1>4
<1> QED
  BY <1>2, <1>3, <1>4 DEF Next, RefuseGrant, CheckActionOnly

\* A mismatch burns nothing: what the user approved stays approved until the
\* very action runs.
THEOREM ApprovalsAreNotBurned == Spec => ApprovalNotBurned
  BY TypeCorrect, BurnStep, PTL DEF Spec, ApprovalNotBurned

=============================================================================
