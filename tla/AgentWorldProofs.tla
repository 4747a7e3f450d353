-------------------------- MODULE AgentWorldProofs --------------------------
(***************************************************************************)
(* What a run of AgentLoop does outside the task: to the guard, where a    *)
(* token is pending only between the answer and the execution it was given *)
(* for, and a dry run spends none; to the machine, as TaskRun promises; to *)
(* the log, which alone gives attempts, place and outcome until an         *)
(* exception leaves run(), and lacks one effect at most after it.          *)
(***************************************************************************)
EXTENDS AgentTaskProofs

\* The user says yes to the step at hand.
Granting ==
  /\ pc = "confirm" /\ pc' = "execute"
  /\ Guard!GrantConfirmation(Attempt, Here.action)
  /\ token' = Attempt
  /\ approvals' = approvals \cup {[attempt |-> Attempt, step |-> Here]}
  /\ effects' = effects
  /\ UNCHANGED <<plan, current, history, record>>

\* The step at hand is executed, whatever comes of it.
Executing ==
  /\ pc = "execute"
  /\ \/ pc' \in {"loop", "repair"} /\ token' = NoToken
     \/ pc' = "raised"
  /\ tokens' = TokensAfter(Here)
  /\ effects' = IF WritesForReal(Here)
                THEN Append(effects, [attempt |-> Attempt, step |-> Here])
                ELSE effects
  /\ approvals' = approvals

\* Nothing is granted, consumed or written; the prompt and the execution are
\* reached from the head of the loop as the policy demands.
Aside ==
  /\ UNCHANGED world
  /\ pc = "execute" => pc' \in {"execute", "raised"} /\ UNCHANGED <<task, local>>
  /\ Stopped => UNCHANGED vars
  /\ pc' = "confirm" =>
       /\ UNCHANGED <<plan, current, history>>
       /\ \/ pc = "confirm"
          \/ pc = "loop" /\ NeedsConfirmation(Here)
  /\ pc' = "execute" =>
       /\ UNCHANGED <<plan, current, history, token>>
       /\ pc \in {"loop", "execute"}

LEMMA BeginAside ==
  ASSUME BeginStep
  PROVE  Aside
<1>1. UNCHANGED world /\ pc = "loop"
  BY DEF BeginStep
<1>2. ASSUME pc' = "raised" PROVE Aside
  BY <1>1, <1>2 DEF Aside, Stopped
<1>3. ASSUME pc' = IF NeedsConfirmation(Here) THEN "confirm" ELSE "execute",
             UNCHANGED <<plan, current, history, token>>
      PROVE  Aside
  BY <1>1, <1>3 DEF Aside, Stopped
<1> QED
  BY <1>2, <1>3, FailureShapes DEF BeginStep, local

LEMMA PlannerAside ==
  ASSUME pc \in {"plan", "replan"}, AskPlanner, UNCHANGED world
  PROVE  Aside
<1>1. \A p : AdoptPlan(p) => pc' = "loop"
  BY DEF AdoptPlan
<1>2. \A why, before : Escalate(why, before) => pc' = "escalated"
  BY DEF Escalate
<1>3. pc' \in {"loop", "escalated", "raised"}
  BY <1>1, <1>2, FailureShapes DEF AskPlanner
<1> QED
  BY <1>3 DEF Aside, Stopped

LEMMA RecoverAside ==
  ASSUME Inductive, Recover
  PROVE  Aside
<1>1. UNCHANGED world /\ pc = "repair"
  BY DEF Recover
<1>2. pc' \in {"loop", "replan", "escalated", "raised", "done", "repair"}
  BY <1>1, RecoverShape DEF Recovering, Calm
<1> QED
  BY <1>1, <1>2 DEF Aside, Stopped

LEMMA ConfirmWorld ==
  ASSUME MaybeConfirm
  PROVE  Granting \/ Aside
<1>1. pc = "confirm"
  BY DEF MaybeConfirm
<1>2. ASSUME pc' \in {"raised", "escalated"}, UNCHANGED world PROVE Aside
  BY <1>1, <1>2 DEF Aside, Stopped
<1>3. \A why, before : Escalate(why, before) => pc' = "escalated"
  BY DEF Escalate
<1>4. PICK answer \in Answers :
        LET said == <<Event("confirmation", Granted(answer))>> IN
        \/ /\ Granted(answer)
           /\ Guard!GrantConfirmation(Attempt, Here.action)
           /\ token' = Attempt
           /\ approvals' = IF answer = "yes"
                           THEN approvals \cup {[attempt |-> Attempt, step |-> Here]}
                           ELSE approvals
           /\ log' = log \o said
           /\ pc' = "execute"
           /\ UNCHANGED <<task, record, effects, reason>>
        \/ /\ ~Granted(answer)
           /\ \/ Escalate("abort_requested", said) /\ UNCHANGED <<task, local>>
              \/ EscalationFails(said)
           /\ UNCHANGED world
        \/ JournalFails(said) /\ UNCHANGED world
  BY DEF MaybeConfirm
<1>5. ASSUME Granted(answer), Guard!GrantConfirmation(Attempt, Here.action),
             token' = Attempt, pc' = "execute",
             approvals' = IF answer = "yes"
                          THEN approvals \cup {[attempt |-> Attempt, step |-> Here]}
                          ELSE approvals,
             UNCHANGED <<task, record, effects, reason>>
      PROVE  Granting
  BY <1>1, <1>5 DEF Granted, Granting, task
<1> QED
  BY <1>2, <1>3, <1>4, <1>5, FailureShapes

LEMMA ExecuteWorld ==
  ASSUME ExecuteAndVerify
  PROVE  Executing
<1>1. \/ pc' \in {"loop", "repair"} /\ token' = NoToken
      \/ pc' = "raised"
  BY FailureShapes DEF ExecuteAndVerify
<1> QED
  BY <1>1 DEF ExecuteAndVerify, Executing

LEMMA WorldShapes ==
  ASSUME Inductive, [Next]_vars
  PROVE  Granting \/ Executing \/ Aside
<1>1. CASE TaskStart
  <2>1. UNCHANGED world /\ pc = "start" /\ pc' \in {"plan", "raised"}
    BY <1>1, FailureShapes DEF TaskStart
  <2> QED
    BY <2>1 DEF Aside, Stopped
<1>2. CASE CreatePlan \/ Replan
  BY <1>2, PlannerAside DEF CreatePlan, Replan
<1>3. CASE FinishRun
  <2>1. UNCHANGED world /\ pc = "loop" /\ pc' \in {"done", "raised"}
    BY <1>3, FailureShapes DEF FinishRun
  <2> QED
    BY <2>1 DEF Aside, Stopped
<1>4. CASE StopRun
  <2>1. UNCHANGED world /\ pc = "loop" /\ pc' \in {"escalated", "raised"}
    BY <1>4, FailureShapes DEF StopRun, Escalate
  <2> QED
    BY <2>1 DEF Aside, Stopped
<1>5. CASE BeginStep
  BY <1>5, BeginAside
<1>6. CASE MaybeConfirm
  BY <1>6, ConfirmWorld
<1>7. CASE ExecuteAndVerify
  BY <1>7, ExecuteWorld
<1>8. CASE Recover
  BY <1>8, RecoverAside
<1>9. CASE Interrupt
  BY <1>9 DEF Interrupt, Raise, Running, Stopped, Aside
<1>10. CASE Tick \/ SetBack
  BY <1>10 DEF Tick, SetBack, Running, Stopped, Aside, task, local, world
<1>11. CASE UNCHANGED vars
  BY <1>11 DEF vars, task, local, Aside
<1> QED
  BY <1>1, <1>2, <1>3, <1>4, <1>5, <1>6, <1>7, <1>8, <1>9, <1>10, <1>11
  DEF Next, Proceed

-----------------------------------------------------------------------------
(* No approval is left behind *)

\* The prompt is for a high-risk step; a pending token is the one in the loop's
\* hand, for the step it is at.
Held ==
  /\ pc = "confirm" => NeedsConfirmation(Here)
  /\ ~DryRun => \A t \in 1..MaxTotalAttempts : Guard!Pending(t) =>
       /\ pc \in {"execute", "raised"}
       /\ t = Attempt
       /\ pc = "execute" => /\ token = t
                            /\ tokens[t] = Here.action
                            /\ NeedsConfirmation(Here)

LEMMA HeldStep ==
  ASSUME Inductive, Held, [Next]_vars
  PROVE  Held'
<1>0. tokens \in [1..MaxTotalAttempts -> ACTION_ALLOWLIST \cup {NoAction}]
  BY DEF Inductive, TypeOK, WorldType, Guard!TokensType
<1>1. CASE Granting
  <2>1. /\ pc = "confirm" /\ pc' = "execute"
        /\ tokens' = [tokens EXCEPT ![Attempt] = Here.action]
        /\ token' = Attempt
        /\ Attempt' = Attempt /\ Here' = Here
        /\ NeedsConfirmation(Here)
    BY <1>1 DEF Granting, Guard!GrantConfirmation, Attempt, Here, Held
  <2>2. /\ Attempt \in 1..MaxTotalAttempts
    BY <2>1, AttemptType DEF Inductive, Control
  <2>3. ASSUME ~DryRun, NEW t \in 1..MaxTotalAttempts, Guard!Pending(t)'
        PROVE  t = Attempt /\ tokens'[t] = Here.action
    <3>1. ~Guard!Pending(t)
      BY <2>1, <2>3 DEF Held
    <3> QED
      BY <1>0, <2>1, <2>2, <2>3, <3>1 DEF Guard!Pending
  <2> QED
    BY <2>1, <2>3 DEF Held, NeedsConfirmation
<1>2. CASE Executing
  <2>1. pc = "execute" /\ pc' \in {"loop", "repair", "raised"}
        /\ tokens' = TokensAfter(Here)
    BY <1>2 DEF Executing
  <2>2. ASSUME ~DryRun, NEW t \in 1..MaxTotalAttempts
        PROVE  ~Guard!Pending(t)'
    <3>1. tokens' = Guard!Consume(token, Here.action)
      BY <2>1, <2>2 DEF TokensAfter
    <3>2. CASE Guard!Pending(t)
      <4>1. token = t /\ tokens[t] = Here.action /\ Here.action \in REQUIRES_CONFIRMATION
        BY <2>1, <2>2, <3>2 DEF Held, NeedsConfirmation
      <4>2. Here.action \in ACTION_ALLOWLIST
        BY <2>1, HereType DEF Inductive, Control
      <4>3. tokens' = [tokens EXCEPT ![t] = NoAction]
        BY <3>1, <3>2, <4>1, <4>2
        DEF Guard!Consume, Guard!Validates, Guard!Authorizes,
            Guard!ActionAllowed, Guard!ACTION_ALLOWLIST, ACTION_ALLOWLIST,
            Guard!REQUIRES_CONFIRMATION, REQUIRES_CONFIRMATION
      <4> QED
        BY <1>0, <2>2, <4>3 DEF Guard!Pending
    <3>3. CASE ~Guard!Pending(t)
      BY <1>0, <2>2, <3>1, <3>3 DEF Guard!Consume, Guard!Pending
    <3> QED
      BY <3>2, <3>3
  <2> QED
    BY <2>1, <2>2 DEF Held
<1>3. CASE Aside
  <2>1. tokens' = tokens
    BY <1>3 DEF Aside, world
  <2>2. pc' = "confirm" => NeedsConfirmation(Here)'
    BY <1>3 DEF Aside, Held, Here, NeedsConfirmation
  <2>3. ASSUME ~DryRun, NEW t \in 1..MaxTotalAttempts, Guard!Pending(t)'
        PROVE  /\ pc' \in {"execute", "raised"}
               /\ t = Attempt'
               /\ pc' = "execute" => /\ token' = t
                                     /\ tokens'[t] = Here'.action
                                     /\ NeedsConfirmation(Here)'
    <3>1. Guard!Pending(t)
      BY <2>1, <2>3 DEF Guard!Pending
    <3>2. /\ pc \in {"execute", "raised"}
          /\ t = Attempt
          /\ pc = "execute" => /\ token = t
                               /\ tokens[t] = Here.action
                               /\ NeedsConfirmation(Here)
      BY <2>3, <3>1 DEF Held
    <3>3. CASE pc = "execute"
      <4>1. pc' \in {"execute", "raised"} /\ UNCHANGED <<task, local>>
        BY <1>3, <3>3 DEF Aside
      <4> QED
        BY <2>1, <3>2, <3>3, <4>1 DEF task, local, Attempt, Here, NeedsConfirmation
    <3>4. CASE pc = "raised"
      BY <1>3, <3>2, <3>4 DEF Aside, Stopped, vars, task, Attempt
    <3> QED
      BY <3>2, <3>3, <3>4
  <2> QED
    BY <2>2, <2>3 DEF Held
<1> QED
  BY <1>1, <1>2, <1>3, WorldShapes

LEMMA HeldInit == Init => Held
  BY DEF Init, Held, Guard!GuardInit, Guard!Pending

LEMMA AlwaysHeld == Spec => []Held
<1>1. Inductive /\ Held /\ [Next]_vars => Held'
  BY HeldStep
<1> QED
  BY HeldInit, <1>1, AlwaysInductive, PTL DEF Spec

\* In a real run no approval outlives its attempt, whatever breaks off: what is
\* pending was just granted.
THEOREM NoApprovalIsLeft == Spec => []NoLeftoverApproval
<1>1. Held => NoLeftoverApproval
  BY DEF Held, NoLeftoverApproval
<1> QED
  BY <1>1, AlwaysHeld, PTL

-----------------------------------------------------------------------------
(* The provider that always denies *)

LEMMA DenialGrantsNothing ==
  ASSUME Provider = "deny", [Next]_vars
  PROVE  approvals' = approvals
<1>1. CASE MaybeConfirm
  BY <1>1 DEF MaybeConfirm, Answers, Granted, world
<1>2. CASE UNCHANGED world
  BY <1>2 DEF world
<1>3. CASE ExecuteAndVerify
  BY <1>3 DEF ExecuteAndVerify
<1> QED
  BY <1>1, <1>2, <1>3
  DEF Next, Proceed, TaskStart, CreatePlan, FinishRun, StopRun, BeginStep, Recover,
      Replan, Interrupt, Tick, SetBack, vars

\* Under AlwaysDenyProvider (confirmation.py:171) no high-risk tool ever runs, whatever
\* is planned, rewritten or retried: there is no way to execution but the prompt.
THEOREM DenialIsSafe ==
  ASSUME Provider = "deny"
  PROVE  Spec => [](\A i \in DOMAIN effects :
                      effects[i].step.action \notin REQUIRES_CONFIRMATION)
<1> DEFINE Untouched ==
      \A i \in DOMAIN effects : effects[i].step.action \notin REQUIRES_CONFIRMATION
<1>1. Init => approvals = {}
  BY DEF Init
<1>2. approvals = {} /\ [Next]_vars => (approvals = {})'
  BY DenialGrantsNothing
<1>3. ApprovedExecution /\ approvals = {} => Untouched
  BY DEF ApprovedExecution
<1> QED
  BY <1>1, <1>2, <1>3, ApprovedExecutionHolds, PTL DEF Spec

-----------------------------------------------------------------------------
(* A dry run *)

\* Approvals belong to attempts already made, or to the one being made.
Dated ==
  \A a \in approvals :
    \/ a.attempt <= Len(history)
    \/ a.attempt = Len(history) + 1 /\ pc \in {"execute", "repair", "raised"}

LEMMA ApprovalType ==
  ASSUME TypeOK
  PROVE  /\ \A a \in approvals : a.attempt \in Nat /\ a.attempt \in 1..MaxTotalAttempts
         /\ Len(history) \in Nat
  BY BudgetAssumption, LenProperties DEF TypeOK, TaskType, WorldType, Run

LEMMA DatedStep ==
  ASSUME Inductive, Dated, [Next]_vars
  PROVE  Dated'
<1>1. /\ \A a \in approvals : a.attempt \in Nat
      /\ Len(history) \in Nat /\ TypeOK
  BY ApprovalType DEF Inductive
<1>2. CASE Granting
  <2>1. /\ approvals' = approvals \cup {[attempt |-> Attempt, step |-> Here]}
        /\ history' = history /\ pc = "confirm" /\ pc' = "execute"
    BY <1>2 DEF Granting
  <2> QED
    BY <1>1, <2>1 DEF Dated, Attempt
<1>3. CASE approvals' = approvals
  <2>1. CASE Calm
    <3>1. history' = history
      BY <2>1 DEF Calm
    <3>2. pc \in {"execute", "repair", "raised"} => pc' \in {"execute", "repair", "raised"}
      BY <2>1 DEF Calm
    <3> QED
      BY <1>3, <3>1, <3>2 DEF Dated
  <2>2. CASE Adopting
    <3>1. history' = history /\ pc \in {"plan", "replan"}
      BY <2>2 DEF Adopting, AdoptPlan
    <3> QED
      BY <1>3, <3>1 DEF Dated
  <2>3. CASE Failing
    BY <1>3, <2>3 DEF Failing, Dated
  <2>4. CASE Passing \/ Recovering
    <3>1. PICK r : history' = Append(history, r)
      BY <2>4 DEF Passing, Recovering
    <3>2. Len(history') = Len(history) + 1
      BY <1>1, <3>1, HistoryGrows
    <3> QED
      BY <1>1, <1>3, <3>2 DEF Dated
  <2> QED
    BY <2>1, <2>2, <2>3, <2>4, Shapes
<1> QED
  BY <1>2, <1>3, WorldShapes DEF Executing, Aside, world

LEMMA DryRunStep ==
  ASSUME Inductive, Dated, DryRunKeepsApprovals, [Next]_vars
  PROVE  DryRunKeepsApprovals'
<1> SUFFICES ASSUME DryRun
             PROVE  /\ effects' = <<>>
                    /\ \A a \in approvals' : tokens'[a.attempt] = a.step.action
  BY DEF DryRunKeepsApprovals
<1>1. /\ effects = <<>>
      /\ \A a \in approvals : tokens[a.attempt] = a.step.action
  BY DEF DryRunKeepsApprovals
<1>2. CASE Granting
  <2>1. /\ approvals' = approvals \cup {[attempt |-> Attempt, step |-> Here]}
        /\ tokens' = [tokens EXCEPT ![Attempt] = Here.action]
        /\ effects' = effects /\ pc = "confirm"
    BY <1>2 DEF Granting, Guard!GrantConfirmation
  <2>2. tokens \in [1..MaxTotalAttempts -> ACTION_ALLOWLIST \cup {NoAction}]
    BY DEF Inductive, TypeOK, WorldType, Guard!TokensType
  <2>3. Attempt \in 1..MaxTotalAttempts
    BY <2>1, AttemptType DEF Inductive, Control
  <2>4. \A a \in approvals : a.attempt \in 1..MaxTotalAttempts /\ a.attempt # Attempt
    BY <2>1, ApprovalType DEF Inductive, Dated, Attempt
  <2> QED
    BY <1>1, <2>1, <2>2, <2>3, <2>4
<1>3. CASE Executing
  BY <1>1, <1>3 DEF Executing, TokensAfter, WritesForReal
<1>4. CASE Aside
  BY <1>1, <1>4 DEF Aside, world
<1> QED
  BY <1>2, <1>3, <1>4, WorldShapes

\* A dry run writes nothing and consumes no approval.
THEOREM DryRunHolds == Spec => []DryRunKeepsApprovals
<1>1. Init => Dated /\ DryRunKeepsApprovals
  BY DEF Init, Dated, DryRunKeepsApprovals
<1>2. Inductive /\ Dated /\ DryRunKeepsApprovals /\ [Next]_vars
        => Dated' /\ DryRunKeepsApprovals'
  BY DatedStep, DryRunStep
<1> QED
  BY <1>1, <1>2, AlwaysInductive, PTL DEF Spec

-----------------------------------------------------------------------------
(* The loop implements TaskRun.  A step of the loop is a consent, an attempt,
   the end or the break of the run, or nothing that TaskRun speaks of. *)

LEMMA RefinementTypes ==
  ASSUME Inductive
  PROVE  /\ Spent \in Nat
         /\ pc # "repair" /\ pc # "raised" => Spent = Len(history)
         /\ pc = "repair" => Spent = Len(history) + 1
         /\ pc # "execute" => Consented = NoStep
         /\ Status = "running" <=> ~Stopped
         /\ pc = "raised" => Status = "broken"
         /\ pc = "done" => Status = "done"
         /\ pc = "escalated" => Status = "escalated"
  BY SpentType, NullAssumption
  DEF Inductive, Control, Spent, Consented, Status, Stopped, Running, NoRecord,
      Record

LEMMA DeedsFrame ==
  ASSUME effects' = effects
  PROVE  Deeds' = Deeds
  BY DEF Deeds

\* Exceptions outside the execution of a step.
LEMMA BreakRefines ==
  ASSUME Inductive, NEW step \in Step, ~Stopped, pc' = "raised",
         effects' = effects, UNCHANGED <<history, record>>
  PROVE  Task!Break(step)
<1>1. Status = "running" /\ Status' = "broken"
  BY DEF Status, Stopped
<1>2. Consented' = NoStep
  BY DEF Consented
<1>3. Spent' = Spent /\ Deeds' = Deeds
  BY DEF Spent, Deeds
<1> QED
  BY <1>1, <1>2, <1>3 DEF Task!Break, Task!Deed

LEMMA AppendIsFunction ==
  ASSUME NEW S, NEW seq \in Seq(S), NEW elt \in S
  PROVE  Append(seq, elt) =
           [i \in 1..(Len(seq) + 1) |-> IF i <= Len(seq) THEN seq[i] ELSE elt]
<1> DEFINE longer == Append(seq, elt)
<1>1. /\ longer \in Seq(S)
      /\ Len(longer) = Len(seq) + 1
      /\ Len(seq) \in Nat
      /\ \A i \in 1..(Len(seq) + 1) :
           longer[i] = IF i <= Len(seq) THEN seq[i] ELSE elt
  BY AppendProperties, LenProperties
<1> HIDE DEF longer
<1>2. longer = [i \in 1..(Len(seq) + 1) |-> longer[i]]
  BY <1>1
<1>3. longer =
        [i \in 1..(Len(seq) + 1) |-> IF i <= Len(seq) THEN seq[i] ELSE elt]
  BY <1>1, <1>2
<1> QED
  BY <1>3 DEF longer

\* The execution of a step writes what the user agreed to, or nothing.
LEMMA DeedRefines ==
  ASSUME Inductive, Executing
  PROVE  Task!Deed(Here) /\ Here \in Step
<1>1. pc = "execute" /\ Here \in Step
  BY HereType DEF Executing, Inductive, Control
<1>2. CASE WritesForReal(Here)
  <2>1. effects' = Append(effects, [attempt |-> Attempt, step |-> Here])
    BY <1>2 DEF Executing
  <2>2. /\ Len(effects) \in Nat
        /\ DOMAIN effects = 1..Len(effects)
        /\ DOMAIN effects' = 1..(Len(effects) + 1)
        /\ \A i \in DOMAIN effects : effects'[i] = effects[i]
        /\ effects'[Len(effects) + 1] = [attempt |-> Attempt, step |-> Here]
    BY <1>1, <2>1, DeedAppended
  <2>3. Deeds \in Seq(Step) /\ Len(Deeds) = Len(effects)
    <3>1. \A i \in 1..Len(effects) : effects[i].step \in Step
      <4>1. effects \in Seq(Run)
        BY DEF Inductive, TypeOK, WorldType
      <4>2. \A i \in 1..Len(effects) : effects[i] \in Run
        BY <4>1, ElementOfSeq
      <4> QED
        BY <4>2 DEF Run
    <3> QED
      BY <2>2, <3>1 DEF Deeds
  <2>4. Deeds' = Append(Deeds, Here)
    <3>1. Deeds' = [i \in 1..(Len(effects) + 1) |-> effects'[i].step]
      BY <2>2 DEF Deeds
    <3>2. \A i \in 1..(Len(effects) + 1) :
            effects'[i].step = IF i <= Len(effects) THEN Deeds[i] ELSE Here
      BY <2>2 DEF Deeds
    <3>3. Append(Deeds, Here) =
            [i \in 1..(Len(effects) + 1) |->
               IF i <= Len(effects) THEN Deeds[i] ELSE Here]
      BY <1>1, <2>3, AppendIsFunction
    <3> QED
      BY <3>1, <3>2, <3>3
  <2>5. NeedsConfirmation(Here) => Consented = Here
    <3>1. NeedsConfirmation(Here) => token \in 1..MaxTotalAttempts
      BY <1>2
      DEF WritesForReal, Guard!Validates, Guard!Authorizes, Guard!Pending,
          NeedsConfirmation, REQUIRES_CONFIRMATION, Guard!REQUIRES_CONFIRMATION
    <3> QED
      BY <1>1, <3>1, NullAssumption DEF Consented
  <2> QED
    BY <1>1, <2>4, <2>5 DEF Task!Deed
<1>3. CASE ~WritesForReal(Here)
  <2>1. Deeds' = Deeds
    BY <1>3, DeedsFrame DEF Executing
  <2> QED
    BY <1>1, <2>1 DEF Task!Deed
<1> QED
  BY <1>2, <1>3

LEMMA ExecuteRefines ==
  ASSUME Inductive, Inductive', Executing, Calm \/ Passing \/ Failing
  PROVE  \E step \in Step : Task!Attempt(step) \/ Task!Break(step)
<1>1. Task!Deed(Here) /\ Here \in Step /\ pc = "execute"
  BY DeedRefines DEF Executing
<1>2. /\ Spent = Len(history) /\ Spent \in Nat /\ Spent < MaxTotalAttempts
      /\ Status = "running" /\ TypeOK
  BY <1>1, RefinementTypes DEF Inductive, Control, Stopped
<1>3. CASE pc' = "raised"
  <2>1. UNCHANGED <<history, record>>
    BY <1>1, <1>3 DEF Calm, Passing, Failing
  <2>2. Spent' = Spent /\ Consented' = NoStep /\ Status' = "broken"
    BY <1>3, <2>1 DEF Spent, Consented, Status
  <2> QED
    BY <1>1, <1>2, <2>2 DEF Task!Break
<1>4. CASE pc' # "raised"
  <2>1. Passing \/ Failing
    BY <1>1, <1>4 DEF Executing, Calm
  <2>2. Spent' = Len(history) + 1
    <3>1. CASE Passing
      <4>1. history' = Append(history, Outcome(TRUE)) /\ pc' = "loop"
        BY <3>1 DEF Passing
      <4>2. Len(history') = Len(history) + 1
        BY <1>2, <4>1, HistoryGrows
      <4>3. record' = NoRecord
        BY <4>1 DEF Inductive, Control
      <4> QED
        BY <1>2, <4>2, <4>3 DEF Spent
    <3>2. CASE Failing
      <4>1. history' = history /\ pc' = "repair"
        BY <3>2 DEF Failing
      <4>2. record' # NoRecord
        BY <4>1, NullAssumption DEF Inductive, Control, NoRecord, Record
      <4> QED
        BY <4>1, <4>2 DEF Spent
    <3> QED
      BY <2>1, <3>1, <3>2
  <2>3. Status' = "running" /\ Consented' = NoStep
    BY <2>1 DEF Passing, Failing, Status, Consented
  <2> QED
    BY <1>1, <1>2, <2>2, <2>3 DEF Task!Attempt, Task!Running
<1> QED
  BY <1>3, <1>4

LEMMA GrantRefines ==
  ASSUME Inductive, Held, Granting
  PROVE  Task!Consent(Here) /\ Here \in Step
<1>1. /\ pc = "confirm" /\ pc' = "execute" /\ token' = Attempt
      /\ effects' = effects
      /\ UNCHANGED <<plan, current, history, record>>
  BY DEF Granting
<1>2. /\ Here \in Step /\ NeedsConfirmation(Here) /\ Here' = Here
      /\ Attempt \in 1..MaxTotalAttempts
  BY <1>1, HereType, AttemptType DEF Inductive, Control, Held, Here
<1>3. Spent = Len(history) /\ Spent < MaxTotalAttempts /\ Status = "running"
      /\ Consented = NoStep
  BY <1>1, RefinementTypes DEF Inductive, Control, Stopped
<1>4. Consented' = Here /\ Status' = "running" /\ Spent' = Spent /\ Deeds' = Deeds
  BY <1>1, <1>2, NullAssumption DEF Consented, Status, Spent, Deeds
<1> QED
  BY <1>2, <1>3, <1>4 DEF Task!Consent, Task!Running

\* All steps that neither grant nor execute.
LEMMA AsideRefines ==
  ASSUME Inductive, Aside, Calm \/ Adopting \/ Recovering, Step # {}
  PROVE  [Task!Next]_(Task!vars)
<1>1. /\ effects' = effects /\ Deeds' = Deeds
      /\ Spent \in Nat /\ TypeOK
  BY RefinementTypes, DeedsFrame DEF Aside, world, Inductive
<1>2. CASE Stopped
  <2>1. UNCHANGED <<pc, plan, current, history, record, token>>
    BY <1>2 DEF Aside, vars, task, local
  <2>2. UNCHANGED <<Status, Spent, Consented>>
    BY <2>1 DEF Status, Spent, Consented, Here
  <2> QED
    BY <1>1, <2>2 DEF Task!vars
<1>3. CASE ~Stopped /\ pc' = "raised"
  <2>1. PICK step : step \in Step
    OBVIOUS
  <2>2. UNCHANGED <<history, record>>
    BY <1>3 DEF Calm, Adopting, AdoptPlan, Recovering
  <2>3. Task!Break(step)
    BY <1>1, <1>3, <2>1, <2>2, BreakRefines
  <2> QED
    BY <2>1, <2>3 DEF Task!Next
<1>4. CASE ~Stopped /\ pc' # "raised"
  <2>1. Status = "running"
    BY <1>4, RefinementTypes
  <2>2. Spent' = Spent
    <3>1. CASE Calm \/ Adopting
      BY <3>1 DEF Calm, Adopting, AdoptPlan, local, Spent
    <3>2. CASE Recovering
      <4>1. /\ history' = Append(history, record) /\ record' = NoRecord
            /\ pc = "repair"
        BY <3>2 DEF Recovering
      <4>2. Len(history') = Len(history) + 1 /\ Len(history) \in Nat
        BY <1>1, <4>1, HistoryGrows
      <4> QED
        BY <4>1, <4>2, RefinementTypes DEF Spent
    <3> QED
      BY <3>1, <3>2
  <2>3. CASE pc = "execute"
    <3>1. pc' = "execute" /\ UNCHANGED <<task, local>>
      BY <1>4, <2>3 DEF Aside
    <3>2. UNCHANGED <<Status, Consented>>
      BY <2>3, <3>1 DEF Status, Consented, Here, task, local
    <3> QED
      BY <1>1, <2>2, <3>2 DEF Task!vars
  <2>4. CASE pc # "execute"
    <3>1. Consented = NoStep
      BY <2>4 DEF Consented
    <3>2. Consented' = NoStep
      <4>1. pc' = "execute" => token' = NoToken
        BY <2>4 DEF Aside, Inductive, Consent
      <4> QED
        BY <4>1 DEF Consented
    <3>3. CASE pc' \in {"done", "escalated"}
      <4>1. Status' = pc'
        BY <3>3 DEF Status
      <4>2. Task!End(pc')
        BY <1>1, <2>1, <2>2, <3>1, <3>2, <4>1 DEF Task!End
      <4> QED
        BY <3>3, <4>2 DEF Task!Next
    <3>4. CASE pc' \notin {"done", "escalated"}
      <4>1. Status' = "running"
        BY <1>4, <3>4 DEF Status
      <4> QED
        BY <1>1, <2>1, <2>2, <3>1, <3>2, <4>1 DEF Task!vars
    <3> QED
      BY <3>3, <3>4
  <2> QED
    BY <2>3, <2>4
<1> QED
  BY <1>2, <1>3, <1>4

LEMMA StepRefines ==
  ASSUME Inductive, Inductive', Held, [Next]_vars, Step # {}
  PROVE  [Task!Next]_(Task!vars)
<1>1. Calm \/ Adopting \/ Passing \/ Failing \/ Recovering
  BY Shapes
<1>2. CASE Granting
  BY <1>2, GrantRefines DEF Task!Next
<1>3. CASE Executing
  <2>1. Calm \/ Passing \/ Failing
    BY <1>1, <1>3 DEF Executing, Adopting, Recovering
  <2> QED
    BY <1>3, <2>1, ExecuteRefines DEF Task!Next
<1>4. CASE Aside
  <2>1. Calm \/ Adopting \/ Recovering
    BY <1>1, <1>4 DEF Aside, Passing, Failing
  <2> QED
    BY <1>4, <2>1, AsideRefines
<1> QED
  BY <1>2, <1>3, <1>4, WorldShapes

\* The loop, with all its replans, retries, rewritten steps, denials and
\* exceptions, is a TaskRun: bounded attempts, one write at most in each, and a
\* high-risk write only of the very step consented to in the same attempt.  (If
\* there were no steps at all, TaskRun could not break.)
THEOREM LoopImplementsTaskRun ==
  ASSUME Args # {}
  PROVE  Spec => TaskRefinement
<1>1. Step # {}
  <2>1. PICK a : a \in Args
    OBVIOUS
  <2>2. [action |-> "file.read", args |-> a, expected_state |-> "weak"] \in Step
    BY <2>1 DEF Step, ACTION_ALLOWLIST
  <2> QED
    BY <2>2
<1>2. Init => Task!Init
  BY NullAssumption
  DEF Init, Task!Init, Status, Spent, Consented, Deeds, NoRecord
<1>3. Inductive /\ Inductive' /\ Held /\ [Next]_vars => [Task!Next]_(Task!vars)
  BY <1>1, StepRefines
<1> QED
  BY <1>2, <1>3, AlwaysInductive, AlwaysHeld, PTL
  DEF Spec, TaskRefinement, Task!Spec

-----------------------------------------------------------------------------
(* The log *)

\* The step events of a log, and those of them the run still builds on.
Steps(l) == {i \in DOMAIN l : l[i].event = "step"}
Verified(l) ==
  {i \in Steps(l) : l[i].ok /\ \A j \in DOMAIN l : j > i => l[j].event # "plan"}
Ends(l, ok) == \E i \in DOMAIN l : l[i] = Event("task_end", ok)

\* No event of l from its n-th on is about a step or a plan.
Plain(l, n) ==
  \A i \in DOMAIN l : i >= n => l[i].event \notin {"step", "plan"}

-----------------------------------------------------------------------------
(* Sequences of events *)

LEMMA EventFields ==
  \A kind, ok : Event(kind, ok).event = kind /\ Event(kind, ok).ok = ok
  BY DEF Event

LEMMA Singleton ==
  ASSUME NEW e \in EventType
  PROVE  /\ <<e>> \in Seq(EventType) /\ Len(<<e>>) = 1
         /\ DOMAIN <<e>> = {1} /\ <<e>>[1] = e
  OBVIOUS

LEMMA Joined ==
  ASSUME NEW l \in Seq(EventType), NEW s \in Seq(EventType)
  PROVE  /\ l \o s \in Seq(EventType)
         /\ Len(l) \in Nat /\ Len(s) \in Nat
         /\ DOMAIN l = 1..Len(l) /\ DOMAIN s = 1..Len(s)
         /\ DOMAIN (l \o s) = 1..(Len(l) + Len(s))
         /\ \A i \in DOMAIN l : i \in DOMAIN (l \o s) /\ (l \o s)[i] = l[i]
         /\ \A i \in DOMAIN s :
              Len(l) + i \in DOMAIN (l \o s) /\ (l \o s)[Len(l) + i] = s[i]
         /\ \A i \in DOMAIN (l \o s) :
              i \in DOMAIN l \/ \E j \in DOMAIN s : i = Len(l) + j
<1>1. /\ l \o s \in Seq(EventType)
      /\ Len(l \o s) = Len(l) + Len(s)
      /\ Len(l) \in Nat /\ Len(s) \in Nat
      /\ \A i \in 1..(Len(l) + Len(s)) :
           (l \o s)[i] = IF i <= Len(l) THEN l[i] ELSE s[i - Len(l)]
  BY ConcatProperties, LenProperties
<1>2. /\ DOMAIN l = 1..Len(l) /\ DOMAIN s = 1..Len(s)
      /\ DOMAIN (l \o s) = 1..(Len(l) + Len(s))
  BY <1>1, LenProperties
<1>3. ASSUME NEW i \in DOMAIN (l \o s), i \notin DOMAIN l
      PROVE  \E j \in DOMAIN s : i = Len(l) + j
  <2>1. i - Len(l) \in DOMAIN s /\ i = Len(l) + (i - Len(l))
    BY <1>1, <1>2, <1>3
  <2> QED
    BY <2>1
<1>4. \A i \in DOMAIN l : i \in DOMAIN (l \o s) /\ (l \o s)[i] = l[i]
  BY <1>1, <1>2
<1>6. \A i \in DOMAIN (l \o s) :
        i \in DOMAIN l \/ \E j \in DOMAIN s : i = Len(l) + j
  BY <1>3, Zenon
<1>5. ASSUME NEW i \in DOMAIN s
      PROVE  Len(l) + i \in DOMAIN (l \o s) /\ (l \o s)[Len(l) + i] = s[i]
  <2>1. /\ Len(l) + i \in 1..(Len(l) + Len(s))
        /\ ~(Len(l) + i <= Len(l))
        /\ Len(l) + i - Len(l) = i
    BY <1>1, <1>2, <1>5
  <2> QED
    BY <1>1, <1>2, <2>1
<1>7. \A i \in DOMAIN s :
        Len(l) + i \in DOMAIN (l \o s) /\ (l \o s)[Len(l) + i] = s[i]
  BY <1>5
<1> QED
  BY <1>1, <1>2, <1>4, <1>6, <1>7

\* What follows is plain and endless: the old facts stand.
LEMMA EndsJoined ==
  ASSUME NEW l \in Seq(EventType), NEW s \in Seq(EventType), NEW ok
  PROVE  Ends(l \o s, ok) <=> Ends(l, ok) \/ Ends(s, ok)
<1> DEFINE end == Event("task_end", ok)
<1> HIDE DEF end
<1>1. ASSUME \E i \in DOMAIN (l \o s) : (l \o s)[i] = end
      PROVE  (\E i \in DOMAIN l : l[i] = end) \/ (\E i \in DOMAIN s : s[i] = end)
  BY <1>1, Joined
<1>2. ASSUME (\E i \in DOMAIN l : l[i] = end) \/ (\E i \in DOMAIN s : s[i] = end)
      PROVE  \E i \in DOMAIN (l \o s) : (l \o s)[i] = end
  <2>1. ASSUME NEW i \in DOMAIN l, l[i] = end
        PROVE  i \in DOMAIN (l \o s) /\ (l \o s)[i] = end
    BY <2>1, Joined
  <2>2. ASSUME NEW i \in DOMAIN s, s[i] = end
        PROVE  Len(l) + i \in DOMAIN (l \o s) /\ (l \o s)[Len(l) + i] = end
    BY <2>2, Joined
  <2> QED
    BY <1>2, <2>1, <2>2
<1> QED
  BY <1>1, <1>2 DEF Ends, end

LEMMA PlainKeeps ==
  ASSUME NEW l \in Seq(EventType), NEW s \in Seq(EventType), Plain(s, 1)
  PROVE  Steps(l \o s) = Steps(l) /\ Verified(l \o s) = Verified(l)
<1>1. \A i \in DOMAIN s : i >= 1
  BY LenProperties
<1>2. \A i \in DOMAIN s : (l \o s)[Len(l) + i].event \notin {"step", "plan"}
  BY <1>1, Joined DEF Plain
<1>3. Steps(l \o s) = Steps(l)
  BY <1>2, Joined DEF Steps
<1>4. \A i \in Steps(l) :
        (\A j \in DOMAIN (l \o s) : j > i => (l \o s)[j].event # "plan")
          <=> (\A j \in DOMAIN l : j > i => l[j].event # "plan")
  BY <1>2, Joined DEF Steps
<1>5. \A i \in Steps(l) : (l \o s)[i] = l[i]
  BY Joined DEF Steps
<1> QED
  BY <1>3, <1>4, <1>5 DEF Verified

\* A new plan starts the count of verified steps again.
LEMMA PlanResets ==
  ASSUME NEW l \in Seq(EventType), NEW s \in Seq(EventType), Plain(s, 2),
         s # <<>>, s[1].event = "plan"
  PROVE  Steps(l \o s) = Steps(l) /\ Verified(l \o s) = {}
<1>1. 1 \in DOMAIN s /\ \A i \in DOMAIN s : i = 1 \/ i >= 2
  BY LenProperties
<1>2. \A i \in DOMAIN s : (l \o s)[Len(l) + i].event # "step"
  BY <1>1, Joined DEF Plain
<1>3. Steps(l \o s) = Steps(l)
  BY <1>2, Joined DEF Steps
<1>4. Len(l) + 1 \in DOMAIN (l \o s) /\ (l \o s)[Len(l) + 1].event = "plan"
  BY <1>1, Joined
<1>5. \A i \in Steps(l) : Len(l) + 1 > i
  BY Joined DEF Steps
<1> QED
  BY <1>3, <1>4, <1>5 DEF Verified

\* A step event counts for the attempts, and for the place if it is verified.
LEMMA StepCounts ==
  ASSUME NEW l \in Seq(EventType), NEW s \in Seq(EventType), Plain(s, 2),
         NEW ok \in BOOLEAN, s # <<>>, s[1] = Event("step", ok)
  PROVE  /\ Steps(l \o s) = Steps(l) \cup {Len(l) + 1}
         /\ Verified(l \o s) =
              IF ok THEN Verified(l) \cup {Len(l) + 1} ELSE Verified(l)
         /\ Len(l) + 1 \notin Steps(l)
<1>1. 1 \in DOMAIN s /\ \A i \in DOMAIN s : i = 1 \/ i >= 2
  BY LenProperties
<1>2. \A i \in DOMAIN s :
        /\ (l \o s)[Len(l) + i].event # "plan"
        /\ (l \o s)[Len(l) + i].event = "step" <=> i = 1
  BY <1>1, Joined, EventFields DEF Plain
<1>3. Len(l) + 1 \in DOMAIN (l \o s) /\ (l \o s)[Len(l) + 1].ok = ok
  BY <1>1, Joined, EventFields
<1>4. Steps(l \o s) = Steps(l) \cup {Len(l) + 1}
  BY <1>1, <1>2, Joined DEF Steps
<1>5. Len(l) + 1 \notin Steps(l)
  BY Joined DEF Steps
<1>6. \A i \in Steps(l \o s) :
        (\A j \in DOMAIN (l \o s) : j > i => (l \o s)[j].event # "plan")
          <=> (i \in Steps(l) => \A j \in DOMAIN l : j > i => l[j].event # "plan")
  <2>1. \A j \in DOMAIN l : ~(j > Len(l) + 1)
    BY Joined
  <2> QED
    BY <1>2, <1>4, <1>5, <2>1, Joined
<1>7. \A i \in Steps(l) : (l \o s)[i] = l[i]
  BY Joined DEF Steps
<1>8. \A i : i \in Verified(l \o s) <=>
               i \in Verified(l) \/ (i = Len(l) + 1 /\ ok)
  BY <1>3, <1>4, <1>5, <1>6, <1>7 DEF Verified
<1> QED
  BY <1>4, <1>5, <1>8

LEMMA PlainJoined ==
  ASSUME NEW l \in Seq(EventType), NEW s \in Seq(EventType), NEW n \in Nat,
         Plain(l, n), Plain(s, 1)
  PROVE  Plain(l \o s, n)
<1>1. \A i \in DOMAIN s : i >= 1
  BY LenProperties
<1> QED
  BY <1>1, Joined DEF Plain

LEMMA HeadJoined ==
  ASSUME NEW l \in Seq(EventType), NEW s \in Seq(EventType), l # <<>>
  PROVE  l \o s # <<>> /\ (l \o s)[1] = l[1]
<1>1. 1 \in DOMAIN l
  BY LenProperties
<1>2. 1 \in DOMAIN (l \o s) /\ (l \o s)[1] = l[1]
  BY <1>1, Joined
<1> QED
  BY <1>2

LEMMA NoEvents ==
  /\ <<>> \in Seq(EventType) /\ Plain(<<>>, 1) /\ Plain(<<>>, 2)
  /\ \A ok : ~Ends(<<>>, ok)
  /\ \A l \in Seq(EventType) : l \o <<>> = l
  BY ConcatEmptySeq DEF Plain, Ends

LEMMA OneEvent ==
  ASSUME NEW kind \in EventKind, NEW ok \in BOOLEAN
  PROVE  LET s == <<Event(kind, ok)>> IN
         /\ s \in Seq(EventType) /\ s # <<>> /\ s[1] = Event(kind, ok)
         /\ Plain(s, 2)
         /\ kind \notin {"step", "plan"} => Plain(s, 1)
         /\ \A other : Ends(s, other) <=> kind = "task_end" /\ ok = other
<1> DEFINE e == Event(kind, ok)
<1>1. e \in EventType /\ e.event = kind /\ e.ok = ok
  BY EventIsTyped, EventFields
<1>2. \A other : e = Event("task_end", other) <=> kind = "task_end" /\ ok = other
  BY DEF Event
<1> HIDE DEF e
<1>3. /\ <<e>> \in Seq(EventType) /\ <<e>> # <<>> /\ <<e>>[1] = e
      /\ DOMAIN <<e>> = {1}
  BY <1>1, Singleton
<1>4. Plain(<<e>>, 2) /\ (kind \notin {"step", "plan"} => Plain(<<e>>, 1))
  BY <1>1, <1>3 DEF Plain
<1>5. \A other : Ends(<<e>>, other) <=> kind = "task_end" /\ ok = other
  BY <1>2, <1>3 DEF Ends
<1> QED
  BY <1>3, <1>4, <1>5 DEF e

LEMMA WarningsShape ==
  ASSUME NEW n \in Nat
  PROVE  /\ Warnings(n) \in Seq(EventType) /\ Plain(Warnings(n), 1)
         /\ \A ok : ~Ends(Warnings(n), ok)
<1>1. \A i \in DOMAIN Warnings(n) : Warnings(n)[i] = Event("plan_warning", TRUE)
  BY DEF Warnings
<1>2. Event("plan_warning", TRUE).event = "plan_warning"
  BY EventFields
<1>3. \A ok : Event("plan_warning", TRUE) # Event("task_end", ok)
  BY DEF Event
<1> QED
  BY <1>1, <1>2, <1>3, WarningsType DEF Plain, Ends

LEMMA TwoEvents ==
  ASSUME NEW a \in EventType, NEW b \in EventType
  PROVE  <<a, b>> = <<a>> \o <<b>>
<1>1. /\ <<a>> \o <<b>> \in Seq(EventType) /\ Len(<<a>> \o <<b>>) = 2
      /\ (<<a>> \o <<b>>)[1] = a /\ (<<a>> \o <<b>>)[2] = b
  BY Singleton, ConcatProperties
<1>2. /\ <<a, b>> \in Seq(EventType) /\ Len(<<a, b>>) = 2
      /\ <<a, b>>[1] = a /\ <<a, b>>[2] = b
  OBVIOUS
<1> DEFINE joined == <<a>> \o <<b>>
           pair == <<a, b>>
<1>3. \A i \in 1..Len(joined) : joined[i] = pair[i]
  BY <1>1, <1>2
<1> HIDE DEF joined, pair
<1>4. joined \in Seq(EventType) /\ pair \in Seq(EventType) /\ Len(joined) = Len(pair)
  BY <1>1, <1>2 DEF joined, pair
<1>5. joined = pair
  BY <1>3, <1>4, SeqEqual
<1> QED
  BY <1>5 DEF joined, pair

LEMMA AdoptShape ==
  ASSUME NEW p \in Seq(Step)
  PROVE  /\ AdoptEvents(p) \in Seq(EventType) /\ AdoptEvents(p) # <<>>
         /\ AdoptEvents(p)[1].event = "plan"
         /\ Plain(AdoptEvents(p), 2)
         /\ \A ok : ~Ends(AdoptEvents(p), ok)
<1> DEFINE a == <<Event("plan", TRUE)>>
           b == <<Event("strategy", TRUE)>>
           w == Warnings(WarningCount(p))
<1>1. /\ a \in Seq(EventType) /\ a # <<>> /\ a[1].event = "plan" /\ Plain(a, 2)
      /\ \A ok : ~Ends(a, ok)
  BY OneEvent, EventFields DEF EventKind
<1>2. b \in Seq(EventType) /\ Plain(b, 1) /\ \A ok : ~Ends(b, ok)
  BY OneEvent DEF EventKind
<1>3. w \in Seq(EventType) /\ Plain(w, 1) /\ \A ok : ~Ends(w, ok)
  BY WarningCountType, WarningsShape
<1>4. AdoptEvents(p) = (a \o b) \o w
  <2>1. Event("plan", TRUE) \in EventType /\ Event("strategy", TRUE) \in EventType
    BY EventIsTyped DEF EventKind
  <2> QED
    BY <2>1, TwoEvents DEF AdoptEvents
<1> HIDE DEF a, b, w
<1>5. /\ a \o b \in Seq(EventType) /\ a \o b # <<>> /\ (a \o b)[1].event = "plan"
      /\ Plain(a \o b, 2) /\ \A ok : ~Ends(a \o b, ok)
  BY <1>1, <1>2, HeadJoined, PlainJoined, EndsJoined, Joined
<1>6. /\ (a \o b) \o w \in Seq(EventType) /\ (a \o b) \o w # <<>>
      /\ ((a \o b) \o w)[1] = (a \o b)[1]
  BY <1>3, <1>5, HeadJoined, Joined
<1>7. Plain((a \o b) \o w, 2) /\ \A ok : ~Ends((a \o b) \o w, ok)
  BY <1>3, <1>5, PlainJoined, EndsJoined
<1> QED
  BY <1>4, <1>5, <1>6, <1>7

LEMMA EscalationShape ==
  /\ EscalationEvents \in Seq(EventType) /\ Plain(EscalationEvents, 1)
  /\ \A ok \in BOOLEAN : Ends(EscalationEvents, ok) <=> ~ok
<1> DEFINE a == <<Event("escalation", TRUE)>>
           b == <<Event("task_end", FALSE)>>
<1>1. a \in Seq(EventType) /\ Plain(a, 1) /\ \A ok : ~Ends(a, ok)
  BY OneEvent DEF EventKind
<1>2. /\ b \in Seq(EventType) /\ Plain(b, 1)
      /\ \A ok \in BOOLEAN : Ends(b, ok) <=> ~ok
  BY OneEvent DEF EventKind
<1>3. EscalationEvents = a \o b
  <2>1. Event("escalation", TRUE) \in EventType /\ Event("task_end", FALSE) \in EventType
    BY EventIsTyped DEF EventKind
  <2> QED
    BY <2>1, TwoEvents DEF EscalationEvents
<1> HIDE DEF a, b
<1> QED
  BY <1>1, <1>2, <1>3, PlainJoined, EndsJoined, Joined

-----------------------------------------------------------------------------
(* What a step of the loop appends *)

Ending(ok) == pc' # pc /\ pc' = IF ok THEN "done" ELSE "escalated"

\* A step event comes first and with its record, a plan event first and with
\* its plan, the end of the task with the end of the run.
Tale(s) ==
  /\ log' = log \o s
  /\ Plain(s, 2)
  /\ \/ (Calm \/ Failing) /\ Plain(s, 1)
     \/ Adopting /\ s # <<>> /\ s[1].event = "plan"
     \/ Passing /\ s # <<>> /\ s[1] = Event("step", TRUE)
     \/ Recovering /\ s # <<>> /\ s[1] = Event("step", FALSE)
  /\ \A ok \in BOOLEAN : Ends(s, ok) <=> Ending(ok)

\* An exception may break the tale off anywhere.
Told ==
  \E s \in Seq(EventType) : log' = log \o s /\ (pc' # "raised" => Tale(s))

LEMMA LeaveTold ==
  ASSUME NEW events \in Seq(EventType), NEW last \in Int, last <= Len(events),
         Leave(events, last)
  PROVE  Told
<1>1. PICK n \in 0..last : log' = log \o SubSeq(events, 1, n)
  BY DEF Leave
<1>2. SubSeq(events, 1, n) \in Seq(EventType)
  BY SubSeqProperties
<1> QED
  BY <1>1, <1>2 DEF Told, Leave

LEMMA FailuresTold ==
  /\ \A events \in Seq(EventType) : JournalFails(events) => Told
  /\ \A before \in Seq(EventType) : EscalationFails(before) => Told
  /\ TypeOK /\ Raise => Told
<1>1. ASSUME NEW events \in Seq(EventType), JournalFails(events) PROVE Told
  <2>1. Len(events) - 1 \in Int /\ Len(events) - 1 <= Len(events)
    BY LenProperties
  <2> QED
    BY <1>1, <2>1, LeaveTold DEF JournalFails
<1>2. ASSUME NEW before \in Seq(EventType), EscalationFails(before) PROVE Told
  <2> DEFINE events == before \o EscalationEvents
  <2>1. events \in Seq(EventType) /\ Len(before) \in Nat
    BY EscalationEventsType, ConcatProperties, LenProperties
  <2>4. Len(events) = Len(before) + Len(EscalationEvents)
    BY EscalationEventsType, ConcatProperties
  <2>2. Leave(events, Len(before) + 2)
    BY <1>2 DEF EscalationFails
  <2>3. Len(before) + 2 \in Int /\ Len(before) + 2 <= Len(events)
    BY <2>1, <2>4, EscalationEventsType
  <2> HIDE DEF events
  <2> QED
    BY <2>1, <2>2, <2>3, LeaveTold
<1>3. ASSUME TypeOK, Raise PROVE Told
  BY <1>3, NoEvents DEF Raise, Told, TypeOK, OutcomeType
<1> QED
  BY <1>1, <1>2, <1>3

\* Steps that append nothing of interest.
LEMMA QuietTold ==
  ASSUME Calm \/ Failing, NEW s \in Seq(EventType), log' = log \o s, Plain(s, 1),
         Plain(s, 2), \A ok : ~Ends(s, ok),
         pc' = pc \/ pc' \notin {"done", "escalated"}
  PROVE  Told
<1>1. \A ok \in BOOLEAN : Ends(s, ok) <=> Ending(ok)
  BY DEF Ending
<1> QED
  BY <1>1 DEF Told, Tale

LEMMA EscalateTold ==
  ASSUME TypeOK, pc # "escalated", NEW why, NEW before \in Seq(EventType),
         Escalate(why, before), \A ok : ~Ends(before, ok), Plain(before, 2),
         \/ Calm /\ Plain(before, 1)
         \/ Recovering /\ before # <<>> /\ before[1] = Event("step", FALSE)
  PROVE  Told
<1> DEFINE s == before \o EscalationEvents
<1>1. log \in Seq(EventType) /\ EscalationEvents \in Seq(EventType)
  BY EscalationShape DEF TypeOK, OutcomeType
<1>2. log' = log \o s /\ s \in Seq(EventType) /\ pc' = "escalated"
  BY <1>1, ConcatAssociative, ConcatProperties DEF Escalate
<1>3. Plain(s, 2) /\ (Plain(before, 1) => Plain(s, 1))
  BY <1>1, EscalationShape, PlainJoined
<1>4. before # <<>> => s # <<>> /\ s[1] = before[1]
  BY <1>1, HeadJoined
<1>5. \A ok \in BOOLEAN : Ends(s, ok) <=> Ending(ok)
  BY <1>1, <1>2, EscalationShape, EndsJoined DEF Ending
<1> HIDE DEF s
<1> QED
  BY <1>2, <1>3, <1>4, <1>5 DEF Told, Tale

LEMMA PlannerTold ==
  ASSUME Inductive, pc \in {"plan", "replan"}, AskPlanner
  PROVE  Told
<1>1. ASSUME NEW p \in Plans, AdoptPlan(p) PROVE Told
  <2>1. Adopting /\ log' = log \o AdoptEvents(p) /\ pc' = "loop"
    BY <1>1 DEF Adopting, AdoptPlan
  <2>2. /\ AdoptEvents(p) \in Seq(EventType) /\ AdoptEvents(p) # <<>>
        /\ AdoptEvents(p)[1].event = "plan" /\ Plain(AdoptEvents(p), 2)
        /\ \A ok \in BOOLEAN : ~Ends(AdoptEvents(p), ok) /\ ~Ending(ok)
    BY <2>1, PlanIsTyped, AdoptShape DEF Ending
  <2> QED
    BY <2>1, <2>2 DEF Told, Tale
<1>2. ASSUME NEW p \in Plans, JournalFails(AdoptEvents(p)) PROVE Told
  BY <1>2, PlanIsTyped, AdoptEventsType, FailuresTold
<1>3. ASSUME Escalate("unrecoverable_error", <<>>), UNCHANGED <<task, local>>
      PROVE  Told
  BY <1>3, EscalateShape, NoEvents, EscalateTold DEF Inductive
<1>4. ASSUME EscalationFails(<<>>) \/ Raise PROVE Told
  BY <1>4, NoEvents, FailuresTold DEF Inductive
<1> QED
  BY <1>1, <1>2, <1>3, <1>4 DEF AskPlanner

LEMMA TaskStartTold ==
  ASSUME Inductive, TaskStart
  PROVE  Told
<1> DEFINE s == <<Event("task_start", TRUE)>>
<1>1. /\ s \in Seq(EventType) /\ Plain(s, 1) /\ Plain(s, 2)
      /\ \A ok : ~Ends(s, ok)
      /\ Append(log, Event("task_start", TRUE)) = log \o s
  BY OneEvent, EventIsTyped, AppendIsConcat
  DEF EventKind, Inductive, TypeOK, OutcomeType
<1> HIDE DEF s
<1>2. ASSUME log' = Append(log, Event("task_start", TRUE)), pc' = "plan",
             UNCHANGED <<task, local, reason>>
      PROVE  Told
  <2>1. Calm
    BY <1>2 DEF TaskStart, Calm, task, local
  <2> QED
    BY <1>1, <1>2, <2>1, QuietTold
<1> QED
  BY <1>1, <1>2, FailuresTold DEF TaskStart, s

LEMMA FinishRunTold ==
  ASSUME Inductive, FinishRun
  PROVE  Told
<1> DEFINE s == <<Event("task_end", TRUE)>>
<1>1. /\ s \in Seq(EventType) /\ Plain(s, 1) /\ Plain(s, 2)
      /\ \A ok : Ends(s, ok) <=> ok = TRUE
      /\ Append(log, Event("task_end", TRUE)) = log \o s
  BY OneEvent, EventIsTyped, AppendIsConcat
  DEF EventKind, Inductive, TypeOK, OutcomeType
<1> HIDE DEF s
<1>2. ASSUME log' = Append(log, Event("task_end", TRUE)), pc' = "done",
             UNCHANGED <<task, local, reason>>
      PROVE  Told
  <2>1. Calm /\ pc = "loop"
    BY <1>2 DEF FinishRun, Calm, task, local
  <2>2. \A ok \in BOOLEAN : Ends(s, ok) <=> Ending(ok)
    BY <1>1, <1>2, <2>1 DEF Ending
  <2> QED
    BY <1>1, <1>2, <2>1, <2>2 DEF Told, Tale
<1> QED
  BY <1>1, <1>2, FailuresTold DEF FinishRun, s

LEMMA BeginStepTold ==
  ASSUME Inductive, BeginStep
  PROVE  Told
<1> DEFINE e == Event("snapshot", TRUE)
<1>1. /\ <<e>> \in Seq(EventType) /\ Plain(<<e>>, 1) /\ Plain(<<e>>, 2)
      /\ \A ok : ~Ends(<<e>>, ok)
      /\ Append(log, e) = log \o <<e>>
  BY OneEvent, EventIsTyped, AppendIsConcat
  DEF EventKind, Inductive, TypeOK, OutcomeType
<1> HIDE DEF e
<1>2. ASSUME pc' \in {"confirm", "execute"}, log' = log \/ log' = Append(log, e)
      PROVE  Told
  <2>1. Calm
    BY BeginShape DEF Inductive
  <2>2. log = log \o <<>>
    BY NoEvents DEF Inductive, TypeOK, OutcomeType
  <2>3. CASE log' = log
    BY <1>2, <2>1, <2>2, <2>3, NoEvents, QuietTold
  <2>4. CASE log' = Append(log, e)
    BY <1>1, <1>2, <2>1, <2>4, QuietTold
  <2> QED
    BY <1>2, <2>3, <2>4
<1> QED
  BY <1>1, <1>2, FailuresTold DEF BeginStep, e

LEMMA MaybeConfirmTold ==
  ASSUME Inductive, MaybeConfirm
  PROVE  Told
<1>1. PICK answer \in Answers :
        LET said == <<Event("confirmation", Granted(answer))>> IN
        \/ /\ log' = log \o said
           /\ pc' = "execute"
        \/ /\ \/ Escalate("abort_requested", said) /\ UNCHANGED <<task, local>>
              \/ EscalationFails(said)
        \/ JournalFails(said)
  BY DEF MaybeConfirm
<1> DEFINE said == <<Event("confirmation", Granted(answer))>>
<1>2. /\ said \in Seq(EventType) /\ Plain(said, 1) /\ Plain(said, 2)
      /\ \A ok : ~Ends(said, ok)
  BY OneEvent DEF EventKind, Granted
<1> HIDE DEF said
<1>3. pc = "confirm" /\ Calm
  BY ConfirmShape DEF MaybeConfirm
<1>4. ASSUME log' = log \o said, pc' = "execute" PROVE Told
  BY <1>2, <1>3, <1>4, QuietTold
<1>5. ASSUME Escalate("abort_requested", said) PROVE Told
  BY <1>2, <1>3, <1>5, EscalateTold DEF Inductive
<1> QED
  BY <1>1, <1>2, <1>4, <1>5, FailuresTold DEF said

LEMMA ExecuteTold ==
  ASSUME Inductive, ExecuteAndVerify
  PROVE  Told
<1>1. /\ StepEvents(TRUE) \in Seq(EventType) /\ StepEvents(TRUE) # <<>>
      /\ StepEvents(TRUE)[1] = Event("step", TRUE)
      /\ Plain(StepEvents(TRUE), 2)
      /\ \A ok : ~Ends(StepEvents(TRUE), ok)
  BY OneEvent DEF StepEvents, EventKind
<1>2. pc = "execute" /\ TypeOK
  BY DEF ExecuteAndVerify, Inductive
<1>3. \/ pc' = "loop" /\ log' = log \o StepEvents(TRUE)
      \/ pc' = "repair" /\ log' = log
      \/ JournalFails(StepEvents(TRUE))
      \/ Raise
  BY DEF ExecuteAndVerify
<1>4. CASE pc' = "loop" /\ log' = log \o StepEvents(TRUE)
  <2>1. Passing
    BY <1>2, <1>4, ExecuteShape DEF Failing, Calm
  <2>2. \A ok \in BOOLEAN : Ends(StepEvents(TRUE), ok) <=> Ending(ok)
    BY <1>1, <1>4 DEF Ending
  <2> QED
    BY <1>1, <1>4, <2>1, <2>2 DEF Told, Tale
<1>5. CASE pc' = "repair" /\ log' = log
  <2>1. Failing
    BY <1>2, <1>5, ExecuteShape DEF Passing, Calm
  <2>2. log' = log \o <<>>
    BY <1>2, <1>5, NoEvents DEF TypeOK, OutcomeType
  <2> QED
    BY <1>5, <2>1, <2>2, NoEvents, QuietTold
<1> QED
  BY <1>1, <1>2, <1>3, <1>4, <1>5, FailuresTold

LEMMA RecoverTold ==
  ASSUME Inductive, Recover
  PROVE  Told
<1> DEFINE written == StepEvents(FALSE)
<1>1. PICK decision :
       \/ pc' \in {"loop", "replan"} /\ log' = log \o written
       \/ pc' = "loop" /\ log' = log \o written \o RewriteEvents(decision.step)
       \/ Escalate("abort_requested", written)
       \/ JournalFails(written)
       \/ JournalFails(written \o RewriteEvents(decision.step))
       \/ EscalationFails(written)
       \/ Raise
  BY DEF Recover, Rewrite
<1>2. /\ written \in Seq(EventType) /\ written # <<>>
      /\ written[1] = Event("step", FALSE)
      /\ Plain(written, 2) /\ \A ok : ~Ends(written, ok)
  BY OneEvent DEF StepEvents, EventKind
<1>3. /\ RewriteEvents(decision.step) \in Seq(EventType)
      /\ Plain(RewriteEvents(decision.step), 1)
      /\ \A ok : ~Ends(RewriteEvents(decision.step), ok)
  BY WarningsShape, NoEvents DEF RewriteEvents
<1> HIDE DEF written
<1>4. pc = "repair" /\ TypeOK /\ log \in Seq(EventType)
  BY DEF Recover, Inductive, TypeOK, OutcomeType
<1>5. pc' \in {"loop", "replan", "escalated"} => Recovering
  BY <1>4, RecoverShape DEF Calm
<1>6. ASSUME pc' \in {"loop", "replan"}, NEW s \in Seq(EventType),
             log' = log \o s, s # <<>>, s[1] = Event("step", FALSE),
             Plain(s, 2), \A ok : ~Ends(s, ok)
      PROVE  Told
  <2>1. \A ok \in BOOLEAN : Ends(s, ok) <=> Ending(ok)
    BY <1>6 DEF Ending
  <2> QED
    BY <1>5, <1>6, <2>1 DEF Told, Tale
<1>7. CASE pc' \in {"loop", "replan"} /\ log' = log \o written
  BY <1>2, <1>6, <1>7
<1>8. CASE pc' = "loop" /\ log' = log \o written \o RewriteEvents(decision.step)
  <2> DEFINE s == written \o RewriteEvents(decision.step)
  <2>1. s \in Seq(EventType) /\ s # <<>> /\ s[1] = Event("step", FALSE)
    BY <1>2, <1>3, HeadJoined, Joined
  <2>3. log' = log \o s
    BY <1>2, <1>3, <1>4, <1>8, ConcatAssociative
  <2>2. Plain(s, 2) /\ \A ok : ~Ends(s, ok)
    BY <1>2, <1>3, PlainJoined, EndsJoined
  <2> HIDE DEF s
  <2> QED
    BY <1>6, <1>8, <2>1, <2>2, <2>3
<1>9. ASSUME Escalate("abort_requested", written) PROVE Told
  <2>1. Recovering
    BY <1>5, <1>9 DEF Escalate
  <2> QED
    BY <1>2, <1>4, <1>9, <2>1, EscalateTold
<1>10. written \o RewriteEvents(decision.step) \in Seq(EventType)
  BY <1>2, <1>3, Joined
<1> QED
  BY <1>1, <1>2, <1>4, <1>7, <1>8, <1>9, <1>10, FailuresTold

LEMMA StepTold ==
  ASSUME Inductive, [Next]_vars
  PROVE  Told
<1>1. CASE TaskStart \/ FinishRun \/ BeginStep \/ MaybeConfirm
  BY <1>1, TaskStartTold, FinishRunTold, BeginStepTold, MaybeConfirmTold
<1>2. CASE CreatePlan \/ Replan
  BY <1>2, PlannerTold DEF CreatePlan, Replan
<1>3. CASE StopRun
  <2>1. pc = "loop" /\ TypeOK
    BY <1>3 DEF StopRun, Inductive
  <2>2. ASSUME Escalate(ShouldEscalate, <<>>), UNCHANGED <<task, local>>
        PROVE  Told
    BY <2>1, <2>2, EscalateShape, NoEvents, EscalateTold
  <2> QED
    BY <1>3, <2>2, NoEvents, FailuresTold DEF StopRun
<1>4. CASE ExecuteAndVerify \/ Recover
  BY <1>4, ExecuteTold, RecoverTold
<1>5. CASE Interrupt
  BY <1>5, FailuresTold DEF Interrupt, Inductive
<1>6. CASE Tick \/ SetBack \/ UNCHANGED vars
  <2>1. Calm /\ log' = log /\ pc' = pc
    BY <1>6 DEF Tick, SetBack, vars, task, local, Calm
  <2>2. log' = log \o <<>>
    BY <2>1, NoEvents DEF Inductive, TypeOK, OutcomeType
  <2> QED
    BY <2>1, <2>2, NoEvents, QuietTold
<1> QED
  BY <1>1, <1>2, <1>3, <1>4, <1>5, <1>6 DEF Next, Proceed

-----------------------------------------------------------------------------
(* The log alone tells how far the run is *)

Recounted ==
  pc # "raised" =>
    /\ Cardinality(Steps(log)) = Len(history)
    /\ Cardinality(Verified(log)) = current
    /\ \A ok \in BOOLEAN :
         Ends(log, ok) <=> pc = IF ok THEN "done" ELSE "escalated"

LEMMA StepsAreFinite ==
  ASSUME NEW l \in Seq(EventType)
  PROVE  /\ IsFiniteSet(Steps(l)) /\ Cardinality(Steps(l)) \in Nat
         /\ IsFiniteSet(Verified(l)) /\ Cardinality(Verified(l)) \in Nat
<1>1. IsFiniteSet(1..Len(l)) /\ DOMAIN l = 1..Len(l)
  BY FS_Interval, LenProperties
<1>2. Steps(l) \subseteq 1..Len(l) /\ Verified(l) \subseteq 1..Len(l)
  BY <1>1 DEF Steps, Verified
<1> QED
  BY <1>1, <1>2, FS_Subset, FS_CardinalityType

\* A verified step counts twice, a failed one once.
LEMMA StepCounted ==
  ASSUME NEW l \in Seq(EventType), NEW s \in Seq(EventType), Plain(s, 2),
         NEW ok \in BOOLEAN, s # <<>>, s[1] = Event("step", ok)
  PROVE  /\ Cardinality(Steps(l \o s)) = Cardinality(Steps(l)) + 1
         /\ Cardinality(Verified(l \o s)) =
              IF ok THEN Cardinality(Verified(l)) + 1 ELSE Cardinality(Verified(l))
<1>1. /\ Steps(l \o s) = Steps(l) \cup {Len(l) + 1}
      /\ Verified(l \o s) =
           IF ok THEN Verified(l) \cup {Len(l) + 1} ELSE Verified(l)
      /\ Len(l) + 1 \notin Steps(l)
  BY StepCounts
<1>2. Len(l) + 1 \notin Verified(l)
  BY <1>1 DEF Verified
<1>3. Cardinality(Steps(l) \cup {Len(l) + 1}) = Cardinality(Steps(l)) + 1
  BY <1>1, StepsAreFinite, FS_AddElement
<1>4. Cardinality(Verified(l) \cup {Len(l) + 1}) = Cardinality(Verified(l)) + 1
  BY <1>2, StepsAreFinite, FS_AddElement
<1> QED
  BY <1>1, <1>3, <1>4

LEMMA EndsRecounted ==
  ASSUME Inductive, Recounted, [Next]_vars, pc' # "raised",
         NEW s \in Seq(EventType), Tale(s), NEW ok \in BOOLEAN
  PROVE  Ends(log', ok) <=> pc' = IF ok THEN "done" ELSE "escalated"
<1>1. pc # "raised"
  BY Shapes DEF Calm, Adopting, Passing, Failing, Recovering
<1>2. Ends(log', ok) <=> Ends(log, ok) \/ Ending(ok)
  <2>1. log \in Seq(EventType) /\ log' = log \o s
    BY DEF Inductive, TypeOK, OutcomeType, Tale
  <2>2. Ends(log \o s, ok) <=> Ends(log, ok) \/ Ends(s, ok)
    BY <2>1, EndsJoined
  <2> QED
    BY <2>1, <2>2 DEF Tale
<1>3. Ends(log, ok) <=> pc = IF ok THEN "done" ELSE "escalated"
  BY <1>1 DEF Recounted
<1>4. pc \in {"done", "escalated"} => pc' = pc
  BY Shapes DEF Calm, Adopting, Passing, Failing, Recovering
<1> QED
  BY <1>2, <1>3, <1>4 DEF Ending

LEMMA RecountedStep ==
  ASSUME Inductive, Recounted, [Next]_vars
  PROVE  Recounted'
<1> SUFFICES ASSUME pc' # "raised" PROVE Recounted'
  BY DEF Recounted
<1>1. PICK s \in Seq(EventType) : Tale(s)
  BY StepTold DEF Told
<1>2. \A ok \in BOOLEAN : Ends(log', ok) <=> pc' = IF ok THEN "done" ELSE "escalated"
  BY <1>1, EndsRecounted
<1>3. /\ log \in Seq(EventType) /\ log' = log \o s /\ Plain(s, 2)
      /\ TypeOK /\ Len(history) \in Nat
  BY <1>1, LenProperties DEF Inductive, TypeOK, OutcomeType, TaskType, Tale
<1>4. /\ Cardinality(Steps(log)) = Len(history)
      /\ Cardinality(Verified(log)) = current
  BY Shapes DEF Calm, Adopting, Passing, Failing, Recovering, Recounted
<1>5. ASSUME Cardinality(Steps(log')) = Len(history'),
             Cardinality(Verified(log')) = current'
      PROVE  Recounted'
  BY <1>2, <1>5 DEF Recounted
<1>6. CASE (Calm \/ Failing) /\ Plain(s, 1)
  <2>1. history' = history /\ current' = current
    BY <1>6 DEF Calm, Failing
  <2>2. Steps(log') = Steps(log) /\ Verified(log') = Verified(log)
    BY <1>3, <1>6, PlainKeeps
  <2> QED
    BY <1>4, <1>5, <2>1, <2>2
<1>7. CASE Adopting /\ s # <<>> /\ s[1].event = "plan"
  <2>1. history' = history /\ current' = 0
    BY <1>7 DEF Adopting, AdoptPlan
  <2>2. Steps(log') = Steps(log) /\ Verified(log') = {}
    BY <1>3, <1>7, PlanResets
  <2> QED
    BY <1>4, <1>5, <2>1, <2>2, FS_EmptySet
<1>8. CASE Passing /\ s # <<>> /\ s[1] = Event("step", TRUE)
  <2>1. history' = Append(history, Outcome(TRUE)) /\ current' = current + 1
    BY <1>8 DEF Passing
  <2>2. Len(history') = Len(history) + 1
    BY <1>3, <2>1, HistoryGrows
  <2>3. /\ Cardinality(Steps(log')) = Cardinality(Steps(log)) + 1
        /\ Cardinality(Verified(log')) = Cardinality(Verified(log)) + 1
    BY <1>3, <1>8, StepCounted
  <2> QED
    BY <1>4, <1>5, <2>1, <2>2, <2>3
<1>9. CASE Recovering /\ s # <<>> /\ s[1] = Event("step", FALSE)
  <2>1. history' = Append(history, record) /\ current' = current
    BY <1>9 DEF Recovering
  <2>2. Len(history') = Len(history) + 1
    BY <1>3, <2>1, HistoryGrows
  <2>3. /\ Cardinality(Steps(log')) = Cardinality(Steps(log)) + 1
        /\ Cardinality(Verified(log')) = Cardinality(Verified(log))
    BY <1>3, <1>9, StepCounted
  <2> QED
    BY <1>4, <1>5, <2>1, <2>2, <2>3
<1> QED
  BY <1>1, <1>6, <1>7, <1>8, <1>9 DEF Tale

LEMMA InitRecounted == Init => Recounted
<1> SUFFICES ASSUME Init PROVE Recounted
  OBVIOUS
<1>1. Steps(<<>>) = {} /\ Verified(<<>>) = {} /\ \A ok : ~Ends(<<>>, ok)
  BY DEF Steps, Verified, Ends
<1> QED
  BY <1>1, FS_EmptySet DEF Init, Recounted

\* "Every event is logged ... so the run is replayable from disk"
\* (agent.py:6-7): unless an exception left run(), attempts, place and outcome
\* can be read from the log alone, whatever was retried, rewritten or replanned.
THEOREM LogReplays == Spec => []LogReplaysRun
<1>1. Inductive /\ Recounted /\ [Next]_vars => Recounted'
  BY RecountedStep
<1>2. Recounted => LogReplaysRun
  <2> SUFFICES ASSUME Recounted, pc # "raised"
               PROVE  /\ Cardinality(LoggedSteps) = Len(history)
                      /\ current = Cardinality({i \in LoggedSteps : log[i].ok /\ SinceLastPlan(i)})
                      /\ \A ok \in BOOLEAN :
                           (\E i \in DOMAIN log : log[i] = Event("task_end", ok))
                             <=> pc = IF ok THEN "done" ELSE "escalated"
    BY DEF LogReplaysRun
  <2>1. LoggedSteps = Steps(log)
    BY DEF LoggedSteps, Steps
  <2>2. {i \in LoggedSteps : log[i].ok /\ SinceLastPlan(i)} = Verified(log)
    BY <2>1 DEF SinceLastPlan, Verified
  <2> QED
    BY <2>1, <2>2 DEF Recounted, Ends
<1> QED
  BY <1>1, <1>2, InitRecounted, AlwaysInductive, PTL DEF Spec

-----------------------------------------------------------------------------
(* After an exception the log is at most one attempt behind *)

Lagging == \A i \in DOMAIN effects : effects[i].attempt <= Cardinality(Steps(log)) + 1

LEMMA LogGrows ==
  ASSUME Inductive, [Next]_vars
  PROVE  /\ Cardinality(Steps(log)) \in Nat /\ Cardinality(Steps(log')) \in Nat
         /\ Cardinality(Steps(log)) <= Cardinality(Steps(log'))
<1>1. PICK s \in Seq(EventType) : log' = log \o s
  BY StepTold DEF Told
<1>2. log \in Seq(EventType)
  BY DEF Inductive, TypeOK, OutcomeType
<1>3. log \o s \in Seq(EventType) /\ Steps(log) \subseteq Steps(log \o s)
  BY <1>2, Joined DEF Steps
<1> QED
  BY <1>1, <1>2, <1>3, StepsAreFinite, FS_Subset

LEMMA EffectsTyped ==
  ASSUME TypeOK
  PROVE  /\ effects \in Seq(Run) /\ Len(effects) \in Nat
         /\ DOMAIN effects = 1..Len(effects)
         /\ \A i \in DOMAIN effects : effects[i].attempt \in Nat
<1>1. effects \in Seq(Run)
  BY DEF TypeOK, WorldType
<1>2. \A i \in 1..Len(effects) : effects[i] \in Run
  BY <1>1, ElementOfSeq
<1>3. \A r \in Run : r.attempt \in Nat
  BY BudgetAssumption DEF Run
<1> QED
  BY <1>1, <1>2, <1>3, LenProperties

\* While run() goes on every attempt but the one in hand is in the log.
LEMMA LagsWhileRunning ==
  ASSUME Inductive, Recounted, pc # "raised"
  PROVE  Lagging
<1>1. /\ Cardinality(Steps(log)) = Len(history) /\ Len(history) \in Nat
      /\ Spent <= Len(history) + 1 /\ Spent \in Nat
  BY SpentType DEF Recounted, Inductive, Spent
<1>2. \A i \in DOMAIN effects : effects[i].attempt \in Nat /\ effects[i].attempt <= Spent
  BY EffectsTyped DEF Inductive, Effects
<1> QED
  BY <1>1, <1>2 DEF Lagging

LEMMA LagsWhenRaised ==
  ASSUME Inductive, Recounted, Lagging, [Next]_vars, pc' = "raised"
  PROVE  Lagging'
<1>1. /\ Cardinality(Steps(log)) \in Nat /\ Cardinality(Steps(log')) \in Nat
      /\ Cardinality(Steps(log)) <= Cardinality(Steps(log'))
  BY LogGrows
<1>2. /\ effects \in Seq(Run) /\ Len(effects) \in Nat
      /\ DOMAIN effects = 1..Len(effects)
      /\ \A i \in DOMAIN effects : effects[i].attempt \in Nat
  BY EffectsTyped DEF Inductive
<1>3. CASE effects' = effects
  BY <1>1, <1>2, <1>3 DEF Lagging
<1>4. CASE Executing /\ effects' # effects
  <2> DEFINE deed == [attempt |-> Attempt, step |-> Here]
  <2>1. pc = "execute" /\ effects' = Append(effects, deed)
    BY <1>4 DEF Executing
  <2>2. deed.attempt = Len(history) + 1 /\ deed \in Run
    <3>1. Here \in Step /\ Attempt \in 1..MaxTotalAttempts
      BY <2>1, InsideStep, AttemptType DEF Inductive, Control
    <3> QED
      BY <3>1 DEF Run, Attempt
  <2>3. Cardinality(Steps(log)) = Len(history)
    BY <2>1 DEF Recounted
  <2> HIDE DEF deed
  <2>4. /\ DOMAIN effects' = 1..(Len(effects) + 1)
        /\ \A i \in 1..Len(effects) : effects'[i] = effects[i]
        /\ effects'[Len(effects) + 1] = deed
    BY <1>2, <2>1, <2>2, AppendProperties, LenProperties
  <2>5. \A i \in 1..Len(effects) : effects'[i].attempt <= Cardinality(Steps(log')) + 1
    BY <1>1, <1>2, <2>4 DEF Lagging
  <2>6. effects'[Len(effects) + 1].attempt <= Cardinality(Steps(log')) + 1
    BY <1>1, <2>2, <2>3, <2>4
  <2> QED
    BY <1>2, <2>4, <2>5, <2>6 DEF Lagging
<1> QED
  BY <1>3, <1>4, WorldShapes DEF Granting, Aside, world

\* Whatever exception leaves run(), and whatever the log could not take any
\* more: every effect but the newest has its step in the log.
THEOREM TrailLags == Spec => []TrailLagsByOne
<1>1. Init => Lagging
  BY DEF Init, Lagging
<1>2. Inductive /\ Recounted /\ [Next]_vars => Recounted'
  BY RecountedStep
<1>3. Inductive /\ Recounted /\ ~(pc = "raised") => Lagging
  BY LagsWhileRunning
<1>4. Inductive /\ Recounted /\ Lagging /\ [Next]_vars /\ (pc = "raised")'
        => Lagging'
  BY LagsWhenRaised
<1>5. Lagging => TrailLagsByOne
  <2>1. LoggedSteps = Steps(log)
    BY DEF LoggedSteps, Steps
  <2> QED
    BY <2>1 DEF Lagging, TrailLagsByOne
<1> QED
  BY <1>1, <1>2, <1>3, <1>4, <1>5, InitRecounted, AlwaysInductive, PTL DEF Spec

\* "Every event is logged" (agent.py:7-8): a run that run() returns from has
\* logged a step for all it did to the machine. An effect is missing from the log
\* only if an exception left run().
THEOREM ReturnedRunsAreLogged == Spec => []ReturnedRunIsLogged
<1>1. Inductive /\ Recounted /\ [Next]_vars => Recounted'
  BY RecountedStep
<1>2. Inductive /\ Recounted => ReturnedRunIsLogged
  <2> SUFFICES ASSUME Inductive, Recounted, pc \in {"done", "escalated"},
                      NEW i \in DOMAIN effects
               PROVE  effects[i].attempt <= Cardinality(LoggedSteps)
    BY DEF ReturnedRunIsLogged
  <2>1. Spent = Len(history)
    BY DEF Inductive, Control, TypeOK, TaskType, Spent
  <2>2. Cardinality(LoggedSteps) = Len(history)
    BY DEF Recounted, LoggedSteps, Steps
  <2> QED
    BY <2>1, <2>2 DEF Inductive, Effects
<1> QED
  BY <1>1, <1>2, InitRecounted, AlwaysInductive, PTL DEF Spec
=============================================================================
