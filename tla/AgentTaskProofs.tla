-------------------------- MODULE AgentTaskProofs --------------------------
(***************************************************************************)
(* What the bookkeeping of AgentLoop is worth: that "done" is earned, that *)
(* the tries of a step are capped, that the list of strategies is          *)
(* faithful, that an elevated command was announced, and that the wall     *)
(* clock is overrun by one attempt.  A step of the loop treats the plan,   *)
(* the history and the counters in one of five ways (Shapes); each         *)
(* invariant is preserved by each.                                         *)
(***************************************************************************)
EXTENDS AgentLoopProofs

\* Nothing is booked: the loop waits, moves on, or ends.
Calm ==
  /\ UNCHANGED <<plan, current, attempts, history, strategies, warned,
                 adoptions, record>>
  /\ \/ pc' = pc
     \/ pc' = "raised"
     \/ pc \in {"plan", "replan", "loop", "confirm"} /\ pc' \in {"done", "escalated"}
     \/ pc = "start" /\ pc' = "plan"
     \/ /\ pc = "loop" /\ pc' \in {"confirm", "execute"}
        /\ current < Len(plan)
        /\ elapsed < MaxWallTime
     \/ pc = "confirm" /\ pc' = "execute"

Adopting == pc \in {"plan", "replan"} /\ \E p \in Plans : AdoptPlan(p)

\* The record of the attempt the loop is making.
Outcome(success) ==
  [adoption |-> adoptions, at |-> current, step |-> Here, success |-> success,
   late |-> elapsed >= MaxWallTime]

Passing ==
  /\ pc = "execute" /\ pc' = "loop"
  /\ attempts' = [attempts EXCEPT ![current + 1] = @ + 1]
  /\ history' = Append(history, Outcome(TRUE))
  /\ current' = current + 1
  /\ UNCHANGED <<plan, strategies, warned, adoptions, record>>

Failing ==
  /\ pc = "execute" /\ pc' = "repair"
  /\ attempts' = [attempts EXCEPT ![current + 1] = @ + 1]
  /\ record' = Outcome(FALSE)
  /\ UNCHANGED <<plan, current, history, strategies, warned, adoptions>>

\* The plan is kept, or one step of it gets other arguments.
Rewriting(step) ==
  /\ step.action = Here.action
  /\ plan' = [plan EXCEPT ![current + 1] = step]
  /\ warned' = warned \cup RiskySteps(<<step>>)

Recovering ==
  /\ pc = "repair"
  /\ \/ pc' \in {"loop", "replan"} /\ attempts[current + 1] < MaxAttemptsPerStep
     \/ pc' = "escalated"
  /\ history' = Append(history, record)
  /\ record' = NoRecord
  /\ \/ UNCHANGED <<plan, warned>>
     \/ \E step \in Step : Rewriting(step)
  /\ UNCHANGED <<current, attempts, strategies, adoptions>>

-----------------------------------------------------------------------------
(* Every step has one of these shapes *)

LEMMA LeaveShape ==
  ASSUME NEW events, NEW last, Leave(events, last)
  PROVE  Calm /\ pc' = "raised"
  BY DEF Leave, Calm, task, local

LEMMA FailureShapes ==
  /\ \A events : JournalFails(events) => Calm /\ pc' = "raised"
  /\ \A before : EscalationFails(before) => Calm /\ pc' = "raised"
  /\ Raise => Calm /\ pc' = "raised"
<1>1. \A events : JournalFails(events) => Calm /\ pc' = "raised"
  BY LeaveShape DEF JournalFails
<1>2. \A before : EscalationFails(before) => Calm /\ pc' = "raised"
  BY LeaveShape DEF EscalationFails
<1>3. Raise => Calm /\ pc' = "raised"
  BY DEF Raise, Calm, task, local
<1> QED
  BY <1>1, <1>2, <1>3

LEMMA EscalateShape ==
  ASSUME pc \in {"plan", "replan", "loop", "confirm"},
         NEW why, NEW before, Escalate(why, before), UNCHANGED <<task, local>>
  PROVE  Calm /\ pc' = "escalated"
  BY DEF Escalate, Calm, task, local

LEMMA PlannerShape ==
  ASSUME pc \in {"plan", "replan"}, AskPlanner
  PROVE  Adopting \/ Calm
  BY FailureShapes, EscalateShape DEF AskPlanner, Adopting

LEMMA BeginShape ==
  ASSUME TypeOK, BeginStep
  PROVE  Calm
<1>1. elapsed < MaxWallTime
  BY BudgetAssumption DEF BeginStep, ShouldEscalate, TypeOK, OutcomeType
<1>2. \A events : JournalFails(events) => Calm
  BY FailureShapes
<1>3. ASSUME pc' = IF NeedsConfirmation(Here) THEN "confirm" ELSE "execute",
             UNCHANGED <<plan, current, attempts, history, strategies, warned,
                         adoptions, local, reason>>
      PROVE  Calm
  BY <1>1, <1>3 DEF BeginStep, Calm, local
<1> QED
  BY <1>2, <1>3 DEF BeginStep

LEMMA ConfirmShape ==
  ASSUME MaybeConfirm
  PROVE  Calm
<1>1. ASSUME pc' = "execute", UNCHANGED <<task, record>> PROVE Calm
  BY <1>1 DEF MaybeConfirm, Calm, task
<1> QED
  BY <1>1, FailureShapes, EscalateShape DEF MaybeConfirm

LEMMA ExecuteShape ==
  ASSUME ExecuteAndVerify
  PROVE  Passing \/ Failing \/ Calm
<1> USE DEF Outcome
<1>1. pc = "execute"
  BY DEF ExecuteAndVerify
<1>2. PICK verdict :
        LET outcome == Outcome(verdict = "pass")
            written == StepEvents(TRUE)
        IN
        \/ /\ verdict = "pass"
           /\ attempts' = [attempts EXCEPT ![current + 1] = @ + 1]
           /\ history' = Append(history, outcome)
           /\ current' = current + 1
           /\ log' = log \o written
           /\ pc' = "loop"
           /\ token' = NoToken
           /\ UNCHANGED <<plan, strategies, snapshots, warned, adoptions,
                          record, reason>>
        \/ verdict = "pass" /\ JournalFails(written)
        \/ /\ verdict = "fail"
           /\ attempts' = [attempts EXCEPT ![current + 1] = @ + 1]
           /\ record' = outcome
           /\ token' = NoToken
           /\ pc' = "repair"
           /\ UNCHANGED <<plan, current, history, strategies, snapshots, warned,
                          adoptions, log, reason>>
        \/ Raise
  BY DEF ExecuteAndVerify
<1> HIDE DEF Outcome
<1>3. ASSUME JournalFails(StepEvents(TRUE)) \/ Raise PROVE Calm
  BY <1>3, FailureShapes
<1>4. CASE verdict = "pass"
  BY <1>1, <1>2, <1>3, <1>4 DEF Passing
<1>5. CASE verdict # "pass"
  <2>1. (verdict = "pass") = FALSE
    BY <1>5
  <2> QED
    BY <1>1, <1>2, <1>3, <1>5, <2>1 DEF Failing
<1> QED
  BY <1>4, <1>5

\* A decision other than abort is made while the step has tries left, and the
\* rewritten step has the action of the old one.
LEMMA DecisionShape ==
  ASSUME TypeOK, Here \in Step, current + 1 \in DOMAIN attempts,
         NEW decision \in Recoveries
  PROVE  /\ decision.strategy \in {"retry", "replan", "fix_input"}
              => attempts[current + 1] < MaxAttemptsPerStep
         /\ decision.strategy = "fix_input" => decision.step.action = Here.action
<1>0. PICK reply \in RepliesTo("diagnoser") : \E strategy \in DiagnoserOutcomes(reply) :
        decision \in IF strategy = "raises" THEN {Decision("raises", NoStep)}
                     ELSE RepairDecisions(Here, attempts[current + 1], strategy)
  BY DEF Recoveries
<1>1. PICK strategy \in DiagnoserOutcomes(reply) :
        decision \in IF strategy = "raises" THEN {Decision("raises", NoStep)}
                     ELSE RepairDecisions(Here, attempts[current + 1], strategy)
  BY <1>0
<1>2. attempts[current + 1] \in Nat /\ MaxAttemptsPerStep \in Nat
  BY BudgetAssumption, ElementOfSeq, LenProperties DEF TypeOK, TaskType
<1>3. CASE strategy = "raises"
  BY <1>1, <1>3 DEF Decision
<1>4. CASE strategy # "raises" /\ attempts[current + 1] >= MaxAttemptsPerStep
  BY <1>1, <1>4 DEF RepairDecisions, Decision
<1>5. CASE strategy # "raises" /\ ~(attempts[current + 1] >= MaxAttemptsPerStep)
  <2>1. attempts[current + 1] < MaxAttemptsPerStep
    BY <1>2, <1>5
  <2>2. CASE strategy = "fix_input"
    <3>1. decision \in FixInput(Here)
      BY <1>1, <1>5, <2>2 DEF RepairDecisions
    <3>2. CASE decision \in {Decision("fix_input", [Here EXCEPT !.args = a]) :
                               a \in IF "valid" \in RepliesTo("input_repair") THEN Args ELSE {}}
      BY <2>1, <3>2 DEF Decision, Step
    <3>3. CASE decision \in {Decision(RepairerOutcome(r), NoStep) :
                               r \in RepliesTo("input_repair") \ {"valid"}}
      BY <2>1, <3>3 DEF Decision, RepairerOutcome
    <3> QED
      BY <3>1, <3>2, <3>3 DEF FixInput
  <2>3. CASE strategy # "fix_input"
    BY <1>1, <1>5, <2>1, <2>3 DEF RepairDecisions, Decision
  <2> QED
    BY <2>2, <2>3
<1> QED
  BY <1>3, <1>4, <1>5

LEMMA RecoverShape ==
  ASSUME Inductive, Recover
  PROVE  Recovering \/ Calm
<1> DEFINE written == StepEvents(FALSE)
<1>1. PICK decision \in Recoveries :
       \/ decision.strategy = "raises" /\ Raise
       \/ /\ decision.strategy # "raises"
          /\ history' = Append(history, record)
          /\ record' = NoRecord
          /\ \/ /\ decision.strategy = "retry"
                /\ log' = log \o written
                /\ pc' = "loop"
                /\ UNCHANGED <<plan, warned, reason>>
             \/ /\ decision.strategy = "fix_input"
                /\ Rewrite(decision.step, written)
             \/ /\ decision.strategy = "replan"
                /\ log' = log \o written
                /\ pc' = "replan"
                /\ UNCHANGED <<plan, warned, reason>>
             \/ /\ decision.strategy = "abort"
                /\ Escalate("abort_requested", written)
                /\ UNCHANGED <<plan, warned>>
          /\ UNCHANGED <<current, attempts, strategies, snapshots, adoptions,
                         token>>
       \/ /\ decision.strategy \in {"retry", "replan"}
          /\ JournalFails(written)
       \/ /\ decision.strategy = "fix_input"
          /\ JournalFails(written \o RewriteEvents(decision.step))
       \/ /\ decision.strategy = "abort"
          /\ EscalationFails(written)
  BY DEF Recover
<1> HIDE DEF written
<1>2. pc = "repair"
  BY DEF Recover
<1>3. Here \in Step /\ current + 1 \in DOMAIN attempts
  BY <1>2, HereType DEF Inductive, Control
<1>4. /\ decision.strategy \in {"retry", "replan", "fix_input"}
           => attempts[current + 1] < MaxAttemptsPerStep
      /\ decision.strategy = "fix_input"
           => decision.step \in Step /\ decision.step.action = Here.action
  BY <1>3, DecisionShape, RecoveryType DEF Inductive
<1>5. ASSUME decision.strategy = "fix_input", Rewrite(decision.step, written)
      PROVE  pc' = "loop" /\ \E step \in Step : Rewriting(step)
  BY <1>4, <1>5 DEF Rewrite, Rewriting
<1>6. ASSUME Escalate("abort_requested", written) PROVE pc' = "escalated"
  BY <1>6 DEF Escalate
<1> QED
  BY <1>1, <1>2, <1>4, <1>5, <1>6, FailureShapes DEF Recovering

LEMMA Shapes ==
  ASSUME Inductive, [Next]_vars
  PROVE  Calm \/ Adopting \/ Passing \/ Failing \/ Recovering
<1>1. CASE TaskStart
  <2>1. ASSUME pc' = "plan", UNCHANGED <<task, local>> PROVE Calm
    BY <1>1, <2>1 DEF TaskStart, Calm, task, local
  <2> QED
    BY <1>1, <2>1, FailureShapes DEF TaskStart
<1>2. CASE CreatePlan \/ Replan
  BY <1>2, PlannerShape DEF CreatePlan, Replan
<1>3. CASE FinishRun
  <2>1. ASSUME pc' = "done", UNCHANGED <<task, local>> PROVE Calm
    BY <1>3, <2>1 DEF FinishRun, Calm, task, local
  <2> QED
    BY <1>3, <2>1, FailureShapes DEF FinishRun
<1>4. CASE StopRun
  BY <1>4, FailureShapes, EscalateShape DEF StopRun
<1>5. CASE BeginStep
  BY <1>5, BeginShape DEF Inductive
<1>6. CASE MaybeConfirm
  BY <1>6, ConfirmShape
<1>7. CASE ExecuteAndVerify
  BY <1>7, ExecuteShape
<1>8. CASE Recover
  BY <1>8, RecoverShape
<1>9. CASE Interrupt
  BY <1>9, FailureShapes DEF Interrupt
<1>10. CASE Tick \/ SetBack \/ UNCHANGED vars
  BY <1>10 DEF Tick, SetBack, vars, task, local, Calm
<1> QED
  BY <1>1, <1>2, <1>3, <1>4, <1>5, <1>6, <1>7, <1>8, <1>9, <1>10
  DEF Next, Proceed

-----------------------------------------------------------------------------
(* "done" is earned *)

LEMMA HistoryGrows ==
  ASSUME TypeOK, NEW r, history' = Append(history, r)
  PROVE  /\ Len(history) \in Nat
         /\ DOMAIN history = 1..Len(history)
         /\ DOMAIN history' = 1..(Len(history) + 1)
         /\ Len(history') = Len(history) + 1
         /\ \A k \in DOMAIN history : history'[k] = history[k]
         /\ history'[Len(history) + 1] = r
<1>1. history \in Seq(Record \cup {r}) /\ r \in Record \cup {r}
  <2>1. history \in Seq(Record)
    BY DEF TypeOK, TaskType
  <2>2. \A k \in 1..Len(history) : history[k] \in Record \cup {r}
    BY <2>1, ElementOfSeq
  <2> QED
    BY <2>1, <2>2, LenProperties
<1> QED
  BY <1>1, AppendProperties, LenProperties

LEMMA InsideStep ==
  ASSUME Inductive, pc \in {"confirm", "execute", "repair"}
  PROVE  /\ current < Len(plan) /\ current \in Nat /\ Len(plan) \in Nat
         /\ current + 1 \in 1..Len(plan)
         /\ Here \in Step /\ Here = plan[current + 1]
         /\ attempts \in Seq(Nat)
         /\ DOMAIN attempts = 1..Len(plan) /\ DOMAIN plan = 1..Len(plan)
         /\ attempts[current + 1] \in Nat
         /\ plan \in Seq(Step)
<1>1. /\ plan \in Seq(Step) /\ attempts \in Seq(Nat) /\ Len(attempts) = Len(plan)
      /\ current \in 0..Len(plan) /\ Len(plan) \in Nat
      /\ current < Len(plan)
      /\ Here \in Step
  BY HereType, LenProperties DEF Inductive, TypeOK, TaskType, Control
<1> QED
  BY <1>1, LenProperties, ElementOfSeq DEF Here

LEMMA VerifiedPrefixStep ==
  ASSUME Inductive, VerifiedPrefix, [Next]_vars
  PROVE  VerifiedPrefix'
<1>1. CASE Calm
  BY <1>1 DEF Calm, VerifiedPrefix
<1>2. CASE Adopting
  BY <1>2 DEF Adopting, AdoptPlan, VerifiedPrefix
<1>3. CASE Failing
  BY <1>3 DEF Failing, VerifiedPrefix
<1>4. CASE Passing
  <2>1. history' = Append(history, Outcome(TRUE)) /\ current' = current + 1
        /\ plan' = plan /\ adoptions' = adoptions /\ pc = "execute"
    BY <1>4 DEF Passing
  <2>2. SUFFICES ASSUME NEW i \in 1..current'
                 PROVE  \E k \in DOMAIN history' :
                          /\ history'[k].adoption = adoptions'
                          /\ history'[k].at = i - 1
                          /\ history'[k].step = plan'[i]
                          /\ history'[k].success
    BY DEF VerifiedPrefix
  <2>3. /\ Len(history) \in Nat
        /\ DOMAIN history' = 1..(Len(history) + 1)
        /\ DOMAIN history = 1..Len(history)
        /\ \A k \in DOMAIN history : history'[k] = history[k]
        /\ history'[Len(history) + 1] = Outcome(TRUE)
    <3>1. TypeOK
      BY DEF Inductive
    <3> QED
      BY <2>1, <3>1, HistoryGrows
  <2>4. /\ current \in Nat /\ Here = plan[current + 1]
    BY <2>1, InsideStep
  <2>5. CASE i = current + 1
    <3>1. Len(history) + 1 \in DOMAIN history'
      BY <2>3
    <3>2. /\ Outcome(TRUE).adoption = adoptions
          /\ Outcome(TRUE).at = current
          /\ Outcome(TRUE).step = Here
          /\ Outcome(TRUE).success
      BY DEF Outcome
    <3>3. i - 1 = current /\ plan'[i] = Here
      BY <2>1, <2>4, <2>5
    <3> QED
      BY <2>1, <2>3, <3>1, <3>2, <3>3
  <2>6. CASE i # current + 1
    <3>1. i \in 1..current
      BY <2>1, <2>4, <2>6
    <3>2. PICK k \in DOMAIN history :
            /\ history[k].adoption = adoptions
            /\ history[k].at = i - 1
            /\ history[k].step = plan[i]
            /\ history[k].success
      BY <3>1 DEF VerifiedPrefix
    <3>3. k \in DOMAIN history' /\ history'[k] = history[k]
      BY <2>3
    <3> QED
      BY <2>1, <3>2, <3>3
  <2> QED
    BY <2>5, <2>6
<1>5. CASE Recovering
  <2>1. history' = Append(history, record) /\ current' = current
        /\ adoptions' = adoptions /\ pc = "repair"
    BY <1>5 DEF Recovering
  <2>2. \A i \in 1..current : plan'[i] = plan[i]
    <3>1. CASE UNCHANGED plan
      BY <3>1
    <3>2. CASE \E step \in Step : Rewriting(step)
      BY <2>1, <3>2, InsideStep DEF Rewriting
    <3> QED
      BY <1>5, <3>1, <3>2 DEF Recovering
  <2>3. \A k \in DOMAIN history : k \in DOMAIN history' /\ history'[k] = history[k]
    BY <2>1, HistoryGrows DEF Inductive
  <2> QED
    BY <2>1, <2>2, <2>3 DEF VerifiedPrefix
<1> QED
  BY <1>1, <1>2, <1>3, <1>4, <1>5, Shapes

\* For every plan and every sequence of replies: each step before current_step
\* has, since the current plan was adopted, a successful record with the
\* arguments it has now.  So "done" means that the whole plan was verified.
THEOREM VerifiedPrefixHolds == Spec => []VerifiedPrefix
<1>1. Init => VerifiedPrefix
  BY DEF Init, VerifiedPrefix
<1>2. Inductive /\ VerifiedPrefix /\ [Next]_vars => VerifiedPrefix'
  BY VerifiedPrefixStep
<1> QED
  BY <1>1, <1>2, AlwaysInductive, PTL DEF Spec

-----------------------------------------------------------------------------
(* The list of strategies *)

\* The running plan's shape is listed, and nothing is listed twice; the two
\* facts about lengths are what Append needs.
LEMMA FingerprintKept ==
  ASSUME Inductive, pc = "repair", NEW step \in Step, Rewriting(step)
  PROVE  Fingerprint(plan') = Fingerprint(plan) /\ plan # <<>>
<1>1. /\ plan' = [plan EXCEPT ![current + 1] = step]
      /\ DOMAIN plan = 1..Len(plan)
      /\ current + 1 \in DOMAIN plan
      /\ step.action = plan[current + 1].action
  BY InsideStep DEF Rewriting
<1>2. \A i \in DOMAIN plan : plan'[i].action = plan[i].action
  BY <1>1
<1> QED
  BY <1>1, <1>2 DEF Fingerprint

LEMMA StrategiesStep ==
  ASSUME Inductive, StrategiesFaithful, [Next]_vars
  PROVE  StrategiesFaithful'
<1>1. CASE Calm
  BY <1>1 DEF Calm, StrategiesFaithful
<1>2. CASE Adopting
  <2>1. PICK p \in Plans : AdoptPlan(p)
    BY <1>2 DEF Adopting
  <2>2. /\ plan' = p
        /\ strategies' = RecordStrategy(strategies, p)
        /\ adoptions' = adoptions + 1
    BY <2>1 DEF AdoptPlan
  <2>3. /\ strategies \in Seq(Seq(ACTION_ALLOWLIST))
        /\ Len(strategies) \in Nat /\ adoptions \in Nat
        /\ DOMAIN strategies = 1..Len(strategies)
        /\ Len(strategies) <= adoptions
    BY LenProperties DEF Inductive, TypeOK, TaskType, StrategiesFaithful
  <2>4. CASE Fingerprint(p) \in ToSet(strategies)
    BY <2>2, <2>3, <2>4 DEF RecordStrategy, StrategiesFaithful
  <2>5. CASE Fingerprint(p) \notin ToSet(strategies)
    <3>1. strategies' = Append(strategies, Fingerprint(p))
      BY <2>2, <2>5 DEF RecordStrategy
    <3>2. Fingerprint(p) \in Seq(ACTION_ALLOWLIST)
      <4>1. p \in Seq(Step)
        BY PlanIsTyped
      <4>2. \A i \in 1..Len(p) : p[i].action \in ACTION_ALLOWLIST
        BY <4>1, ElementOfSeq, StepAction
      <4> QED
        BY <4>1, <4>2, LenProperties DEF Fingerprint
    <3>3. /\ Len(strategies') = Len(strategies) + 1
          /\ DOMAIN strategies' = 1..(Len(strategies) + 1)
          /\ \A i \in 1..Len(strategies) : strategies'[i] = strategies[i]
          /\ strategies'[Len(strategies) + 1] = Fingerprint(p)
      BY <2>3, <3>1, <3>2, AppendProperties, LenProperties
    <3>4. \A i \in 1..Len(strategies) : strategies[i] # Fingerprint(p)
      BY <2>3, <2>5 DEF ToSet
    <3>5. Fingerprint(p) \in ToSet(strategies')
      BY <2>3, <3>3 DEF ToSet
    <3>6. \A i, j \in DOMAIN strategies' : strategies'[i] = strategies'[j] => i = j
      BY <2>3, <3>3, <3>4 DEF StrategiesFaithful
    <3> QED
      BY <2>2, <2>3, <3>3, <3>5, <3>6 DEF StrategiesFaithful
  <2> QED
    BY <2>4, <2>5
<1>3. CASE Failing
  BY <1>3 DEF Failing, StrategiesFaithful
<1>4. CASE Passing
  BY <1>4 DEF Passing, StrategiesFaithful
<1>5. CASE Recovering
  <2>1. UNCHANGED <<strategies, adoptions>> /\ pc = "repair"
    BY <1>5 DEF Recovering
  <2>2. CASE UNCHANGED plan
    BY <2>1, <2>2 DEF StrategiesFaithful
  <2>3. CASE \E step \in Step : Rewriting(step)
    BY <2>1, <2>3, FingerprintKept DEF StrategiesFaithful
  <2> QED
    BY <1>5, <2>1, <2>2, <2>3 DEF Recovering
<1> QED
  BY <1>1, <1>2, <1>3, <1>4, <1>5, Shapes

\* The shape of the running plan is always listed, also after fix_input has
\* rewritten its arguments; no shape is listed twice; and there are no more
\* shapes than adopted plans.
THEOREM StrategiesHold == Spec => []StrategiesFaithful
<1>1. Init => StrategiesFaithful
  BY DEF Init, StrategiesFaithful
<1>2. Inductive /\ StrategiesFaithful /\ [Next]_vars => StrategiesFaithful'
  BY StrategiesStep
<1> QED
  BY <1>1, <1>2, AlwaysInductive, PTL DEF Spec

\* A list in which nothing is listed twice repeats nothing at its end either.
LEMMA NoRepetition ==
  ASSUME Inductive, StrategiesFaithful
  PROVE  ~StrategyLoop(strategies)
<1>1. DOMAIN strategies = 1..Len(strategies) /\ Len(strategies) \in Nat
  BY LenProperties DEF Inductive, TypeOK, TaskType
<1> QED
  BY <1>1 DEF StrategyLoop, StrategiesFaithful

LEMMA ReasonStep ==
  ASSUME Inductive, StrategiesFaithful, reason # "strategy_loop", [Next]_vars
  PROVE  reason' # "strategy_loop"
<1>1. ShouldEscalate # "strategy_loop"
  BY NoRepetition DEF ShouldEscalate, IsStrategyQuarantined
<1>2. \A events, before : JournalFails(events) \/ EscalationFails(before) => reason' = reason
  BY DEF JournalFails, EscalationFails, Leave, Raise
<1>3. \A why, before : Escalate(why, before) => reason' = why
  BY DEF Escalate
<1>4. CASE TaskStart \/ FinishRun \/ StopRun
  BY <1>1, <1>2, <1>3, <1>4 DEF TaskStart, FinishRun, StopRun
<1>5. CASE CreatePlan \/ Replan
  BY <1>2, <1>3, <1>5 DEF CreatePlan, Replan, AskPlanner, AdoptPlan, Raise, Leave
<1>6. CASE BeginStep
  BY <1>2, <1>6 DEF BeginStep, Raise, Leave
<1>7. CASE MaybeConfirm
  BY <1>2, <1>3, <1>7 DEF MaybeConfirm, Raise, Leave
<1>8. CASE ExecuteAndVerify
  BY <1>2, <1>8 DEF ExecuteAndVerify, Raise, Leave
<1>9. CASE Recover
  BY <1>2, <1>3, <1>9 DEF Recover, Rewrite, Raise, Leave
<1>10. CASE Interrupt
  BY <1>2, <1>10 DEF Interrupt, Raise, Leave
<1>11. CASE Tick \/ SetBack \/ UNCHANGED vars
  BY <1>11 DEF Tick, SetBack, vars
<1> QED
  BY <1>4, <1>5, <1>6, <1>7, <1>8, <1>9, <1>10, <1>11 DEF Next, Proceed

\* "Planner emits the same shape twice" (escalation.py:8) never ends a run: for no
\* plans, replies and budgets is STRATEGY_LOOP the reason of an escalation, because
\* record_strategy keeps from the list what the detector looks for.
THEOREM LoopDetectorIsDead ==
  Spec => [](~StrategyLoop(strategies) /\ reason # "strategy_loop")
<1> DEFINE Other == reason # "strategy_loop"
<1>1. Init => Other
  BY DEF Init
<1>2. Inductive /\ StrategiesFaithful /\ Other /\ [Next]_vars => Other'
  BY ReasonStep
<1>3. Inductive /\ StrategiesFaithful => ~StrategyLoop(strategies)
  BY NoRepetition
<1> QED
  BY <1>1, <1>2, <1>3, AlwaysInductive, StrategiesHold, PTL DEF Spec

-----------------------------------------------------------------------------
(* Elevated commands *)

\* What plan_warnings has announced covers the plan, not only what has run.
Announced == RiskySteps(plan) \subseteq warned

LEMMA AnnouncedStep ==
  ASSUME Inductive, Announced, [Next]_vars
  PROVE  Announced' /\ warned \subseteq warned'
<1>1. CASE Calm
  BY <1>1 DEF Calm, Announced
<1>2. CASE Adopting
  BY <1>2 DEF Adopting, AdoptPlan, Announced
<1>3. CASE Failing \/ Passing
  BY <1>3 DEF Failing, Passing, Announced
<1>4. CASE Recovering
  <2>1. CASE UNCHANGED <<plan, warned>>
    BY <2>1 DEF Announced
  <2>2. ASSUME NEW step \in Step, Rewriting(step)
        PROVE  Announced' /\ warned \subseteq warned'
    <3>1. /\ plan' = [plan EXCEPT ![current + 1] = step]
          /\ warned' = warned \cup RiskySteps(<<step>>)
      BY <2>2 DEF Rewriting
    <3>2. ToSet(plan') \subseteq ToSet(plan) \cup {step}
      BY <3>1 DEF ToSet
    <3>3. step \in ToSet(<<step>>)
      BY DEF ToSet
    <3> QED
      BY <3>1, <3>2, <3>3 DEF Announced, RiskySteps
  <2> QED
    BY <1>4, <2>1, <2>2 DEF Recovering
<1> QED
  BY <1>1, <1>2, <1>3, <1>4, Shapes

\* Only the step at hand is ever run.
LEMMA DeedShape ==
  ASSUME Inductive, [Next]_vars
  PROVE  \/ effects' = effects
         \/ /\ pc = "execute"
            /\ effects' = Append(effects, [attempt |-> Attempt, step |-> Here])
<1>1. CASE TaskStart \/ CreatePlan \/ Replan \/ FinishRun \/ StopRun \/ BeginStep
           \/ Recover \/ Interrupt \/ Tick \/ SetBack
  BY <1>1 DEF TaskStart, CreatePlan, Replan, FinishRun, StopRun, BeginStep,
              Recover, Interrupt, Tick, SetBack, world
<1>2. CASE MaybeConfirm
  BY <1>2 DEF MaybeConfirm, world
<1>3. CASE ExecuteAndVerify
  BY <1>3 DEF ExecuteAndVerify
<1>4. CASE UNCHANGED vars
  BY <1>4 DEF vars, world
<1> QED
  BY <1>1, <1>2, <1>3, <1>4 DEF Next, Proceed

LEMMA DeedAppended ==
  ASSUME Inductive, pc = "execute",
         effects' = Append(effects, [attempt |-> Attempt, step |-> Here])
  PROVE  /\ Len(effects) \in Nat
         /\ DOMAIN effects = 1..Len(effects)
         /\ DOMAIN effects' = 1..(Len(effects) + 1)
         /\ \A i \in DOMAIN effects : effects'[i] = effects[i]
         /\ effects'[Len(effects) + 1] = [attempt |-> Attempt, step |-> Here]
<1>1. [attempt |-> Attempt, step |-> Here] \in Run
  BY AttemptType, HereType DEF Inductive, Control, Run
<1>2. effects \in Seq(Run)
  BY DEF Inductive, TypeOK, WorldType
<1> QED
  BY <1>1, <1>2, AppendProperties, LenProperties

LEMMA NoSilentElevationStep ==
  ASSUME Inductive, Announced, NoSilentElevation, [Next]_vars
  PROVE  NoSilentElevation'
<1>1. warned \subseteq warned'
  BY AnnouncedStep
<1>2. CASE effects' = effects
  BY <1>1, <1>2 DEF NoSilentElevation
<1>3. CASE /\ pc = "execute"
           /\ effects' = Append(effects, [attempt |-> Attempt, step |-> Here])
  <2>1. Risky(Here) => Here \in warned'
    <3>1. Here \in ToSet(plan)
      BY <1>3, InsideStep DEF ToSet
    <3> QED
      BY <1>1, <3>1 DEF Announced, RiskySteps
  <2>2. /\ DOMAIN effects' = 1..(Len(effects) + 1)
        /\ DOMAIN effects = 1..Len(effects) /\ Len(effects) \in Nat
        /\ \A i \in DOMAIN effects : effects'[i] = effects[i]
        /\ effects'[Len(effects) + 1].step = Here
    BY <1>3, DeedAppended
  <2>3. SUFFICES ASSUME NEW i \in DOMAIN effects', Risky(effects'[i].step)
                 PROVE  effects'[i].step \in warned'
    BY DEF NoSilentElevation
  <2>4. CASE i = Len(effects) + 1
    BY <2>1, <2>2, <2>3, <2>4
  <2>5. CASE i # Len(effects) + 1
    <3>1. i \in DOMAIN effects /\ effects'[i] = effects[i]
      BY <2>2, <2>5
    <3> QED
      BY <1>1, <2>3, <3>1 DEF NoSilentElevation
  <2> QED
    BY <2>4, <2>5
<1> QED
  BY <1>2, <1>3, DeedShape

\* No elevated shell command runs unannounced, whatever fix_input makes of the
\* arguments of a step.
THEOREM NoSilentElevationHolds == Spec => []NoSilentElevation
<1>1. Init => Announced /\ NoSilentElevation
  BY DEF Init, Announced, NoSilentElevation, RiskySteps, ToSet
<1>2. Inductive /\ Announced /\ NoSilentElevation /\ [Next]_vars
        => Announced' /\ NoSilentElevation'
  BY AnnouncedStep, NoSilentElevationStep
<1> QED
  BY <1>1, <1>2, AlwaysInductive, PTL DEF Spec

-----------------------------------------------------------------------------
(* The wall clock *)

\* A late record was made when time was up, and it is up since; so no step is
\* begun any more, and none is under way when the record is in the history.
Overrun ==
  /\ \A k \in DOMAIN history :
       history[k].late => k = Len(history) /\ elapsed >= MaxWallTime
  /\ pc = "repair" /\ record.late => elapsed >= MaxWallTime
  /\ pc \in {"confirm", "execute", "repair"}
       => \A k \in DOMAIN history : ~history[k].late

LEMMA ClockShape ==
  ASSUME Inductive, ~ClockSteps, [Next]_vars
  PROVE  elapsed' \in Nat /\ elapsed \in Nat /\ elapsed' >= elapsed
<1>1. elapsed \in Nat
  BY BudgetAssumption DEF Inductive, TypeOK, OutcomeType
<1>2. CASE TaskStart \/ CreatePlan \/ Replan \/ FinishRun \/ StopRun \/ BeginStep
           \/ Recover \/ Interrupt \/ MaybeConfirm \/ ExecuteAndVerify
  <2>1. elapsed' = elapsed
    BY <1>2, Zenon
    DEF TaskStart, CreatePlan, Replan, FinishRun, StopRun, BeginStep, Recover,
        Interrupt, MaybeConfirm, ExecuteAndVerify
  <2> QED
    BY <1>1, <2>1
<1>3. CASE Tick
  BY <1>1, <1>3 DEF Tick
<1>4. CASE SetBack
  BY <1>4 DEF SetBack
<1>5. CASE UNCHANGED vars
  BY <1>1, <1>5 DEF vars
<1> QED
  BY <1>2, <1>3, <1>4, <1>5 DEF Next, Proceed

LEMMA OverrunStep ==
  ASSUME Inductive, Overrun, ~ClockSteps, [Next]_vars
  PROVE  Overrun'
<1>0. /\ elapsed' \in Nat /\ elapsed \in Nat /\ elapsed' >= elapsed
      /\ MaxWallTime \in Nat /\ TypeOK
  BY ClockShape, BudgetAssumption DEF Inductive
<1>1. CASE Calm
  <2>1. UNCHANGED <<history, record>>
    BY <1>1 DEF Calm
  <2>2. pc' = "repair" => pc = "repair"
    BY <1>1 DEF Calm
  <2>3. pc' \in {"confirm", "execute", "repair"} =>
          pc \in {"confirm", "execute", "repair"} \/ elapsed < MaxWallTime
    BY <1>1 DEF Calm
  <2> QED
    BY <1>0, <2>1, <2>2, <2>3 DEF Overrun
<1>2. CASE Adopting
  BY <1>0, <1>2 DEF Adopting, AdoptPlan, Overrun
<1>3. CASE Failing
  <2>1. /\ record' = Outcome(FALSE) /\ history' = history
        /\ pc = "execute" /\ pc' = "repair"
    BY <1>3 DEF Failing
  <2>2. record'.late => elapsed >= MaxWallTime
    BY <2>1 DEF Outcome
  <2>3. elapsed >= MaxWallTime => elapsed' >= MaxWallTime
    BY <1>0
  <2> QED
    BY <2>1, <2>2, <2>3, Zenon DEF Overrun
<1>4. CASE Passing
  <2>1. /\ history' = Append(history, Outcome(TRUE))
        /\ pc = "execute" /\ pc' = "loop"
    BY <1>4 DEF Passing
  <2>2. /\ Len(history) \in Nat
        /\ DOMAIN history = 1..Len(history)
        /\ DOMAIN history' = 1..(Len(history) + 1)
        /\ Len(history') = Len(history) + 1
        /\ \A k \in DOMAIN history : history'[k] = history[k]
        /\ history'[Len(history) + 1] = Outcome(TRUE)
    BY <1>0, <2>1, HistoryGrows
  <2>3. Outcome(TRUE).late => elapsed >= MaxWallTime
    BY DEF Outcome
  <2>4. \A k \in 1..Len(history) : ~history'[k].late
    BY <2>1, <2>2 DEF Overrun
  <2>5. elapsed >= MaxWallTime => elapsed' >= MaxWallTime
    BY <1>0
  <2>6. \A k \in DOMAIN history' :
          history'[k].late => k = Len(history') /\ elapsed' >= MaxWallTime
    <3>1. SUFFICES ASSUME NEW k \in DOMAIN history', history'[k].late
                   PROVE  k = Len(history') /\ elapsed' >= MaxWallTime
      OBVIOUS
    <3>2. k = Len(history) + 1
      BY <2>2, <2>4, <3>1
    <3> QED
      BY <2>2, <2>3, <2>5, <3>1, <3>2
  <2> QED
    BY <2>1, <2>6 DEF Overrun
<1>5. CASE Recovering
  <2>1. /\ history' = Append(history, record)
        /\ pc = "repair" /\ pc' \in {"loop", "replan", "escalated"}
    BY <1>5 DEF Recovering
  <2>2. /\ Len(history) \in Nat
        /\ DOMAIN history = 1..Len(history)
        /\ DOMAIN history' = 1..(Len(history) + 1)
        /\ Len(history') = Len(history) + 1
        /\ \A k \in DOMAIN history : history'[k] = history[k]
        /\ history'[Len(history) + 1] = record
    BY <1>0, <2>1, HistoryGrows
  <2>3. record.late => elapsed >= MaxWallTime
    BY <2>1 DEF Overrun
  <2>4. \A k \in 1..Len(history) : ~history'[k].late
    BY <2>1, <2>2 DEF Overrun
  <2> QED
    BY <1>0, <2>1, <2>2, <2>3, <2>4 DEF Overrun
<1> QED
  BY <1>1, <1>2, <1>3, <1>4, <1>5, Shapes

\* If nobody sets the clock back, at most one attempt ends after the wall-clock
\* budget is spent, however long prompts, tools and replies take.
THEOREM OvershootHolds ==
  ASSUME ~ClockSteps
  PROVE  Spec => []OvershootAtMostOne
<1>1. Init => Overrun
  BY DEF Init, Overrun
<1>2. Inductive /\ Overrun /\ [Next]_vars => Overrun'
  BY OverrunStep
<1>3. Overrun => OvershootAtMostOne
  BY DEF Overrun, OvershootAtMostOne
<1> QED
  BY <1>1, <1>2, <1>3, AlwaysInductive, PTL DEF Spec

-----------------------------------------------------------------------------
(* The tries of a step *)

Cap == IF MaxAttemptsPerStep = 0 THEN 1 ELSE MaxAttemptsPerStep

\* The records of one step of one plan.
Tries(h, n, at) ==
  {k \in DOMAIN h : h[k].adoption = n /\ h[k].at = at}

\* step_attempts counts the records of the running plan, ahead of them by the
\* one still local; steps not reached have none; another try is begun below the
\* cap only.
TriesCounted ==
  /\ \A n, at \in Nat : Cardinality(Tries(history, n, at)) <= Cap
  /\ \A n, at \in Nat : n > adoptions => Tries(history, n, at) = {}
  /\ pc = "repair" => record.adoption = adoptions /\ record.at = current
  /\ ~Stopped =>
       /\ \A i \in DOMAIN attempts :
            /\ attempts[i] <= Cap
            /\ i > current + 1 => attempts[i] = 0
            /\ Cardinality(Tries(history, adoptions, i - 1))
                 = attempts[i] - IF pc = "repair" /\ i = current + 1 THEN 1 ELSE 0
       /\ pc \in {"loop", "confirm", "execute"} /\ current < Len(plan)
            => \/ attempts[current + 1] = 0
               \/ attempts[current + 1] < MaxAttemptsPerStep

LEMMA TriesType ==
  ASSUME TypeOK, NEW n, NEW at
  PROVE  IsFiniteSet(Tries(history, n, at)) /\ Cardinality(Tries(history, n, at)) \in Nat
<1>1. DOMAIN history = 1..Len(history) /\ Len(history) \in Nat
  BY LenProperties DEF TypeOK, TaskType
<1>2. IsFiniteSet(DOMAIN history)
  BY <1>1, FS_Interval
<1>3. Tries(history, n, at) \subseteq DOMAIN history
  BY DEF Tries
<1> QED
  BY <1>2, <1>3, FS_Subset, FS_CardinalityType

\* A record counts for its own step only.
LEMMA TriesGrow ==
  ASSUME TypeOK, NEW r, history' = Append(history, r), NEW n, NEW at
  PROVE  /\ r.adoption = n /\ r.at = at
              => Cardinality(Tries(history', n, at)) = Cardinality(Tries(history, n, at)) + 1
         /\ ~(r.adoption = n /\ r.at = at) => Tries(history', n, at) = Tries(history, n, at)
<1>1. /\ Len(history) \in Nat
      /\ DOMAIN history = 1..Len(history)
      /\ DOMAIN history' = 1..(Len(history) + 1)
      /\ \A k \in DOMAIN history : history'[k] = history[k]
      /\ history'[Len(history) + 1] = r
  BY HistoryGrows
<1>2. ASSUME r.adoption = n, r.at = at
      PROVE  Cardinality(Tries(history', n, at)) = Cardinality(Tries(history, n, at)) + 1
  <2>1. Tries(history', n, at) = Tries(history, n, at) \cup {Len(history) + 1}
    BY <1>1, <1>2 DEF Tries
  <2>2. Len(history) + 1 \notin Tries(history, n, at)
    BY <1>1 DEF Tries
  <2> QED
    BY <2>1, <2>2, TriesType, FS_AddElement
<1>3. ASSUME ~(r.adoption = n /\ r.at = at)
      PROVE  Tries(history', n, at) = Tries(history, n, at)
  BY <1>1, <1>3 DEF Tries
<1> QED
  BY <1>2, <1>3

LEMMA CountedType ==
  ASSUME TypeOK
  PROVE  /\ attempts \in Seq(Nat) /\ DOMAIN attempts = 1..Len(plan)
         /\ \A i \in DOMAIN attempts : attempts[i] \in Nat
         /\ Len(plan) \in Nat /\ current \in Nat /\ adoptions \in Nat
         /\ Cap \in Nat /\ MaxAttemptsPerStep \in Nat
         /\ MaxAttemptsPerStep <= Cap /\ 1 <= Cap
  BY LenProperties, ElementOfSeq, BudgetAssumption DEF TypeOK, TaskType, Cap

LEMMA CalmCounted ==
  ASSUME Inductive, TriesCounted, Calm
  PROVE  TriesCounted'
<1>1. UNCHANGED <<plan, current, attempts, history, adoptions, record>>
  BY DEF Calm
<1>2. /\ pc' = "repair" => pc = "repair"
      /\ ~Stopped' => ~Stopped /\ (pc' = "repair" <=> pc = "repair")
      /\ pc' \in {"loop", "confirm", "execute"} => pc \in {"loop", "confirm", "execute"}
  BY DEF Calm, Stopped
<1>3. \A n, at : Tries(history', n, at) = Tries(history, n, at)
  BY <1>1
<1> QED
  BY <1>1, <1>2, <1>3 DEF TriesCounted

LEMMA AdoptingCounted ==
  ASSUME Inductive, TriesCounted, Adopting, TypeOK'
  PROVE  TriesCounted'
<1>1. PICK p \in Plans : AdoptPlan(p)
  BY DEF Adopting
<1>2. /\ plan' = p /\ current' = 0 /\ adoptions' = adoptions + 1
      /\ attempts' = [i \in 1..Len(p) |-> 0]
      /\ history' = history /\ pc' = "loop"
  BY <1>1 DEF AdoptPlan
<1>3. \A n, at : Tries(history', n, at) = Tries(history, n, at)
  BY <1>2 DEF Tries
<1>4. p \in Seq(Step) /\ Len(p) \in Nat /\ adoptions \in Nat /\ Cap \in Nat
  BY PlanIsTyped, LenProperties, CountedType DEF Inductive
<1>5. \A i \in DOMAIN attempts' : Cardinality(Tries(history', adoptions', i - 1)) = 0
  <2>1. SUFFICES ASSUME NEW i \in DOMAIN attempts'
                 PROVE  Cardinality(Tries(history', adoptions', i - 1)) = 0
    OBVIOUS
  <2>2. i - 1 \in Nat /\ adoptions + 1 \in Nat
    BY <1>2, <1>4, <2>1
  <2>3. Tries(history, adoptions + 1, i - 1) = {}
    BY <1>4, <2>2 DEF TriesCounted
  <2>4. Tries(history', adoptions', i - 1) = {}
    BY <1>2, <2>3
  <2> QED
    BY <2>4, FS_EmptySet
<1>6. \A n, at \in Nat : n > adoptions' => Tries(history', n, at) = {}
  BY <1>2, <1>3, <1>4 DEF TriesCounted
<1>7. \A n, at \in Nat : Cardinality(Tries(history', n, at)) <= Cap
  BY <1>3 DEF TriesCounted
<1>8. current' < Len(plan') => attempts'[current' + 1] = 0
  BY <1>2, <1>4
<1> QED
  BY <1>2, <1>4, <1>5, <1>6, <1>7, <1>8 DEF TriesCounted

LEMMA FailingCounted ==
  ASSUME Inductive, TriesCounted, Failing
  PROVE  TriesCounted'
<1>1. /\ pc = "execute" /\ pc' = "repair"
      /\ attempts' = [attempts EXCEPT ![current + 1] = @ + 1]
      /\ record' = Outcome(FALSE)
      /\ UNCHANGED <<plan, current, history, adoptions>>
  BY DEF Failing
<1>2. \A n, at : Tries(history', n, at) = Tries(history, n, at)
  BY <1>1
<1>3. record'.adoption = adoptions /\ record'.at = current
  BY <1>1 DEF Outcome
<1>4. /\ current + 1 \in DOMAIN attempts
      /\ \A i \in DOMAIN attempts : attempts[i] \in Nat /\ i \in Int
      /\ current \in Nat /\ Cap \in Nat /\ MaxAttemptsPerStep \in Nat
      /\ MaxAttemptsPerStep <= Cap /\ 1 <= Cap
  BY <1>1, InsideStep, CountedType DEF Inductive
<1>5. attempts[current + 1] = 0 \/ attempts[current + 1] < MaxAttemptsPerStep
  BY <1>1, InsideStep DEF TriesCounted, Stopped
<1>6. \A i \in DOMAIN attempts' :
        /\ attempts'[i] <= Cap
        /\ i > current' + 1 => attempts'[i] = 0
        /\ Cardinality(Tries(history', adoptions, i - 1))
             = attempts'[i] - IF i = current' + 1 THEN 1 ELSE 0
  <2>1. SUFFICES ASSUME NEW i \in DOMAIN attempts'
                 PROVE  /\ attempts'[i] <= Cap
                        /\ i > current' + 1 => attempts'[i] = 0
                        /\ Cardinality(Tries(history', adoptions, i - 1))
                             = attempts'[i] - IF i = current' + 1 THEN 1 ELSE 0
    OBVIOUS
  <2>2. /\ i \in DOMAIN attempts
        /\ attempts[i] <= Cap
        /\ i > current + 1 => attempts[i] = 0
        /\ Cardinality(Tries(history, adoptions, i - 1)) = attempts[i]
    BY <1>1, <1>4, <2>1 DEF TriesCounted, Stopped
  <2> QED
    BY <1>1, <1>2, <1>4, <1>5, <2>2
<1> QED
  BY <1>1, <1>2, <1>3, <1>6 DEF TriesCounted

\* Passing and recovering append a record of this step, which must have had
\* fewer than the cap.
LEMMA RecordCounted ==
  ASSUME TypeOK, TriesCounted, NEW r, history' = Append(history, r),
         r.adoption = adoptions, r.at = current,
         Cardinality(Tries(history, adoptions, current)) < Cap
  PROVE  /\ \A n, at \in Nat : Cardinality(Tries(history', n, at)) <= Cap
         /\ \A n, at \in Nat : n > adoptions => Tries(history', n, at) = {}
         /\ \A i \in DOMAIN attempts :
              Cardinality(Tries(history', adoptions, i - 1)) =
                IF i = current + 1
                THEN Cardinality(Tries(history, adoptions, i - 1)) + 1
                ELSE Cardinality(Tries(history, adoptions, i - 1))
<1>1. \A n, at :
        /\ n = adoptions /\ at = current
             => Cardinality(Tries(history', n, at)) =
                  Cardinality(Tries(history, n, at)) + 1
        /\ ~(n = adoptions /\ at = current)
             => Tries(history', n, at) = Tries(history, n, at)
  BY TriesGrow
<1>2. /\ current \in Nat /\ adoptions \in Nat /\ Cap \in Nat /\ Len(plan) \in Nat
      /\ DOMAIN attempts = 1..Len(plan)
      /\ \A n, at : Cardinality(Tries(history, n, at)) \in Nat
  BY CountedType, TriesType
<1>3. ASSUME NEW n \in Nat, NEW at \in Nat
      PROVE  Cardinality(Tries(history', n, at)) <= Cap
  <2>1. Cardinality(Tries(history, n, at)) <= Cap
    BY DEF TriesCounted
  <2> QED
    BY <1>1, <1>2, <2>1
<1>4. ASSUME NEW n \in Nat, NEW at \in Nat, n > adoptions
      PROVE  Tries(history', n, at) = {}
  <2>1. Tries(history, n, at) = {}
    BY <1>4 DEF TriesCounted
  <2>2. n # adoptions
    BY <1>2, <1>4
  <2> QED
    BY <1>1, <2>1, <2>2
<1>5. ASSUME NEW i \in DOMAIN attempts
      PROVE  Cardinality(Tries(history', adoptions, i - 1)) =
               IF i = current + 1
               THEN Cardinality(Tries(history, adoptions, i - 1)) + 1
               ELSE Cardinality(Tries(history, adoptions, i - 1))
  <2>1. i = current + 1 <=> i - 1 = current
    BY <1>2, <1>5
  <2> QED
    BY <1>1, <2>1
<1> QED
  BY <1>3, <1>4, <1>5

LEMMA PassingCounted ==
  ASSUME Inductive, TriesCounted, Passing
  PROVE  TriesCounted'
<1>1. /\ pc = "execute" /\ pc' = "loop"
      /\ attempts' = [attempts EXCEPT ![current + 1] = @ + 1]
      /\ history' = Append(history, Outcome(TRUE))
      /\ current' = current + 1
      /\ plan' = plan /\ adoptions' = adoptions
  BY DEF Passing
<1>2. /\ current + 1 \in DOMAIN attempts /\ attempts \in Seq(Nat)
      /\ DOMAIN attempts = 1..Len(plan) /\ Len(plan) \in Nat
      /\ \A i \in DOMAIN attempts : attempts[i] \in Nat /\ i \in Int
      /\ current \in Nat /\ Cap \in Nat /\ MaxAttemptsPerStep \in Nat
      /\ adoptions \in Nat
      /\ MaxAttemptsPerStep <= Cap /\ 1 <= Cap
  BY <1>1, InsideStep, CountedType DEF Inductive
<1>3. attempts[current + 1] = 0 \/ attempts[current + 1] < MaxAttemptsPerStep
  BY <1>1, InsideStep DEF TriesCounted, Stopped
<1>4. \A i \in DOMAIN attempts :
        /\ attempts[i] <= Cap
        /\ i > current + 1 => attempts[i] = 0
        /\ Cardinality(Tries(history, adoptions, i - 1)) = attempts[i]
  BY <1>1, <1>2 DEF TriesCounted, Stopped
<1>5. Cardinality(Tries(history, adoptions, current)) < Cap
  <2>1. current + 1 - 1 = current
    BY <1>2
  <2>2. Cardinality(Tries(history, adoptions, current)) = attempts[current + 1]
    BY <1>2, <1>4, <2>1
  <2> QED
    BY <1>2, <1>3, <2>2
<1>6. /\ \A n, at \in Nat : Cardinality(Tries(history', n, at)) <= Cap
      /\ \A n, at \in Nat : n > adoptions => Tries(history', n, at) = {}
      /\ \A i \in DOMAIN attempts :
           Cardinality(Tries(history', adoptions, i - 1)) =
             IF i = current + 1
             THEN Cardinality(Tries(history, adoptions, i - 1)) + 1
             ELSE Cardinality(Tries(history, adoptions, i - 1))
  <2>1. Outcome(TRUE).adoption = adoptions /\ Outcome(TRUE).at = current
    BY DEF Outcome
  <2>2. TypeOK
    BY DEF Inductive
  <2> QED
    BY <1>1, <1>5, <2>1, <2>2, RecordCounted
<1>7. ASSUME NEW i \in DOMAIN attempts'
      PROVE  /\ attempts'[i] <= Cap
             /\ i > current' + 1 => attempts'[i] = 0
             /\ Cardinality(Tries(history', adoptions', i - 1)) = attempts'[i]
  <2>1. i \in DOMAIN attempts
    BY <1>1, <1>2
  <2>2. attempts'[i] = IF i = current + 1 THEN attempts[i] + 1 ELSE attempts[i]
    BY <1>1, <1>2, <2>1
  <2>3. attempts'[i] <= Cap
    BY <1>2, <1>3, <1>4, <2>1, <2>2
  <2>4. i > current' + 1 => attempts'[i] = 0
    BY <1>1, <1>2, <1>4, <2>1, <2>2
  <2>5. Cardinality(Tries(history', adoptions', i - 1)) = attempts'[i]
    BY <1>1, <1>4, <1>6, <2>1, <2>2
  <2> QED
    BY <2>3, <2>4, <2>5
<1>8. current' < Len(plan') => attempts'[current' + 1] = 0
  <2>1. ASSUME current' < Len(plan')
        PROVE  attempts'[current' + 1] = 0
    <3>1. current + 2 \in DOMAIN attempts /\ current + 2 > current + 1
      BY <1>1, <1>2, <2>1
    <3>2. attempts[current + 2] = 0
      BY <1>4, <3>1
    <3>3. current' + 1 = current + 2 /\ current + 2 # current + 1
      BY <1>1, <1>2
    <3> QED
      BY <1>1, <1>2, <3>1, <3>2, <3>3
  <2> QED
    BY <2>1
<1>9. \A i \in DOMAIN attempts' :
        Cardinality(Tries(history', adoptions', i - 1)) =
          attempts'[i] - IF pc' = "repair" /\ i = current' + 1 THEN 1 ELSE 0
  <2>1. SUFFICES ASSUME NEW i \in DOMAIN attempts'
                 PROVE  Cardinality(Tries(history', adoptions', i - 1)) =
                          attempts'[i] - 0
    BY <1>1
  <2>2. attempts'[i] \in Nat
    BY <1>1, <1>2
  <2> QED
    BY <1>7, <2>2
<1>10. \A n, at \in Nat : n > adoptions' => Tries(history', n, at) = {}
  BY <1>1, <1>6
<1>11. pc' # "repair"
  BY <1>1
<1> QED
  BY <1>6, <1>7, <1>8, <1>9, <1>10, <1>11 DEF TriesCounted

LEMMA RecoveringCounted ==
  ASSUME Inductive, TriesCounted, Recovering
  PROVE  TriesCounted'
<1>1. /\ pc = "repair"
      /\ \/ pc' \in {"loop", "replan"} /\ attempts[current + 1] < MaxAttemptsPerStep
         \/ pc' = "escalated"
      /\ history' = Append(history, record)
      /\ current' = current /\ attempts' = attempts /\ adoptions' = adoptions
  BY DEF Recovering
<1>2. /\ current + 1 \in DOMAIN attempts /\ attempts \in Seq(Nat)
      /\ \A i \in DOMAIN attempts : attempts[i] \in Nat /\ i \in Nat
      /\ current \in Nat /\ Cap \in Nat /\ adoptions \in Nat
  BY <1>1, InsideStep, CountedType DEF Inductive
<1>3. /\ record.adoption = adoptions /\ record.at = current
      /\ \A i \in DOMAIN attempts :
           /\ attempts[i] <= Cap
           /\ i > current + 1 => attempts[i] = 0
           /\ Cardinality(Tries(history, adoptions, i - 1))
                = attempts[i] - IF i = current + 1 THEN 1 ELSE 0
  BY <1>1 DEF TriesCounted, Stopped
<1>4. Cardinality(Tries(history, adoptions, current)) < Cap
  <2>1. current + 1 - 1 = current
    BY <1>2
  <2>2. Cardinality(Tries(history, adoptions, current)) = attempts[current + 1] - 1
    BY <1>2, <1>3, <2>1
  <2> QED
    BY <1>2, <1>3, <2>2
<1>5. /\ \A n, at \in Nat : Cardinality(Tries(history', n, at)) <= Cap
      /\ \A n, at \in Nat : n > adoptions => Tries(history', n, at) = {}
      /\ \A i \in DOMAIN attempts :
           Cardinality(Tries(history', adoptions, i - 1)) =
             IF i = current + 1
             THEN Cardinality(Tries(history, adoptions, i - 1)) + 1
             ELSE Cardinality(Tries(history, adoptions, i - 1))
  <2>1. TypeOK
    BY DEF Inductive
  <2> QED
    BY <1>1, <1>3, <1>4, <2>1, RecordCounted
<1>6. ASSUME NEW i \in DOMAIN attempts
      PROVE  Cardinality(Tries(history', adoptions', i - 1)) = attempts[i]
  <2>1. /\ attempts[i] \in Nat
        /\ Cardinality(Tries(history, adoptions, i - 1))
             = attempts[i] - IF i = current + 1 THEN 1 ELSE 0
    BY <1>2, <1>3
  <2> QED
    BY <1>1, <1>5, <2>1
<1>7. pc' # "repair" /\ (pc' \in {"loop", "confirm", "execute"}
                           => attempts'[current' + 1] < MaxAttemptsPerStep)
  BY <1>1
<1>8. \A i \in DOMAIN attempts' :
        /\ attempts'[i] <= Cap
        /\ i > current' + 1 => attempts'[i] = 0
        /\ Cardinality(Tries(history', adoptions', i - 1)) =
             attempts'[i] - IF pc' = "repair" /\ i = current' + 1 THEN 1 ELSE 0
  BY <1>1, <1>2, <1>3, <1>6, <1>7
<1>9. \A n, at \in Nat : n > adoptions' => Tries(history', n, at) = {}
  BY <1>1, <1>5
<1> QED
  BY <1>5, <1>7, <1>8, <1>9 DEF TriesCounted

LEMMA TriesCountedStep ==
  ASSUME Inductive, TriesCounted, [Next]_vars
  PROVE  TriesCounted'
<1>1. TypeOK'
  BY InductiveStep DEF Inductive
<1> QED
  BY <1>1, Shapes, CalmCounted, AdoptingCounted, FailingCounted, PassingCounted,
     RecoveringCounted

\* No step of any plan is tried more often than max_attempts_per_step (or once,
\* if that is 0), whatever the diagnoser says and however often it is rewritten.
THEOREM RetriesBounded == Spec => []StepRetriesBounded
<1>1. Init => TriesCounted
  <2> SUFFICES ASSUME Init PROVE TriesCounted
    OBVIOUS
  <2>1. \A n, at : Tries(history, n, at) = {}
    BY DEF Init, Tries
  <2>2. Cap \in Nat
    BY BudgetAssumption DEF Cap
  <2> QED
    BY <2>1, <2>2, FS_EmptySet DEF Init, TriesCounted
<1>2. Inductive /\ TriesCounted /\ [Next]_vars => TriesCounted'
  BY TriesCountedStep
<1>3. TriesCounted => StepRetriesBounded
  BY BudgetAssumption DEF TriesCounted, StepRetriesBounded, Tries, Cap
<1> QED
  BY <1>1, <1>2, <1>3, AlwaysInductive, PTL DEF Spec

-----------------------------------------------------------------------------
(* A run is finite *)

\* A step that is not the clock's goes to another place of run().
LEMMA Moves ==
  ASSUME Inductive, [Next]_vars
  PROVE  \/ UNCHANGED <<pc, task, local, world, log, reason>>
         \/ pc' # pc /\ Running
<1> USE DEF Running, Stopped
<1>1. ASSUME pc' = "raised", Running PROVE pc' # pc
  BY <1>1
<1>2. /\ \A events : JournalFails(events) => pc' = "raised"
      /\ \A before : EscalationFails(before) => pc' = "raised"
  BY FailureShapes
<1>3. Raise => pc' = "raised"
  BY DEF Raise
<1>4. \A why, before : Escalate(why, before) => pc' = "escalated"
  BY DEF Escalate
<1>5. CASE TaskStart \/ FinishRun \/ StopRun
  BY <1>2, <1>4, <1>5 DEF TaskStart, FinishRun, StopRun
<1>6. CASE CreatePlan \/ Replan
  BY <1>2, <1>3, <1>4, <1>6 DEF CreatePlan, Replan, AskPlanner, AdoptPlan
<1>7. CASE BeginStep
  BY <1>2, <1>7 DEF BeginStep
<1>8. CASE MaybeConfirm
  BY <1>2, <1>4, <1>8 DEF MaybeConfirm
<1>9. CASE ExecuteAndVerify
  <2>1. pc = "execute" /\ pc' \in {"loop", "repair", "raised"}
    BY <1>2, <1>3, <1>9 DEF ExecuteAndVerify
  <2> QED
    BY <2>1
<1>10. CASE Recover
  <2>1. pc = "repair" /\ pc' \in {"loop", "replan", "escalated", "raised"}
    BY <1>2, <1>3, <1>4, <1>10 DEF Recover, Rewrite
  <2> QED
    BY <2>1
<1>11. CASE Interrupt
  BY <1>3, <1>11 DEF Interrupt
<1>12. CASE Tick \/ SetBack \/ UNCHANGED vars
  BY <1>12 DEF Tick, SetBack, vars
<1> QED
  BY <1>5, <1>6, <1>7, <1>8, <1>9, <1>10, <1>11, <1>12 DEF Next, Proceed

Left == MaxTotalAttempts - Len(history)

LEMMA RankArithmetic ==
  ASSUME NEW a \in Nat, NEW b \in Nat, NEW s \in 0..7, NEW t \in 0..7,
         (b = a /\ t < s) \/ b = a - 1
  PROVE  8 * b + t \in 0..((8 * a + s) - 1)
OBVIOUS

LEMMA RankFalls ==
  ASSUME Inductive, Inductive', [Next]_vars, pc' # pc, Running
  PROVE  Rank' \in 0..(Rank - 1)
<1>1. /\ Len(history) \in Nat /\ Len(history)' \in Nat /\ MaxTotalAttempts \in Nat
      /\ Len(history) <= MaxTotalAttempts /\ Len(history)' <= MaxTotalAttempts
  BY BudgetAssumption, LenProperties DEF Inductive, TypeOK, TaskType
<1>2. /\ Stage \in 0..7 /\ Stage' \in 0..7
      /\ Rank = 8 * Left + Stage /\ Rank' = 8 * Left' + Stage'
  BY DEF Stage, Rank, Left
<1>3. Left \in Nat /\ Left' \in Nat
  BY <1>1 DEF Left
<1>4. \/ Left' = Left /\ Stage' < Stage
      \/ Left' = Left - 1
  <2>1. CASE Calm
    <3>1. Left' = Left
      BY <2>1 DEF Calm, Left
    <3>2. Stage' < Stage
      BY <2>1 DEF Calm, Stage, Running, Stopped, Inductive, TypeOK, OutcomeType
    <3> QED
      BY <3>1, <3>2
  <2>2. CASE Adopting
    BY <2>2 DEF Adopting, AdoptPlan, Stage, Left
  <2>3. CASE Failing
    BY <2>3 DEF Failing, Stage, Left
  <2>4. CASE Passing \/ Recovering
    <3>1. Len(history)' = Len(history) + 1
      BY <2>4, HistoryGrows DEF Passing, Recovering, Inductive
    <3> QED
      BY <1>1, <3>1 DEF Left
  <2> QED
    BY <2>1, <2>2, <2>3, <2>4, Shapes
<1> QED
  BY <1>2, <1>3, <1>4, RankArithmetic

\* A run has at most 8 * max_total_attempts + 7 steps of its own: whatever the
\* planner and the diagnoser answer, and however the clock is set, replans,
\* retries and rewritten steps use up a finite stock.
THEOREM RunIsFinite == Spec => StepsUseUpTheRun
<1>1. Inductive /\ Inductive' /\ [Next]_vars
        => [Rank' \in 0..(Rank - 1)]_<<pc, task, local, world, log, reason>>
  BY Moves, RankFalls
<1> QED
  BY <1>1, AlwaysInductive, PTL DEF Spec, StepsUseUpTheRun

-----------------------------------------------------------------------------
(* What "never raises" takes *)

\* No disk fault, no Ctrl-C, no data that the code's own calls do not take, and
\* no reply of the kinds that the role's parser lets through as an exception.
Orderly ==
  /\ ~Faults /\ ~OddData
  /\ RepliesTo("planner") \cap {"null", "parts", "unhashable"} = {}
  /\ RepliesTo("diagnoser") \cap {"null", "unhashable"} = {}
  /\ "null" \notin RepliesTo("verifier") \cup RepliesTo("input_repair")

LEMMA OrderlyRecovers ==
  ASSUME Orderly, NEW decision \in Recoveries
  PROVE  decision.strategy # "raises"
<1>1. PICK reply \in RepliesTo("diagnoser") : \E strategy \in DiagnoserOutcomes(reply) :
        decision \in IF strategy = "raises" THEN {Decision("raises", NoStep)}
                     ELSE RepairDecisions(Here, attempts[current + 1], strategy)
  BY DEF Recoveries
<1>2. DiagnoserOutcomes(reply) \subseteq FIX_STRATEGIES
  BY DEF Orderly, DiagnoserOutcomes, FIX_STRATEGIES
<1>3. PICK strategy \in FIX_STRATEGIES :
        decision \in RepairDecisions(Here, attempts[current + 1], strategy)
  BY <1>1, <1>2 DEF FIX_STRATEGIES
<1>4. ASSUME decision \in FixInput(Here) PROVE decision.strategy # "raises"
  <2>1. CASE decision \in {Decision("fix_input", [Here EXCEPT !.args = a]) :
                             a \in IF "valid" \in RepliesTo("input_repair") THEN Args ELSE {}}
    BY <2>1 DEF Decision
  <2>2. CASE decision \in {Decision(RepairerOutcome(r), NoStep) :
                             r \in RepliesTo("input_repair") \ {"valid"}}
    BY <2>2 DEF Decision, RepairerOutcome, Orderly
  <2> QED
    BY <1>4, <2>1, <2>2 DEF FixInput
<1> QED
  BY <1>3, <1>4 DEF RepairDecisions, Decision, FIX_STRATEGIES

LEMMA OrderlyVerdicts ==
  ASSUME Orderly, NEW action, NEW result
  PROVE  "raises" \notin Verdicts(action, result, RepliesTo("verifier"))
<1>1. "raises" \notin Semantic(RepliesTo("verifier"))
  BY DEF Semantic, SemanticOutcomes, Orderly
<1>2. Hard(action, result) # "raises" /\ "raises" \notin Observation(action)
  BY DEF Hard, Observation
<1> QED
  BY <1>1, <1>2 DEF Verdicts

LEMMA OrderlyStep ==
  ASSUME Orderly, NeverRaises, [Next]_vars
  PROVE  NeverRaises'
<1> USE DEF NeverRaises
<1>1. /\ ~Faults /\ ~OddData
      /\ \A events : ~JournalFails(events)
      /\ \A before : ~EscalationFails(before)
  BY DEF Orderly, JournalFails, EscalationFails, Leave
<1>2. \A why, before : Escalate(why, before) => pc' = "escalated"
  BY DEF Escalate
<1>3. CASE TaskStart \/ FinishRun \/ StopRun
  BY <1>1, <1>2, <1>3 DEF TaskStart, FinishRun, StopRun
<1>4. CASE CreatePlan \/ Replan
  <2>1. \A reply \in RepliesTo("planner") : PlannerOutcome(reply) # "raises"
    BY DEF Orderly, PlannerOutcome
  <2> QED
    BY <1>1, <1>2, <1>4, <2>1 DEF CreatePlan, Replan, AskPlanner, AdoptPlan
<1>5. CASE BeginStep
  BY <1>1, <1>5 DEF BeginStep
<1>6. CASE MaybeConfirm
  BY <1>1, <1>2, <1>6 DEF MaybeConfirm
<1>7. CASE ExecuteAndVerify
  BY <1>1, <1>7, OrderlyVerdicts DEF ExecuteAndVerify
<1>8. CASE Recover
  BY <1>1, <1>2, <1>8, OrderlyRecovers DEF Recover, Rewrite
<1>9. CASE Interrupt
  BY <1>1, <1>9 DEF Interrupt
<1>10. CASE Tick \/ SetBack \/ UNCHANGED vars
  BY <1>10 DEF Tick, SetBack, vars
<1> QED
  BY <1>3, <1>4, <1>5, <1>6, <1>7, <1>8, <1>9, <1>10 DEF Next, Proceed

\* "Contract: Agent.run() NEVER raises" (agent.py:10) is kept in a run in which
\* the disk works, nobody presses Ctrl-C, all paths, process names and arguments
\* are such that the code's own calls take them (see Leave), all contents are
\* text that json.loads can finish, and no enum field for planner or diagnoser
\* is other than a string. Nothing else is needed: plans, budgets, tools that
\* fail, users who deny, the clock, and LLMs that cannot be reached or answer
\* nonsense of any other kind never make run() raise.
THEOREM NeverRaisesIfOrderly ==
  ASSUME Orderly
  PROVE  Spec => []NeverRaises
<1>1. Init => NeverRaises
  BY DEF Init, NeverRaises
<1>2. NeverRaises /\ [Next]_vars => NeverRaises'
  BY OrderlyStep
<1> QED
  BY <1>1, <1>2, PTL DEF Spec

=============================================================================
