-------------------------- MODULE AgentLoopProofs --------------------------
(***************************************************************************)
(* Proofs about AgentLoop, for all plans, budgets, providers, replies and  *)
(* fault assumptions.  The types do not carry themselves: a record may be  *)
(* appended because the loop is inside a step, and an effect is approved   *)
(* because the token the loop holds is the one of this attempt.  Control,  *)
(* Consent and Effects say so; Inductive is preserved by every action.     *)
(***************************************************************************)
EXTENDS AgentLoop, SequenceTheorems, FiniteSetTheorems, TLAPS

\* Inside a step the plan has a step and the budget an attempt left.
Control ==
  /\ pc \in {"confirm", "execute", "repair"}
       => current < Len(plan) /\ Len(history) < MaxTotalAttempts
  /\ pc = "repair" => record \in Record
  /\ pc \notin {"repair", "raised"} => record = NoRecord

\* A token in the loop's hand was granted in this attempt for this step.
Consent ==
  /\ pc = "execute" /\ token # NoToken
       => token = Attempt /\ [attempt |-> Attempt, step |-> Here] \in approvals
  /\ pc \notin {"execute", "raised"} => token = NoToken

\* Effects were approved where they had to be, come in the order of their
\* attempts, and are never ahead of the attempts spent.
Effects ==
  /\ \A i \in DOMAIN effects :
       effects[i].step.action \in REQUIRES_CONFIRMATION
         => effects[i] \in approvals
  /\ \A i, j \in DOMAIN effects :
       i < j => effects[i].attempt < effects[j].attempt
  /\ Len(effects) <= MaxTotalAttempts
  /\ pc # "raised" =>
       /\ Len(effects) <= Spent
       /\ \A i \in DOMAIN effects : effects[i].attempt <= Spent

Inductive == TypeOK /\ Control /\ Consent /\ Effects

-----------------------------------------------------------------------------
(* Types of what the actions build *)

LEMMA PairIsSeq ==
  ASSUME NEW S, NEW a \in S, NEW b \in S
  PROVE  <<a, b>> \in Seq(S) /\ Len(<<a, b>>) = 2
  OBVIOUS

LEMMA StepAction ==
  \A step \in Step : step.action \in ACTION_ALLOWLIST
  BY DEF Step

LEMMA EventIsTyped ==
  \A kind \in EventKind, ok \in BOOLEAN : Event(kind, ok) \in EventType
  BY DEF Event, EventType

LEMMA WarningsType == \A n \in Nat : Warnings(n) \in Seq(EventType)
  BY DEF Warnings, Event, EventType, EventKind

LEMMA WarningCountType ==
  ASSUME NEW p \in Seq(Step)
  PROVE  WarningCount(p) \in Nat
<1>1. IsFiniteSet(1..Len(p))
  BY FS_Interval, LenProperties
<1>2. ASSUME NEW T, T \subseteq DOMAIN p PROVE Cardinality(T) \in Nat
  BY <1>1, <1>2, FS_Subset, FS_CardinalityType, LenProperties
<1> QED
  BY <1>2 DEF WarningCount

LEMMA AdoptEventsType ==
  ASSUME NEW p \in Seq(Step)
  PROVE  AdoptEvents(p) \in Seq(EventType)
<1>0. Event("plan", TRUE) \in EventType /\ Event("strategy", TRUE) \in EventType
  BY EventIsTyped DEF EventKind
<1>1. <<Event("plan", TRUE), Event("strategy", TRUE)>> \in Seq(EventType)
  BY <1>0, PairIsSeq
<1>2. Warnings(WarningCount(p)) \in Seq(EventType)
  BY WarningCountType, WarningsType
<1> QED
  BY <1>1, <1>2, ConcatProperties DEF AdoptEvents

LEMMA EscalationEventsType ==
  EscalationEvents \in Seq(EventType) /\ Len(EscalationEvents) = 2
<1>1. Event("escalation", TRUE) \in EventType /\ Event("task_end", FALSE) \in EventType
  BY EventIsTyped DEF EventKind
<1> QED
  BY <1>1, PairIsSeq DEF EscalationEvents

LEMMA SingletonIsSeq ==
  ASSUME NEW S, NEW a \in S
  PROVE  <<a>> \in Seq(S) /\ Len(<<a>>) = 1
  OBVIOUS

LEMMA StepEventsType ==
  \A ok \in BOOLEAN :
    StepEvents(ok) \in Seq(EventType) /\ Len(StepEvents(ok)) = 1
<1> SUFFICES ASSUME NEW ok \in BOOLEAN
             PROVE  StepEvents(ok) \in Seq(EventType) /\ Len(StepEvents(ok)) = 1
  OBVIOUS
<1>1. Event("step", ok) \in EventType
  BY EventIsTyped DEF EventKind
<1> QED
  BY <1>1, SingletonIsSeq DEF StepEvents

LEMMA RewriteEventsType ==
  \A step : RewriteEvents(step) \in Seq(EventType)
  BY WarningsType DEF RewriteEvents

\* Whatever prefix of typed events was written, the log stays typed.
LEMMA LeaveType ==
  ASSUME TypeOK, NEW events \in Seq(EventType), NEW last \in Int,
         last <= Len(events), Leave(events, last)
  PROVE  log' \in Seq(EventType) /\ pc' = "raised"
         /\ UNCHANGED <<task, local, reason>>
<1>1. PICK n \in 0..last : log' = log \o SubSeq(events, 1, n)
  BY DEF Leave
<1>2. SubSeq(events, 1, n) \in Seq(EventType)
  BY SubSeqProperties
<1> QED
  BY <1>1, <1>2, ConcatProperties DEF Leave, TypeOK, OutcomeType

\* A new plan comes with its steps, its strategy and its warnings.
LEMMA PlanIsTyped ==
  \A p \in Plans : p \in Seq(Step) /\ p # <<>>
  BY PlansAssumption

LEMMA StrategiesType ==
  ASSUME TypeOK, NEW p \in Seq(Step)
  PROVE  RecordStrategy(strategies, p) \in Seq(Seq(ACTION_ALLOWLIST))
<1>1. \A i \in 1..Len(p) : p[i].action \in ACTION_ALLOWLIST
  BY ElementOfSeq, StepAction
<1>2. Fingerprint(p) \in Seq(ACTION_ALLOWLIST)
  BY <1>1, LenProperties DEF Fingerprint
<1> QED
  BY <1>2, AppendProperties DEF RecordStrategy, TypeOK, TaskType

LEMMA RiskyStepsType == \A p \in Seq(Step) : RiskySteps(p) \subseteq Step
  BY ElementOfSeq, LenProperties DEF RiskySteps, ToSet

-----------------------------------------------------------------------------
(* Frames *)

LEMMA SpentType == TypeOK => Spent \in Nat /\ Len(history) \in Nat
  BY LenProperties DEF TypeOK, TaskType, Spent

\* Effects only looks at what was done, approved and spent.
LEMMA EffectsFrame ==
  ASSUME TypeOK, Effects, effects' = effects, approvals \subseteq approvals',
         pc # "raised",
         pc' # "raised" => Spent' \in Nat /\ Spent <= Spent'
  PROVE  Effects'
<1>1. /\ Len(effects) \in Nat
      /\ DOMAIN effects = 1..Len(effects)
      /\ \A i \in DOMAIN effects : effects[i] \in Run
  BY LenProperties, ElementOfSeq DEF TypeOK, WorldType
<1>2. \A i \in DOMAIN effects : effects[i].attempt \in Nat
  BY <1>1, BudgetAssumption DEF Run
<1>3. ASSUME pc' # "raised"
      PROVE  /\ Len(effects') <= Spent'
             /\ \A i \in DOMAIN effects' : effects'[i].attempt <= Spent'
  BY <1>1, <1>2, <1>3, SpentType DEF Effects
<1> QED
  BY <1>3 DEF Effects

\* An exception out of run() keeps the invariant.
LEMMA RaiseKeeps ==
  ASSUME Inductive, pc # "raised", pc' = "raised", log' \in Seq(EventType),
         UNCHANGED <<task, local, reason, world, elapsed>>
  PROVE  Inductive'
<1>1. TypeOK'
  BY DEF Inductive, TypeOK, TaskType, LocalType, WorldType, OutcomeType,
         Guard!TokensType, task, local, world
<1>2. Effects'
  BY EffectsFrame DEF Inductive, world
<1> QED
  BY <1>1, <1>2 DEF Inductive, Control, Consent

\* So does an append that fails, the events before it written.
LEMMA LeaveKeeps ==
  ASSUME Inductive, pc # "raised", UNCHANGED <<world, elapsed>>,
         NEW events \in Seq(EventType), NEW last \in Int, last <= Len(events),
         Leave(events, last)
  PROVE  Inductive'
  BY LeaveType, RaiseKeeps DEF Inductive

LEMMA JournalFailsKeeps ==
  ASSUME Inductive, pc # "raised", UNCHANGED <<world, elapsed>>,
         NEW events \in Seq(EventType), JournalFails(events)
  PROVE  Inductive'
<1>1. Len(events) \in Nat
  BY LenProperties
<1> QED
  BY <1>1, LeaveKeeps DEF JournalFails

LEMMA EscalationFailsKeeps ==
  ASSUME Inductive, pc # "raised", UNCHANGED <<world, elapsed>>,
         NEW before \in Seq(EventType), EscalationFails(before)
  PROVE  Inductive'
<1> DEFINE events == before \o EscalationEvents
<1>1. events \in Seq(EventType)
  BY EscalationEventsType, ConcatProperties
<1>2. Len(events) = Len(before) + 2 /\ Len(before) \in Nat
  <2>1. Len(events) = Len(before) + Len(EscalationEvents)
    BY EscalationEventsType, ConcatProperties
  <2> QED
    BY <2>1, EscalationEventsType, LenProperties
<1>3. Leave(events, Len(before) + 2)
  BY DEF EscalationFails
<1>4. Len(before) + 2 \in Int /\ Len(before) + 2 <= Len(events)
  BY <1>2
<1> HIDE DEF events
<1> QED
  BY <1>1, <1>3, <1>4, LeaveKeeps

\* Ending the run, with or without a record just appended, keeps it too.
LEMMA EscalateType ==
  ASSUME TypeOK, NEW why \in Reasons, NEW before \in Seq(EventType),
         Escalate(why, before)
  PROVE  /\ log' \in Seq(EventType)
         /\ pc' = "escalated"
         /\ reason' \in Reasons
<1>1. log \o before \in Seq(EventType)
  BY ConcatProperties DEF TypeOK, OutcomeType
<1> QED
  BY <1>1, EscalationEventsType, ConcatProperties DEF Escalate

LEMMA EscalateKeeps ==
  ASSUME Inductive, pc \notin {"raised", "repair"}, NEW why \in Reasons,
         NEW before \in Seq(EventType), Escalate(why, before),
         UNCHANGED <<task, world, elapsed, record>>, token' = NoToken
  PROVE  Inductive'
<1>1. log' \in Seq(EventType) /\ pc' = "escalated" /\ reason' \in Reasons
  BY EscalateType DEF Inductive
<1>2. TypeOK'
  BY <1>1 DEF Inductive, TypeOK, TaskType, LocalType, WorldType, OutcomeType,
              Guard!TokensType, task, world
<1>3. Effects'
  BY <1>1, EffectsFrame, SpentType DEF Inductive, world, task, Spent
<1> QED
  BY <1>1, <1>2, <1>3 DEF Inductive, Control, Consent

-----------------------------------------------------------------------------
(* One lemma per action *)

LEMMA InitInductive == Init => Inductive
<1> SUFFICES ASSUME Init PROVE Inductive
  OBVIOUS
<1> USE DEF Init
<1>1. TaskType /\ LocalType /\ OutcomeType
  BY BudgetAssumption
  DEF TaskType, LocalType, OutcomeType
<1>2. WorldType
  BY DEF WorldType, Guard!TokensType, Guard!GuardInit
<1>3. Effects
  BY BudgetAssumption DEF Effects, Spent
<1>4. Control /\ Consent
  BY DEF Control, Consent
<1> QED
  BY <1>1, <1>2, <1>3, <1>4 DEF Inductive, TypeOK

LEMMA TaskStartStep ==
  ASSUME Inductive, TaskStart
  PROVE  Inductive'
<1> DEFINE event == Event("task_start", TRUE)
<1>0. event \in EventType
  BY EventIsTyped DEF EventKind
<1> HIDE DEF event
<1>1. event \in EventType /\ <<event>> \in Seq(EventType)
  BY <1>0
<1>2. CASE JournalFails(<<event>>)
  BY <1>1, <1>2, JournalFailsKeeps DEF TaskStart
<1>3. CASE /\ log' = Append(log, event)
           /\ pc' = "plan"
           /\ UNCHANGED <<task, local, reason>>
  <2>0. log' \in Seq(EventType)
    BY <1>1, <1>3, AppendProperties DEF Inductive, TypeOK, OutcomeType
  <2>1. TypeOK'
    BY <1>3, <2>0
    DEF TaskStart, Inductive, TypeOK, TaskType, LocalType, WorldType,
        OutcomeType, Guard!TokensType, task, local, world
  <2>2. Effects'
    BY <1>3, EffectsFrame, SpentType
    DEF TaskStart, Inductive, Spent, task, local, world
  <2> QED
    BY <1>3, <2>1, <2>2
    DEF TaskStart, Inductive, Control, Consent, task, local
<1> QED
  BY <1>2, <1>3 DEF TaskStart, event

\* The planner's answer, for the first plan and for a new one.
LEMMA AdoptPlanStep ==
  ASSUME Inductive, pc \in {"plan", "replan"}, NEW p \in Plans, AdoptPlan(p),
         UNCHANGED <<world, elapsed>>
  PROVE  Inductive'
<1> USE DEF AdoptPlan, Inductive
<1>1. p \in Seq(Step) /\ Len(p) \in Nat
  BY PlanIsTyped, LenProperties
<1>2. TaskType'
  <2>1. attempts' \in Seq(Nat) /\ Len(attempts') = Len(plan')
    BY <1>1
  <2>2. strategies' \in Seq(Seq(ACTION_ALLOWLIST))
    BY <1>1, StrategiesType
  <2>3. warned' \subseteq Step
    BY <1>1, RiskyStepsType DEF TypeOK, TaskType
  <2> QED
    BY <1>1, <2>1, <2>2, <2>3 DEF TypeOK, TaskType
<1>3. LocalType' /\ WorldType'
  BY DEF TypeOK, LocalType, WorldType, Guard!TokensType, local, world
<1>4. OutcomeType'
  <2>1. log' \in Seq(EventType)
    BY <1>1, AdoptEventsType, ConcatProperties DEF TypeOK, OutcomeType
  <2> QED
    BY <2>1 DEF TypeOK, OutcomeType
<1>5. Effects'
  BY EffectsFrame, SpentType DEF Spent, local, world
<1> QED
  BY <1>2, <1>3, <1>4, <1>5 DEF TypeOK, Control, Consent, local

LEMMA AskPlannerStep ==
  ASSUME Inductive, pc \in {"plan", "replan"}, AskPlanner,
         UNCHANGED <<world, elapsed>>
  PROVE  Inductive'
<1>1. ASSUME NEW p \in Plans, AdoptPlan(p) PROVE Inductive'
  BY <1>1, AdoptPlanStep
<1>2. ASSUME NEW p \in Plans, JournalFails(AdoptEvents(p)) PROVE Inductive'
  BY <1>2, PlanIsTyped, AdoptEventsType, JournalFailsKeeps
<1>3. <<>> \in Seq(EventType)
  OBVIOUS
<1>4. ASSUME Escalate("unrecoverable_error", <<>>), UNCHANGED <<task, local>>
      PROVE  Inductive'
  BY <1>3, <1>4, EscalateKeeps DEF Reasons, Inductive, Consent, local
<1>5. ASSUME EscalationFails(<<>>) PROVE Inductive'
  BY <1>3, <1>5, EscalationFailsKeeps
<1>6. ASSUME Raise PROVE Inductive'
  BY <1>6, RaiseKeeps DEF Raise, Inductive, TypeOK, OutcomeType
<1> QED
  BY <1>1, <1>2, <1>4, <1>5, <1>6 DEF AskPlanner

LEMMA FinishRunStep ==
  ASSUME Inductive, FinishRun
  PROVE  Inductive'
<1> DEFINE event == Event("task_end", TRUE)
<1>0. event \in EventType
  BY EventIsTyped DEF EventKind
<1> HIDE DEF event
<1>1. event \in EventType /\ <<event>> \in Seq(EventType)
  BY <1>0
<1>2. CASE JournalFails(<<event>>)
  BY <1>1, <1>2, JournalFailsKeeps DEF FinishRun
<1>3. CASE /\ log' = Append(log, event)
           /\ pc' = "done"
           /\ UNCHANGED <<task, local, reason>>
  <2>0. log' \in Seq(EventType)
    BY <1>1, <1>3, AppendProperties DEF Inductive, TypeOK, OutcomeType
  <2>1. TypeOK'
    BY <1>3, <2>0
    DEF FinishRun, Inductive, TypeOK, TaskType, LocalType, WorldType,
        OutcomeType, Guard!TokensType, task, local, world
  <2>2. Effects'
    BY <1>3, EffectsFrame, SpentType
    DEF FinishRun, Inductive, Spent, task, local, world
  <2> QED
    BY <1>3, <2>1, <2>2
    DEF FinishRun, Inductive, Control, Consent, task, local
<1> QED
  BY <1>2, <1>3 DEF FinishRun, event

LEMMA StopRunStep ==
  ASSUME Inductive, StopRun
  PROVE  Inductive'
<1>1. <<>> \in Seq(EventType)
  OBVIOUS
<1>2. ShouldEscalate \in Reasons
  BY DEF StopRun, ShouldEscalate, Reasons
<1>3. ASSUME Escalate(ShouldEscalate, <<>>), UNCHANGED <<task, local>>
      PROVE  Inductive'
  BY <1>1, <1>2, <1>3, EscalateKeeps DEF StopRun, Inductive, Consent, local
<1>4. ASSUME EscalationFails(<<>>) PROVE Inductive'
  BY <1>1, <1>4, EscalationFailsKeeps DEF StopRun
<1> QED
  BY <1>3, <1>4 DEF StopRun

LEMMA TickStep ==
  ASSUME Inductive, Tick
  PROVE  Inductive'
<1>1. TypeOK'
  BY BudgetAssumption
  DEF Tick, Inductive, TypeOK, TaskType, LocalType, WorldType, OutcomeType,
      Guard!TokensType, task, local, world
<1>2. Effects'
  BY EffectsFrame, SpentType
  DEF Tick, Running, Stopped, Inductive, Spent, task, local, world
<1> QED
  BY <1>1, <1>2
  DEF Tick, Inductive, Control, Consent, Attempt, Here, task, local, world

LEMMA SetBackStep ==
  ASSUME Inductive, SetBack
  PROVE  Inductive'
<1>1. TypeOK'
  BY BudgetAssumption
  DEF SetBack, Inductive, TypeOK, TaskType, LocalType, WorldType, OutcomeType,
      Guard!TokensType, task, local, world
<1>2. Effects'
  BY EffectsFrame, SpentType
  DEF SetBack, Running, Stopped, Inductive, Spent, task, local, world
<1> QED
  BY <1>1, <1>2
  DEF SetBack, Inductive, Control, Consent, Attempt, Here, task, local, world

\* Inside a step there is a step, an attempt number and a counter for it.
LEMMA HereType ==
  ASSUME TypeOK, current < Len(plan)
  PROVE  /\ Here \in Step
         /\ Here.action \in ACTION_ALLOWLIST
         /\ current + 1 \in 1..Len(plan)
         /\ current + 1 \in DOMAIN attempts
<1>1. current + 1 \in 1..Len(plan) /\ Len(plan) \in Nat
  BY LenProperties DEF TypeOK, TaskType
<1>2. Here \in Step
  BY <1>1, ElementOfSeq DEF Here, TypeOK, TaskType
<1> QED
  BY <1>1, <1>2, StepAction, LenProperties DEF TypeOK, TaskType

LEMMA AttemptType ==
  ASSUME TypeOK, Len(history) < MaxTotalAttempts
  PROVE  Attempt \in 1..MaxTotalAttempts /\ Attempt \in Nat
  BY BudgetAssumption, LenProperties DEF Attempt, TypeOK, TaskType

LEMMA BeginStepStep ==
  ASSUME Inductive, BeginStep
  PROVE  Inductive'
<1> DEFINE event == Event("snapshot", TRUE)
<1>0. event \in EventType
  BY EventIsTyped DEF EventKind
<1> HIDE DEF event
<1>1. event \in EventType /\ <<event>> \in Seq(EventType)
  BY <1>0
<1>2. CASE JournalFails(<<event>>)
  BY <1>1, <1>2, JournalFailsKeeps DEF BeginStep
<1>3. CASE /\ pc' = IF NeedsConfirmation(Here) THEN "confirm" ELSE "execute"
           /\ \/ UNCHANGED <<snapshots, log>>
              \/ /\ snapshots' = Append(snapshots, Attempt)
                 /\ log' = Append(log, event)
           /\ UNCHANGED <<plan, current, attempts, history, strategies, warned,
                          adoptions, local, reason>>
  <2>1. Len(history) < MaxTotalAttempts
    BY SpentType, BudgetAssumption DEF BeginStep, ShouldEscalate, Inductive
  <2>2. log' \in Seq(EventType) /\ snapshots' \in Seq(Nat)
    <3>1. log \in Seq(EventType) /\ snapshots \in Seq(Nat)
      BY DEF Inductive, TypeOK, TaskType, OutcomeType
    <3>2. Append(log, event) \in Seq(EventType)
      BY <1>1, <3>1, AppendProperties
    <3>3. Append(snapshots, Attempt) \in Seq(Nat)
      BY <2>1, <3>1, AttemptType, AppendProperties DEF Inductive
    <3> QED
      BY <1>3, <3>1, <3>2, <3>3
  <2>3. TypeOK'
    BY <1>3, <2>2
    DEF BeginStep, Inductive, TypeOK, TaskType, LocalType, WorldType,
        OutcomeType, Guard!TokensType, local, world
  <2>4. Effects'
    BY <1>3, EffectsFrame, SpentType
    DEF BeginStep, Inductive, Spent, local, world
  <2> QED
    BY <1>3, <2>1, <2>3, <2>4, NullAssumption
    DEF BeginStep, Inductive, Control, Consent, local, world
<1> QED
  BY <1>2, <1>3 DEF BeginStep, event

LEMMA MaybeConfirmStep ==
  ASSUME Inductive, MaybeConfirm
  PROVE  Inductive'
<1>1. PICK answer \in Answers :
        LET said == <<Event("confirmation", Granted(answer))>> IN
        \/ /\ Granted(answer)
           /\ Guard!GrantConfirmation(Attempt, Here.action)
           /\ token' = Attempt
           /\ approvals' = IF answer = "yes"
                           THEN approvals \cup {[attempt |-> Attempt, step |-> Here]}
                           ELSE approvals
           /\ log' = log \o said
           /\ pc' = "execute"
           /\ UNCHANGED <<task, record, effects, reason>>
        \/ /\ ~Granted(answer)
           /\ \/ Escalate("abort_requested", said) /\ UNCHANGED <<task, local>>
              \/ EscalationFails(said)
           /\ UNCHANGED world
        \/ JournalFails(said) /\ UNCHANGED world
  BY DEF MaybeConfirm
<1> DEFINE said == <<Event("confirmation", Granted(answer))>>
<1>2. said \in Seq(EventType)
  <2>1. Event("confirmation", Granted(answer)) \in EventType
    BY EventIsTyped DEF EventKind, Granted
  <2> QED
    BY <2>1
<1>3. pc = "confirm" /\ elapsed' = elapsed
  BY DEF MaybeConfirm
<1>4. /\ current < Len(plan)
      /\ Len(history) < MaxTotalAttempts
      /\ Here \in Step
      /\ Here.action \in ACTION_ALLOWLIST
      /\ Attempt \in 1..MaxTotalAttempts
  BY <1>3, HereType, AttemptType DEF Inductive, Control
<1> HIDE DEF said
<1>5. CASE /\ Granted(answer)
           /\ Guard!GrantConfirmation(Attempt, Here.action)
           /\ token' = Attempt
           /\ approvals' = IF answer = "yes"
                           THEN approvals \cup {[attempt |-> Attempt, step |-> Here]}
                           ELSE approvals
           /\ log' = log \o said
           /\ pc' = "execute"
           /\ UNCHANGED <<task, record, effects, reason>>
  <2>1. /\ approvals' = approvals \cup {[attempt |-> Attempt, step |-> Here]}
        /\ [attempt |-> Attempt, step |-> Here] \in Run
    BY <1>4, <1>5 DEF Granted, Run
  <2>2. log' \in Seq(EventType)
    BY <1>2, <1>5, ConcatProperties DEF Inductive, TypeOK, OutcomeType
  <2>3. tokens' \in [1..MaxTotalAttempts -> ACTION_ALLOWLIST \cup {NoAction}]
    BY <1>4, <1>5
    DEF Guard!GrantConfirmation, Inductive, TypeOK, WorldType, Guard!TokensType
  <2>4. TypeOK'
    BY <1>3, <1>4, <1>5, <2>1, <2>2, <2>3
    DEF Inductive, TypeOK, TaskType, LocalType, WorldType, OutcomeType,
        Guard!TokensType, task
  <2>5. Effects'
    BY <1>3, <1>5, <2>1, EffectsFrame, SpentType
    DEF Inductive, Spent, task
  <2>6. Control' /\ Consent'
    BY <1>3, <1>4, <1>5, <2>1
    DEF Inductive, Control, Consent, Attempt, Here, task
  <2> QED
    BY <2>4, <2>5, <2>6 DEF Inductive
<1>6. ASSUME Escalate("abort_requested", said), UNCHANGED <<task, local, world>>
      PROVE  Inductive'
  BY <1>2, <1>3, <1>6, EscalateKeeps DEF Reasons, Inductive, Consent, local
<1>7. ASSUME EscalationFails(said), UNCHANGED world PROVE Inductive'
  BY <1>2, <1>3, <1>7, EscalationFailsKeeps
<1>8. ASSUME JournalFails(said), UNCHANGED world PROVE Inductive'
  BY <1>2, <1>3, <1>8, JournalFailsKeeps
<1> QED
  BY <1>1, <1>5, <1>6, <1>7, <1>8 DEF said

\* The one step that writes to the machine: a high-risk write holds the token
\* of this attempt, and no earlier effect has this attempt's number.
LEMMA ExecuteEffects ==
  ASSUME Inductive, pc = "execute",
         effects' = IF WritesForReal(Here)
                    THEN Append(effects, [attempt |-> Attempt, step |-> Here])
                    ELSE effects,
         approvals' = approvals,
         pc' # "raised" => Spent' = Len(history) + 1
  PROVE  effects' \in Seq(Run) /\ Effects'
<1> DEFINE deed == [attempt |-> Attempt, step |-> Here]
<1>1. /\ Here \in Step
      /\ Attempt = Len(history) + 1
      /\ Attempt \in 1..MaxTotalAttempts
      /\ Spent = Len(history)
      /\ Len(history) \in Nat
  BY HereType, AttemptType, SpentType
  DEF Inductive, Control, Attempt, Spent
<1>2. deed \in Run /\ deed.attempt = Attempt /\ deed.step = Here
  BY <1>1 DEF Run
<1>3. /\ effects \in Seq(Run)
      /\ Len(effects) \in Nat
      /\ DOMAIN effects = 1..Len(effects)
      /\ \A i \in 1..Len(effects) : effects[i] \in Run /\ effects[i].attempt \in Nat
  <2>1. \A run \in Run : run.attempt \in Nat
    BY BudgetAssumption DEF Run
  <2>2. effects \in Seq(Run)
    BY DEF Inductive, TypeOK, WorldType
  <2>3. /\ Len(effects) \in Nat
        /\ DOMAIN effects = 1..Len(effects)
        /\ \A i \in 1..Len(effects) : effects[i] \in Run
    BY <2>2, LenProperties, ElementOfSeq
  <2> QED
    BY <2>1, <2>2, <2>3
<1>4. CASE ~WritesForReal(Here)
  <2>1. \A i \in 1..Len(effects) : effects[i].attempt <= Len(history) + 1
    BY <1>1, <1>3 DEF Inductive, Effects
  <2> QED
    BY <1>1, <1>3, <1>4, <2>1 DEF Inductive, Effects
<1>5. CASE WritesForReal(Here)
  <2>1. Here.action \in REQUIRES_CONFIRMATION => deed \in approvals
    <3>1. Here.action \in REQUIRES_CONFIRMATION => token \in 1..MaxTotalAttempts
      BY <1>5
      DEF WritesForReal, Guard!Validates, Guard!Authorizes, Guard!Pending,
          REQUIRES_CONFIRMATION, Guard!REQUIRES_CONFIRMATION
    <3>2. token # NoToken => deed \in approvals
      BY DEF Inductive, Consent
    <3> QED
      BY <3>1, <3>2, NullAssumption
  <2> HIDE DEF deed
  <2>2. /\ effects' = Append(effects, deed)
        /\ effects' \in Seq(Run)
        /\ Len(effects') = Len(effects) + 1
        /\ DOMAIN effects' = 1..(Len(effects) + 1)
        /\ \A i \in 1..Len(effects) : effects'[i] = effects[i]
        /\ effects'[Len(effects) + 1] = deed
    BY <1>2, <1>3, <1>5, AppendProperties, LenProperties DEF deed
  <2>3. \A i \in DOMAIN effects' :
          effects'[i].step.action \in REQUIRES_CONFIRMATION
            => effects'[i] \in approvals'
    BY <1>2, <1>3, <2>1, <2>2 DEF Inductive, Effects
  <2>4. \A i \in 1..Len(effects) : effects'[i].attempt <= Len(history)
    BY <1>1, <1>3, <2>2 DEF Inductive, Effects
  <2>5. effects'[Len(effects) + 1].attempt = Len(history) + 1
    BY <1>1, <1>2, <2>2
  <2>6. \A i, j \in DOMAIN effects' :
          i < j => effects'[i].attempt < effects'[j].attempt
    <3> SUFFICES ASSUME NEW i \in DOMAIN effects', NEW j \in DOMAIN effects', i < j
                 PROVE  effects'[i].attempt < effects'[j].attempt
      OBVIOUS
    <3>1. CASE j = Len(effects) + 1
      BY <1>1, <1>3, <2>2, <2>4, <2>5, <3>1
    <3>2. CASE j # Len(effects) + 1
      BY <1>3, <2>2, <3>2 DEF Inductive, Effects
    <3> QED
      BY <3>1, <3>2
  <2>7. Len(effects') <= Len(history) + 1
    BY <1>1, <1>3, <2>2 DEF Inductive, Effects
  <2>8. \A i \in DOMAIN effects' : effects'[i].attempt <= Len(history) + 1
    BY <1>1, <1>3, <2>2, <2>4, <2>5
  <2> QED
    BY <1>1, <2>2, <2>3, <2>6, <2>7, <2>8, BudgetAssumption DEF Effects
<1> QED
  BY <1>4, <1>5

LEMMA ExecuteAndVerifyStep ==
  ASSUME Inductive, ExecuteAndVerify
  PROVE  Inductive'
<1>0. PICK result \in Results(Here) :
        \E verdict \in Verdicts(Here.action, result, RepliesTo("verifier")) :
        LET outcome == [adoption |-> adoptions, at |-> current, step |-> Here,
                        success |-> verdict = "pass",
                        late |-> elapsed >= MaxWallTime]
            written == StepEvents(TRUE)
        IN
        \/ /\ verdict = "pass"
           /\ attempts' = [attempts EXCEPT ![current + 1] = @ + 1]
           /\ history' = Append(history, outcome)
           /\ current' = current + 1
           /\ log' = log \o written
           /\ pc' = "loop"
           /\ token' = NoToken
           /\ UNCHANGED <<plan, strategies, snapshots, warned, adoptions,
                          record, reason>>
        \/ verdict = "pass" /\ JournalFails(written)
        \/ /\ verdict = "fail"
           /\ attempts' = [attempts EXCEPT ![current + 1] = @ + 1]
           /\ record' = outcome
           /\ token' = NoToken
           /\ pc' = "repair"
           /\ UNCHANGED <<plan, current, history, strategies, snapshots, warned,
                          adoptions, log, reason>>
        \/ Raise
  BY DEF ExecuteAndVerify
<1>1. PICK verdict \in Verdicts(Here.action, result, RepliesTo("verifier")) :
        LET outcome == [adoption |-> adoptions, at |-> current, step |-> Here,
                        success |-> verdict = "pass",
                        late |-> elapsed >= MaxWallTime]
            written == StepEvents(TRUE)
        IN
        \/ /\ verdict = "pass"
           /\ attempts' = [attempts EXCEPT ![current + 1] = @ + 1]
           /\ history' = Append(history, outcome)
           /\ current' = current + 1
           /\ log' = log \o written
           /\ pc' = "loop"
           /\ token' = NoToken
           /\ UNCHANGED <<plan, strategies, snapshots, warned, adoptions,
                          record, reason>>
        \/ verdict = "pass" /\ JournalFails(written)
        \/ /\ verdict = "fail"
           /\ attempts' = [attempts EXCEPT ![current + 1] = @ + 1]
           /\ record' = outcome
           /\ token' = NoToken
           /\ pc' = "repair"
           /\ UNCHANGED <<plan, current, history, strategies, snapshots, warned,
                          adoptions, log, reason>>
        \/ Raise
  BY <1>0
<1> DEFINE outcome == [adoption |-> adoptions, at |-> current, step |-> Here,
                       success |-> verdict = "pass",
                       late |-> elapsed >= MaxWallTime]
           written == StepEvents(TRUE)
<1>2. /\ pc = "execute"
      /\ elapsed' = elapsed
      /\ approvals' = approvals
      /\ tokens' = TokensAfter(Here)
      /\ effects' = IF WritesForReal(Here)
                    THEN Append(effects, [attempt |-> Attempt, step |-> Here])
                    ELSE effects
  BY DEF ExecuteAndVerify
<1>3. /\ current < Len(plan) /\ current \in Nat
      /\ Len(plan) \in Nat
      /\ Len(history) < MaxTotalAttempts
      /\ Here \in Step
      /\ record = NoRecord
  BY <1>2, HereType, LenProperties DEF Inductive, Control, TypeOK, TaskType
<1>4. written \in Seq(EventType)
  BY StepEventsType
<1>5. outcome \in Record
  BY <1>3 DEF Record, Inductive, TypeOK, TaskType
<1>6. tokens' \in [1..MaxTotalAttempts -> ACTION_ALLOWLIST \cup {NoAction}]
  BY <1>2
  DEF TokensAfter, Guard!Consume, Inductive, TypeOK, WorldType, Guard!TokensType
<1>7. [attempts EXCEPT ![current + 1] = @ + 1] \in Seq(Nat)
      /\ Len([attempts EXCEPT ![current + 1] = @ + 1]) = Len(plan)
  BY <1>3 DEF Inductive, TypeOK, TaskType
<1>8. ASSUME effects' \in Seq(Run) PROVE WorldType'
  BY <1>2, <1>6, <1>8
  DEF Inductive, TypeOK, WorldType, Guard!TokensType
<1> HIDE DEF outcome, written
<1>9. ASSUME pc' = "raised", log' \in Seq(EventType), UNCHANGED <<task, local, reason>>
      PROVE  Inductive'
  <2>1. effects' \in Seq(Run) /\ Effects'
    BY <1>2, <1>9, ExecuteEffects
  <2>2. TypeOK'
    BY <1>2, <1>8, <1>9, <2>1
    DEF Inductive, TypeOK, TaskType, LocalType, OutcomeType, task, local
  <2> QED
    BY <1>9, <2>1, <2>2 DEF Inductive, Control, Consent
<1>10. CASE /\ attempts' = [attempts EXCEPT ![current + 1] = @ + 1]
            /\ history' = Append(history, outcome)
            /\ current' = current + 1
            /\ log' = log \o written
            /\ pc' = "loop"
            /\ token' = NoToken
            /\ UNCHANGED <<plan, strategies, snapshots, warned, adoptions,
                           record, reason>>
  <2>1. /\ history' \in Seq(Record)
        /\ Len(history') = Len(history) + 1
        /\ Len(history) \in Nat
    BY <1>5, <1>10, AppendProperties, LenProperties DEF Inductive, TypeOK, TaskType
  <2>2. effects' \in Seq(Run) /\ Effects'
    BY <1>2, <1>3, <1>10, <2>1, ExecuteEffects DEF Spent
  <2>3. log' \in Seq(EventType)
    BY <1>4, <1>10, ConcatProperties DEF Inductive, TypeOK, OutcomeType
  <2>4. TaskType'
    BY <1>3, <1>7, <1>10, <2>1, BudgetAssumption DEF Inductive, TypeOK, TaskType
  <2>5. TypeOK'
    BY <1>2, <1>8, <1>10, <2>2, <2>3, <2>4
    DEF Inductive, TypeOK, LocalType, OutcomeType
  <2> QED
    BY <1>3, <1>10, <2>2, <2>5 DEF Inductive, Control, Consent
<1>11. CASE /\ attempts' = [attempts EXCEPT ![current + 1] = @ + 1]
            /\ record' = outcome
            /\ token' = NoToken
            /\ pc' = "repair"
            /\ UNCHANGED <<plan, current, history, strategies, snapshots,
                           warned, adoptions, log, reason>>
  <2>1. record' \in Record /\ record' # NoRecord
    BY <1>5, <1>11, NullAssumption DEF NoRecord, Record
  <2>2. effects' \in Seq(Run) /\ Effects'
    BY <1>2, <1>11, <2>1, ExecuteEffects DEF Spent
  <2>3. TaskType'
    BY <1>7, <1>11 DEF Inductive, TypeOK, TaskType
  <2>4. TypeOK'
    BY <1>2, <1>8, <1>11, <2>1, <2>2, <2>3
    DEF Inductive, TypeOK, LocalType, OutcomeType
  <2> QED
    BY <1>3, <1>11, <2>1, <2>2, <2>4 DEF Inductive, Control, Consent
<1>12. ASSUME JournalFails(written) PROVE Inductive'
  <2>1. Len(written) - 1 \in Int /\ Len(written) - 1 <= Len(written)
    BY <1>4, LenProperties
  <2>2. /\ log' \in Seq(EventType)
        /\ pc' = "raised"
        /\ UNCHANGED <<task, local, reason>>
    BY <1>4, <1>12, <2>1, LeaveType DEF JournalFails, Inductive
  <2> QED
    BY <1>9, <2>2
<1>13. ASSUME Raise PROVE Inductive'
  BY <1>9, <1>13 DEF Raise, Inductive, TypeOK, OutcomeType
<1> QED
  BY <1>1, <1>10, <1>11, <1>12, <1>13 DEF outcome, written

\* A fix_input decision carries a step of the same action; so the plan it is
\* written into stays a plan.
LEMMA DecisionType ==
  ASSUME NEW step \in Step, NEW tries, NEW strategy \in FIX_STRATEGIES,
         NEW decision \in RepairDecisions(step, tries, strategy),
         decision.strategy = "fix_input"
  PROVE  decision.step \in Step
<1>1. decision \in FixInput(step)
  BY DEF RepairDecisions, Decision
<1>2. CASE decision \in {Decision("fix_input", [step EXCEPT !.args = a]) :
                           a \in IF "valid" \in RepliesTo("input_repair") THEN Args ELSE {}}
  BY <1>2 DEF Decision, Step
<1>3. CASE decision \in {Decision(RepairerOutcome(reply), NoStep) :
                           reply \in RepliesTo("input_repair") \ {"valid"}}
  BY <1>3 DEF Decision, RepairerOutcome
<1> QED
  BY <1>1, <1>2, <1>3 DEF FixInput

LEMMA RecoveryType ==
  ASSUME Here \in Step, NEW decision \in Recoveries,
         decision.strategy = "fix_input"
  PROVE  decision.step \in Step
<1>0. PICK reply \in RepliesTo("diagnoser") : \E strategy \in DiagnoserOutcomes(reply) :
        decision \in IF strategy = "raises" THEN {Decision("raises", NoStep)}
                     ELSE RepairDecisions(Here, attempts[current + 1], strategy)
  BY DEF Recoveries
<1>1. PICK strategy \in DiagnoserOutcomes(reply) :
        decision \in IF strategy = "raises" THEN {Decision("raises", NoStep)}
                     ELSE RepairDecisions(Here, attempts[current + 1], strategy)
  BY <1>0
<1>2. strategy # "raises"
  BY <1>1 DEF Decision
<1>3. strategy \in FIX_STRATEGIES
  BY <1>2 DEF DiagnoserOutcomes, FIX_STRATEGIES
<1> QED
  BY <1>1, <1>2, <1>3, DecisionType

\* The failed record is appended, whatever is decided next.
LEMMA RecoverStep ==
  ASSUME Inductive, Recover
  PROVE  Inductive'
<1> DEFINE written == StepEvents(FALSE)
<1>1. PICK decision \in Recoveries :
       \/ decision.strategy = "raises" /\ Raise
       \/ /\ decision.strategy # "raises"
          /\ history' = Append(history, record)
          /\ record' = NoRecord
          /\ \/ /\ decision.strategy = "retry"
                /\ log' = log \o written
                /\ pc' = "loop"
                /\ UNCHANGED <<plan, warned, reason>>
             \/ /\ decision.strategy = "fix_input"
                /\ Rewrite(decision.step, written)
             \/ /\ decision.strategy = "replan"
                /\ log' = log \o written
                /\ pc' = "replan"
                /\ UNCHANGED <<plan, warned, reason>>
             \/ /\ decision.strategy = "abort"
                /\ Escalate("abort_requested", written)
                /\ UNCHANGED <<plan, warned>>
          /\ UNCHANGED <<current, attempts, strategies, snapshots, adoptions,
                         token>>
       \/ /\ decision.strategy \in {"retry", "replan"}
          /\ JournalFails(written)
       \/ /\ decision.strategy = "fix_input"
          /\ JournalFails(written \o RewriteEvents(decision.step))
       \/ /\ decision.strategy = "abort"
          /\ EscalationFails(written)
  BY DEF Recover
<1>2. pc = "repair" /\ pc # "raised" /\ UNCHANGED <<world, elapsed>>
  BY DEF Recover
<1>3. /\ current < Len(plan) /\ Len(history) < MaxTotalAttempts
      /\ record \in Record /\ record # NoRecord
      /\ Here \in Step
      /\ current + 1 \in 1..Len(plan)
      /\ token = NoToken
  BY <1>2, HereType, NullAssumption
  DEF Inductive, Control, Consent, NoRecord, Record
<1>4. /\ written \in Seq(EventType)
      /\ log \o written \in Seq(EventType)
  BY StepEventsType, ConcatProperties DEF Inductive, TypeOK, OutcomeType
<1> HIDE DEF written
<1>5. /\ Append(history, record) \in Seq(Record)
      /\ Len(Append(history, record)) = Len(history) + 1
      /\ Len(history) \in Nat
  BY <1>3, AppendProperties, LenProperties DEF Inductive, TypeOK, TaskType
<1>6. ASSUME history' = Append(history, record), record' = NoRecord,
             UNCHANGED <<current, attempts, strategies, snapshots, adoptions,
                         token>>,
             plan' \in Seq(Step), Len(plan') = Len(plan), warned' \subseteq Step,
             log' \in Seq(EventType), pc' \in {"loop", "replan", "escalated"},
             reason' \in Reasons \cup {"none"}
      PROVE  Inductive'
  <2>1. TaskType'
    BY <1>3, <1>5, <1>6, BudgetAssumption DEF Inductive, TypeOK, TaskType
  <2>2. LocalType' /\ WorldType' /\ OutcomeType'
    BY <1>2, <1>6
    DEF Inductive, TypeOK, LocalType, WorldType, OutcomeType,
        Guard!TokensType, world
  <2>3. Spent' = Spent /\ Spent \in Nat
    BY <1>3, <1>5, <1>6 DEF Spent
  <2>4. Effects'
    BY <1>2, <2>3, EffectsFrame DEF Inductive, world
  <2> QED
    BY <1>3, <1>6, <2>1, <2>2, <2>4 DEF Inductive, TypeOK, Control, Consent
<1>7. /\ plan \in Seq(Step) /\ warned \subseteq Step
      /\ reason \in Reasons \cup {"none"}
  BY DEF Inductive, TypeOK, TaskType, OutcomeType
<1>8. ASSUME decision.strategy = "fix_input", Rewrite(decision.step, written)
      PROVE  /\ plan' \in Seq(Step) /\ Len(plan') = Len(plan)
             /\ warned' \subseteq Step
             /\ log' \in Seq(EventType)
             /\ pc' = "loop" /\ reason' = reason
  <2>1. decision.step \in Step
    BY <1>3, <1>8, RecoveryType
  <2>2. plan' \in Seq(Step) /\ Len(plan') = Len(plan)
    BY <1>3, <1>7, <1>8, <2>1 DEF Rewrite
  <2>3. <<decision.step>> \in Seq(Step)
    BY <2>1, SingletonIsSeq
  <2>4. warned' \subseteq Step
    BY <1>7, <1>8, <2>3, RiskyStepsType DEF Rewrite
  <2>5. log' \in Seq(EventType)
    BY <1>4, <1>8, RewriteEventsType, ConcatProperties DEF Rewrite
  <2> QED
    BY <1>8, <2>2, <2>4, <2>5 DEF Rewrite
<1>9. ASSUME Escalate("abort_requested", written)
      PROVE  log' \in Seq(EventType) /\ pc' = "escalated" /\ reason' \in Reasons
  BY <1>4, <1>9, EscalateType DEF Reasons, Inductive
<1>10. ASSUME Raise PROVE Inductive'
  BY <1>2, <1>10, RaiseKeeps DEF Raise, Inductive, TypeOK, OutcomeType
<1>11. ASSUME JournalFails(written) PROVE Inductive'
  BY <1>2, <1>4, <1>11, JournalFailsKeeps
<1>12. ASSUME JournalFails(written \o RewriteEvents(decision.step))
       PROVE  Inductive'
  <2>1. written \o RewriteEvents(decision.step) \in Seq(EventType)
    BY <1>4, RewriteEventsType, ConcatProperties
  <2> QED
    BY <1>2, <1>12, <2>1, JournalFailsKeeps
<1>13. ASSUME EscalationFails(written) PROVE Inductive'
  BY <1>2, <1>4, <1>13, EscalationFailsKeeps
<1> QED
  BY <1>1, <1>4, <1>6, <1>7, <1>8, <1>9, <1>10, <1>11, <1>12, <1>13

LEMMA InterruptStep ==
  ASSUME Inductive, Interrupt
  PROVE  Inductive'
  BY RaiseKeeps DEF Interrupt, Raise, Running, Stopped, Inductive, TypeOK,
                    OutcomeType

LEMMA InductiveStep ==
  ASSUME Inductive, [Next]_vars
  PROVE  Inductive'
<1>1. CASE TaskStart
  BY <1>1, TaskStartStep
<1>2. CASE CreatePlan
  BY <1>2, AskPlannerStep DEF CreatePlan
<1>3. CASE Replan
  BY <1>3, AskPlannerStep DEF Replan
<1>4. CASE FinishRun
  BY <1>4, FinishRunStep
<1>5. CASE StopRun
  BY <1>5, StopRunStep
<1>6. CASE BeginStep
  BY <1>6, BeginStepStep
<1>7. CASE MaybeConfirm
  BY <1>7, MaybeConfirmStep
<1>8. CASE ExecuteAndVerify
  BY <1>8, ExecuteAndVerifyStep
<1>9. CASE Recover
  BY <1>9, RecoverStep
<1>10. CASE Tick
  BY <1>10, TickStep
<1>11. CASE Interrupt
  BY <1>11, InterruptStep
<1>13. CASE SetBack
  BY <1>13, SetBackStep
<1>12. CASE UNCHANGED vars
  <2>1. TypeOK'
    BY <1>12
    DEF Inductive, TypeOK, TaskType, LocalType, WorldType, OutcomeType,
        Guard!TokensType, vars, task, local, world
  <2>2. Control' /\ Consent' /\ Effects'
    BY <1>12
    DEF Inductive, Control, Consent, Effects, Attempt, Here, Spent, vars,
        task, local, world
  <2> QED
    BY <2>1, <2>2 DEF Inductive
<1> QED
  BY <1>1, <1>2, <1>3, <1>4, <1>5, <1>6, <1>7, <1>8, <1>9, <1>10, <1>11,
     <1>12, <1>13
  DEF Next, Proceed

LEMMA AlwaysInductive == Spec => []Inductive
<1>1. Inductive /\ [Next]_vars => Inductive'
  BY InductiveStep
<1> QED
  BY InitInductive, <1>1, PTL DEF Spec

-----------------------------------------------------------------------------
(* Theorems *)

\* Every variable of the loop keeps its type: in particular current_step
\* stays within the plan, step_attempts has one counter per step, and the
\* history never holds more than max_total_attempts records.
THEOREM TypeCorrect == Spec => []TypeOK
<1>1. Inductive => TypeOK
  BY DEF Inductive
<1> QED
  BY AlwaysInductive, <1>1, PTL

\* For every plan and whatever the LLM, the tools and the disk do: a
\* high-risk tool runs only in the attempt in which the user approved that
\* very step, and no attempt runs two tools.
THEOREM ApprovedExecutionHolds == Spec => []ApprovedExecution
<1>1. Inductive => ApprovedExecution
  <2> SUFFICES ASSUME Inductive PROVE ApprovedExecution
    OBVIOUS
  <2>1. /\ DOMAIN effects = 1..Len(effects)
        /\ \A i \in DOMAIN effects : effects[i] \in Run
    BY LenProperties, ElementOfSeq DEF Inductive, TypeOK, WorldType
  <2>2. \A i \in DOMAIN effects : i \in Int /\ effects[i].attempt \in Nat
    BY <2>1, BudgetAssumption DEF Run
  <2>3. \A i, j \in DOMAIN effects :
          effects[i].attempt = effects[j].attempt => i = j
    BY <2>2 DEF Inductive, Effects
  <2> QED
    BY <2>3 DEF Inductive, Effects, ApprovedExecution
<1> QED
  BY AlwaysInductive, <1>1, PTL

\* The machine is written to at most max_total_attempts times in a run, with
\* every retry, rewritten step and new plan counted.
THEOREM AttemptBudgetHolds == Spec => []AttemptBudget
<1>1. Inductive => AttemptBudget
  BY DEF Inductive, Effects, AttemptBudget
<1> QED
  BY AlwaysInductive, <1>1, PTL

=============================================================================
