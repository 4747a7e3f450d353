----------------------------- MODULE AgentLoop -----------------------------
(***************************************************************************)
(* agent.Agent.run: plan, then for every step budget check, snapshot,      *)
(* confirmation, execution, verification, and on failure diagnosis and     *)
(* repair, until the plan is done, the run escalates to the human, or an   *)
(* exception leaves run().                                                 *)
(*                                                                         *)
(* The loop is sequential; what surrounds it is not.  The clock runs while *)
(* it is blocked, the user answers when they like or never, the LLM may    *)
(* answer anything, tools fail or half-succeed, and every append to the    *)
(* episodic log may be the one that finds the disk full.                   *)
(*                                                                         *)
(* An attempt is one trip through the body of the while loop, numbered     *)
(* from 1; plan indices are the code's (current_step counts from 0).       *)
(***************************************************************************)
EXTENDS Policies, Verifier, LLMRouting, Naturals, FiniteSets, SequencesExt

CONSTANTS
  Args,                  \* argument values of a step, as far as they matter
  ElevatedArgs,          \* those whose argv starts with sudo, su, doas, ...
  UntimedArgs,           \* those with a "timeout_s" of null
  Plans,                 \* plans that pass planner._parse_and_validate
  Provider,              \* confirmation provider: "cli", "auto" or "deny"
  DryRun,                \* Executor(dry_run=...)
  Faults,                \* TRUE: disk calls may raise, the user press Ctrl-C
  OddData,               \* TRUE: so may what the code does with odd data
  ClockSteps,            \* TRUE: somebody may set the wall clock back
  MaxTotalAttempts,      \* TaskBudget.max_total_attempts
  MaxWallTime,           \* TaskBudget.max_wall_time_s, in clock ticks
  MaxDistinctStrategies, \* TaskBudget.max_distinct_strategies
  MaxAttemptsPerStep,    \* Repairer.max_attempts_per_step
  NoToken, NoAction, NoStep

Step == [action : ACTION_ALLOWLIST, args : Args,
         expected_state : {"concrete", "weak"}]

ASSUME ArgsAssumption == ElevatedArgs \subseteq Args /\ UntimedArgs \subseteq Args
ASSUME PlansAssumption == Plans \subseteq Seq(Step) \ {<<>>}
ASSUME ModeAssumption ==
  /\ Provider \in {"cli", "auto", "deny"}
  /\ DryRun \in BOOLEAN
  /\ Faults \in BOOLEAN
  /\ OddData \in BOOLEAN
  /\ ClockSteps \in BOOLEAN
ASSUME BudgetAssumption ==
  /\ MaxTotalAttempts \in Nat
  /\ MaxWallTime \in Nat
  /\ MaxDistinctStrategies \in Nat
  /\ MaxAttemptsPerStep \in Nat
ASSUME NullAssumption ==
  /\ NoToken \notin 1..MaxTotalAttempts
  /\ NoAction \notin ACTION_ALLOWLIST
  /\ NoStep \notin Step \cup [adoption : Nat, at : Nat, step : Step,
                             success : BOOLEAN, late : BOOLEAN]

VARIABLES
  pc,          \* where run() is
  plan, current, attempts, history, strategies, snapshots, warned,
               \* TaskState; attempts is step_attempts, warned the steps
               \* named in a risk warning of plan_warnings
  adoptions,   \* plans adopted so far (history variable)
  token, record, \* locals of run(): the granted token, an unlogged record
  tokens,      \* the SafetyGuard's dictionary
  approvals,   \* what the user said yes to, by attempt (history variable)
  effects,     \* write-effect tools that really ran (history variable)
  elapsed,     \* TaskState.elapsed_s(), stopped at MaxWallTime
  log,         \* the episodic log of the run
  reason       \* EscalationReason of the outcome, or "none"

task == <<plan, current, attempts, history, strategies, snapshots, warned,
          adoptions>>
local == <<token, record>>
world == <<tokens, approvals, effects>>
vars == <<pc, task, local, world, elapsed, log, reason>>

Guard == INSTANCE SafetyGuard WITH Token <- 1..MaxTotalAttempts

-----------------------------------------------------------------------------
(* Records *)

EventKind == {"task_start", "plan", "strategy", "plan_warning", "snapshot",
              "confirmation", "step", "escalation", "task_end"}
Event(kind, ok) == [event |-> kind, ok |-> ok]
EventType == [event : EventKind, ok : BOOLEAN]

\* StepRecord; at and late place the attempt, they are not in the code.
Record == [adoption : Nat, at : Nat, step : Step, success : BOOLEAN,
           late : BOOLEAN]
NoRecord == NoStep

Run == [attempt : 1..MaxTotalAttempts, step : Step]

Reasons == {"budget_exhausted", "time_exhausted", "strategy_exhausted",
            "strategy_loop", "abort_requested", "unrecoverable_error"}

Stopped == pc \in {"done", "escalated", "raised"}
Running == ~Stopped

\* The step the loop is at, and the number of the attempt it is making.
Here == plan[current + 1]
Attempt == Len(history) + 1

-----------------------------------------------------------------------------
(* escalation.py: strategies and budgets *)

\* The hash of the action sequence: argument values do not count.
Fingerprint(p) == [i \in DOMAIN p |-> p[i].action]

\* Mutant: every adopted plan counts as another strategy.
RecordStrategy_Always(tried, p) == Append(tried, Fingerprint(p))

\* record_strategy: a fingerprint seen before is not appended again.
RecordStrategy(tried, p) ==
  IF Fingerprint(p) \in ToSet(tried) THEN tried
  ELSE Append(tried, Fingerprint(p))

\* _detect_strategy_loop: the last fingerprint occurs earlier in the last 4.
StrategyLoop(tried) ==
  \E i \in 1..(Len(tried) - 1) :
    i > Len(tried) - 4 /\ tried[i] = tried[Len(tried)]

\* Memory.is_strategy_quarantined: layer 4 is not built.
IsStrategyQuarantined(fingerprint) == FALSE

\* Mutants: the attempt budget, then the clock, compared with > for >=.
ShouldEscalate_LateBudget ==
  IF Len(history) > MaxTotalAttempts THEN "budget_exhausted"
  ELSE IF elapsed >= MaxWallTime THEN "time_exhausted"
  ELSE IF Len(strategies) >= MaxDistinctStrategies THEN "strategy_exhausted"
  ELSE "none"
ShouldEscalate_LateClock ==
  IF Len(history) >= MaxTotalAttempts THEN "budget_exhausted"
  ELSE IF elapsed > MaxWallTime THEN "time_exhausted"
  ELSE IF Len(strategies) >= MaxDistinctStrategies THEN "strategy_exhausted"
  ELSE "none"

\* should_escalate: the first of these that holds, or "none".
ShouldEscalate ==
  IF Len(history) >= MaxTotalAttempts THEN "budget_exhausted"
  ELSE IF elapsed >= MaxWallTime THEN "time_exhausted"
  ELSE IF Len(strategies) >= MaxDistinctStrategies THEN "strategy_exhausted"
  ELSE IF StrategyLoop(strategies) THEN "strategy_loop"
  ELSE IF IsStrategyQuarantined(Fingerprint(plan)) THEN "strategy_exhausted"
  ELSE "none"

-----------------------------------------------------------------------------
(* planner.py: warnings; they never stop a plan *)

Risky(step) == step.action = "shell.run" /\ step.args \in ElevatedArgs
RiskySteps(p) == {step \in ToSet(p) : Risky(step)}

\* One warning per weak predicate, then one per risky step.
WarningCount(p) ==
  Cardinality({i \in DOMAIN p : p[i].expected_state = "weak"}) +
  Cardinality({i \in DOMAIN p : Risky(p[i])})
Warnings(n) == [i \in 1..n |-> Event("plan_warning", TRUE)]

-----------------------------------------------------------------------------
(* Leaving run() by an exception: the TaskState is lost to the caller, what
   was appended to the log before stays.  The last event that may have been
   written before the exception is given.

   It takes a fault (an OSError of the disk), or odd data: what valid plans,
   paths, tool outputs and process names may hold and the code's own calls,
   outside any try, do not take.  Path.exists raises on a name that is too long
   or below a directory that may not be searched, read_text on a process name
   that is no UTF-8, print and write_text on a lone surrogate, json_safe and
   json.dumps on arguments nested too deep. *)

Leave(events, last) ==
  /\ Faults \/ OddData
  /\ \E n \in 0..last : log' = log \o SubSeq(events, 1, n)
  /\ pc' = "raised"
  /\ UNCHANGED <<task, local, reason>>

JournalFails(events) == Leave(events, Len(events) - 1)

\* An exception of the code's own, with nothing written.
Raise ==
  /\ pc' = "raised"
  /\ UNCHANGED <<task, local, reason, log>>

\* _escalate: two events, then the report. Its OSErrors are caught; a lone
\* surrogate in a goal, a summary or a step's arguments raises another error.
EscalationEvents == <<Event("escalation", TRUE), Event("task_end", FALSE)>>

Escalate(why, before) ==
  /\ log' = log \o before \o EscalationEvents
  /\ pc' = "escalated"
  /\ reason' = why

EscalationFails(before) ==
  Leave(before \o EscalationEvents, Len(before) + 2)

-----------------------------------------------------------------------------
(* _adopt_plan, for the first plan and for every new one *)

AdoptEvents(p) ==
  <<Event("plan", TRUE), Event("strategy", TRUE)>> \o Warnings(WarningCount(p))

\* Mutant: the new plan is entered where the old one stopped.
AdoptPlan_KeepsPlace(p) ==
  /\ plan' = p
  /\ current' = IF current < Len(p) THEN current ELSE 0
  /\ attempts' = [i \in 1..Len(p) |-> 0]
  /\ strategies' = RecordStrategy(strategies, p)
  /\ warned' = warned \cup RiskySteps(p)
  /\ adoptions' = adoptions + 1
  /\ log' = log \o AdoptEvents(p)
  /\ pc' = "loop"
  /\ UNCHANGED <<history, snapshots, local, reason>>

AdoptPlan(p) ==
  /\ plan' = p
  /\ current' = 0
  /\ attempts' = [i \in 1..Len(p) |-> 0]
  /\ strategies' = RecordStrategy(strategies, p)
  /\ warned' = warned \cup RiskySteps(p)
  /\ adoptions' = adoptions + 1
  /\ log' = log \o AdoptEvents(p)
  /\ pc' = "loop"
  /\ UNCHANGED <<history, snapshots, local, reason>>

\* The planner is asked: it delivers a plan, raises PlanError (escalation),
\* or lets an exception through.
AskPlanner ==
  \E reply \in RepliesTo("planner") :
    \/ /\ PlannerOutcome(reply) = "plan"
       /\ \E p \in Plans : AdoptPlan(p) \/ JournalFails(AdoptEvents(p))
    \/ /\ PlannerOutcome(reply) = "PlanError"
       /\ \/ Escalate("unrecoverable_error", <<>>) /\ UNCHANGED <<task, local>>
          \/ EscalationFails(<<>>)
    \/ PlannerOutcome(reply) = "raises" /\ Raise

TaskStart ==
  /\ pc = "start"
  /\ \/ /\ log' = Append(log, Event("task_start", TRUE))
        /\ pc' = "plan"
        /\ UNCHANGED <<task, local, reason>>
     \/ Faults /\ JournalFails(<<Event("task_start", TRUE)>>)
  /\ UNCHANGED <<world, elapsed>>

CreatePlan ==
  /\ pc = "plan"
  /\ AskPlanner
  /\ UNCHANGED <<world, elapsed>>

Replan ==
  /\ pc = "replan"
  /\ AskPlanner
  /\ UNCHANGED <<world, elapsed>>

-----------------------------------------------------------------------------
(* The head of the loop: finish, escalate, or snapshot and go on *)

\* Mutant: the end of the plan is looked for one step too far.
PlanDone_OffByOne == current > Len(plan)

PlanDone == current >= Len(plan)

FinishRun ==
  /\ pc = "loop"
  /\ PlanDone
  /\ \/ /\ log' = Append(log, Event("task_end", TRUE))
        /\ pc' = "done"
        /\ UNCHANGED <<task, local, reason>>
     \/ Faults /\ JournalFails(<<Event("task_end", TRUE)>>)
  /\ UNCHANGED <<world, elapsed>>

StopRun ==
  /\ pc = "loop"
  /\ current < Len(plan)
  /\ ShouldEscalate # "none"
  /\ \/ Escalate(ShouldEscalate, <<>>) /\ UNCHANGED <<task, local>>
     \/ EscalationFails(<<>>)
  /\ UNCHANGED <<world, elapsed>>

\* Actions _maybe_snapshot captures something for.
SnapshotActions == {"file.write", "file.delete", "process.kill"}

NeedsConfirmation(step) == step.action \in REQUIRES_CONFIRMATION

\* _maybe_snapshot: nothing to capture (another action, arguments that name no
\* path or pid) or the write failed; registered and logged; or an exception got
\* through: Path.exists of capture_file on an odd path, read_text of
\* capture_process on an odd name, the append on a full disk.
BeginStep ==
  /\ pc = "loop"
  /\ current < Len(plan)
  /\ ShouldEscalate = "none"
  /\ \/ /\ pc' = IF NeedsConfirmation(Here) THEN "confirm" ELSE "execute"
        /\ \/ UNCHANGED <<snapshots, log>>
           \/ /\ Here.action \in SnapshotActions
              /\ snapshots' = Append(snapshots, Attempt)
              /\ log' = Append(log, Event("snapshot", TRUE))
        /\ UNCHANGED <<plan, current, attempts, history, strategies, warned,
                       adoptions, local, reason>>
     \/ /\ Here.action \in SnapshotActions
        /\ JournalFails(<<Event("snapshot", TRUE)>>)
  /\ UNCHANGED <<world, elapsed>>

-----------------------------------------------------------------------------
(* _maybe_confirm and the confirmation providers *)

Answers ==
  CASE Provider = "auto" -> {"yes"}
    [] Provider = "deny" -> {"no"}
    [] OTHER -> {"yes", "no", "unrecognized", "eof", "interrupt"}

\* Mutant: the prompt's default is read as approval.
Granted_Default(answer) == answer \in {"yes", "unrecognized"}

\* "y" and "yes" approve; all else is a denial.
Granted(answer) == answer = "yes"

MaybeConfirm ==
  /\ pc = "confirm"
  /\ \E answer \in Answers :
       LET said == <<Event("confirmation", Granted(answer))>> IN
       \/ /\ Granted(answer)
          /\ Guard!GrantConfirmation(Attempt, Here.action)
          /\ token' = Attempt
          /\ approvals' = IF answer = "yes"
                          THEN approvals \cup {[attempt |-> Attempt, step |-> Here]}
                          ELSE approvals
          /\ log' = log \o said
          /\ pc' = "execute"
          /\ UNCHANGED <<task, record, effects, reason>>
       \/ /\ ~Granted(answer)
          /\ \/ Escalate("abort_requested", said) /\ UNCHANGED <<task, local>>
             \/ EscalationFails(said)
          /\ UNCHANGED world
       \/ /\ Provider = "cli" \/ Faults   \* only the prompt prints odd data
          /\ JournalFails(said)
          /\ UNCHANGED world
  /\ UNCHANGED elapsed

-----------------------------------------------------------------------------
(* Executor.execute behind the guard, then the verifier *)

\* The executor reaches a tool's run() for an action that writes.
WritesForReal(step) ==
  /\ ~DryRun
  /\ Guard!Validates(token, step.action)
  /\ Routable(step.action)
  /\ step.action \notin ReadOnlyTools

\* The results execute can have; GuardError, RouterError and whatever a tool
\* raises become failed results in _execute_and_verify.
Results(step) ==
  IF \/ ~Routable(step.action)
     \/ ~DryRun /\ ~Guard!Validates(token, step.action)
  THEN {"failed"}
  ELSE IF DryRun /\ step.action \notin ReadOnlyTools
       THEN {"simulated", "failed"}
       ELSE {"ok", "failed"}

\* Mutants: the guard is asked without consuming; a dry run consumes.
TokensAfter_Kept(step) == tokens
TokensAfter_Always(step) == Guard!Consume(token, step.action)

\* Only the real path consumes; validate_action_only leaves the dictionary.
TokensAfter(step) ==
  IF DryRun THEN tokens ELSE Guard!Consume(token, step.action)

\* Mutant: only verified steps reach the log.
StepEvents_Verified(success) == IF success THEN <<Event("step", TRUE)>> ELSE <<>>

\* "Log the fully-populated record exactly once."
StepEvents(success) == <<Event("step", success)>>

ExecuteAndVerify ==
  /\ pc = "execute"
  /\ tokens' = TokensAfter(Here)
  /\ effects' = IF WritesForReal(Here)
                THEN Append(effects, [attempt |-> Attempt, step |-> Here])
                ELSE effects
  /\ \E result \in Results(Here) :
     \E verdict \in Verdicts(Here.action, result, RepliesTo("verifier")) :
       LET outcome == [adoption |-> adoptions, at |-> current, step |-> Here,
                       success |-> verdict = "pass",
                       late |-> elapsed >= MaxWallTime]
           written == StepEvents(TRUE)
       IN
       \/ /\ verdict = "pass"
          /\ attempts' = [attempts EXCEPT ![current + 1] = @ + 1]
          /\ history' = Append(history, outcome)
          /\ current' = current + 1
          /\ log' = log \o written
          /\ pc' = "loop"
          /\ token' = NoToken
          /\ UNCHANGED <<plan, strategies, snapshots, warned, adoptions,
                         record, reason>>
       \/ verdict = "pass" /\ JournalFails(written)
       \/ /\ verdict = "fail"
          /\ attempts' = [attempts EXCEPT ![current + 1] = @ + 1]
          /\ record' = outcome
          /\ token' = NoToken
          /\ pc' = "repair"
          /\ UNCHANGED <<plan, current, history, strategies, snapshots, warned,
                         adoptions, log, reason>>
       \/ /\ verdict = "raises" \/ Faults \/ OddData
          /\ Raise
  /\ UNCHANGED <<approvals, elapsed>>

-----------------------------------------------------------------------------
(* Diagnoser, Repairer and _apply_repair on the failed record *)

Decision(strategy, step) == [strategy |-> strategy, step |-> step]

\* Repairer._fix_input: the same step with new args, abort, or an exception.
FixInput(step) ==
  {Decision("fix_input", [step EXCEPT !.args = a]) :
      a \in IF "valid" \in RepliesTo("input_repair") THEN Args ELSE {}}
  \cup {Decision(RepairerOutcome(reply), NoStep) :
          reply \in RepliesTo("input_repair") \ {"valid"}}

\* Mutant: the cap is compared after one more try.
RepairDecisions_OneMore(step, tries, strategy) ==
  IF tries > MaxAttemptsPerStep THEN {Decision("abort", NoStep)}
  ELSE IF strategy = "fix_input" THEN FixInput(step)
  ELSE {Decision(strategy, NoStep)}

\* Repairer.repair: the per-step cap goes before the diagnosis.
RepairDecisions(step, tries, strategy) ==
  IF tries >= MaxAttemptsPerStep THEN {Decision("abort", NoStep)}
  ELSE IF strategy = "fix_input" THEN FixInput(step)
  ELSE {Decision(strategy, NoStep)}

\* What diagnosing and repairing the current step may come to.
Recoveries ==
  LET Strategies == UNION {DiagnoserOutcomes(reply) :
                             reply \in RepliesTo("diagnoser")} IN
  UNION {IF strategy = "raises" THEN {Decision("raises", NoStep)}
         ELSE RepairDecisions(Here, attempts[current + 1], strategy) :
           strategy \in Strategies}

\* The risk warnings of a rewritten step.
RewriteEvents(step) == IF Risky(step) THEN Warnings(1) ELSE <<>>

\* Mutant: a rewritten step is not scanned for risks again.
Rewrite_NoWarning(step, written) ==
  /\ plan' = [plan EXCEPT ![current + 1] = step]
  /\ log' = log \o written
  /\ pc' = "loop"
  /\ UNCHANGED <<warned, reason>>

\* _apply_repair for fix_input: the plan is rewritten in place.
Rewrite(step, written) ==
  /\ plan' = [plan EXCEPT ![current + 1] = step]
  /\ warned' = warned \cup RiskySteps(<<step>>)
  /\ log' = log \o written \o RewriteEvents(step)
  /\ pc' = "loop"
  /\ UNCHANGED reason

Recover ==
  /\ pc = "repair"
  /\ \E decision \in Recoveries :
       LET written == StepEvents(FALSE) IN
       \/ decision.strategy = "raises" /\ Raise
       \/ /\ decision.strategy # "raises"
          /\ history' = Append(history, record)
          /\ record' = NoRecord
          /\ \/ /\ decision.strategy = "retry"
                /\ log' = log \o written
                /\ pc' = "loop"
                /\ UNCHANGED <<plan, warned, reason>>
             \/ /\ decision.strategy = "fix_input"
                /\ Rewrite(decision.step, written)
             \/ /\ decision.strategy = "replan"
                /\ log' = log \o written
                /\ pc' = "replan"
                /\ UNCHANGED <<plan, warned, reason>>
             \/ /\ decision.strategy = "abort"
                /\ Escalate("abort_requested", written)
                /\ UNCHANGED <<plan, warned>>
          /\ UNCHANGED <<current, attempts, strategies, snapshots, adoptions,
                         token>>
       \/ /\ decision.strategy \in {"retry", "replan"}
          /\ JournalFails(written)
       \/ /\ decision.strategy = "fix_input"
          /\ JournalFails(written \o RewriteEvents(decision.step))
       \/ /\ decision.strategy = "abort"
          /\ EscalationFails(written)
  /\ UNCHANGED <<world, elapsed>>

-----------------------------------------------------------------------------
\* Ctrl-C outside the prompt: no handler of the loop catches KeyboardInterrupt.
Interrupt ==
  /\ Faults
  /\ Running
  /\ pc # "confirm"
  /\ Raise
  /\ UNCHANGED <<world, elapsed>>

\* time.time() advances whatever the loop is waiting for.
Tick ==
  /\ Running
  /\ elapsed < MaxWallTime
  /\ elapsed' = elapsed + 1
  /\ UNCHANGED <<pc, task, local, world, log, reason>>

\* time.time() is no monotonic clock: set back, it gives the budget time again.
SetBack ==
  /\ ClockSteps
  /\ Running
  /\ elapsed' \in 0..(elapsed - 1)
  /\ UNCHANGED <<pc, task, local, world, log, reason>>

Init ==
  /\ pc = "start"
  /\ plan = <<>> /\ current = 0 /\ attempts = <<>> /\ history = <<>>
  /\ strategies = <<>> /\ snapshots = <<>> /\ warned = {} /\ adoptions = 0
  /\ token = NoToken /\ record = NoRecord
  /\ Guard!GuardInit
  /\ approvals = {} /\ effects = <<>>
  /\ elapsed = 0
  /\ log = <<>>
  /\ reason = "none"

\* The steps of run() that need nobody but machines to go on.
Proceed ==
  \/ TaskStart
  \/ CreatePlan
  \/ FinishRun
  \/ StopRun
  \/ BeginStep
  \/ ExecuteAndVerify
  \/ Recover
  \/ Replan

Next == Proceed \/ MaybeConfirm \/ Interrupt \/ Tick \/ SetBack

Spec == Init /\ [][Next]_vars

\* A command without a timeout is running: it may never return.
Hanging ==
  /\ pc = "execute"
  /\ Here.action = "shell.run"
  /\ Here.args \in UntimedArgs
  /\ WritesForReal(Here)

\* LLM calls, disk calls and all other tools return (HTTP and subprocess
\* timeouts); nothing obliges a user to answer, but the other providers do.
Fairness ==
  /\ WF_vars(~Hanging /\ Proceed)
  /\ Provider # "cli" => WF_vars(MaybeConfirm)

FairSpec == Spec /\ Fairness

-----------------------------------------------------------------------------
(* Properties *)

TaskType ==
  /\ plan \in Seq(Step)
  /\ current \in 0..Len(plan)
  /\ attempts \in Seq(Nat) /\ Len(attempts) = Len(plan)
  /\ history \in Seq(Record) /\ Len(history) <= MaxTotalAttempts
  /\ strategies \in Seq(Seq(ACTION_ALLOWLIST))
  /\ snapshots \in Seq(Nat)
  /\ warned \subseteq Step
  /\ adoptions \in Nat

LocalType ==
  /\ token \in (1..MaxTotalAttempts) \cup {NoToken}
  /\ record \in Record \cup {NoRecord}

WorldType ==
  /\ Guard!TokensType(ACTION_ALLOWLIST)
  /\ approvals \subseteq Run
  /\ effects \in Seq(Run)

OutcomeType ==
  /\ pc \in {"start", "plan", "loop", "confirm", "execute", "repair",
             "replan", "done", "escalated", "raised"}
  /\ elapsed \in 0..MaxWallTime
  /\ log \in Seq(EventType)
  /\ reason \in Reasons \cup {"none"}

\* The variables hold values of their types; no record, token, approval or
\* effect belongs to an attempt beyond the budget.
TypeOK == TaskType /\ LocalType /\ WorldType /\ OutcomeType

\* "Each high-risk step must get its own granted token" (guard.py:8-9): a
\* high-risk tool that really ran did so in the attempt in which the user
\* approved that very step, arguments included, and no attempt runs two tools.
\* Retries and rewritten steps thus ask again.
ApprovedExecution ==
  /\ \A i \in DOMAIN effects :
       effects[i].step.action \in REQUIRES_CONFIRMATION
         => effects[i] \in approvals
  /\ \A i, j \in DOMAIN effects :
       effects[i].attempt = effects[j].attempt => i = j

\* "done" is earned: every step before current_step has, since the current
\* plan was adopted, a successful record with the arguments it has now,
\* although fix_input rewrites the plan and replan replaces it.
VerifiedPrefix ==
  \A i \in 1..current :
    \E k \in DOMAIN history :
      /\ history[k].adoption = adoptions
      /\ history[k].at = i - 1
      /\ history[k].step = plan[i]
      /\ history[k].success

\* The total budget bounds what is done to the machine, whatever replans and
\* retries happen (TaskBudget.max_total_attempts).
AttemptBudget == Len(effects) <= MaxTotalAttempts

\* The per-step cap (repair.py:73-77) bounds the tries of one step of one plan;
\* with a cap of 0 the first try is still made.
StepRetriesBounded ==
  \A n, at \in 0..MaxTotalAttempts :
    Cardinality({k \in DOMAIN history :
                   history[k].adoption = n /\ history[k].at = at})
      <= IF MaxAttemptsPerStep = 0 THEN 1 ELSE MaxAttemptsPerStep

\* The wall-clock budget is checked before the prompt and the LLM calls, not
\* after: a step may start late, but it is the last one of the run, if nobody
\* sets the clock back.
OvershootAtMostOne ==
  \A k \in DOMAIN history : history[k].late => k = Len(history)

\* strategies_tried is the set of shapes adopted: the running plan is always
\* among them, also after its arguments were rewritten, none is listed twice,
\* and there are no more than plans were adopted.
StrategiesFaithful ==
  /\ plan # <<>> => Fingerprint(plan) \in ToSet(strategies)
  /\ \A i, j \in DOMAIN strategies : strategies[i] = strategies[j] => i = j
  /\ Len(strategies) <= adoptions

\* No elevated shell command runs that plan_warnings did not announce before,
\* the ones fix_input smuggles in included (agent.py:282-288).
NoSilentElevation ==
  \A i \in DOMAIN effects : Risky(effects[i].step) => effects[i].step \in warned

\* In a real run an approval is never left lying in the guard: outside the
\* window between the answer and the execution no token is pending, and in it
\* only the one of this attempt (also if the run was broken off there).
NoLeftoverApproval ==
  ~DryRun => \A t \in 1..MaxTotalAttempts :
               Guard!Pending(t) => pc \in {"execute", "raised"} /\ t = Attempt

\* A dry run touches nothing and burns no approval (executor.py:15-17): every
\* yes of the user is still pending.
DryRunKeepsApprovals ==
  DryRun =>
    /\ effects = <<>>
    /\ \A a \in approvals : tokens[a.attempt] = a.step.action

\* "Every event is logged ... so the run is replayable from disk"
\* (agent.py:6-7): unless an exception left run(), the log alone gives the
\* number of attempts, the step the run is at, and how it ended.
LoggedSteps == {i \in DOMAIN log : log[i].event = "step"}
SinceLastPlan(i) == \A j \in DOMAIN log : j > i => log[j].event # "plan"
LogReplaysRun ==
  pc # "raised" =>
    /\ Cardinality(LoggedSteps) = Len(history)
    /\ current = Cardinality({i \in LoggedSteps : log[i].ok /\ SinceLastPlan(i)})
    /\ \A ok \in BOOLEAN :
         (\E i \in DOMAIN log : log[i] = Event("task_end", ok))
           <=> pc = IF ok THEN "done" ELSE "escalated"

\* Whatever raises, the trail misses at most the last thing done to the
\* machine: all effects but the newest have their step in the log.
TrailLagsByOne ==
  \A i \in DOMAIN effects :
    effects[i].attempt <= Cardinality(LoggedSteps) + 1

\* "Every event is logged to the episodic JSONL log" (agent.py:7-8): a run that
\* run() returns from, done or escalated, has logged a step for each effect it had
\* on the machine, the failed, rewritten and aborted attempts included.
ReturnedRunIsLogged ==
  pc \in {"done", "escalated"} =>
    \A i \in DOMAIN effects : effects[i].attempt <= Cardinality(LoggedSteps)

\* A run that waits neither for the user nor for a command without a timeout
\* ends, however often the clock is set back: the attempt budget does not depend
\* on it.
RunEnds == <>Stopped \/ <>[](pc = "confirm") \/ <>[]Hanging

\* What is left of the run at most: so many steps of its own.
Stage ==
  CASE pc = "start"   -> 7
    [] pc = "plan"    -> 6
    [] pc = "replan"  -> 5
    [] pc = "loop"    -> 4
    [] pc = "confirm" -> 3
    [] pc = "execute" -> 2
    [] pc = "repair"  -> 1
    [] OTHER          -> 0
Rank == 8 * (MaxTotalAttempts - Len(history)) + Stage

\* Nothing the loop does is for free, whatever planner, repairer, user and clock
\* do: each step of run() but the waiting takes away from a finite stock, so no
\* chain of replans, retries and rewritten steps goes round in a circle.
StepsUseUpTheRun ==
  [][Rank' \in 0..(Rank - 1)]_<<pc, task, local, world, log, reason>>

-----------------------------------------------------------------------------
(* The abstract run *)

Status ==
  CASE pc = "done"      -> "done"
    [] pc = "escalated" -> "escalated"
    [] pc = "raised"    -> "broken"
    [] OTHER            -> "running"

\* An attempt is spent once it is verified, its record still local or not.
Spent == Len(history) + IF record # NoRecord THEN 1 ELSE 0

\* Consent is the window between the user's yes and the execution.
Consented == IF pc = "execute" /\ token # NoToken THEN Here ELSE NoStep

Deeds == [i \in DOMAIN effects |-> effects[i].step]

Task == INSTANCE TaskRun WITH
  HighRisk <- {step \in Step : NeedsConfirmation(step)},
  MaxAttempts <- MaxTotalAttempts,
  status <- Status, spent <- Spent, consent <- Consented, deeds <- Deeds

\* The loop, for all its replans, retries and exceptions, is a task run as
\* TaskRun promises it: consent names the step that then runs, and is gone
\* after the attempt.
TaskRefinement == Task!Spec

-----------------------------------------------------------------------------
(* Claims of the documentation that the code does not keep; each is checked
   by a run of its own that finds the counterexample. *)

\* "Contract: Agent.run() NEVER raises" (agent.py:10).
NeverRaises == pc # "raised"

\* "Strategy-exhaustion detection (planner emits the same shape twice)"
\* (escalation.py:8): a plan of a shape tried before is not executed.
RepeatedShapeStops ==
  adoptions > Len(strategies) =>
    \A k \in DOMAIN history : history[k].adoption # adoptions

=============================================================================
