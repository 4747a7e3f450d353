# A verification project for Sentricoon

Sentricoon is an agent that repairs a personal computer: an LLM plans steps, the
agent runs them as tools, verifies each, diagnoses and repairs failures, and hands
over to a human when its budgets are spent. This directory holds TLA+ models of the
parts of it that must not go wrong, the TLC configurations that check them on small
instances, and proofs, checked by TLAPS, for all instances.

    tlc -workers 2 -config MCAgentLoop.cfg MCAgentLoop.tla     # one run
    tlapm AgentLoopProofs.tla                                  # one set of proofs

`PROJECT.json` lists all runs, the source lines each definition stands for, the
mutants (a plausible bug for each property, which the property catches), the
hazards, the findings and the theorems.

## 1. Inventory

| Component (`sentricoon/`) | State it keeps | Operations | What makes it correct |
| --- | --- | --- | --- |
| Agent loop (`agent.py`, `state.py`) | `TaskState`: plan, current step, history, strategies, snapshots, warnings; the local `step_attempts`, `token`, `record` | `run`, `_adopt_plan`, `_maybe_snapshot`, `_maybe_confirm`, `_execute_and_verify`, `_apply_repair`, `_escalate` | nothing high-risk without consent to that very step; budgets hold; "done" is earned; the log tells what was done; the run ends |
| Safety guard (`safety/guard.py`) | dictionary from tokens to actions | `grant_confirmation`, `validate`, `validate_action_only`, `has_pending` | tokens are single-use, bound to an action, not burned by a wrong caller |
| Policies, tool router (`safety/policies.py`, `router.py`) | two static sets; the registry | `register`, `get` | what is not allowlisted and registered never runs |
| Executor (`executor.py`) | the dry-run flag | `execute`, `_dry_run` | the guard comes first; a dry run touches nothing |
| Verifier (`verifier.py`) | none | three layers, cheapest first | a step passes only by a layer's word |
| Planner, diagnoser, repairer (`planner.py`, `diagnoser.py`, `repair.py`) | none (the cap per step) | one LLM call each, and parsing | whatever the LLM answers becomes a plan, a decision or an escalation |
| Confirmation (`confirmation.py`) | none | `request` of three providers | all but "y" and "yes" is a denial |
| Escalation (`escalation.py`) | none of its own (the list of strategies is in `TaskState`) | `should_escalate`, `record_strategy`, `build_report`, `write_report` | the first exhausted budget stops the run; reports are kept |
| Episodic log (`memory.py`) | one JSONL file, a lock | `append`, `read_all` | an append-only log that survives crashes |
| Snapshots (`snapshot.py`) | one JSON file per snapshot | `capture_file`, `capture_process`, `write`, `load`, `restore` | what was done can be undone |
| Tools (`tools/`) | the machine | `run`, `dry_run_describe` | they do what they report |
| CLI (`main.py`) | none | wiring, `run_task`, `run_rollback`, printing | exit codes |
| LLM routing and backends (`llm/`) | which backend each role is mapped to, registered backends | `register`, `backend_for`, `complete` | a role always has a backend; no answer of a backend breaks the run |
| Configuration (`config.py`), catalogue (`catalog.py`), MCP (`mcp/`), scheduler stub | configuration read once | registration | |

**How they interact.** One thread runs the loop and calls the others as functions.
The state they share is on disk (files, snapshots, log, reports) or is the guard's
dictionary, which the executor reads and the loop writes. What is concurrent is
outside: the clock, the user at the prompt, other programs changing files, processes
that begin and end, other agent runs writing reports into the same directory, readers of the log. The log
itself takes a lock because threads of an embedding program may share it.

**What is hard.** Retries, rewritten steps and replans keep or reset different parts
of the state (section 4.2); time passes while the loop is blocked; every append can
raise and end the run in the middle of a step; snapshot, log and tool are three
effects in a row with a crash possible between any two; a retried write captures
what the first try left; log lines reach the disk in pieces; a signal is sent to a
pid, and the pid may change hands between prompt, signal and verification; the clock
may be set back, a command may never return. The full list with
source lines is in `PROJECT.json` under `hazards`.

## 2. Modules

    Policies --> SafetyGuard --> GuardCalls --> MCGuardCalls
        |            |               `-------> SafetyGuardProofs
        |            | INSTANCE
        `--------> AgentLoop ---------------> MCAgentLoop
      LLMReplies -> Verifier ->  |   `-------> AgentLoopProofs -> AgentTaskProofs
        |              |         |              -> AgentWorldProofs
        `-> LLMRouting -> -------+
                       |  TaskRun <- refines
                       `-> ProcessKill -> MCProcessKill, ProcessKillProofs
      Rollback --> MCRollback, RollbackProofs
      EpisodicLog --> MCEpisodicLog, EpisodicLogProofs    (AppendOnlyLog <-- refines)
      FailureReports --> MCFailureReports, FailureReportsProofs

* **Policies**: the allowlist, the actions that need confirmation, the registered
  and the read-only tools.
* **SafetyGuard**: the dictionary and its calls as a component. **GuardCalls** puts
  it behind an arbitrary caller and counts grants and passes.
* **LLMReplies**: an answer of the LLM reduced to what the parsing code tells apart
  (unreachable, null content, a list for content, no JSON, no object, bad fields, an
  unhashable enum, valid), and what planner, diagnoser, repairer and semantic verifier make of each.
* **Verifier**: the verdicts the three layers can reach on a result.
* **LLMRouting**: the backend of each role with and without a local one; the kinds of
  answers a role may get are those of its backend.
* **AgentLoop**: `Agent.run`. `pc` says where `run` is: `plan` and `replan` are LLM
  calls of the planner, `loop` the head of the while loop, `confirm` the prompt,
  `execute` the tool and the verifier, `repair` the diagnoser and the repairer. An
  action is the code between two places where it may be blocked for long or where
  the order of its effects matters; all appends to the log it makes are in it,
  and `JournalFails` is the same action broken off at any of them. `Interrupt` is
  Ctrl-C outside the prompt. Two constants say what may raise: with `Faults` the disk
  fails and the user presses Ctrl-C; with `OddData` nothing fails, but valid plans,
  paths and process names hold what the code's own calls, outside any try, do not take
  (section 4.2).
* **TaskRun**: what a run promises without plans and tools: bounded attempts, at most
  one write to the machine in each, consent naming the very step and spent by its
  attempt. AgentLoop implements it (`TaskRefinement`): `spent` is the history with
  the record not yet appended, `consent` the step at hand while a token is held.
* **ProcessKill**: one `process.kill` step with its retries, in full: the capture of
  the process name, the prompt, the signal, the listing that verifies it (pids first,
  then a name per pid), the LLM when nothing can be observed, and the next attempt.
  Around it processes end, stay as zombies, are reaped, and begin under free pids, on
  Unix or Windows. AgentLoop knows of this only which verdicts there can be; both
  take them from `Verifier`.
* **Rollback**: files, snapshot files and log entries of a run, the file tools, other
  programs, and the rollbacks that follow. It composes `_maybe_snapshot`,
  `Snapshotter`, the tools' `run` and `Restorer`; the loop around them is left out,
  so any sequence of steps may come. `PowerFails` takes what was not synced: the log
  keeps all its events, snapshots and written files may be lost or cut off.
* **EpisodicLog**: threads that append lines in pieces under the lock, failing
  appends, power failures, and `read_all`. It implements **AppendOnlyLog**: of the
  events before the first failed append, which is mapped to that log's crash.
* **FailureReports**: several runs writing their report pairs.

History variables, which only properties read, are marked so where they are declared.
Operators with a suffix (`Consume_Keeps`) before an operator are mutants of it: no
specification uses them.

## 3. Runs, bounds and what they show

| Run | Configuration | Bounds | Checks |
| --- | --- | --- | --- |
| `guard` | MCGuardCalls | 2 tokens, all actions and an unlisted one, 4 calls | TypeOK, SingleUse, ApprovalNotBurned |
| `loop` | MCAgentLoop | 4 plans, all replies, faults, odd data, 4 attempts, 1 tick, 4 strategies, 2 tries per step | the twelve safety invariants of the loop, the refinement of TaskRun, StepsUseUpTheRun, and RunEnds under fairness |
| `loop_dry_run` | AgentDryRun | as `loop`, but 3 attempts, a dry run with automatic approval, no local backend, and a clock that is set back | DryRunKeepsApprovals, and RunEnds under fairness |
| `rollback` | RollbackOneFile | 1 path, 2 steps, 1 foreign change, 1 power failure, 2 rollbacks | TypeOK, three safety properties |
| `kill` | ProcessKill | 2 pids, 4 processes (one with an undecodable name, one with a hidden one), 2 attempts, both platforms | TypeOK, two safety properties, AttemptsMoveOn, and KillSettles under fairness |
| `log` | EpisodicLog | 3 threads, 5 events, 2 failed appends | TypeOK, ReadsWhatReturned, refinement of AppendOnlyLog, and LockIsReleased under fairness |
| `reports` | ReportsKept | 3 runs, 2 classes, 2 seconds | ReportsStay, PairsMatch |

What each shows:

* `guard`: no order of calls passes the guard twice on one grant or loses a grant to a
  caller with the wrong action.
* `loop`: with a user at the prompt, an LLM that may answer anything, disk calls and
  odd data that raise, and Ctrl-C at any point, consent, budgets, bookkeeping and audit trail agree.
  The loop never spins: the user and a command without a timeout are all it may wait
  for, and every step it takes uses up part of a stock (`StepsUseUpTheRun`).
* `loop_dry_run`: a dry run touches nothing and keeps every approval, and without a
  user the run always ends, however often the clock is set back.
* `rollback`: undo works for whatever order of steps, crashes and rollbacks; after a
  power failure, for the files whose snapshots are still there.
* `kill`: a kill verified by observation is about the process that was signalled,
  though the listing is no single look at the process table and pids change hands;
  and an attempt never looks twice (`AttemptsMoveOn`).
* `log`: what was acknowledged survives threads, failures and power cuts, up to the
  first torn line; and an append that raises keeps nobody waiting for the lock.
* `reports`: a report, once written, stays unless its very name is used again.

**Why the bounds are enough.** The plans of the loop runs contain between them a
high-risk step, a step with a snapshot, each verification layer, an action without a
tool, one and two steps; two argument values, one elevated, let fix_input smuggle it
in. Four attempts leave room for a retry, a rewrite and two replans in one run, so that every counter is reset and
used again; a plan can be replaced by a shorter, a longer and an equal one. One tick
is enough for the clock: the code only compares the time with the budget, and the
tick may fall during a step, between steps, or never. Two snapshots of one file
are what a retried write needs to go wrong. That a snapshot is of its step's own path
(`TrailLeadsToSnapshots`) says nothing with one path; for more paths, steps and
rollbacks there is the proof. The run takes Windows' line ends, `rollback_exact` Unix's. Two pids and two ordinary processes are enough for a pid to change hands
before and after the signal; the other two processes are one of each kind whose name
the listing and the capture trip over. One failed append hides later events; two let a torn line precede a
torn line.

The runs marked `violation` in `PROJECT.json` check one documented claim each that
the code does not keep (section 6).

**Deadlock** checking is off: runs of the program end, and bounded calls run out.
Whether the loop may stop anywhere else is what `RunEnds` checks.

**Fairness** (`AgentLoop!Fairness`): the steps that need only machines are taken if
they stay possible. The code's reason is that LLM calls (`timeout_s` of the backend),
`systemctl`, `tasklist`, `taskkill` and shell commands (30 s by default) have
timeouts; a plan that sets `timeout_s` to null is the exception (`UntimedArgs`,
`Hanging`), and nothing is then assumed of the tool: `RunEnds` says that the run may
wait there for good. The prompt is fair only for the automatic providers: a user may
never answer, and the run may wait there, too. Ticks, clock changes and faults are not
fair: termination does not rest on the clock, only on the attempt budget. In
ProcessKill only the agent's own steps are fair; no process is obliged to end. In
EpisodicLog (`FairSpec`) a disk call that was begun returns or raises, for each thread;
nobody need ever append again, and the process need not die.

## 4. What the models say, and where they stop

### 4.1 Guard

`SingleUse` counts for each token and action: passes plus the grant still pending never
exceed grants, under re-granting before or after use. `ApprovalNotBurned` is about
steps: an entry leaves the dictionary only when its own action passes. (Re-granting
rebinds a token, which is documented, so an approval can be replaced.)

### 4.2 The loop

The subtle part is what survives what:

| | retry | fix_input | replan |
| --- | --- | --- | --- |
| plan, current step | kept | one step rewritten | replaced, 0 |
| tries of the step | kept | kept | cleared |
| strategies | kept | kept (arguments do not count) | one more, unless the shape is known |
| attempts, clock, warnings | kept | kept, warnings added | kept, warnings added |
| approval | a new one is needed | a new one is needed | a new one is needed |

`VerifiedPrefix`, `StepRetriesBounded`, `AttemptBudget`, `StrategiesFaithful`,
`NoSilentElevation` and `ApprovedExecution` each relate two of these rows, and
`LogReplaysRun` the state to the log. `TrailLagsByOne` is what remains of the log's
promise when anything may raise: the effects not in it are at most the newest one;
`ReturnedRunIsLogged`, that none is missing when `run()` returns.

Assumptions of the model: plans come from a set of plans that pass
`_parse_and_validate`; a tool writes to the machine or not as a whole, also when it
reports failure (`effects` counts that it was started); `OvershootAtMostOne` needs a
clock that never goes back, which `time.time()` may (with `ClockSteps` it does, in
`loop_dry_run`); one run per guard, as `build_agent` wires it; the report of an
escalation has no effect on the run but that writing it may raise something other
than `OSError`.

An exception leaves `run()` in four ways. A reply may make a parser raise (`LLMReplies`).
With `Faults` any append may fail and Ctrl-C may come anywhere. With `OddData` a call on
unusual but legal data raises: `Path.exists` in `capture_file` (`snapshot.py:134`) on a
name that is too long or below a directory that may not be searched, `read_text` in
`capture_process` (199) on a process name that is no UTF-8, `print` at the prompt and
`write_text` of a report (`escalation.py:409`) on a lone surrogate that an LLM's JSON or
the command line may carry, `json_safe` and `json.dumps` on arguments nested too deep. The
model does not say which data does what, only at which steps it bites: all but the
first and the last append, whose payloads are plain, and the answers of providers that
print nothing.

### 4.3 Snapshots

`EarliestSnapshotRestores` is the promise of undo that the code can keep: whatever
the run did to a file, and in whatever order the user rolled back other snapshots,
restoring the earliest snapshot of the file gives back what the run began with, if
nobody else changed the file and no step ran without a snapshot, and up to line
ends: `read_text` makes LF of all (`Normal`), `write_text` leaves the platform's
(`Written`: LF on Unix, CRLF on Windows). It needs both conditions: `_maybe_snapshot` goes on when the write fails
(`SaveFails`), and the file may change between capture and tool
(`SnapshotHoldsWhatWasDestroyed` exempts exactly these steps).

After a power failure the log, whose events are synced, may name a snapshot that is
gone or cut off, and files may be old, new or cut off (`PowerFails`; `os.replace` is
not preceded by an fsync). What remains of the promise: a file all of whose steps have
kept their snapshots can be restored, and no name leads to another file's snapshot.
A failure after the first rollback is left out: it takes back what was restored.

Left out: process entries (they restore nothing), parent directories and file modes
(a rollback does not remove or reset them) and symbolic links.

### 4.4 Processes

SIGTERM returns before its process ends, if it ends, and the agent lists the processes
at once. So the first verdict of a kill that will work is often "still present"; the
next attempt signals a zombie or nobody, or whoever has the pid by then. What holds is
stated from the victim's side: `VerifiedIsGone` (if the listing says so, the signalled
process is gone, up to names this user may not read) and `VictimWasShown` (if the
victim is not the process the step was made for, or the snapshot names, that one had
ended: consent was to a pid). What does not hold, and no document claims it: once a
process has ended late, every retry fails with "no such process" and the hard layer
counts that as a failure, so the step of a kill that worked is never verified; and as
long as a process whose name is no UTF-8 lives, no kill is observed and all verdicts
are the LLM's.

### 4.5 Log and reports

A line is three pieces (no JSON yet, JSON, line end), which is all `read_all`
distinguishes. `LogRefinement` holds with failures too, because it promises only the
events before the first failed append; `ReadsWhatReturned` adds that readers
get nothing twice or out of order afterwards. A reader takes no lock; that it sees one
moment of the file follows from bytes only being added.

A report's name is its class and second. `ReportsStay` and `PairsMatch` hold for runs
whose name is their own; a goal class may be called "unclassified" too.

### 4.6 Model-checked only

Liveness (`RunEnds`, `KillSettles`, `LockIsReleased`): fairness and ENABLED are outside
the prover's reach. What these three rest on besides fairness is proved as far as it is
safety: `RunIsFinite` and `AttemptsAreFinite` say that there are no infinitely many
steps to wait for, so that what remains to TLC is that no step is missing. Everything
else a passing run checks is a theorem. Of the claims that do not hold (section 6),
all but one are proved under the condition that the code would need; `CaptureNeverRaises` has
no theorem, as its model holds only one of the ways in which a capture can raise.

Some hazards the code does nothing about, and the properties say so by exempting the
case itself: a file changed between capture and tool, a snapshot lost with the power, two
reports of one name, a command without a timeout, a reused pid. What such a property
shows is that nothing else goes wrong there; the notes under `hazards` say it for each.

### 4.7 Not modelled

Prompts, wording and layout of reports and of the CLI; HTTP; paths and names in the
configuration; the tool catalogue, which is prompt text; the MCP adapter, which
`main.py` does not wire in and whose action names `ToolRouter.register` refuses as long
as the allowlist is as it is (a tool behind it would be one more tool of AgentLoop,
whose failed attempts may have had their effect); the scheduler and memory layers 3
and 4, which are stubs.

## 5. Proofs

The modules named `...Proofs` prove, for every value of the constants that satisfies
the named assumptions, every safety and action property the passing runs check, that
AgentLoop implements TaskRun, and that EpisodicLog implements AppendOnlyLog:

* **Guard.** `TypeCorrect`, `TokensAreSingleUse`, `ApprovalsAreNotBurned`. `SingleUse` is
  inductive once `TypeOK` is known, because it counts the pending grant; without
  `Outstanding` it would not be.
* **Loop.** `TypeCorrect`, `ApprovedExecutionHolds`, `AttemptBudgetHolds`, all from
  `Inductive == TypeOK /\ Control /\ Consent /\ Effects`. The types alone are not
  preserved: a record may be appended without exceeding the budget only because
  inside a step the budget has an attempt left (`Control`). An effect is approved only
  because the token at hand is this attempt's and the user's yes was to this step
  (`Consent`). No attempt runs two tools because effects are ordered by attempt and
  none is beyond the attempts spent, the record not yet in the history included
  (`Effects`). There is one lemma per action; those for exceptions and escalations are
  shared (`RaiseKeeps`, `LeaveKeeps`, `EscalateKeeps`). What is assumed: plans are
  nonempty sequences of steps, budgets are naturals (`BudgetAssumption`,
  `PlansAssumption`), null values are distinct (`NullAssumption`). Nothing is assumed
  about replies, tools or faults.
* **Bookkeeping of the loop** (`AgentTaskProofs`). The actions of AgentLoop, many as
  they are, treat plan, history and counters in five ways: they leave them alone, adopt
  a plan, book a success, keep a failure in `record`, or append it and go on with a
  retry, a rewrite or a replan (`Calm`, `Adopting`, `Passing`, `Failing`, `Recovering`).
  `Shapes` says so once, and each invariant is then preserved by five cases.
  `VerifiedPrefixHolds` and `StrategiesHold` need little more than that. For
  `NoSilentElevationHolds` the warnings must cover the plan, not only what has run
  (`Announced`). `OvershootHolds` needs that after a late record no step is begun any
  more (`Overrun`), and assumes `~ClockSteps`: with a clock that is set back it is
  false. `RetriesBounded` needs that `step_attempts` counts the records of the plan at
  hand, one ahead of them during the repair (`TriesCounted`).
* **How long a run takes** (`AgentTaskProofs`). `RunIsFinite`: every step of the loop
  lowers `Rank`, eight times the attempts the budget has left plus the place within an
  iteration (`Stage`), so a run has at most 8 * `max_total_attempts` + 7 steps. That the
  rank stays a natural number is where `Control` comes in again: a record is only
  appended within the budget. A replan goes back to an earlier stage, but only after a
  record. Neither clock nor strategies nor the cap per step are needed for this, so
  `RunEnds` rests on one budget alone.
* **What breaks the documented claims.** Where a claim does not hold (section 6), a
  theorem says what is missing: `NeverRaisesIfOrderly` (no disk fault, no Ctrl-C, no odd
  data, and none of the replies that a parser lets through: `Orderly`),
  `UndoIsExactWithNativeLineEnds` (all files
  have the line ends that `write_text` gives them) and `AllReadUnlessFailed` (no append
  failed). The counterexamples of the runs show that these conditions are needed. For
  the loop detector there is none: `LoopDetectorIsDead` says that the detector of repeated shapes, after which
  an escalation reason is named, finds nothing in any run whatever, as
  `StrategiesFaithful` keeps the list free of what it looks for.
* **Consent** (`AgentWorldProofs`). Towards guard and machine a step of the loop
  grants, executes, or does neither (`Granting`, `Executing`, `Aside`).
  `NoApprovalIsLeft` needs that the prompt is only for high-risk steps and that what is
  pending is what the loop holds (`Held`); `DryRunHolds`, that approvals belong to
  attempts made (`Dated`), so that no grant overwrites one. `LoopImplementsTaskRun` maps
  initial states to initial states and each step to a step or a stutter of TaskRun.
  It assumes that there are argument values at all, without which no step can be
  written down (`Args # {}`).
  `DenialIsSafe`: under `AlwaysDenyProvider` no high-risk tool runs at all, because there
  is no way past the prompt, not even by rewriting a step.
* **Trail** (`AgentWorldProofs`). Every step appends a list of events to the log that is
  its tale, and an exception breaks it off anywhere (`Told`, `Tale`). `LogReplays` then
  counts the step events, and those since the last plan event (`Recounted`);
  `TrailLags` follows: while the run lasts the log has as many steps as the history, and
  no effect is beyond the attempt being made; an exception adds one effect at most and
  ends the run (`Lagging`). `ReturnedRunsAreLogged`: a run that is done or escalated has
  no record in hand, so nothing it did is beyond the log.
* **Kill** (`ProcessKillProofs`). `TypeCorrect`, `VictimIsTraced` and
  `ListingTells`, from one idea: a process once behind the step's pid is behind
  it still or is gone, since pids are not taken over from the living (`Traced`). While
  names are read the victim is listed, yet to be read, gone or hidden (`Listed`), and a
  verdict rests on that (`Judged`). All that processes may do to the table in one step
  is put in one formula (`Drifts`), which preserves these three. `AttemptsAreFinite`: what other
  processes do is no step of the agent, and each of its steps goes on to the verdict,
  reads one more name, or begins an attempt the cap leaves, in lexicographic order.
* **Reports** (`FailureReportsProofs`). `ReportsAreKept` and `PairsAreTold`. A file is
  under its writer's name (`Labelled`), and a name that is a run's own now was its own
  before (`OwnBefore`), because nobody's stamp changes once it is taken: so what the run
  has written is there (`Kept`).
* **Log** (`EpisodicLogProofs`). `TypeCorrect` and `ReturnedIsRead`. As long as nothing
  has failed the file is the lines of all events begun, one after the other, the last
  one as far as it was written (`Dense`), because only the holder of the lock writes, and
  that the rest of the newest event (`Numbered`, `Remaining`). What returned in that time is at its
  place and below `synced`, with all before it (`Durable`), and nothing later moves it.
  That heads come in the order of events (`InOrder`) holds after failures, too: the
  reader's order needs no more. `LogIsAppendOnly` is the refinement. Its state function
  is what `read_all` returns (`EventsAt`, which takes the lines read by their rank in the
  file), and the key is a closed form of it: at any time readers get the events 1..n for
  some n (`Seen`), among them all that were acknowledged (`Shows`). Until an append
  fails n is the number of lines whose last but one piece is on disk (the line end does not
  matter to a reader); from then on it is one less than the first failed event, for
  good (`Settled`). So a write adds event n + 1 or nothing, a return acknowledges an
  event that is shown, the first failure and the death of the process take only
  unacknowledged events, and every later step stutters.
* **Rollback.** `TypeCorrect`, `RollbackRestores`, `TrailLeads` and `SnapshotsHold`. The
  invariant has five parts beyond the types: steps not begun have left nothing and all
  before the current one were executed (`Fresh`), log and snapshots tell of the same
  steps (`Trail`), while the run lasts a file without a snapshot that the promise
  covers is as the run found it (`Untouched`), its earliest snapshot holds the original up to line ends
  (`Earliest`), and the property itself, which the rollbacks preserve step by step. A power failure keeps
  `Earliest` because a lost snapshot of an executed step takes its file out of the
  promise, and that of a step in progress was the latest. `SnapshotsHold` needs one
  part more: the entry of the step in progress is its file, unless others changed it
  since (`Held`).
  Assumed: reading twice normalises no
  further, and what was read and written back reads the same (`TextAssumption`); the
  named states of files differ.

TLC checks the same properties in the runs of section 3, where the mutants show that
each can fail.

## 6. Where the code and its documentation disagree

| Run | Claim | What the code does |
| --- | --- | --- |
| `loop_raises` | "`Agent.run()` NEVER raises" (`agent.py:10`) | null content from the LLM raises `TypeError` in planner, diagnoser, repairer and verifier; an enum holding a list does in planner and diagnoser. The run has neither faults nor odd data, with which other calls raise, too (section 4.2). |
| `loop_same_shape` | "planner emits the same shape twice" is detected (`escalation.py:8`) | the list is deduplicated (`escalation.py:191`), so the detector never finds a repetition; such a plan runs until another budget ends it. |
| `rollback_exact` | "undo what was already applied" (`snapshot.py:4`) | CRLF comes back as LF on Unix (and LF as CRLF on Windows), reported as success. |
| `kill_capture` | "Capture methods are best-effort: they never raise" (`snapshot.py:108`) | a process name that is no UTF-8 (the kernel cuts names after 15 bytes, within a character if need be) raises `UnicodeDecodeError` in `capture_process`, and run() with it. (So does `Path.exists` in `capture_file` on a name that is too long.) |
| `log_hides` | "Return every event in the log" (`memory.py:130`) | a torn line in the middle, left by an append that raised, ends the reading. |

Seen while reading, without a run: "Every event is logged" (`agent.py:7`), but the
step event is appended after verification and diagnosis (`agent.py:159`), so when
these raise the tool has run and no event says so (`TrailLagsByOne` is what holds, and
`ReturnedRunIsLogged` if nothing raised); "Attempted N step(s) across M distinct strategy(ies)" (`escalation.py:392`) counts the
plan just adopted, although it may have exhausted the strategies before any of its steps
was tried; the directory of reports "accumulates a history" (`escalation.py:400`), but
two runs of a class in one second overwrite each other (`ReportsStay` exempts them);
the CLI does not print the snapshot paths the
repository's README (line 183) tells the user to roll back from; the observation layer
never looks at files because the hard layer has already passed them (modelled in
`Verifier`); a rollback counts process entries as succeeded (`main.py:216`);
`INPUT_REPAIR` is to go "local first, cloud on repeated failure" (`llm/role.py:16`), but
nothing ever falls back (modelled in `LLMRouting`); without a local backend the
semantic layer is said to be skipped (`config.py:67`, `main.py:68`), but is built and
asks the cloud (`main.py:127`); the user is to set `requires_confirmation` of an MCP tool
(`mcp/adapter.py:12`), but the adapter has no such parameter; `app.open` and
`browser.open` are allowlisted without a tool (modelled in `Policies`).

## 7. Plan

Done: guard, loop, rollback with power failures, process kill, log, reports, and the
theorems of section 5.

Next, in this order:

1. **CommandLine**: exit codes of `run_task` and `run_rollback`, process entries.
2. **ToolRouting**: `register` with MCP adapters, once an allowlist lets one in.
