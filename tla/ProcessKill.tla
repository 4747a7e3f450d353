----------------------------- MODULE ProcessKill -----------------------------
(***************************************************************************)
(* One process.kill step of the agent, from its snapshot to its verdict,   *)
(* against a process table that never stands still.                        *)
(*                                                                         *)
(* The step names a pid.  Between planning, capture, the user's yes, the   *)
(* signal and the listing that verifies it, the process with that pid may  *)
(* end, be reaped, and another may take the pid.  SIGTERM is a request: it *)
(* returns at once, and the process ends later or never.  The listing is   *)
(* not one look either: os.listdir("/proc") first, then a file per pid.    *)
(***************************************************************************)
EXTENDS Verifier, Naturals, FiniteSets

CONSTANTS
  Pid,
  Process,      \* what may hold a pid; each lives once
  Undecodable,  \* processes whose comm is no UTF-8: it holds at most 15 bytes
                \* of the name, cut where they end
  Hidden,       \* processes whose comm this user may not open
  BadPid,       \* a pid argument that is no positive int
  NoProcess,
  Replies,      \* what the verifier's LLM backend may answer
  MaxAttemptsPerStep

ASSUME ProcessAssumption ==
  /\ NoProcess \notin Process
  /\ BadPid \notin Pid
  /\ Undecodable \subseteq Process
  /\ Hidden \subseteq Process
ASSUME RepliesAssumption == Replies \subseteq AllReplies
ASSUME CapAssumption == MaxAttemptsPerStep \in Nat

VARIABLES
  platform,  \* sys.platform, as far as it is told apart
  table,     \* which process holds each pid
  life,      \* of each process
  pc,        \* where the agent is in this step
  target,    \* args["pid"] of the step
  meant,     \* who held that pid when the step was made (history variable)
  tries,     \* attempts of the step so far
  captured,  \* the name in this attempt's snapshot, or NoProcess
  victim,    \* who got this attempt's signal, or NoProcess (history variable)
  result,    \* of the tool, as Verifier has it
  todo,      \* pids listed whose name is still to be read
  found,     \* pids in the listing
  verdict, layer

world == <<table, life>>
step == <<platform, target, meant, tries>>
attempt == <<captured, victim, result>>
listing == <<todo, found>>
judgement == <<verdict, layer>>
vars == <<world, step, pc, attempt, listing, judgement>>

Settled == pc \in {"verified", "stopped", "raised"}

\* Who a pid argument stands for.
Holder(p) == IF p = BadPid THEN NoProcess ELSE table[p]

-----------------------------------------------------------------------------
(* Other processes *)

\* A process ends, by the signal or by itself; on Unix it may stay in /proc
\* until its parent has waited for it.
Exit(q) ==
  /\ ~Settled
  /\ life[q] = "alive"
  /\ \/ /\ platform = "unix"
        /\ life' = [life EXCEPT ![q] = "zombie"]
        /\ UNCHANGED table
     \/ /\ life' = [life EXCEPT ![q] = "gone"]
        /\ table' = [p \in Pid |-> IF table[p] = q THEN NoProcess ELSE table[p]]
  /\ UNCHANGED <<step, pc, attempt, listing, judgement>>

Reap(q) ==
  /\ ~Settled
  /\ life[q] = "zombie"
  /\ life' = [life EXCEPT ![q] = "gone"]
  /\ table' = [p \in Pid |-> IF table[p] = q THEN NoProcess ELSE table[p]]
  /\ UNCHANGED <<step, pc, attempt, listing, judgement>>

\* A process begins under a free pid, a used one included.
Spawn(q, p) ==
  /\ ~Settled
  /\ life[q] = "unborn"
  /\ table[p] = NoProcess
  /\ life' = [life EXCEPT ![q] = "alive"]
  /\ table' = [table EXCEPT ![p] = q]
  /\ UNCHANGED <<step, pc, attempt, listing, judgement>>

-----------------------------------------------------------------------------
(* _maybe_snapshot and Snapshotter.capture_process *)

\* What the snapshot may call the pid: by the comm of its holder, or not at all
\* (Windows, no such process, comm not readable, snapshot not written).
Named == Holder(target)

Capture ==
  /\ pc = "loop"
  /\ victim' = NoProcess /\ result' = "failed"
  /\ \/ /\ captured' = NoProcess
        /\ pc' = "confirm"
     \/ /\ platform = "unix"
        /\ Named \notin Hidden \cup Undecodable
        /\ captured' = Named
        /\ pc' = "confirm"
     \/ /\ platform = "unix"            \* UnicodeDecodeError is no OSError
        /\ Named \in Undecodable \ Hidden
        /\ captured' = NoProcess
        /\ pc' = "raised"
  /\ UNCHANGED <<world, step, listing, judgement>>

\* The user is shown the pid and answers when they like.
Confirm ==
  /\ pc = "confirm"
  /\ pc' \in {"kill", "stopped"}
  /\ UNCHANGED <<world, step, attempt, listing, judgement>>

-----------------------------------------------------------------------------
(* ProcessKillTool.run *)

\* os.kill or taskkill has done what it could; HardVerifier fails a failed
\* result, whatever it failed for.
KillReturns(outcome, signalled) ==
  /\ result' = outcome
  /\ victim' = signalled
  /\ \/ /\ outcome = "ok"
        /\ pc' = "list"
        /\ UNCHANGED judgement
     \/ /\ outcome = "failed"
        /\ pc' = "judged"
        /\ verdict' = Hard("process.kill", "failed")
        /\ layer' = "hard"
  /\ UNCHANGED <<world, step, captured, listing>>

Occupied == {p \in Pid : table[p] # NoProcess}

\* Mutant: a pid of 0 or -1 is passed on; it stands for many processes.
Signalled_NoCheck ==
  IF target = BadPid /\ Occupied # {}
  THEN table[CHOOSE p \in Occupied : TRUE]
  ELSE Holder(target)

\* Who gets the signal; nobody for a pid that is no positive int.
Signalled == Holder(target)

Kill ==
  /\ pc = "kill"
  /\ \/ KillReturns("failed", NoProcess)  \* nobody there, or not permitted
     \/ /\ Signalled # NoProcess
        /\ \/ KillReturns("ok", Signalled)
           \/ /\ platform = "win32"       \* taskkill was cut off after 10 s
              /\ KillReturns("failed", Signalled)

-----------------------------------------------------------------------------
(* ProcessListTool.run, as ObservationVerifier calls it *)

\* The pids: on Windows, tasklist gives the whole listing at once.
ListPids ==
  /\ pc = "list"
  /\ todo' = IF platform = "unix" THEN Occupied ELSE {}
  /\ found' = IF platform = "unix" THEN {} ELSE Occupied
  /\ pc' = "read"
  /\ UNCHANGED <<world, step, attempt, judgement>>

\* tasklist failed or timed out, or /proc cannot be listed: no observation.
ListFails ==
  /\ pc = "list"
  /\ pc' = "ask"
  /\ UNCHANGED <<world, step, attempt, listing, judgement>>

\* Mutant: a name that cannot be decoded is skipped like one that is gone.
Skipped_Undecodable(q) == q \in {NoProcess} \cup Hidden \cup Undecodable

\* OSError while opening or reading comm: the pid is left out.
Skipped(q) == q \in {NoProcess} \cup Hidden

ReadName(p) ==
  /\ pc = "read"
  /\ p \in todo
  /\ \/ /\ Skipped(table[p])
        /\ todo' = todo \ {p}
        /\ UNCHANGED <<pc, found>>
     \/ /\ ~Skipped(table[p])
        /\ table[p] \notin Undecodable
        /\ todo' = todo \ {p}
        /\ found' = found \cup {p}
        /\ UNCHANGED pc
     \/ /\ ~Skipped(table[p])            \* takes the whole listing with it
        /\ table[p] \in Undecodable
        /\ todo' = {} /\ found' = {}
        /\ pc' = "ask"
  /\ UNCHANGED <<world, step, attempt, judgement>>

-----------------------------------------------------------------------------
(* ObservationVerifier._verify_process_kill, SemanticVerifier.verify *)

Judge(word, by) ==
  /\ verdict' = word
  /\ layer' = by
  /\ pc' = "judged"
  /\ UNCHANGED <<world, step, attempt>>

\* Mutant: the listing is repeated until the pid is not in it.
Observe_Polls ==
  /\ pc = "read"
  /\ todo = {}
  /\ \/ /\ target \in found
        /\ pc' = "list"
        /\ UNCHANGED <<world, step, attempt, judgement>>
     \/ /\ target \notin found
        /\ Judge("pass", "observation")
  /\ found' = {}
  /\ UNCHANGED todo

Observe ==
  /\ pc = "read"
  /\ todo = {}
  /\ Judge(IF target \in found THEN "fail" ELSE "pass", "observation")
  /\ found' = {}
  /\ UNCHANGED todo

AskLLM ==
  /\ pc = "ask"
  /\ \E word \in Semantic(Replies) : Judge(word, "semantic")
  /\ UNCHANGED listing

-----------------------------------------------------------------------------
(* Agent.run on the verdict *)

\* Mutant: the cap on attempts is not looked at.
MayTryAgain_Always == TRUE

\* Repairer.repair on an attempt that counts.
MayTryAgain == tries + 1 < MaxAttemptsPerStep

Conclude ==
  /\ pc = "judged"
  /\ \/ verdict = "pass" /\ pc' = "verified"
     \/ verdict = "raises" /\ pc' = "raised"
     \/ verdict = "fail" /\ pc' = "stopped"
  /\ UNCHANGED <<world, step, attempt, listing, judgement>>

\* retry keeps the pid; fix_input gives another, picked without looking.
TryAgain ==
  /\ pc = "judged"
  /\ verdict = "fail"
  /\ MayTryAgain
  /\ tries' = tries + 1
  /\ \/ UNCHANGED <<target, meant>>
     \/ /\ target' \in Pid \cup {BadPid}
        /\ meant' = Holder(target')
  /\ pc' = "loop"
  /\ captured' = NoProcess /\ victim' = NoProcess /\ result' = "failed"
  /\ verdict' = "fail" /\ layer' = "hard"
  /\ UNCHANGED <<world, platform, listing>>

-----------------------------------------------------------------------------

Init ==
  /\ platform \in {"unix", "win32"}
  /\ table \in [Pid -> Process \cup {NoProcess}]
  /\ \A p, q \in Pid : table[p] = table[q] => p = q \/ table[p] = NoProcess
  /\ life = [q \in Process |->
               IF \E p \in Pid : table[p] = q THEN "alive" ELSE "unborn"]
  /\ pc = "loop"
  /\ target \in Pid \cup {BadPid} /\ meant = Holder(target) /\ tries = 0
  /\ captured = NoProcess /\ victim = NoProcess /\ result = "failed"
  /\ todo = {} /\ found = {}
  /\ verdict = "fail" /\ layer = "hard"

\* The agent's own steps.
Proceed ==
  \/ Capture
  \/ Kill
  \/ ListPids
  \/ ListFails
  \/ \E p \in Pid : ReadName(p)
  \/ Observe
  \/ AskLLM
  \/ Conclude
  \/ TryAgain

Next ==
  \/ Proceed
  \/ Confirm
  \/ \E q \in Process : Exit(q) \/ Reap(q) \/ \E p \in Pid : Spawn(q, p)

Spec == Init /\ [][Next]_vars

\* taskkill, tasklist and the LLM have timeouts; the user has not, and nothing
\* makes a process end.
FairSpec == Spec /\ WF_vars(Proceed)

-----------------------------------------------------------------------------
(* Properties *)

\* The variables hold values of their types, and a process holds a pid exactly
\* while it is alive or a zombie.
TypeOK ==
  /\ platform \in {"unix", "win32"}
  /\ table \in [Pid -> Process \cup {NoProcess}]
  /\ life \in [Process -> {"unborn", "alive", "zombie", "gone"}]
  /\ \A q \in Process :
       life[q] \in {"alive", "zombie"} <=> \E p \in Pid : table[p] = q
  /\ pc \in {"loop", "confirm", "kill", "list", "read", "ask", "judged",
             "verified", "stopped", "raised"}
  /\ target \in Pid \cup {BadPid}
  /\ meant \in Process \cup {NoProcess}
  /\ tries \in Nat /\ (tries = 0 \/ tries < MaxAttemptsPerStep)
  /\ captured \in Process \cup {NoProcess}
  /\ victim \in Process \cup {NoProcess}
  /\ result \in ToolResults \ {"simulated"}
  /\ todo \subseteq Pid /\ found \subseteq Pid
  /\ verdict \in Verdict
  /\ layer \in {"hard", "observation", "semantic"}

\* "Tool success means signal was sent, not that process is gone. Defer to
\* observation" (verifier.py:97-98): when the listing verified the kill, the
\* very process that got the signal is gone, although the listing is read name
\* by name while processes come and go, and the pid may be held by another.
\* A process whose comm may not be opened is beyond it: it counts as gone.
VerifiedIsGone ==
  pc = "verified" /\ layer = "observation" =>
    /\ victim # NoProcess
    /\ life[victim] = "gone" \/ victim \in Hidden

\* Consent and snapshot are about a pid, not a process: only a pid that names
\* one process is signalled, and if the signal hit another than the step was
\* made for, or than the snapshot of this attempt names (snapshot.py:182-184),
\* that one had ended before.
VictimWasShown ==
  victim # NoProcess =>
    /\ target \in Pid
    /\ \A q \in {meant, captured} \ {NoProcess} :
         q = victim \/ life[q] = "gone"

\* The step is settled or waits for the user, even if the process never ends:
\* each attempt lists the processes once, and the cap ends the retries.
KillSettles == <>Settled \/ <>[](pc = "confirm")

\* Where an attempt is on its way to a verdict.
Stage ==
  CASE pc = "loop"    -> 7
    [] pc = "confirm" -> 6
    [] pc = "kill"    -> 5
    [] pc = "list"    -> 4
    [] pc = "read"    -> 3
    [] pc = "ask"     -> 2
    [] pc = "judged"  -> 1
    [] OTHER          -> 0

\* A step of the agent comes nearer to the verdict or reads one more name, or it
\* begins one of the attempts that the cap leaves; processes that come and go
\* meanwhile, also under the step's pid, never make it look a second time.
AttemptsMoveOn ==
  [][\/ tries' = tries + 1 /\ tries' < MaxAttemptsPerStep
     \/ tries' = tries /\ Stage' < Stage
     \/ /\ UNCHANGED <<tries, pc>>
        /\ todo' \subseteq todo /\ todo' # todo
    ]_<<pc, step, attempt, listing, judgement>>

-----------------------------------------------------------------------------
(* A claim of the documentation that the code does not keep *)

\* "Capture methods are best-effort: they never raise" (snapshot.py:108).
CaptureNeverRaises == [][pc = "loop" => pc' # "raised"]_vars

=============================================================================
