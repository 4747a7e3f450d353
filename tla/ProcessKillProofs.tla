------------------------- MODULE ProcessKillProofs -------------------------
(***************************************************************************)
(* Proofs about ProcessKill, for any processes, pids, replies and number   *)
(* of attempts.  Whom the signal hits and what the listing means is all    *)
(* traced to one fact: a process once connected with the step's pid holds  *)
(* it still or is gone, because a pid is not taken over from the living.   *)
(***************************************************************************)
EXTENDS ProcessKill, TLAPS

\* It was behind the step's pid, and is, or it is gone.
Trails(q) == q = Holder(target) \/ life[q] = "gone"

\* The process the step was made for, the one the snapshot names, and the one
\* that got the signal.
Traced == \A q \in {meant, captured, victim} \ {NoProcess} : Trails(q)

\* After a signal the verifier is at work on the tool's success, and as long as
\* the listing goes on the victim is on it, or yet to be read, or excused.
Listed ==
  /\ pc \in {"list", "read", "ask"} => result = "ok" /\ victim # NoProcess
  /\ pc = "read" =>
       \/ target \in todo \cup found
       \/ life[victim] = "gone"
       \/ victim \in Hidden

\* What a verdict rests on.
Judged ==
  /\ pc \in {"judged", "verified"} /\ layer = "observation" /\ verdict = "pass"
       => victim # NoProcess /\ (life[victim] = "gone" \/ victim \in Hidden)
  /\ pc = "verified" => verdict = "pass"

Inductive == TypeOK /\ Traced /\ VictimWasShown /\ Listed /\ Judged

-----------------------------------------------------------------------------
(* The world *)

\* The gone stay gone, and the living and the dead keep their pids until then.
Drifts ==
  /\ table' \in [Pid -> Process \cup {NoProcess}]
  /\ life' \in [Process -> {"unborn", "alive", "zombie", "gone"}]
  /\ \A q \in Process :
       life'[q] \in {"alive", "zombie"} <=> \E p \in Pid : table'[p] = q
  /\ \A q \in Process : life[q] = "gone" => life'[q] = "gone"
  /\ \A p \in Pid : table[p] # NoProcess
                      => table'[p] = table[p] \/ life'[table[p]] = "gone"

LEMMA EndDrifts ==
  ASSUME TypeOK, NEW q \in Process, life[q] \in {"alive", "zombie"},
         \/ /\ life' = [life EXCEPT ![q] = "zombie"]
            /\ UNCHANGED table
         \/ /\ life' = [life EXCEPT ![q] = "gone"]
            /\ table' = [p \in Pid |-> IF table[p] = q THEN NoProcess ELSE table[p]]
  PROVE  Drifts
<1>1. CASE life' = [life EXCEPT ![q] = "zombie"] /\ UNCHANGED table
  BY <1>1 DEF TypeOK, Drifts
<1>2. CASE /\ life' = [life EXCEPT ![q] = "gone"]
           /\ table' = [p \in Pid |-> IF table[p] = q THEN NoProcess ELSE table[p]]
  <2>1. \A r \in Process :
          life'[r] \in {"alive", "zombie"} <=> \E p \in Pid : table'[p] = r
    <3> SUFFICES ASSUME NEW r \in Process
                 PROVE  life'[r] \in {"alive", "zombie"} <=> \E p \in Pid : table'[p] = r
      OBVIOUS
    <3>1. CASE r = q
      BY <1>2, <3>1, ProcessAssumption DEF TypeOK
    <3>2. CASE r # q
      <4>1. life'[r] = life[r]
        BY <1>2, <3>2 DEF TypeOK
      <4>2. \A p \in Pid : table'[p] = r <=> table[p] = r
        BY <1>2, <3>2, ProcessAssumption DEF TypeOK
      <4> QED
        BY <4>1, <4>2 DEF TypeOK
    <3> QED
      BY <3>1, <3>2
  <2> QED
    BY <1>2, <2>1 DEF TypeOK, Drifts
<1> QED
  BY <1>1, <1>2

LEMMA SpawnDrifts ==
  ASSUME TypeOK, NEW q \in Process, NEW p \in Pid, Spawn(q, p)
  PROVE  Drifts
<1>1. /\ life[q] = "unborn" /\ table[p] = NoProcess
      /\ life' = [life EXCEPT ![q] = "alive"]
      /\ table' = [table EXCEPT ![p] = q]
  BY DEF Spawn
<1>2. \A r \in Process :
        life'[r] \in {"alive", "zombie"} <=> \E s \in Pid : table'[s] = r
  <2> SUFFICES ASSUME NEW r \in Process
               PROVE  life'[r] \in {"alive", "zombie"} <=> \E s \in Pid : table'[s] = r
    OBVIOUS
  <2>1. CASE r = q
    <3>1. life'[r] = "alive" /\ table'[p] = r
      BY <1>1, <2>1 DEF TypeOK
    <3> QED
      BY <3>1
  <2>2. CASE r # q
    <3>1. life'[r] = life[r]
      BY <1>1, <2>2 DEF TypeOK
    <3>2. \A s \in Pid : table'[s] = r <=> table[s] = r
      BY <1>1, <2>2, ProcessAssumption DEF TypeOK
    <3> QED
      BY <3>1, <3>2 DEF TypeOK
  <2> QED
    BY <2>1, <2>2
<1> QED
  BY <1>1, <1>2 DEF TypeOK, Drifts

\* The agent's invariant does not mind what processes do meanwhile.
LEMMA DriftKeeps ==
  ASSUME Inductive, Drifts, ~Settled,
         UNCHANGED <<step, pc, attempt, listing, judgement>>
  PROVE  Inductive'
<1> USE DEF step, attempt, listing, judgement
<1>1. TypeOK'
  BY DEF Inductive, TypeOK, Drifts
<1>2. /\ meant \in Process \cup {NoProcess} /\ captured \in Process \cup {NoProcess}
      /\ victim \in Process \cup {NoProcess} /\ target \in Pid \cup {BadPid}
  BY DEF Inductive, TypeOK
<1>3. \A q \in Process : life[q] = "gone" => life'[q] = "gone"
  BY DEF Drifts
<1>4. ASSUME NEW q \in Process, Trails(q) PROVE Trails(q)'
  BY <1>2, <1>3, <1>4, ProcessAssumption DEF Trails, Holder, Drifts
<1>5. Traced'
  BY <1>2, <1>4 DEF Inductive, Traced
<1>6. VictimWasShown'
  BY <1>2, <1>3 DEF Inductive, VictimWasShown
<1>7. Listed'
  BY <1>2, <1>3 DEF Inductive, Listed
<1>8. Judged'
  BY <1>2, <1>3 DEF Inductive, Judged, Settled
<1> QED
  BY <1>1, <1>5, <1>6, <1>7, <1>8 DEF Inductive

-----------------------------------------------------------------------------
(* The agent *)

LEMMA HolderType ==
  ASSUME TypeOK, NEW p \in Pid \cup {BadPid}
  PROVE  Holder(p) \in Process \cup {NoProcess}
  BY DEF TypeOK, Holder

LEMMA SemanticVerdicts == Semantic(Replies) \subseteq Verdict
  BY DEF Semantic, SemanticOutcomes, Verdict

LEMMA FailedKillFails == Hard("process.kill", "failed") = "fail"
  BY DEF Hard, HardRule

LEMMA CaptureStep ==
  ASSUME Inductive, Capture
  PROVE  Inductive'
<1> USE DEF world, step, listing, judgement
<1>1. Holder(target) \in Process \cup {NoProcess}
  BY HolderType DEF Inductive, TypeOK
<1>2. TypeOK'
  BY <1>1 DEF Inductive, TypeOK, Capture, Named, ToolResults
<1>3. Holder(target)' = Holder(target) /\ life' = life /\ meant' = meant
  BY DEF Capture, Holder
<1>4. captured' \in {NoProcess, Holder(target)} /\ victim' = NoProcess
  BY DEF Capture, Named
<1>5. Traced' /\ VictimWasShown'
  BY <1>3, <1>4 DEF Inductive, Traced, Trails, VictimWasShown
<1>6. Listed' /\ Judged'
  BY DEF Capture, Listed, Judged
<1> QED
  BY <1>2, <1>5, <1>6 DEF Inductive

LEMMA ConfirmStep ==
  ASSUME Inductive, Confirm
  PROVE  Inductive'
  BY DEF Confirm, Inductive, TypeOK, Traced, Trails, Holder, VictimWasShown,
     Listed, Judged, world, step, attempt, listing, judgement

LEMMA KillReturnsStep ==
  ASSUME Inductive, pc = "kill", NEW outcome \in {"ok", "failed"},
         NEW signalled \in {NoProcess, Holder(target)},
         outcome = "ok" => signalled # NoProcess,
         KillReturns(outcome, signalled)
  PROVE  Inductive'
<1> USE DEF world, step, listing, judgement
<1>1. signalled \in Process \cup {NoProcess} /\ target \in Pid \cup {BadPid}
  BY HolderType DEF Inductive, TypeOK
<1>2. /\ victim' = signalled /\ result' = outcome
      /\ UNCHANGED <<world, step, captured, listing>>
  BY DEF KillReturns
<1>3. \/ outcome = "ok" /\ pc' = "list" /\ UNCHANGED judgement
      \/ outcome = "failed" /\ pc' = "judged" /\ verdict' = "fail" /\ layer' = "hard"
  BY FailedKillFails DEF KillReturns
<1>4. TypeOK'
  BY <1>1, <1>2, <1>3 DEF Inductive, TypeOK, ToolResults, Verdict
<1>5. Holder(target)' = Holder(target)
  BY <1>2 DEF Holder
<1>6. \A q \in {meant, captured, NoProcess, signalled} \ {NoProcess} :
        q = Holder(target) \/ life[q] = "gone"
  BY DEF Inductive, Traced, Trails
<1>7. Traced'
  BY <1>2, <1>5, <1>6 DEF Traced, Trails
<1>8. VictimWasShown'
  <2>1. signalled # NoProcess => target \in Pid /\ signalled = Holder(target)
    BY <1>1 DEF Holder
  <2> QED
    BY <1>2, <1>6, <2>1 DEF VictimWasShown
<1>9. Listed'
  BY <1>2, <1>3 DEF Listed
<1>10. Judged'
  BY <1>2, <1>3 DEF Judged
<1> QED
  BY <1>4, <1>7, <1>8, <1>9, <1>10 DEF Inductive

LEMMA KillStep ==
  ASSUME Inductive, Kill
  PROVE  Inductive'
  BY KillReturnsStep DEF Kill, Signalled

\* While the listing is made, nothing else of the attempt changes.
LEMMA ListingKeeps ==
  ASSUME Inductive, UNCHANGED <<world, step, attempt, judgement>>,
         pc \in {"list", "read"}, pc' \in {"read", "ask"},
         todo' \subseteq Pid, found' \subseteq Pid,
         pc' = "read" => \/ target \in todo' \cup found'
                         \/ life[victim] = "gone" \/ victim \in Hidden
  PROVE  Inductive'
<1> USE DEF world, step, attempt, judgement
<1>1. TypeOK'
  BY DEF Inductive, TypeOK
<1>2. Traced' /\ VictimWasShown'
  BY DEF Inductive, Traced, Trails, Holder, VictimWasShown
<1>3. Listed' /\ Judged'
  BY DEF Inductive, Listed, Judged
<1> QED
  BY <1>1, <1>2, <1>3 DEF Inductive

\* The victim is where the listing looks, or it is gone.
LEMMA VictimHolds ==
  ASSUME Inductive, pc \in {"list", "read", "ask"}
  PROVE  /\ victim \in Process /\ target \in Pid
         /\ table[target] = victim \/ life[victim] = "gone"
<1>1. victim \in Process /\ target \in Pid
  BY DEF Inductive, TypeOK, Listed, VictimWasShown
<1>2. Trails(victim)
  BY <1>1, ProcessAssumption DEF Inductive, Traced
<1> QED
  BY <1>1, <1>2, ProcessAssumption DEF Trails, Holder

LEMMA ListStep ==
  ASSUME Inductive, ListPids \/ ListFails
  PROVE  Inductive'
<1>1. pc = "list" /\ todo \subseteq Pid /\ found \subseteq Pid
  BY DEF Inductive, TypeOK, ListPids, ListFails
<1>2. CASE ListFails
  BY <1>1, <1>2, ListingKeeps DEF ListFails, listing
<1>3. CASE ListPids
  <2>1. Occupied \subseteq Pid /\ todo' \subseteq Pid /\ found' \subseteq Pid
    BY <1>3 DEF ListPids, Occupied
  <2>2. todo' \cup found' = Occupied
    BY <1>3 DEF ListPids
  <2>3. target \in Occupied \/ life[victim] = "gone"
    BY <1>1, VictimHolds, ProcessAssumption DEF Occupied
  <2> QED
    BY <1>1, <1>3, <2>1, <2>2, <2>3, ListingKeeps DEF ListPids
<1> QED
  BY <1>2, <1>3

LEMMA ReadNameStep ==
  ASSUME Inductive, NEW p \in Pid, ReadName(p)
  PROVE  Inductive'
<1>1. pc = "read" /\ todo \subseteq Pid /\ found \subseteq Pid /\ p \in todo
  BY DEF Inductive, TypeOK, ReadName
<1>2. /\ UNCHANGED <<world, step, attempt, judgement>>
      /\ pc' \in {"read", "ask"}
      /\ todo' \subseteq Pid /\ found' \subseteq Pid
  BY <1>1 DEF ReadName
<1>3. ASSUME pc' = "read"
      PROVE  \/ target \in todo' \cup found'
             \/ life[victim] = "gone" \/ victim \in Hidden
  <2>1. /\ todo' = todo \ {p}
        /\ \/ Skipped(table[p]) /\ found' = found
           \/ found' = found \cup {p}
    BY <1>3 DEF ReadName
  <2>2. CASE target = p /\ Skipped(table[p])
    BY <1>1, <2>2, VictimHolds, ProcessAssumption DEF Skipped
  <2>3. CASE target # p \/ ~Skipped(table[p])
    BY <1>1, <2>1, <2>3 DEF Inductive, Listed
  <2> QED
    BY <2>2, <2>3
<1> QED
  BY <1>1, <1>2, <1>3, ListingKeeps

LEMMA JudgeStep ==
  ASSUME Inductive, pc \in {"read", "ask"}, NEW word \in Verdict, NEW by,
         \/ by = "semantic" /\ word \in Semantic(Replies)
         \/ /\ by = "observation" /\ word \in {"pass", "fail"}
            /\ word = "pass" => life[victim] = "gone" \/ victim \in Hidden,
         Judge(word, by), todo' \subseteq Pid, found' \subseteq Pid
  PROVE  Inductive'
<1> USE DEF world, step, attempt, Judge
<1>1. TypeOK'
  BY DEF Inductive, TypeOK
<1>2. Traced' /\ VictimWasShown'
  BY DEF Inductive, Traced, Trails, Holder, VictimWasShown
<1>3. result = "ok" /\ victim # NoProcess
  BY DEF Inductive, Listed
<1>4. Listed' /\ Judged'
  BY <1>3 DEF Listed, Judged
<1> QED
  BY <1>1, <1>2, <1>4 DEF Inductive

LEMMA VerdictStep ==
  ASSUME Inductive, Observe \/ AskLLM
  PROVE  Inductive'
<1>1. todo \subseteq Pid /\ found \subseteq Pid
  BY DEF Inductive, TypeOK
<1>2. CASE Observe
  <2>1. target \in found \/ life[victim] = "gone" \/ victim \in Hidden
    BY <1>2 DEF Observe, Inductive, Listed
  <2> QED
    BY <1>1, <1>2, <2>1, JudgeStep DEF Observe, Verdict
<1>3. CASE AskLLM
  BY <1>1, <1>3, SemanticVerdicts, JudgeStep DEF AskLLM, listing
<1> QED
  BY <1>2, <1>3

LEMMA ConcludeStep ==
  ASSUME Inductive, Conclude
  PROVE  Inductive'
  BY DEF Conclude, Inductive, TypeOK, Traced, Trails, Holder, VictimWasShown,
     Listed, Judged, world, step, attempt, listing, judgement

\* A new pid is a new consent: the step is then made for its holder.
LEMMA TryAgainStep ==
  ASSUME Inductive, TryAgain
  PROVE  Inductive'
<1> USE DEF world, listing
<1>1. \/ target' = target /\ meant' = meant
      \/ target' \in Pid \cup {BadPid} /\ meant' = Holder(target')
  BY DEF TryAgain
<1>2. meant' \in Process \cup {NoProcess} /\ target' \in Pid \cup {BadPid}
  BY <1>1, HolderType DEF Inductive, TypeOK
<1>3. tries' = tries + 1 /\ tries + 1 < MaxAttemptsPerStep
  BY DEF TryAgain, MayTryAgain
<1>4. TypeOK'
  BY <1>2, <1>3 DEF Inductive, TypeOK, TryAgain, ToolResults, Verdict
<1>5. captured' = NoProcess /\ victim' = NoProcess /\ UNCHANGED <<table, life>>
  BY DEF TryAgain
<1>6. meant' # NoProcess => meant' = Holder(target)' \/ life'[meant'] = "gone"
  BY <1>1, <1>5 DEF Inductive, Traced, Trails, Holder
<1>7. Traced' /\ VictimWasShown'
  BY <1>5, <1>6 DEF Traced, Trails, VictimWasShown
<1>8. Listed' /\ Judged'
  BY DEF TryAgain, Listed, Judged
<1> QED
  BY <1>4, <1>7, <1>8 DEF Inductive

-----------------------------------------------------------------------------
(* The step and what follows *)

LEMMA InitInductive == Init => Inductive
<1> SUFFICES ASSUME Init PROVE Inductive
  OBVIOUS
<1> USE DEF Init
<1>1. \A q \in Process :
        life[q] \in {"alive", "zombie"} <=> \E p \in Pid : table[p] = q
  OBVIOUS
<1>2. meant \in Process \cup {NoProcess}
  BY DEF Holder
<1>3. TypeOK
  BY <1>1, <1>2 DEF TypeOK, ToolResults, Verdict
<1>4. Traced /\ VictimWasShown
  BY DEF Traced, Trails, VictimWasShown
<1>5. Listed /\ Judged
  BY DEF Listed, Judged
<1> QED
  BY <1>3, <1>4, <1>5 DEF Inductive

LEMMA InductiveStep ==
  ASSUME Inductive, [Next]_vars
  PROVE  Inductive'
<1>1. ASSUME NEW q \in Process, Exit(q) \/ Reap(q) PROVE Inductive'
  <2>1. life[q] \in {"alive", "zombie"}
    BY <1>1 DEF Exit, Reap
  <2>2. Drifts
    BY <1>1, <2>1, EndDrifts DEF Exit, Reap, Inductive
  <2> QED
    BY <1>1, <2>2, DriftKeeps DEF Exit, Reap
<1>2. ASSUME NEW q \in Process, NEW p \in Pid, Spawn(q, p) PROVE Inductive'
  BY <1>2, SpawnDrifts, DriftKeeps DEF Spawn, Inductive
<1>3. CASE Proceed
  BY <1>3, CaptureStep, KillStep, ListStep, ReadNameStep, VerdictStep,
     ConcludeStep, TryAgainStep DEF Proceed
<1>4. CASE Confirm
  BY <1>4, ConfirmStep
<1>5. CASE UNCHANGED vars
  BY <1>5 DEF vars, world, step, attempt, listing, judgement, Inductive, TypeOK,
     Traced, Trails, Holder, VictimWasShown, Listed, Judged
<1> QED
  BY <1>1, <1>2, <1>3, <1>4, <1>5 DEF Next

LEMMA AlwaysInductive == Spec => []Inductive
  BY InitInductive, InductiveStep, PTL DEF Spec

\* The types, and that a process holds a pid exactly while it is in the table,
\* whatever begins, ends and is reaped.
THEOREM TypeCorrect == Spec => []TypeOK
<1>1. Inductive => TypeOK
  BY DEF Inductive
<1> QED
  BY <1>1, AlwaysInductive, PTL

\* If the signal of process.kill hit another process than the step was made for
\* or its snapshot names, that one had ended: consent to a pid is never consent
\* to kill a second process beside a living first.
THEOREM VictimIsTraced == Spec => []VictimWasShown
<1>1. Inductive => VictimWasShown
  BY DEF Inductive
<1> QED
  BY <1>1, AlwaysInductive, PTL

\* A kill that the listing verified is of a process that is gone, however the
\* table moved while it was read (but for one whose name may not be opened).
THEOREM ListingTells == Spec => []VerifiedIsGone
<1>1. Inductive => VerifiedIsGone
  BY DEF Inductive, Judged, VerifiedIsGone
<1> QED
  BY <1>1, AlwaysInductive, PTL

-----------------------------------------------------------------------------
(* How long a kill takes *)

\* What other processes do is no step of the agent, and a step of the agent goes
\* on to the verdict: with finitely many pids to read, nothing but the user and
\* hanging calls can keep it from one.
THEOREM AttemptsAreFinite == Spec => AttemptsMoveOn
<1> DEFINE MovesOn ==
      \/ tries' = tries + 1 /\ tries' < MaxAttemptsPerStep
      \/ tries' = tries /\ Stage' < Stage
      \/ UNCHANGED <<tries, pc>> /\ todo' \subseteq todo /\ todo' # todo
<1>1. ASSUME Inductive, [Next]_vars
      PROVE  [MovesOn]_<<pc, step, attempt, listing, judgement>>
  <2> USE DEF Stage
  <2>1. CASE Capture \/ Confirm
    BY <2>1 DEF Capture, Confirm, step
  <2>2. CASE Kill
    <3>1. ASSUME NEW outcome, NEW signalled, KillReturns(outcome, signalled)
          PROVE  pc' \in {"list", "judged"} /\ tries' = tries
      BY <3>1 DEF KillReturns, step
    <3>2. pc = "kill" /\ pc' \in {"list", "judged"} /\ tries' = tries
      BY <2>2, <3>1 DEF Kill
    <3> QED
      BY <3>2
  <2>3. CASE ListPids \/ ListFails
    BY <2>3 DEF ListPids, ListFails, step
  <2>4. CASE \E p \in Pid : ReadName(p)
    <3>1. PICK p \in Pid : ReadName(p)
      BY <2>4
    <3>2. CASE pc' = "ask"
      BY <3>1, <3>2 DEF ReadName, step
    <3>3. CASE pc' # "ask"
      <4>1. UNCHANGED <<tries, pc>> /\ p \in todo /\ todo' = todo \ {p}
        BY <3>1, <3>3 DEF ReadName, step
      <4> QED
        BY <4>1
    <3> QED
      BY <3>2, <3>3
  <2>5. CASE Observe \/ AskLLM
    <3>1. \A word, by : Judge(word, by) => pc' = "judged" /\ tries' = tries
      BY DEF Judge, step
    <3>2. pc \in {"read", "ask"} /\ pc' = "judged" /\ tries' = tries
      BY <2>5, <3>1 DEF Observe, AskLLM
    <3> QED
      BY <3>2
  <2>6. CASE Conclude
    BY <2>6 DEF Conclude, step
  <2>7. CASE TryAgain
    BY <2>7 DEF TryAgain, MayTryAgain
  <2>8. CASE \/ \E q \in Process : Exit(q) \/ Reap(q) \/ \E p \in Pid : Spawn(q, p)
             \/ UNCHANGED vars
    BY <2>8 DEF Exit, Reap, Spawn, vars
  <2> QED
    BY <1>1, <2>1, <2>2, <2>3, <2>4, <2>5, <2>6, <2>7, <2>8 DEF Next, Proceed
<1>2. Inductive /\ [Next]_vars => [MovesOn]_<<pc, step, attempt, listing, judgement>>
  BY <1>1
<1>3. [][MovesOn]_<<pc, step, attempt, listing, judgement>> => AttemptsMoveOn
  BY PTL DEF AttemptsMoveOn
<1> QED
  BY <1>2, <1>3, AlwaysInductive, PTL DEF Spec

=============================================================================
