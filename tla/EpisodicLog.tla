---------------------------- MODULE EpisodicLog ----------------------------
(***************************************************************************)
(* memory.EpisodicLog: threads append events to one JSONL file under a     *)
(* lock, each as one line that reaches the file in pieces and is then      *)
(* fsynced; the process may be killed, the power may go, an append may     *)
(* raise half-way; anyone may call read_all at any time.  A reader takes   *)
(* no lock, and as bytes are only ever added, what it reads is what the    *)
(* file held at one moment.                                                *)
(*                                                                         *)
(* The bytes of a line are abstracted to its head, which is no JSON, its   *)
(* tail, with which it is, and the line end.  Events are numbered in the   *)
(* order in which the lock was taken.                                      *)
(***************************************************************************)
EXTENDS Naturals, FiniteSets, SequencesExt

CONSTANTS
  Thread,
  Free,                 \* nobody holds the lock
  MaxEvents, MaxFails   \* bounds of the model

ASSUME FreeAssumption == Free \notin Thread
ASSUME BoundsAssumption == MaxEvents \in Nat /\ MaxFails \in Nat

VARIABLES
  file,      \* the pieces in the file, in order
  synced,    \* how many of them are on disk for sure
  lock,      \* self._lock
  current,   \* the event each thread is appending, or 0
  pending,   \* the pieces of it not yet in the file
  begun,     \* number of events begun
  returned,  \* events whose append returned
  failed,    \* events whose append raised
  up         \* the process lives

vars == <<file, synced, lock, current, pending, begun, returned, failed, up>>

Events == 1..MaxEvents
Piece(e, part) == [event |-> e, part |-> part]
Line(e) == <<Piece(e, "head"), Piece(e, "tail"), Piece(0, "newline")>>
Pieces == [event : {0} \cup Events, part : {"head", "tail", "newline"}]

-----------------------------------------------------------------------------
(* append *)

\* Mutant: no lock is taken.
Acquire_NoLock(t) ==
  /\ up
  /\ current[t] = 0
  /\ begun < MaxEvents
  /\ begun' = begun + 1
  /\ lock' = t
  /\ current' = [current EXCEPT ![t] = begun + 1]
  /\ pending' = [pending EXCEPT ![t] = Line(begun + 1)]
  /\ UNCHANGED <<file, synced, returned, failed, up>>

Acquire(t) ==
  /\ up
  /\ lock = Free
  /\ current[t] = 0
  /\ begun < MaxEvents
  /\ begun' = begun + 1
  /\ lock' = t
  /\ current' = [current EXCEPT ![t] = begun + 1]
  /\ pending' = [pending EXCEPT ![t] = Line(begun + 1)]
  /\ UNCHANGED <<file, synced, returned, failed, up>>

\* Some more of the line reaches the file.
Write(t) ==
  /\ up
  /\ pending[t] # <<>>
  /\ file' = Append(file, Head(pending[t]))
  /\ pending' = [pending EXCEPT ![t] = Tail(@)]
  /\ UNCHANGED <<synced, lock, current, begun, returned, failed, up>>

\* Mutant: flush without fsync.
Return_NoFsync(t) ==
  /\ up
  /\ current[t] # 0 /\ pending[t] = <<>>
  /\ returned' = returned \cup {current[t]}
  /\ current' = [current EXCEPT ![t] = 0]
  /\ lock' = Free
  /\ UNCHANGED <<file, synced, pending, begun, failed, up>>

\* flush and fsync have succeeded.
Return(t) ==
  /\ up
  /\ current[t] # 0 /\ pending[t] = <<>>
  /\ synced' = Len(file)
  /\ returned' = returned \cup {current[t]}
  /\ current' = [current EXCEPT ![t] = 0]
  /\ lock' = Free
  /\ UNCHANGED <<file, pending, begun, failed, up>>

\* Mutant: an exception leaves the lock taken.
Fail_KeepsLock(t) ==
  /\ up
  /\ current[t] # 0
  /\ Cardinality(failed) < MaxFails
  /\ failed' = failed \cup {current[t]}
  /\ current' = [current EXCEPT ![t] = 0]
  /\ pending' = [pending EXCEPT ![t] = <<>>]
  /\ UNCHANGED <<file, synced, lock, begun, returned, up>>

\* open, write, flush or fsync raises; what is in the file stays there, and the
\* with statement releases the lock.
Fail(t) ==
  /\ up
  /\ current[t] # 0
  /\ Cardinality(failed) < MaxFails
  /\ failed' = failed \cup {current[t]}
  /\ current' = [current EXCEPT ![t] = 0]
  /\ pending' = [pending EXCEPT ![t] = <<>>]
  /\ lock' = Free
  /\ UNCHANGED <<file, synced, begun, returned, up>>

\* The process dies; a power failure takes with it what was not synced.
Die ==
  /\ up
  /\ up' = FALSE
  /\ \E n \in synced..Len(file) : file' = SubSeq(file, 1, n)
  /\ UNCHANGED <<synced, lock, current, pending, begun, returned, failed>>

-----------------------------------------------------------------------------
(* read_all *)

StartsLine(i) == i = 1 \/ file[i - 1].part = "newline"
EndsLine(i) == i = Len(file) \/ file[i + 1].part = "newline"

\* At i begins a line that is one JSON object.
WholeAt(i) ==
  /\ StartsLine(i)
  /\ file[i].part = "head"
  /\ i < Len(file) /\ file[i + 1] = Piece(file[i].event, "tail")
  /\ EndsLine(i + 1)

\* At i begins a line that json.loads refuses; blank lines are skipped.
TornAt(i) == StartsLine(i) /\ file[i].part # "newline" /\ ~WholeAt(i)

\* The loop breaks at the first line that does not parse.
Reached == {i \in DOMAIN file : \A j \in 1..i : ~TornAt(j)}

\* Where the lines begin whose events it returns.
LinesRead == {i \in Reached : WholeAt(i)}

\* The k-th of the line beginnings S in the order of the file.
Nth(S, k) == CHOOSE i \in S : Cardinality({j \in S : j <= i}) = k

\* The events of the lines that begin at S.
EventsAt(S) == [k \in 1..Cardinality(S) |-> file[Nth(S, k)].event]

ReadAll == EventsAt(LinesRead)

-----------------------------------------------------------------------------

Init ==
  /\ file = <<>> /\ synced = 0
  /\ lock = Free
  /\ current = [t \in Thread |-> 0]
  /\ pending = [t \in Thread |-> <<>>]
  /\ begun = 0 /\ returned = {} /\ failed = {}
  /\ up = TRUE

Next ==
  \/ \E t \in Thread : Acquire(t) \/ Write(t) \/ Return(t) \/ Fail(t)
  \/ Die

Spec == Init /\ [][Next]_vars

\* A disk call returns or raises; no thread need ever append again.
FairSpec == Spec /\ \A t \in Thread : WF_vars(Write(t) \/ Return(t) \/ Fail(t))

-----------------------------------------------------------------------------
(* Properties *)

\* The variables hold values of their types; only the holder of the lock has a
\* line under way, and each event has at most one fate.
TypeOK ==
  /\ file \in Seq(Pieces) /\ synced \in 0..(3 * MaxEvents)
  /\ lock \in Thread \cup {Free}
  /\ current \in [Thread -> {0} \cup Events]
  /\ pending \in [Thread -> Seq(Pieces)]
  /\ \A t \in Thread : lock # t => current[t] = 0 /\ pending[t] = <<>>
  /\ begun \in 0..MaxEvents
  /\ returned \subseteq Events /\ failed \subseteq Events
  /\ returned \cap failed = {}
  /\ up \in BOOLEAN

\* "Writes fsync to survive crashes" (memory.py:47): readers get events once
\* and in the order they were appended, and one whose append returned, also
\* after a power failure, unless the append of an earlier one had failed.
ReadsWhatReturned ==
  /\ \A i, j \in LinesRead : i < j => file[i].event < file[j].event
  /\ \A e \in returned : \/ \E i \in LinesRead : file[i].event = e
                         \/ \E f \in failed : f < e

\* An append that raises does not make the others wait for ever (memory.py:85-89):
\* whoever takes the lock gives it back, or the process dies.
LockIsReleased == lock # Free ~> lock = Free \/ ~up

\* What is promised for good: the events before the first failed append.
Sound(e) == \A f \in failed : e < f
SoundLines == {i \in LinesRead : Sound(file[i].event)}

Log == INSTANCE AppendOnlyLog WITH
  Event <- Events,
  entries <- EventsAt(SoundLines),
  acked <- {e \in returned : Sound(e)},
  up <- up /\ failed = {}

\* The file is an append-only log to whoever reads it, even while a line is
\* being written; the first append that fails is its last crash, and what was
\* acknowledged before is read for good, whatever is appended afterwards.
LogRefinement == Log!Spec

-----------------------------------------------------------------------------
(* A claim of the documentation that the code does not keep *)

\* "Return every event in the log, in append order" (memory.py:130): what was
\* appended with success is read.
ReadsEveryEvent == \A e \in returned : e \in ToSet(ReadAll)

=============================================================================
