------------------------------ MODULE Rollback ------------------------------
(***************************************************************************)
(* Snapshot and rollback of files: what Agent._maybe_snapshot captures and *)
(* persists before a file.write or file.delete, what the tools then do to  *)
(* the file, and what `--rollback <snapshot>` makes of it after the run.   *)
(*                                                                         *)
(* The file tools and the restorer open with "w": a write that fails in    *)
(* the middle leaves a truncated text behind.  read_text translates CRLF   *)
(* to LF: a captured text is the normal form of the file's.  write_text    *)
(* gives it the line ends of the platform, which are CRLF on Windows.      *)
(* Others may change a file at any time, the run may end or die between    *)
(* any two steps, and the user may roll back any snapshots in any order,   *)
(* several times. Once, the power may fail: the log is synced event by     *)
(* event, snapshots and files are not.                                     *)
(*                                                                         *)
(* One agent run is modelled; a step is numbered from 1 and names its      *)
(* snapshot.  Steps that capture no file leave this state alone.           *)
(***************************************************************************)
EXTENDS Naturals, Sequences

CONSTANTS
  Path,
  Text,       \* UTF-8 contents below the size cap, with any line ends
  Normal,     \* the text read_text returns for a text on disk
  Written,    \* the text on disk after write_text of a text
  Absent, Binary, Large,   \* a file's other states
  NoContent,  \* a captured entry with an error: nothing to restore
  NoEntry, Torn,           \* no snapshot file; one cut off
  MaxSteps, MaxDisturbances, MaxRollbacks   \* bounds of the model

ASSUME TextAssumption ==
  /\ Normal \in [Text -> Text]
  /\ Written \in [Text -> Text]
  /\ \A t \in Text : /\ Normal[Normal[t]] = Normal[t]
                    /\ Normal[Written[Normal[t]]] = Normal[t]
ASSUME OtherStatesAssumption ==
  /\ {Absent, Binary, Large, NoContent} \cap Text = {}
  /\ Absent \notin {Binary, Large}
  /\ NoContent \notin {Absent, Binary, Large}
ASSUME BoundsAssumption ==
  MaxSteps \in Nat /\ MaxDisturbances \in Nat /\ MaxRollbacks \in Nat

File == Text \cup {Absent, Binary, Large}

\* What a write that failed in the middle may leave.
Truncated == Text \cup {Binary}
Entry == [path : Path, content : Text \cup {Absent, NoContent}]

ASSUME NoEntryAssumption ==
  NoEntry \notin Entry /\ Torn \notin Entry /\ NoEntry # Torn

\* What the tool is told: the new content, as it is on disk once written (in
\* another encoding than UTF-8 it reads back as binary), or to delete.
Operation == [path : Path, content : Text \cup {Absent, Binary}]

Steps == 1..MaxSteps

VARIABLES
  files,      \* the file system
  origin,     \* the file system when the run began (history variable)
  outside,    \* the paths others changed since (history variable)
  disturbed,  \* how often they did (bound)
  phase,      \* where the run is in its current step
  ops,        \* the steps begun
  entry,      \* the entry captured for the current step
  saved,      \* the snapshot files
  logged,     \* snapshots registered and named in the episodic log
  unsaved,    \* steps whose snapshot could not be written (history variable)
  destroyed,  \* the file each executed step found (history variable)
  stale,      \* steps whose file others changed after the capture (history)
  cut,        \* the power has failed
  last,       \* for each path, the snapshot it was last restored from
  rollbacks   \* how often the user rolled back (bound)

run == <<phase, ops, entry, saved, logged, unsaved, destroyed>>
others == <<outside, disturbed, stale>>
user == <<last, rollbacks>>
vars == <<files, origin, cut, run, others, user>>

Now == Len(ops)
Op == ops[Now]

Executed == {i \in Steps : destroyed[i] # NoContent}
Snapshots(p) == {i \in Steps : saved[i] \in Entry /\ saved[i].path = p}

-----------------------------------------------------------------------------
(* Snapshotter.capture_file *)

\* Mutant: what cannot be read is recorded as having been absent.
CaptureFile_ErrorAsAbsent(file) ==
  IF file \in Text THEN Normal[file] ELSE Absent

\* Absent, the decoded text, or an error entry (binary or too large).
CaptureFile(file) ==
  IF file \in Text THEN Normal[file]
  ELSE IF file = Absent THEN Absent
  ELSE NoContent

\* _maybe_snapshot: the capture; stat or read may fail on any file there is.
BeginStep ==
  /\ phase = "idle"
  /\ Now < MaxSteps
  /\ \E op \in Operation :
       /\ ops' = Append(ops, op)
       /\ \E content \in {CaptureFile(files[op.path])} \cup
                         (IF files[op.path] = Absent THEN {} ELSE {NoContent}) :
            entry' = [path |-> op.path, content |-> content]
  /\ phase' = "captured"
  /\ UNCHANGED <<files, origin, cut, saved, logged, unsaved, destroyed,
                 others, user>>

\* Mutant: the snapshot is written in place.
WriteTemp_InPlace ==
  /\ phase = "captured"
  /\ phase' = "written"
  /\ saved' = [saved EXCEPT ![Now] = Torn]
  /\ UNCHANGED <<files, origin, cut, ops, entry, logged, unsaved, destroyed,
                 others, user>>

\* Mutant: the event goes to the log before the snapshot is there.
WriteTemp_LogsFirst ==
  /\ phase = "captured"
  /\ phase' = "written"
  /\ logged' = logged \cup {Now}
  /\ UNCHANGED <<files, origin, cut, ops, entry, saved, unsaved, destroyed,
                 others, user>>

\* Snapshotter.write: first a temporary file ...
WriteTemp ==
  /\ phase = "captured"
  /\ phase' = "written"
  /\ UNCHANGED <<files, origin, cut, ops, entry, saved, logged, unsaved,
                 destroyed, others, user>>

\* Mutant: two snapshots of the same second have the same name.
Replace_SameName ==
  /\ phase = "written"
  /\ phase' = "saved"
  /\ saved' = [saved EXCEPT ![1] = entry]
  /\ UNCHANGED <<files, origin, cut, ops, entry, logged, unsaved, destroyed,
                 others, user>>

\* ... then os.replace ...
Replace ==
  /\ phase = "written"
  /\ phase' = "saved"
  /\ saved' = [saved EXCEPT ![Now] = entry]
  /\ UNCHANGED <<files, origin, cut, ops, entry, logged, unsaved, destroyed,
                 others, user>>

\* ... either may raise OSError: the step goes on without a snapshot.
SaveFails ==
  /\ phase \in {"captured", "written"}
  /\ phase' = "ready"
  /\ unsaved' = unsaved \cup {Now}
  /\ UNCHANGED <<files, origin, cut, ops, entry, saved, logged, destroyed,
                 others, user>>

\* register_snapshot and append_snapshot.
RegisterSnapshot ==
  /\ phase = "saved"
  /\ phase' = "ready"
  /\ logged' = logged \cup {Now}
  /\ UNCHANGED <<files, origin, cut, ops, entry, saved, unsaved, destroyed,
                 others, user>>

-----------------------------------------------------------------------------
(* FileWriteTool.run and FileDeleteTool.run *)

\* What the tool may leave of a file: done, nothing done, or truncated.
ToolLeaves(file, content) ==
  IF content = Absent THEN {Absent, file}
  ELSE {content, file} \cup Truncated

RunTool ==
  /\ phase = "ready"
  /\ \E file \in ToolLeaves(files[Op.path], Op.content) :
       files' = [files EXCEPT ![Op.path] = file]
  /\ destroyed' = [destroyed EXCEPT ![Now] = files[Op.path]]
  /\ phase' = "idle"
  /\ UNCHANGED <<origin, cut, ops, entry, saved, logged, unsaved, others, user>>

\* The run ends between two steps, is denied the step, raises, or is killed.
Leave ==
  /\ phase # "over"
  /\ phase' = "over"
  /\ UNCHANGED <<files, origin, cut, ops, entry, saved, logged, unsaved,
                 destroyed, others, user>>

\* What the disk may have of a file that the tools wrote: they do not sync it.
Surviving(p) ==
  LET mine == {i \in Executed : ops[i].path = p} IN
  IF mine = {}
  THEN {files[p]}
  ELSE {files[p]} \cup Truncated \cup {destroyed[i] : i \in mine}

\* The power fails, in the run or before the first rollback (a later failure
\* takes back what was restored, which the user restores again).
\* Snapshotter.write does not sync its temporary file: what os.replace has
\* named may be there, cut off, or missing. EpisodicLog.append syncs: the
\* events stay.
PowerFails ==
  /\ ~cut
  /\ rollbacks = 0
  /\ cut' = TRUE
  /\ phase' = "over" /\ entry' = NoEntry
  /\ \E lost \in SUBSET {i \in Steps : saved[i] \in Entry} :
       \E torn \in SUBSET lost :
         saved' = [i \in Steps |-> IF i \in torn THEN Torn
                                  ELSE IF i \in lost THEN NoEntry
                                  ELSE saved[i]]
  /\ files' \in [Path -> File]
  /\ \A p \in Path : files'[p] \in Surviving(p)
  /\ UNCHANGED <<origin, ops, logged, unsaved, destroyed, others, user>>

\* Others write, create or delete a file.
Disturb ==
  /\ disturbed < MaxDisturbances
  /\ \E p \in Path, file \in File :
       /\ files' = [files EXCEPT ![p] = file]
       /\ outside' = outside \cup {p}
       /\ stale' = IF phase \notin {"idle", "over"} /\ Op.path = p
                   THEN stale \cup {Now}
                   ELSE stale
  /\ disturbed' = disturbed + 1
  /\ UNCHANGED <<origin, cut, run, user>>

-----------------------------------------------------------------------------
(* Restorer.restore and run_rollback, on a snapshot file that loads *)

\* The file after _restore_file, and the exit code of run_rollback.
Outcome(file, exit) == [file |-> file, exit |-> exit]

RestoreFile(file, content) ==
  IF content = NoContent THEN {Outcome(file, 1)}
  ELSE IF content \in Text
  THEN {Outcome(Written[content], 0)} \cup
       {Outcome(f, 1) : f \in Truncated \cup {file}}
  ELSE {Outcome(Absent, 0)} \cup
       (IF file = Absent THEN {} ELSE {Outcome(file, 1)})

\* A failed restore may have truncated the file: it is restored no longer.
RunRollback ==
  /\ phase = "over"
  /\ rollbacks < MaxRollbacks
  /\ \E i \in Steps :
       /\ saved[i] \in Entry
       /\ LET p == saved[i].path IN
          \E after \in RestoreFile(files[p], saved[i].content) :
            /\ files' = [files EXCEPT ![p] = after.file]
            /\ last' = [last EXCEPT ![p] = IF after.exit = 0 THEN i ELSE 0]
  /\ rollbacks' = rollbacks + 1
  /\ UNCHANGED <<origin, cut, run, others>>

-----------------------------------------------------------------------------

Init ==
  /\ files \in [Path -> File]
  /\ origin = files
  /\ outside = {} /\ disturbed = 0 /\ stale = {}
  /\ phase = "idle" /\ ops = <<>> /\ entry = NoEntry
  /\ saved = [i \in Steps |-> NoEntry]
  /\ logged = {} /\ unsaved = {} /\ cut = FALSE
  /\ destroyed = [i \in Steps |-> NoContent]
  /\ last = [p \in Path |-> 0] /\ rollbacks = 0

Next ==
  \/ BeginStep
  \/ WriteTemp
  \/ Replace
  \/ SaveFails
  \/ RegisterSnapshot
  \/ RunTool
  \/ Leave
  \/ PowerFails
  \/ Disturb
  \/ RunRollback

Spec == Init /\ [][Next]_vars

-----------------------------------------------------------------------------
(* Properties *)

\* The variables hold values of their types; in particular no snapshot file is
\* ever cut off, whenever the run dies (Snapshotter.write is atomic), but by a
\* power failure.
TypeOK ==
  /\ files \in [Path -> File] /\ origin \in [Path -> File]
  /\ outside \subseteq Path /\ disturbed \in 0..MaxDisturbances
  /\ stale \subseteq Steps
  /\ phase \in {"idle", "captured", "written", "saved", "ready", "over"}
  /\ ops \in Seq(Operation) /\ Len(ops) <= MaxSteps
  /\ entry \in Entry \cup {NoEntry}
  /\ saved \in [Steps -> Entry \cup {NoEntry, Torn}]
  /\ cut \in BOOLEAN /\ \A i \in Steps : saved[i] = Torn => cut
  /\ logged \subseteq Steps /\ unsaved \subseteq Steps
  /\ destroyed \in [Steps -> File \cup {NoContent}]
  /\ last \in [Path -> 0..MaxSteps] /\ rollbacks \in 0..MaxRollbacks

\* Equal up to line ends.
Same(f, g) ==
  IF f \in Text /\ g \in Text THEN Normal[f] = Normal[g] ELSE f = g

\* "The user should be able to undo what was already applied" (snapshot.py:4-5):
\* whatever the run did to a file, how often it was retried, and which other
\* snapshots were rolled back before, the file is what it was when the run
\* began, up to line ends, once it was restored from its earliest snapshot.
\* Two things are needed: others kept away, and no step ran unsaved or lost its
\* snapshot to a power failure.
Restored(p) ==
  /\ last[p] \in Snapshots(p)
  /\ \A i \in Snapshots(p) : last[p] <= i
Undoable(p) ==
  /\ p \notin outside
  /\ \A i \in Executed : ops[i].path = p => i \in Snapshots(p)
EarliestSnapshotRestores ==
  \A p \in Path : Restored(p) /\ Undoable(p) => Same(files[p], origin[p])

\* What a step destroyed is in its snapshot, or the entry says it could not be
\* read; unless others changed the file while the agent was saving, asking the
\* user, or about to act.
SnapshotHoldsWhatWasDestroyed ==
  \A i \in Executed :
    saved[i] \in Entry /\ i \notin stale
      => saved[i].content \in {CaptureFile(destroyed[i]), NoContent}

\* Whenever the run dies: each snapshot the log names can be loaded and is of
\* the file of that step, and a tool ran without one only if it could not be
\* written. A power failure can take the snapshot the synced log names, and
\* only that: it never makes the name lead to another file's.
TrailLeadsToSnapshots ==
  /\ \A i \in logged :
       IF saved[i] \in Entry THEN saved[i].path = ops[i].path ELSE cut
  /\ Executed \subseteq logged \cup unsaved

-----------------------------------------------------------------------------
(* A claim of the documentation that the code does not keep *)

\* "Restoring pre-state", "undo what was already applied" (snapshot.py:4-5, 313):
\* the file is exactly what it was.
UndoIsExact ==
  \A p \in Path : Restored(p) /\ Undoable(p) => files[p] = origin[p]

=============================================================================
