--------------------------- MODULE RollbackProofs ---------------------------
(***************************************************************************)
(* Rollback restores, for every set of paths and texts, every run and      *)
(* every order of rollbacks.  The argument is per path: while nothing was  *)
(* snapshotted or executed on it, the file is the one the run began with;  *)
(* so the earliest snapshot holds that file (Earliest), whatever happened  *)
(* later; and restoring it brings that file back.  Fresh says that a step  *)
(* in progress has no snapshot and no effect yet, which keeps the earliest *)
(* snapshot the earliest.                                                  *)
(***************************************************************************)
EXTENDS Rollback, SequenceTheorems, TLAPS

InStep == {"captured", "written", "saved", "ready"}

\* Steps not begun have left no trace, and the current one only the snapshot.
Fresh ==
  /\ \A i \in Steps : i > Now => saved[i] = NoEntry /\ destroyed[i] = NoContent
  /\ \A i \in Steps : i < Now => i \in Executed
  /\ phase = "idle" /\ Now \in Steps => Now \in Executed
  /\ phase \in InStep => Now \in Steps /\ destroyed[Now] = NoContent
  /\ phase \in {"captured", "written"} => saved[Now] = NoEntry
  /\ phase \in InStep => entry \in Entry /\ entry.path = Op.path
  /\ phase # "over" \/ rollbacks = 0 => \A p \in Path : last[p] = 0

\* The file p had when the run began, as an entry can hold it.
Original(p, content) == content \in {CaptureFile(origin[p]), NoContent}

\* The log and the snapshots tell of the same steps, whatever is lost.
Trail ==
  /\ \A i \in Steps : saved[i] \in Entry => saved[i].path = ops[i].path
  /\ \A i \in logged : i <= Now /\ (saved[i] \in Entry \/ cut)
  /\ Executed \subseteq logged \cup unsaved
  /\ phase = "saved" => saved[Now] \in Entry
  /\ phase = "ready" => Now \in logged \cup unsaved

\* Without a snapshot an undoable path was not touched while the run lasts;
\* with one, the earliest holds the original.
Untouched ==
  \A p \in Path :
    phase # "over" /\ Undoable(p) /\ Snapshots(p) = {} =>
      /\ files[p] = origin[p]
      /\ phase \in {"captured", "written"} /\ Op.path = p
           => Original(p, entry.content)

Earliest ==
  \A p \in Path : \A i \in Snapshots(p) :
    Undoable(p) /\ (\A j \in Snapshots(p) : i <= j)
      => Original(p, saved[i].content)

Inductive ==
  TypeOK /\ Fresh /\ Trail /\ Untouched /\ Earliest /\ EarliestSnapshotRestores

-----------------------------------------------------------------------------

LEMMA CaptureType ==
  \A file \in File : CaptureFile(file) \in Text \cup {Absent, NoContent}
  BY TextAssumption DEF CaptureFile, File

\* What a successful restore leaves: a text gets the platform's line ends.
Restoring(content) == IF content \in Text THEN Written[content] ELSE content

\* Exit code 0 means that the file holds what the entry says.
LEMMA RestoreOutcome ==
  ASSUME NEW file \in File, NEW content \in Text \cup {Absent, NoContent},
         NEW after \in RestoreFile(file, content)
  PROVE  /\ after.file \in File
         /\ after.exit = 0
              => after.file = Restoring(content) /\ content # NoContent
<1>1. CASE content = NoContent
  BY <1>1, OtherStatesAssumption DEF RestoreFile, Outcome
<1>2. CASE content \in Text
  <2>1. after = Outcome(Written[content], 0)
        \/ \E f \in Truncated \cup {file} : after = Outcome(f, 1)
    BY <1>2, OtherStatesAssumption DEF RestoreFile
  <2> QED
    BY <1>2, <2>1, OtherStatesAssumption, TextAssumption
    DEF Outcome, Truncated, File, Restoring
<1>3. CASE content = Absent
  BY <1>3, OtherStatesAssumption DEF RestoreFile, Outcome, File, Restoring
<1> QED
  BY <1>1, <1>2, <1>3

LEMMA CurrentOp ==
  ASSUME TypeOK, Now \in Steps
  PROVE  Op \in Operation /\ Op.path \in Path /\ Op.content \in Text \cup {Absent, Binary}
<1>1. Op \in Operation
  BY ElementOfSeq, LenProperties DEF TypeOK, Op, Now, Steps
<1> QED
  BY <1>1 DEF Operation

LEMMA EntryIsNot == NoEntry \notin Entry
  BY NoEntryAssumption

LEMMA InitInductive == Init => Inductive
<1> SUFFICES ASSUME Init PROVE Inductive
  OBVIOUS
<1>1. TypeOK
  <2>1. cut \in BOOLEAN /\ \A i \in Steps : saved[i] = Torn => cut
    BY NoEntryAssumption DEF Init
  <2> QED
    BY <2>1, BoundsAssumption DEF Init, TypeOK, Steps
<1>2. /\ \A p \in Path : Snapshots(p) = {}
      /\ Executed = {}
  BY EntryIsNot DEF Init, Snapshots, Executed
<1>3. Fresh
  BY DEF Init, Fresh, InStep, Now, Steps
<1>6. Trail
  BY <1>2, EntryIsNot DEF Init, Trail
<1>4. Untouched /\ Earliest
  BY <1>2 DEF Init, Untouched, Earliest
<1>5. EarliestSnapshotRestores
  BY <1>2 DEF EarliestSnapshotRestores, Restored
<1> QED
  BY <1>1, <1>3, <1>4, <1>5, <1>6 DEF Inductive

\* A step that changes neither files nor what is known of them.
LEMMA BookkeepingKeeps ==
  ASSUME Inductive, TypeOK', Fresh', Trail',
         UNCHANGED <<files, origin, cut, ops, entry, saved, destroyed, outside, last>>,
         phase' # "over" => phase # "over",
         phase' \in {"captured", "written"} => phase' = phase \/ phase = "captured"
  PROVE  Inductive'
<1>1. \A p \in Path : /\ Snapshots(p)' = Snapshots(p)
                      /\ Undoable(p)' = Undoable(p)
                      /\ Restored(p)' = Restored(p)
  BY DEF Snapshots, Undoable, Restored, Executed
<1>2. Untouched'
  BY <1>1 DEF Inductive, Untouched, Original, Op, Now
<1>3. Earliest'
  BY <1>1 DEF Inductive, Earliest, Original
<1>4. EarliestSnapshotRestores'
  BY <1>1 DEF Inductive, EarliestSnapshotRestores
<1> QED
  BY <1>2, <1>3, <1>4 DEF Inductive

LEMMA BeginStepStep ==
  ASSUME Inductive, BeginStep
  PROVE  Inductive'
<1>1. PICK op \in Operation :
        /\ ops' = Append(ops, op)
        /\ \E content \in {CaptureFile(files[op.path])} \cup
                          (IF files[op.path] = Absent THEN {} ELSE {NoContent}) :
             entry' = [path |-> op.path, content |-> content]
  BY DEF BeginStep
<1>2. PICK content \in {CaptureFile(files[op.path]), NoContent} :
        entry' = [path |-> op.path, content |-> content]
  BY <1>1
<1>3. /\ Now \in Nat /\ Now + 1 \in Steps
      /\ ops \in Seq(Operation)
  BY LenProperties, BoundsAssumption DEF BeginStep, Inductive, TypeOK, Now, Steps
<1>4. /\ ops' \in Seq(Operation)
      /\ Now' = Now + 1
      /\ Op' = op
      /\ \A i \in 1..Now : ops'[i] = ops[i]
  BY <1>1, <1>3, AppendProperties, LenProperties DEF Now, Op
<1>5. op.path \in Path /\ files[op.path] \in File
  BY DEF Operation, Inductive, TypeOK
<1>6. content \in Text \cup {Absent, NoContent}
  BY <1>2, <1>5, CaptureType
<1>7. entry' \in Entry /\ entry'.path = op.path /\ entry'.content = content
  BY <1>2, <1>5, <1>6 DEF Entry
<1>8. UNCHANGED <<files, origin, cut, saved, logged, unsaved, destroyed, outside,
                  disturbed, stale, last, rollbacks>>
      /\ phase = "idle" /\ phase' = "captured"
  BY DEF BeginStep, others, user
<1>9. TypeOK'
  BY <1>3, <1>4, <1>7, <1>8 DEF Inductive, TypeOK, Now, Steps
<1>10. Fresh'
  <2>1. \A i \in Steps : i < Now' => i \in Executed'
    BY <1>3, <1>4, <1>8 DEF Inductive, Fresh, Executed, Steps
  <2> QED
    BY <1>3, <1>4, <1>7, <1>8, <2>1 DEF Inductive, Fresh, InStep, Steps
<1>11. \A i \in Executed : i \in 1..Now
  BY <1>3, <1>8 DEF Inductive, Fresh, Executed, Steps
<1>12. \A p \in Path : /\ Snapshots(p)' = Snapshots(p)
                       /\ Undoable(p)' = Undoable(p)
                       /\ Restored(p)' = Restored(p)
  BY <1>4, <1>8, <1>11 DEF Snapshots, Undoable, Restored, Executed
<1>16. Trail'
  <2>1. \A i \in Steps : saved[i] \in Entry => i \in 1..Now
    BY <1>3, EntryIsNot DEF Inductive, Fresh, Steps
  <2>2. Executed' = Executed
    BY <1>8 DEF Executed
  <2>3. \A i \in logged : i <= Now /\ i \in Int
    BY DEF Inductive, TypeOK, Trail, Steps
  <2> QED
    BY <1>3, <1>4, <1>8, <2>1, <2>2, <2>3 DEF Inductive, Trail
<1>13. Untouched'
  BY <1>2, <1>4, <1>7, <1>8, <1>12 DEF Inductive, Untouched, Original
<1>14. Earliest'
  BY <1>8, <1>12 DEF Inductive, Earliest, Original
<1>15. EarliestSnapshotRestores'
  BY <1>8, <1>12 DEF Inductive, EarliestSnapshotRestores
<1> QED
  BY <1>9, <1>10, <1>13, <1>14, <1>15, <1>16 DEF Inductive

LEMMA WriteTempStep ==
  ASSUME Inductive, WriteTemp
  PROVE  Inductive'
<1>1. TypeOK' /\ Fresh'
  BY DEF WriteTemp, Inductive, TypeOK, Fresh, InStep, Executed, Now, Op, others, user
<1>2. Trail'
  BY DEF WriteTemp, Inductive, Fresh, Trail, InStep, Executed, Now, Steps
<1> QED
  BY <1>1, <1>2, BookkeepingKeeps DEF WriteTemp, others, user

LEMMA SaveFailsStep ==
  ASSUME Inductive, SaveFails
  PROVE  Inductive'
<1>1. TypeOK' /\ Fresh'
  BY DEF SaveFails, Inductive, TypeOK, Fresh, InStep, Executed, Now, Op, others, user
<1>2. Trail'
  BY DEF SaveFails, Inductive, Fresh, Trail, InStep, Executed, Now, Steps
<1> QED
  BY <1>1, <1>2, BookkeepingKeeps DEF SaveFails, others, user

LEMMA RegisterSnapshotStep ==
  ASSUME Inductive, RegisterSnapshot
  PROVE  Inductive'
<1>1. TypeOK' /\ Fresh'
  BY DEF RegisterSnapshot, Inductive, TypeOK, Fresh, InStep, Executed, Now, Op, others, user
<1>2. Trail'
  BY DEF RegisterSnapshot, Inductive, Fresh, Trail, InStep, Executed, Now, Steps
<1> QED
  BY <1>1, <1>2, BookkeepingKeeps DEF RegisterSnapshot, others, user

LEMMA LeaveStep ==
  ASSUME Inductive, Leave
  PROVE  Inductive'
<1>1. TypeOK' /\ Fresh'
  BY DEF Leave, Inductive, TypeOK, Fresh, InStep, Executed, Now, Op, others, user
<1>2. Trail'
  BY DEF Leave, Inductive, Fresh, Trail, InStep, Executed, Now, Steps
<1> QED
  BY <1>1, <1>2, BookkeepingKeeps DEF Leave, others, user

\* The new snapshot is the latest; if it is also the first of its path, it
\* holds the original.
LEMMA ReplaceStep ==
  ASSUME Inductive, Replace
  PROVE  Inductive'
<1>1. /\ phase = "written" /\ phase' = "saved"
      /\ saved' = [saved EXCEPT ![Now] = entry]
      /\ UNCHANGED <<files, origin, cut, ops, entry, logged, unsaved, destroyed,
                     outside, disturbed, stale, last, rollbacks>>
  BY DEF Replace, others, user
<1>2. /\ Now \in Steps /\ Now \in Nat
      /\ saved[Now] = NoEntry /\ destroyed[Now] = NoContent
      /\ entry \in Entry /\ entry.path = Op.path
      /\ DOMAIN saved = Steps
  BY <1>1, BoundsAssumption DEF Inductive, Fresh, InStep, TypeOK, Steps
<1>3. TypeOK'
  BY <1>1, <1>2, NoEntryAssumption DEF Inductive, TypeOK
<1>4. Fresh'
  BY <1>1, <1>2 DEF Inductive, Fresh, InStep, Executed, Now, Op, Steps
<1>11. Trail'
  <2>1. saved'[Now] = entry /\ \A i \in Steps \ {Now} : saved'[i] = saved[i]
    BY <1>1, <1>2
  <2>2. logged \subseteq Steps
    BY DEF Inductive, TypeOK
  <2>3. Now' = Now /\ Op' = Op /\ Op = ops[Now] /\ Executed' = Executed
    BY <1>1 DEF Now, Op, Executed
  <2> QED
    BY <1>1, <1>2, <2>1, <2>2, <2>3 DEF Inductive, Trail
<1>5. \A p \in Path :
        Snapshots(p)' = IF p = Op.path THEN Snapshots(p) \cup {Now}
                        ELSE Snapshots(p)
  BY <1>1, <1>2, EntryIsNot DEF Snapshots
<1>6. \A p \in Path : Undoable(p)' => Undoable(p)
  <2>1. Executed' = Executed /\ Now \notin Executed
    BY <1>1, <1>2 DEF Executed
  <2>2. \A p \in Path : \A i \in Executed : i \in Snapshots(p)' => i \in Snapshots(p)
    BY <1>5, <2>1
  <2> QED
    BY <1>1, <2>1, <2>2 DEF Undoable
<1>7. \A p \in Path : \A i \in Snapshots(p) : i < Now
  BY <1>2, EntryIsNot DEF Inductive, Fresh, Snapshots, Steps
<1>8. Untouched'
  <2>1. \A p \in Path : Snapshots(p)' = {} => Snapshots(p) = {}
    BY <1>5
  <2> QED
    BY <1>1, <1>6, <2>1 DEF Inductive, Untouched
<1>9. Earliest'
  <2> SUFFICES ASSUME NEW p \in Path, NEW i \in Snapshots(p)', Undoable(p)',
                      \A j \in Snapshots(p)' : i <= j
               PROVE  Original(p, saved[i].content)'
    BY DEF Earliest
  <2>1. CASE i \in Snapshots(p)
    <3>1. saved'[i] = saved[i]
      BY <1>1, <1>2, <1>7, <2>1 DEF Snapshots
    <3>2. Snapshots(p) \subseteq Snapshots(p)'
      BY <1>5
    <3>3. Original(p, saved[i].content)
      BY <1>6, <2>1, <3>2 DEF Inductive, Earliest
    <3> QED
      BY <1>1, <3>1, <3>3 DEF Original
  <2>2. CASE i \notin Snapshots(p)
    <3>1. p = Op.path /\ i = Now
      BY <1>5, <2>2
    <3>2. Snapshots(p) = {}
      BY <1>2, <1>5, <1>7, <3>1 DEF Snapshots, Steps
    <3>3. saved'[i] = entry
      BY <1>1, <1>2, <3>1
    <3> QED
      BY <1>1, <1>6, <3>1, <3>2, <3>3 DEF Inductive, Untouched, Original
  <2> QED
    BY <2>1, <2>2
<1>10. EarliestSnapshotRestores'
  <2>1. \A p \in Path : last'[p] \notin Steps
    BY <1>1 DEF Inductive, Fresh, Steps
  <2> QED
    BY <2>1 DEF EarliestSnapshotRestores, Restored, Snapshots
<1> QED
  BY <1>3, <1>4, <1>8, <1>9, <1>10, <1>11 DEF Inductive

\* A tool changes one file; its path is undoable only if it has a snapshot.
LEMMA RunToolStep ==
  ASSUME Inductive, RunTool
  PROVE  Inductive'
<1>1. PICK file \in ToolLeaves(files[Op.path], Op.content) :
        files' = [files EXCEPT ![Op.path] = file]
  BY DEF RunTool
<1>2. /\ phase = "ready" /\ phase' = "idle"
      /\ destroyed' = [destroyed EXCEPT ![Now] = files[Op.path]]
      /\ UNCHANGED <<origin, cut, ops, entry, saved, logged, unsaved, outside,
                     disturbed, stale, last, rollbacks>>
  BY DEF RunTool, others, user
<1>3. /\ Now \in Steps
      /\ destroyed[Now] = NoContent
      /\ Op.path \in Path /\ Op.content \in Text \cup {Absent, Binary}
      /\ files[Op.path] \in File
  BY <1>2, CurrentOp DEF Inductive, Fresh, InStep, TypeOK
<1>4. file \in File
  BY <1>1, <1>3 DEF ToolLeaves, Truncated, File
<1>5. TypeOK'
  BY <1>1, <1>2, <1>3, <1>4 DEF Inductive, TypeOK
<1>7. \A p \in Path : Snapshots(p)' = Snapshots(p)
  BY <1>2 DEF Snapshots
<1>8. Executed' = Executed \cup {Now}
  BY <1>2, <1>3, OtherStatesAssumption DEF Executed, Inductive, TypeOK, File
<1>6. Fresh'
  BY <1>2, <1>3, <1>8 DEF Inductive, Fresh, InStep, TypeOK, Now, Op, Steps
<1>14. Trail'
  BY <1>2, <1>8 DEF Inductive, Trail, Now
<1>9. \A p \in Path : Undoable(p)' => Undoable(p)
  BY <1>2, <1>7, <1>8 DEF Undoable
<1>10. \A p \in Path : Undoable(p)' /\ Snapshots(p)' = {} => p # Op.path
  BY <1>2, <1>8 DEF Undoable, Op, Now
<1>11. Untouched'
  BY <1>1, <1>2, <1>7, <1>9, <1>10 DEF Inductive, Untouched, TypeOK
<1>12. Earliest'
  BY <1>2, <1>7, <1>9 DEF Inductive, Earliest, Original
<1>13. EarliestSnapshotRestores'
  <2>1. \A p \in Path : last'[p] \notin Steps
    BY <1>2 DEF Inductive, Fresh, Steps
  <2> QED
    BY <2>1 DEF EarliestSnapshotRestores, Restored, Snapshots
<1> QED
  BY <1>5, <1>6, <1>11, <1>12, <1>13, <1>14 DEF Inductive

\* A power failure takes snapshots. A path from which it took one of an executed
\* step is not undoable any more; that of a step in progress was the latest.
LEMMA PowerFailsStep ==
  ASSUME Inductive, PowerFails
  PROVE  Inductive'
<1>1. PICK lost \in SUBSET {i \in Steps : saved[i] \in Entry} :
        \E torn \in SUBSET lost :
          saved' = [i \in Steps |-> IF i \in torn THEN Torn
                                   ELSE IF i \in lost THEN NoEntry
                                   ELSE saved[i]]
  BY DEF PowerFails
<1>2. /\ phase' = "over" /\ cut' = TRUE /\ entry' = NoEntry
      /\ files' \in [Path -> File]
      /\ UNCHANGED <<origin, ops, logged, unsaved, destroyed, outside, disturbed,
                     stale, last, rollbacks>>
      /\ rollbacks = 0
  BY DEF PowerFails, others, user
<1>3. \A i \in Steps : /\ saved'[i] \in {saved[i], NoEntry, Torn}
                       /\ saved[i] \notin Entry => saved'[i] = saved[i]
  BY <1>1
<1>4. saved' \in [Steps -> Entry \cup {NoEntry, Torn}]
  BY <1>1 DEF Inductive, TypeOK
<1>5. TypeOK'
  BY <1>2, <1>4 DEF Inductive, TypeOK
<1>6. \A i \in Steps : saved'[i] \in Entry => saved'[i] = saved[i]
  BY <1>3, NoEntryAssumption
<1>7. Executed' = Executed /\ Now' = Now
  BY <1>2 DEF Executed, Now
<1>8. Fresh'
  BY <1>2, <1>3, <1>7, EntryIsNot DEF Inductive, Fresh, InStep
<1>9. Trail'
  BY <1>2, <1>6, <1>7 DEF Inductive, Trail
<1>10. \A p \in Path : Snapshots(p)' \subseteq Snapshots(p)
  BY <1>6 DEF Snapshots
<1>11. \A p \in Path : Undoable(p)' => Undoable(p)
  BY <1>2, <1>7, <1>10 DEF Undoable
<1>12. Earliest'
  <2> SUFFICES ASSUME NEW p \in Path, NEW i \in Snapshots(p)', Undoable(p)',
                      \A j \in Snapshots(p)' : i <= j
               PROVE  Original(p, saved[i].content)'
    BY DEF Earliest
  <2>1. i \in Snapshots(p) /\ i \in Steps /\ saved'[i] = saved[i]
    BY <1>6, <1>10 DEF Snapshots
  <2>2. i <= Now /\ Now \in Nat
    <3>1. Now \in Nat
      BY LenProperties DEF Inductive, TypeOK, Now
    <3>2. saved[i] # NoEntry
      BY <2>1, EntryIsNot DEF Snapshots
    <3>3. ~(i > Now)
      BY <2>1, <3>2 DEF Inductive, Fresh
    <3> QED
      BY <2>1, <3>1, <3>3, BoundsAssumption DEF Steps
  <2>3. ASSUME NEW j \in Snapshots(p), ~(i <= j) PROVE FALSE
    <3>1. j \in Steps /\ j < Now
      BY <2>1, <2>2, <2>3, BoundsAssumption DEF Snapshots, Steps
    <3>2. j \in Executed /\ ops[j].path = p
      BY <2>3, <3>1 DEF Inductive, Fresh, Trail, Snapshots
    <3>3. j \in Snapshots(p)'
      BY <1>2, <1>7, <3>2 DEF Undoable
    <3> QED
      BY <2>3, <3>3
  <2>4. Original(p, saved[i].content)
    BY <1>11, <2>1, <2>3 DEF Inductive, Earliest
  <2> QED
    BY <1>2, <2>1, <2>4 DEF Original
<1>13. EarliestSnapshotRestores'
  <2>1. \A p \in Path : last'[p] \notin Steps
    BY <1>2 DEF Inductive, Fresh, Steps
  <2> QED
    BY <2>1 DEF EarliestSnapshotRestores, Restored, Snapshots
<1>14. Untouched'
  BY <1>2 DEF Untouched
<1> QED
  BY <1>5, <1>8, <1>9, <1>12, <1>13, <1>14 DEF Inductive

LEMMA DisturbStep ==
  ASSUME Inductive, Disturb
  PROVE  Inductive'
<1>1. PICK p \in Path, file \in File :
        /\ files' = [files EXCEPT ![p] = file]
        /\ outside' = outside \cup {p}
        /\ stale' \in {stale, stale \cup {Now}}
        /\ stale' # stale => phase \in InStep
  BY DEF Disturb, InStep, Inductive, TypeOK
<1>2. UNCHANGED <<origin, cut, phase, ops, entry, saved, logged, unsaved, destroyed,
                  last, rollbacks>>
      /\ disturbed < MaxDisturbances /\ disturbed' = disturbed + 1
  BY DEF Disturb, run, user
<1>3. TypeOK'
  BY <1>1, <1>2, BoundsAssumption DEF Inductive, TypeOK, Fresh
<1>4. Fresh'
  BY <1>2 DEF Inductive, Fresh, Executed, Now, Op
<1>9. Trail'
  BY <1>2 DEF Inductive, Trail, Executed, Now
<1>5. \A q \in Path : /\ Snapshots(q)' = Snapshots(q)
                      /\ Restored(q)' = Restored(q)
                      /\ Undoable(q)' => Undoable(q) /\ q # p
  BY <1>1, <1>2 DEF Snapshots, Restored, Undoable, Executed
<1>6. Untouched'
  BY <1>1, <1>2, <1>5 DEF Inductive, Untouched, Original, TypeOK, Op, Now
<1>7. Earliest'
  BY <1>2, <1>5 DEF Inductive, Earliest, Original
<1>8. EarliestSnapshotRestores'
  BY <1>1, <1>2, <1>5 DEF Inductive, EarliestSnapshotRestores, TypeOK
<1> QED
  BY <1>3, <1>4, <1>6, <1>7, <1>8, <1>9 DEF Inductive

\* Restoring the earliest snapshot brings the original back.
LEMMA RunRollbackStep ==
  ASSUME Inductive, RunRollback
  PROVE  Inductive'
<1>1. PICK i \in Steps :
        /\ saved[i] \in Entry
        /\ \E after \in RestoreFile(files[saved[i].path], saved[i].content) :
             /\ files' = [files EXCEPT ![saved[i].path] = after.file]
             /\ last' = [last EXCEPT ![saved[i].path] = IF after.exit = 0 THEN i ELSE 0]
  BY DEF RunRollback
<1> DEFINE q == saved[i].path
           content == saved[i].content
<1>2. PICK after \in RestoreFile(files[q], content) :
        /\ files' = [files EXCEPT ![q] = after.file]
        /\ last' = [last EXCEPT ![q] = IF after.exit = 0 THEN i ELSE 0]
  BY <1>1
<1>3. UNCHANGED <<origin, cut, phase, ops, entry, saved, logged, unsaved, destroyed,
                  outside, disturbed, stale>>
      /\ phase = "over" /\ rollbacks < MaxRollbacks /\ rollbacks' = rollbacks + 1
  BY DEF RunRollback, run, others
<1>4. q \in Path /\ content \in Text \cup {Absent, NoContent}
      /\ files[q] \in File
  BY <1>1 DEF Entry, Inductive, TypeOK
<1>5. /\ after.file \in File
      /\ after.exit = 0
           => after.file = Restoring(content) /\ content # NoContent
  BY <1>2, <1>4, RestoreOutcome
<1>6. TypeOK'
  BY <1>2, <1>3, <1>4, <1>5, BoundsAssumption DEF Inductive, TypeOK, Steps
<1>7. Fresh'
  BY <1>3 DEF Inductive, TypeOK, Fresh, InStep, Executed, Now, Op
<1>13. Trail'
  BY <1>3 DEF Inductive, Trail, Executed, Now
<1>8. \A p \in Path : /\ Snapshots(p)' = Snapshots(p)
                      /\ Undoable(p)' = Undoable(p)
  BY <1>3 DEF Snapshots, Undoable, Executed
<1>9. i \in Snapshots(q)
  BY <1>1 DEF Snapshots
<1>10. Untouched'
  BY <1>2, <1>3, <1>8, <1>9 DEF Inductive, Untouched, TypeOK
<1>11. Earliest'
  BY <1>3, <1>8 DEF Inductive, Earliest, Original
<1>12. EarliestSnapshotRestores'
  <2> SUFFICES ASSUME NEW p \in Path, Restored(p)', Undoable(p)'
               PROVE  Same(files'[p], origin[p])
    BY <1>3 DEF EarliestSnapshotRestores, Same
  <2>1. CASE p # q
    BY <1>2, <1>3, <1>8, <2>1
    DEF Inductive, EarliestSnapshotRestores, Restored, TypeOK
  <2>2. CASE p = q
    <3>1. last'[q] = IF after.exit = 0 THEN i ELSE 0
      BY <1>2, <1>4 DEF Inductive, TypeOK
    <3>2. after.exit = 0 /\ last'[q] = i
      BY <1>5, <2>2, <3>1 DEF Restored, Snapshots, Steps
    <3>3. \A j \in Snapshots(q) : i <= j
      BY <1>8, <2>2, <3>2 DEF Restored
    <3>4. Original(q, content)
      BY <1>8, <1>9, <2>2, <3>3 DEF Inductive, Earliest
    <3>5. /\ files'[q] = Restoring(content)
          /\ content = CaptureFile(origin[q]) /\ content # NoContent
      BY <1>2, <1>4, <1>5, <3>2, <3>4 DEF Original, Inductive, TypeOK
    <3>6. origin[q] \in File
      BY <1>4 DEF Inductive, TypeOK
    <3>7. CASE origin[q] \in Text
      <4>1. content = Normal[origin[q]] /\ content \in Text
        BY <3>5, <3>7, TextAssumption DEF CaptureFile
      <4>2. files'[q] = Written[content] /\ files'[q] \in Text
        BY <3>5, <4>1, TextAssumption DEF Restoring
      <4> QED
        BY <2>2, <3>7, <4>1, <4>2, TextAssumption DEF Same
    <3>8. CASE origin[q] \notin Text
      BY <2>2, <3>5, <3>6, <3>8, OtherStatesAssumption
      DEF CaptureFile, Restoring, Same
    <3> QED
      BY <3>7, <3>8
  <2> QED
    BY <2>1, <2>2
<1> QED
  BY <1>6, <1>7, <1>10, <1>11, <1>12, <1>13 DEF Inductive

LEMMA AlwaysInductive == Spec => []Inductive
<1>1. ASSUME Inductive, [Next]_vars PROVE Inductive'
  <2>1. CASE UNCHANGED vars
    <3>1. TypeOK' /\ Fresh' /\ Trail'
      BY <1>1, <2>1
      DEF Inductive, TypeOK, Fresh, Trail, Executed, Now, Op, vars, run, others,
          user
    <3> QED
      BY <1>1, <2>1, <3>1, BookkeepingKeeps DEF vars, run, others, user
  <2> QED
    BY <1>1, <2>1, BeginStepStep, WriteTempStep, ReplaceStep, SaveFailsStep,
       RegisterSnapshotStep, RunToolStep, LeaveStep, PowerFailsStep,
       DisturbStep, RunRollbackStep
    DEF Next
<1> QED
  BY InitInductive, <1>1, PTL DEF Spec

-----------------------------------------------------------------------------

\* The types, and with them that Snapshotter.write leaves no snapshot file cut
\* off, wherever the run dies: only a power failure, against which nothing is
\* synced, can do that.
THEOREM TypeCorrect == Spec => []TypeOK
<1>1. Inductive => TypeOK
  BY DEF Inductive
<1> QED
  BY AlwaysInductive, <1>1, PTL

\* For all files and texts, runs of any length, failing tools and failing
\* restores: a path that others left alone, and on which no step ran unsaved,
\* is what it was when the run began, up to line ends, whenever it was last
\* restored from its earliest snapshot.
THEOREM RollbackRestores == Spec => []EarliestSnapshotRestores
<1>1. Inductive => EarliestSnapshotRestores
  BY DEF Inductive
<1> QED
  BY AlwaysInductive, <1>1, PTL

\* For all runs, failed writes and power failures: what the log names, as far as
\* it is still there, is the snapshot of that step's own file, and no tool ran
\* without one but for a write that failed.
THEOREM TrailLeads == Spec => []TrailLeadsToSnapshots
<1>1. Inductive => TrailLeadsToSnapshots
  BY DEF Inductive, TypeOK, Trail, TrailLeadsToSnapshots
<1> QED
  BY AlwaysInductive, <1>1, PTL

\* What the documentation promises, "undo what was already applied", is kept to
\* the letter where all files have the line ends that write_text gives them (LF
\* on Unix, CRLF on Windows): foreign line ends are the only thing a restore
\* does not bring back.
THEOREM UndoIsExactWithNativeLineEnds ==
  ASSUME \A text \in Text : Written[Normal[text]] = text
  PROVE  Spec => []UndoIsExact
<1>1. ASSUME Inductive PROVE UndoIsExact
  <2>1. \A p \in Path : Same(files[p], origin[p]) => files[p] = origin[p]
    BY DEF Same
  <2> QED
    BY <1>1, <2>1 DEF Inductive, EarliestSnapshotRestores, UndoIsExact
<1> QED
  BY AlwaysInductive, <1>1, PTL

-----------------------------------------------------------------------------

\* The step in progress holds what its file is, unless others changed it since.
Held ==
  /\ phase \in InStep /\ Now \notin stale
       => entry.content \in {CaptureFile(files[Op.path]), NoContent}
  /\ phase \in {"saved", "ready"} /\ saved[Now] \in Entry => saved[Now] = entry
  /\ SnapshotHoldsWhatWasDestroyed

\* A step that leaves the executed steps, and what is saved for them, alone.
LEMMA HoldsStays ==
  ASSUME SnapshotHoldsWhatWasDestroyed,
         UNCHANGED destroyed,
         stale \subseteq stale',
         \A i \in Executed : saved'[i] \in Entry => saved'[i] = saved[i]
  PROVE  SnapshotHoldsWhatWasDestroyed'
  BY DEF SnapshotHoldsWhatWasDestroyed, Executed

LEMMA HeldStep ==
  ASSUME Inductive, Held, [Next]_vars
  PROVE  Held'
<1> USE DEF Held, InStep, others, user, run
<1>1. CASE BeginStep
  <2>1. PICK op \in Operation :
          /\ ops' = Append(ops, op)
          /\ entry'.content \in {CaptureFile(files[op.path]), NoContent}
    BY <1>1 DEF BeginStep
  <2>2. Op' = op
    BY <2>1, AppendProperties, LenProperties DEF Inductive, TypeOK, Now, Op
  <2>3. SnapshotHoldsWhatWasDestroyed'
    BY <1>1, HoldsStays DEF BeginStep
  <2> QED
    BY <1>1, <2>1, <2>2, <2>3 DEF BeginStep
<1>2. CASE WriteTemp \/ SaveFails \/ RegisterSnapshot \/ Leave \/ UNCHANGED vars
  <2>1. SnapshotHoldsWhatWasDestroyed'
    BY <1>2, HoldsStays DEF WriteTemp, SaveFails, RegisterSnapshot, Leave, vars
  <2> QED
    BY <1>2, <2>1, EntryIsNot
    DEF WriteTemp, SaveFails, RegisterSnapshot, Leave, vars, Now, Op, Inductive,
        Fresh
<1>3. CASE Replace
  <2>1. Now \in Steps /\ Now \notin Executed
    BY <1>3 DEF Replace, Inductive, Fresh, Executed
  <2>2. saved'[Now] = entry /\ \A i \in Executed : saved'[i] = saved[i]
    BY <1>3, <2>1 DEF Replace, Inductive, TypeOK, Executed
  <2>3. SnapshotHoldsWhatWasDestroyed'
    BY <1>3, <2>2, HoldsStays DEF Replace
  <2> QED
    BY <1>3, <2>2, <2>3 DEF Replace, Now, Op
<1>4. CASE RunTool
  <2>1. /\ Now \in Steps /\ phase = "ready" /\ phase' = "idle"
        /\ destroyed' = [destroyed EXCEPT ![Now] = files[Op.path]]
        /\ UNCHANGED <<saved, stale>>
    BY <1>4 DEF RunTool, Inductive, Fresh
  <2>2. \A i \in Steps : destroyed'[i] = IF i = Now THEN files[Op.path]
                                         ELSE destroyed[i]
    BY <2>1 DEF Inductive, TypeOK
  <2>3. SnapshotHoldsWhatWasDestroyed'
    BY <2>1, <2>2 DEF SnapshotHoldsWhatWasDestroyed, Executed
  <2> QED
    BY <2>1, <2>3
<1>5. CASE PowerFails
  <2>1. \A i \in Steps : saved'[i] \in {saved[i], NoEntry, Torn}
    BY <1>5 DEF PowerFails
  <2>2. SnapshotHoldsWhatWasDestroyed'
    BY <1>5, <2>1, NoEntryAssumption, HoldsStays DEF PowerFails, Executed
  <2> QED
    BY <1>5, <2>2 DEF PowerFails
<1>6. CASE Disturb
  <2>1. PICK p \in Path, file \in File :
          /\ files' = [files EXCEPT ![p] = file]
          /\ stale' = IF phase \notin {"idle", "over"} /\ Op.path = p
                      THEN stale \cup {Now}
                      ELSE stale
    BY <1>6 DEF Disturb
  <2>2. SnapshotHoldsWhatWasDestroyed'
    BY <1>6, <2>1, HoldsStays DEF Disturb
  <2>3. phase \in InStep /\ Now \notin stale' => files'[Op.path] = files[Op.path]
    BY <2>1 DEF Inductive, TypeOK
  <2> QED
    BY <1>6, <2>1, <2>2, <2>3 DEF Disturb, Now, Op
<1>7. CASE RunRollback
  <2>1. SnapshotHoldsWhatWasDestroyed'
    BY <1>7, HoldsStays DEF RunRollback
  <2> QED
    BY <1>7, <2>1 DEF RunRollback
<1> QED
  BY <1>1, <1>2, <1>3, <1>4, <1>5, <1>6, <1>7 DEF Next

\* For all files, failures and disturbances: a snapshot that is there holds the
\* file its step destroyed, or says that it could not be read, unless others
\* changed that file between capture and tool.
THEOREM SnapshotsHold == Spec => []SnapshotHoldsWhatWasDestroyed
<1>1. Init => Held
  BY DEF Init, Held, InStep, SnapshotHoldsWhatWasDestroyed, Executed
<1>2. Inductive /\ Held /\ [Next]_vars => Held'
  BY HeldStep
<1>3. Held => SnapshotHoldsWhatWasDestroyed
  BY DEF Held
<1> QED
  BY AlwaysInductive, <1>1, <1>2, <1>3, PTL DEF Spec

=============================================================================
