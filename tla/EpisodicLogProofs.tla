------------------------- MODULE EpisodicLogProofs -------------------------
(***************************************************************************)
(* Proofs about EpisodicLog, for any number of threads, events and failed  *)
(* appends.  Until an append fails, event e fills the e-th three pieces of *)
(* the file; later appends and failures only add bytes behind them, and a  *)
(* power failure takes none of those whose append returned.  So readers    *)
(* get the events 1..n for an n that grows with the file until the first   *)
(* failure or crash: the file implements AppendOnlyLog.                    *)
(***************************************************************************)
EXTENDS EpisodicLog, FiniteSetTheorems, TLAPS

\* Who holds the lock appends the newest event, which has no fate yet.
Numbered ==
  /\ lock # Free => current[lock] = begun /\ begun # 0
  /\ returned \subseteq 1..begun /\ failed \subseteq 1..begun
  /\ lock # Free => begun \notin returned \cup failed

\* What is still to be written of that event is the end of its line.
Remaining ==
  lock # Free =>
    /\ Len(pending[lock]) <= 3
    /\ \A k \in 1..Len(pending[lock]) :
         pending[lock][k] = Line(begun)[3 - Len(pending[lock]) + k]

\* Lines begin in the order of their events.
InOrder ==
  /\ \A i \in DOMAIN file : file[i].part = "head" => file[i].event <= begun
  /\ \A i, j \in DOMAIN file :
       i < j /\ file[i].part = "head" /\ file[j].part = "head"
         => file[i].event < file[j].event
  /\ lock # Free /\ Len(pending[lock]) = 3 =>
       \A i \in DOMAIN file : file[i].part = "head" => file[i].event < begun

\* The first n pieces of the line of event e are at their place.
Filled(e, n) ==
  /\ 3 * (e - 1) + n <= Len(file)
  /\ \A k \in 1..n : file[3 * (e - 1) + k] = Line(e)[k]

\* The file has no more in it than was begun.
Bounded ==
  /\ synced <= Len(file)
  /\ Len(file) <= 3 * begun
  /\ lock # Free => Len(file) <= 3 * begun - Len(pending[lock])

\* What returned before any failure is on disk, at its place, and so is all that
\* came before it.
Durable ==
  \A e \in returned : Sound(e) =>
    3 * e <= synced /\ 1..e \subseteq returned /\ Filled(e, 3)

\* As long as nothing has failed the file is the lines of all events begun, the
\* last one as far as it was written.
Dense ==
  up /\ failed = {} =>
    /\ lock = Free => Len(file) = 3 * begun /\ returned = 1..begun
    /\ lock # Free =>
         /\ Len(file) = 3 * begun - Len(pending[lock])
         /\ returned = 1..(begun - 1)
         /\ Filled(begun, 3 - Len(pending[lock]))

Inductive ==
  TypeOK /\ Numbered /\ Remaining /\ InOrder /\ Bounded /\ Durable /\ Dense

-----------------------------------------------------------------------------
(* Lines *)

LEMMA LineIs ==
  ASSUME NEW e \in Nat
  PROVE  /\ Len(Line(e)) = 3
         /\ Line(e)[1] = [event |-> e, part |-> "head"]
         /\ Line(e)[2] = [event |-> e, part |-> "tail"]
         /\ Line(e)[3] = [event |-> 0, part |-> "newline"]
BY DEF Line, Piece

LEMMA LineType ==
  ASSUME NEW e \in Events
  PROVE  Line(e) \in Seq(Pieces)
<1>1. \A p \in {"head", "tail", "newline"} :
        Piece(e, p) \in Pieces /\ Piece(0, p) \in Pieces
  BY DEF Piece, Pieces
<1> QED BY <1>1 DEF Line

LEMMA Typed ==
  ASSUME Inductive
  PROVE  /\ file \in Seq(Pieces) /\ Len(file) \in Nat /\ DOMAIN file = 1..Len(file)
         /\ \A i \in DOMAIN file : file[i].event \in Nat
         /\ synced \in Nat /\ begun \in Nat /\ begun <= MaxEvents
         /\ \A t \in Thread : Len(pending[t]) \in Nat
         /\ \A e \in returned : e \in Nat \ {0}
         /\ synced <= Len(file) /\ Len(file) <= 3 * begun
<1>1. /\ file \in Seq(Pieces) /\ synced \in Nat /\ begun \in Nat /\ begun <= MaxEvents
      /\ \A e \in returned : e \in Nat \ {0}
  BY BoundsAssumption DEF Inductive, TypeOK, Events
<1>2. /\ Len(file) \in Nat /\ DOMAIN file = 1..Len(file)
      /\ \A i \in DOMAIN file : file[i] \in Pieces
  BY <1>1
<1>3. \A p \in Pieces : p.event \in Nat
  BY BoundsAssumption DEF Pieces, Events
<1>4. \A t \in Thread : Len(pending[t]) \in Nat
  BY DEF Inductive, TypeOK
<1>5. synced <= Len(file) /\ Len(file) <= 3 * begun
  BY DEF Inductive, Bounded
<1> QED BY <1>1, <1>2, <1>3, <1>4, <1>5

\* Whoever has something to do with an event holds the lock.
LEMMA Holder ==
  ASSUME Inductive, NEW t \in Thread, current[t] # 0 \/ pending[t] # <<>>
  PROVE  /\ lock = t /\ lock # Free /\ current[t] = begun
         /\ begun \in Events /\ begun \in Nat \ {0}
         /\ begun \notin returned \cup failed
<1>1. lock = t /\ lock # Free
  BY FreeAssumption DEF Inductive, TypeOK
<1> QED BY <1>1, BoundsAssumption DEF Inductive, Numbered, TypeOK, Events

\* A failure may cut the promise, nothing extends it.
LEMMA SoundNewest ==
  ASSUME Inductive, lock # Free, Sound(begun)
  PROVE  failed = {}
BY BoundsAssumption DEF Inductive, Numbered, TypeOK, Sound, Events

-----------------------------------------------------------------------------
(* The actions *)

LEMMA AcquireKeeps ==
  ASSUME Inductive, NEW t \in Thread, Acquire(t)
  PROVE  Inductive'
<1> USE DEF Inductive
<1>1. /\ lock = Free /\ lock' = t /\ t # Free
      /\ begun \in Nat /\ begun' \in Nat /\ begun' = begun + 1 /\ begun' \in Events
      /\ current' = [current EXCEPT ![t] = begun']
      /\ pending' = [pending EXCEPT ![t] = Line(begun')]
      /\ UNCHANGED <<file, synced, returned, failed, up>>
  BY FreeAssumption, BoundsAssumption DEF Acquire, TypeOK, Events
<1>2. /\ current'[t] = begun' /\ pending'[t] = Line(begun')
      /\ \A s \in Thread \ {t} : current'[s] = 0 /\ pending'[s] = <<>>
  BY <1>1, FreeAssumption DEF TypeOK
<1>3. Len(pending'[lock']) = 3
  <2>1. Len(Line(begun')) = 3
    BY <1>1, LineIs
  <2> QED BY <1>1, <1>2, <2>1
<1>4. Line(begun') \in Seq(Pieces)
  BY <1>1, LineType
<1>5. TypeOK'
  BY <1>1, <1>2, <1>4, BoundsAssumption DEF TypeOK, Events
<1>6. Numbered'
  <2>1. returned \subseteq 1..begun /\ failed \subseteq 1..begun
    BY DEF Numbered
  <2> QED BY <1>1, <1>2, <2>1 DEF Numbered, Events
<1>7. Remaining'
  <2>1. \A k \in 1..3 : pending'[lock'][k] = Line(begun')[3 - 3 + k]
    BY <1>1, <1>2
  <2> QED BY <1>3, <2>1 DEF Remaining
<1>8. InOrder'
  <2>1. ASSUME NEW i \in DOMAIN file, file[i].part = "head"
        PROVE  file[i].event < begun' /\ file[i].event <= begun'
    <3>1. file[i].event \in Nat
      BY Typed
    <3>2. file[i].event <= begun
      BY <2>1 DEF InOrder
    <3> QED BY ONLY <1>1, <3>1, <3>2
  <2>2. \A i, j \in DOMAIN file :
          i < j /\ file[i].part = "head" /\ file[j].part = "head"
            => file[i].event < file[j].event
    BY DEF InOrder
  <2> QED BY <1>1, <2>1, <2>2 DEF InOrder
<1>9. Len(file) \in Nat /\ synced \in Nat /\ synced <= Len(file) /\ Len(file) <= 3 * begun
  BY Typed
<1>10. Bounded'
  <2>1. Len(file) <= 3 * begun' - 3 /\ Len(file) <= 3 * begun'
    BY <1>1, <1>9
  <2> QED BY <1>1, <1>3, <1>9, <2>1 DEF Bounded
<1>11. Durable'
  BY <1>1 DEF Durable, Sound, Filled
<1>12. Dense'
  <2> SUFFICES ASSUME up, failed = {}
               PROVE  /\ Len(file) = 3 * begun' - 3
                      /\ returned = 1..(begun' - 1)
                      /\ 3 * (begun' - 1) <= Len(file)
    <3>1. lock' # Free /\ 3 - Len(pending'[lock']) = 0
      BY <1>1, <1>3
    <3>2. 3 * (begun' - 1) + 0 = 3 * (begun' - 1) /\ ~\E k \in 1..0 : TRUE
      BY <1>1
    <3> QED BY <1>1, <1>3, <3>1, <3>2 DEF Dense, Filled
  <2>1. Len(file) = 3 * begun /\ returned = 1..begun
    BY <1>1 DEF Dense
  <2> QED BY <1>1, <1>9, <2>1
<1> QED BY <1>5, <1>6, <1>7, <1>8, <1>10, <1>11, <1>12

\* What is in the file stays in its place while it grows.
LEMMA AppendFile ==
  ASSUME file \in Seq(Pieces), NEW p \in Pieces, file' = Append(file, p)
  PROVE  /\ file' \in Seq(Pieces) /\ Len(file) \in Nat /\ Len(file') = Len(file) + 1
         /\ DOMAIN file = 1..Len(file) /\ DOMAIN file' = 1..(Len(file) + 1)
         /\ \A i \in 1..Len(file) : file'[i] = file[i]
         /\ file'[Len(file) + 1] = p
OBVIOUS

LEMMA FilledStays ==
  ASSUME NEW e \in Nat \ {0}, NEW n \in Nat, Filled(e, n), Len(file) \in Nat,
         Len(file') \in Nat, Len(file) <= Len(file'),
         \A i \in 1..Len(file) : file'[i] = file[i]
  PROVE  Filled(e, n)'
<1>1. \A k \in 1..n : 3 * (e - 1) + k \in 1..Len(file)
  BY DEF Filled
<1>2. \A k \in 1..n : file'[3 * (e - 1) + k] = Line(e)[k]
  BY <1>1 DEF Filled
<1>3. 3 * (e - 1) + n <= Len(file')
  BY DEF Filled
<1> QED BY <1>2, <1>3 DEF Filled

LEMMA WriteKeeps ==
  ASSUME Inductive, NEW t \in Thread, Write(t)
  PROVE  Inductive'
<1> USE DEF Inductive
<1> DEFINE rest == pending[t]
           last == Head(pending[t])
           n == Len(pending[t])
<1>1. /\ lock = t /\ lock # Free /\ begun \in Events /\ begun \in Nat \ {0}
      /\ rest \in Seq(Pieces) /\ rest # <<>>
  BY Holder DEF Write, TypeOK
<1>2. /\ file' = Append(file, last)
      /\ pending' = [pending EXCEPT ![t] = Tail(rest)]
      /\ UNCHANGED <<synced, lock, current, begun, returned, failed, up>>
  BY DEF Write
<1>3. /\ last \in Pieces /\ last = rest[1] /\ n \in Nat \ {0}
      /\ Tail(rest) \in Seq(Pieces) /\ Len(Tail(rest)) = n - 1
      /\ \A k \in 1..(n - 1) : Tail(rest)[k] = rest[k + 1]
  BY <1>1
<1>4. /\ file' \in Seq(Pieces) /\ Len(file) \in Nat /\ Len(file') = Len(file) + 1
      /\ DOMAIN file = 1..Len(file) /\ DOMAIN file' = 1..(Len(file) + 1)
      /\ \A i \in 1..Len(file) : file'[i] = file[i]
      /\ file'[Len(file) + 1] = last
  BY <1>2, <1>3, AppendFile DEF TypeOK
<1>5. /\ pending'[t] = Tail(rest)
      /\ \A s \in Thread \ {t} : pending'[s] = pending[s]
  BY <1>1, <1>2 DEF TypeOK
<1> HIDE DEF rest, last, n
<1>6. /\ n \in 1..3 /\ last = Line(begun)[4 - n]
      /\ Len(file) <= 3 * begun - n
  <2>1. n <= 3 /\ \A k \in 1..n : rest[k] = Line(begun)[3 - n + k]
    BY <1>1 DEF Remaining, rest, n
  <2>2. Len(file) <= 3 * begun - n
    BY <1>1 DEF Bounded, n
  <2>3. 3 - n + 1 = 4 - n /\ n \in 1..3 /\ 1 \in 1..n
    BY <1>3, <2>1
  <2> QED BY <1>3, <2>1, <2>2, <2>3
<1>7. TypeOK'
  BY <1>1, <1>2, <1>3, <1>4, <1>5 DEF TypeOK
<1>8. Numbered'
  BY <1>2 DEF Numbered
<1>9. Remaining'
  <2>1. \A k \in 1..n : rest[k] = Line(begun)[3 - n + k]
    BY <1>1 DEF Remaining, rest, n
  <2>2. ASSUME NEW k \in 1..(n - 1)
        PROVE  Tail(rest)[k] = Line(begun)[3 - (n - 1) + k]
    <3>1. k + 1 \in 1..n /\ 3 - n + (k + 1) = 3 - (n - 1) + k
      BY <1>6
    <3>2. rest[k + 1] = Line(begun)[3 - n + (k + 1)]
      BY <2>1, <3>1
    <3>3. Tail(rest)[k] = rest[k + 1]
      BY <1>3
    <3> QED BY <3>1, <3>2, <3>3
  <2>3. Len(pending'[lock']) = n - 1 /\ pending'[lock'] = Tail(rest) /\ n - 1 <= 3
    BY <1>1, <1>2, <1>3, <1>5, <1>6
  <2> QED BY <1>2, <2>2, <2>3 DEF Remaining
<1>10. InOrder'
  <2>1. last.part = "head" => n = 3 /\ last.event = begun
    <3>1. CASE n = 1
      <4>1. last = Line(begun)[3]
        BY <1>6, <3>1
      <4>2. Line(begun)[3] = [event |-> 0, part |-> "newline"]
        BY <1>1, LineIs
      <4> QED BY <4>1, <4>2
    <3>2. CASE n = 2
      <4>1. last = Line(begun)[2]
        BY <1>6, <3>2
      <4>2. Line(begun)[2] = [event |-> begun, part |-> "tail"]
        BY <1>1, LineIs
      <4> QED BY <4>1, <4>2
    <3>3. CASE n = 3
      <4>1. last = Line(begun)[1]
        BY <1>6, <3>3
      <4>2. Line(begun)[1] = [event |-> begun, part |-> "head"]
        BY <1>1, LineIs
      <4> QED BY <3>3, <4>1, <4>2
    <3> QED BY <1>6, <3>1, <3>2, <3>3
  <2>2. n = 3 => \A i \in DOMAIN file : file[i].part = "head" => file[i].event < begun
    BY <1>1 DEF InOrder, n
  <2>3. \A i \in DOMAIN file' : file'[i].part = "head" => file'[i].event <= begun
    BY <1>1, <1>4, <2>1, Typed DEF InOrder
  <2>4. \A i, j \in DOMAIN file' :
          i < j /\ file'[i].part = "head" /\ file'[j].part = "head"
            => file'[i].event < file'[j].event
    BY <1>4, <2>1, <2>2 DEF InOrder
  <2>5. Len(pending'[lock']) = n - 1 /\ n - 1 # 3
    BY <1>1, <1>2, <1>3, <1>5, <1>6
  <2> QED BY <1>2, <2>3, <2>4, <2>5 DEF InOrder
<1>11. Bounded'
  <2>1. synced \in Nat /\ synced <= Len(file)
    BY Typed
  <2>2. Len(pending'[lock']) = n - 1
    BY <1>1, <1>2, <1>3, <1>5
  <2>3. synced <= Len(file') /\ Len(file') <= 3 * begun - (n - 1)
    BY <1>1, <1>4, <1>6, <2>1
  <2>4. Len(file') <= 3 * begun
    BY <1>1, <1>4, <1>6, <2>3
  <2> QED BY <1>2, <2>2, <2>3, <2>4 DEF Bounded
<1>12. Durable'
  <2>1. ASSUME NEW e \in returned, Sound(e)
        PROVE  3 * e <= synced /\ 1..e \subseteq returned /\ Filled(e, 3)'
    <3>1. e \in Nat \ {0}
      BY <2>1, <1>1 DEF Numbered
    <3> QED BY <1>4, <2>1, <3>1, FilledStays DEF Durable
  <2> QED BY <1>2, <2>1 DEF Durable, Sound
<1>13. Dense'
  <2> SUFFICES ASSUME up, failed = {}
               PROVE  /\ Len(file') = 3 * begun - (n - 1)
                      /\ returned = 1..(begun - 1)
                      /\ 3 * (begun - 1) + (4 - n) <= Len(file')
                      /\ \A k \in 1..(4 - n) :
                           file'[3 * (begun - 1) + k] = Line(begun)[k]
    <3>1. Len(pending'[lock']) = n - 1 /\ 3 - (n - 1) = 4 - n
      BY <1>1, <1>2, <1>3, <1>5, <1>6
    <3> QED BY <1>1, <1>2, <3>1 DEF Dense, Filled
  <2>1. Len(file) = 3 * begun - n /\ returned = 1..(begun - 1) /\ Filled(begun, 3 - n)
    BY <1>1 DEF Dense, n
  <2>2. /\ begun \in Nat \ {0} /\ n \in 1..3 /\ Len(file) \in Nat
        /\ Len(file) = 3 * begun - n /\ Len(file') = Len(file) + 1
    BY <1>1, <1>4, <1>6, <2>1
  <2>3. \A k \in 1..(3 - n) : file'[3 * (begun - 1) + k] = Line(begun)[k]
    <3>1. \A k \in 1..(3 - n) : 3 * (begun - 1) + k \in 1..Len(file)
      BY ONLY <2>2
    <3> QED BY <1>4, <2>1, <3>1 DEF Filled
  <2>4. /\ 3 * (begun - 1) + (4 - n) = Len(file) + 1
        /\ 3 * (begun - 1) + (4 - n) = Len(file')
        /\ Len(file') = 3 * begun - (n - 1)
    BY ONLY <2>2
  <2>5. ASSUME NEW k \in 1..(4 - n)
        PROVE  file'[3 * (begun - 1) + k] = Line(begun)[k]
    <3>1. k \in 1..(3 - n) \/ k = 4 - n
      BY <1>6
    <3>2. CASE k \in 1..(3 - n)
      BY <2>3, <3>2
    <3>3. CASE k = 4 - n
      <4>1. file'[3 * (begun - 1) + k] = last
        BY <1>4, <2>4, <3>3
      <4> QED BY <1>6, <3>3, <4>1
    <3> QED BY <3>1, <3>2, <3>3
  <2>6. 3 * (begun - 1) + (4 - n) <= Len(file')
    BY <1>4, <2>4
  <2> QED BY <2>1, <2>4, <2>5, <2>6
<1> QED BY <1>7, <1>8, <1>9, <1>10, <1>11, <1>12, <1>13

LEMMA ReturnKeeps ==
  ASSUME Inductive, NEW t \in Thread, Return(t)
  PROVE  Inductive'
<1> USE DEF Inductive
<1>1. /\ lock = t /\ lock # Free /\ current[t] = begun /\ pending[t] = <<>>
      /\ begun \in Events /\ begun \in Nat \ {0} /\ begun \notin returned \cup failed
  BY Holder DEF Return
<1>2. /\ synced' = Len(file) /\ returned' = returned \cup {begun}
      /\ current' = [current EXCEPT ![t] = 0] /\ lock' = Free
      /\ UNCHANGED <<file, pending, begun, failed, up>>
  BY <1>1 DEF Return
<1>3. /\ Len(file) \in Nat /\ synced \in Nat /\ synced <= Len(file)
      /\ Len(file) <= 3 * begun
  BY DEF TypeOK, Bounded
<1>4. TypeOK'
  <2>1. Len(file) \in 0..(3 * MaxEvents)
    BY <1>1, <1>3, BoundsAssumption DEF Events
  <2>2. \A s \in Thread : current'[s] = 0 /\ pending'[s] = <<>>
    BY <1>1, <1>2 DEF TypeOK
  <2> QED BY <1>1, <1>2, <2>1, <2>2 DEF TypeOK
<1>5. Numbered'
  <2>1. returned \subseteq 1..begun /\ failed \subseteq 1..begun /\ begun \in 1..begun
    BY <1>1 DEF Numbered
  <2> QED BY <1>2, <2>1 DEF Numbered
<1>6. Remaining' /\ InOrder' /\ Bounded'
  BY <1>2, <1>3 DEF Remaining, InOrder, Bounded
<1>7. failed = {} /\ up =>
        /\ Len(file) = 3 * begun /\ returned = 1..(begun - 1) /\ Filled(begun, 3)
  BY <1>1, <1>3 DEF Dense
<1>8. Durable'
  <2>1. ASSUME NEW e \in returned, Sound(e)
        PROVE  3 * e <= Len(file) /\ 1..e \subseteq returned' /\ Filled(e, 3)
    <3>1. e \in Nat
      BY <1>1 DEF Numbered
    <3> QED BY <1>2, <1>3, <2>1, <3>1 DEF Durable
  <2>2. ASSUME Sound(begun)
        PROVE  3 * begun <= Len(file) /\ 1..begun \subseteq returned' /\ Filled(begun, 3)
    <3>1. failed = {} /\ up
      BY <1>1, <2>2, SoundNewest DEF Return
    <3> QED BY <1>1, <1>2, <1>3, <1>7, <3>1
  <2> QED BY <1>2, <2>1, <2>2 DEF Durable, Sound, Filled
<1>9. Dense'
  BY <1>1, <1>2, <1>7 DEF Dense
<1> QED BY <1>4, <1>5, <1>6, <1>8, <1>9

LEMMA FailKeeps ==
  ASSUME Inductive, NEW t \in Thread, Fail(t)
  PROVE  Inductive'
<1> USE DEF Inductive
<1>1. /\ lock = t /\ lock # Free /\ current[t] = begun
      /\ begun \in Events /\ begun \in Nat \ {0} /\ begun \notin returned \cup failed
  BY Holder DEF Fail
<1>2. /\ failed' = failed \cup {begun} /\ lock' = Free
      /\ current' = [current EXCEPT ![t] = 0]
      /\ pending' = [pending EXCEPT ![t] = <<>>]
      /\ UNCHANGED <<file, synced, begun, returned, up>>
  BY <1>1 DEF Fail
<1>3. \A s \in Thread : current'[s] = 0 /\ pending'[s] = <<>>
  BY <1>1, <1>2 DEF TypeOK
<1>4. TypeOK'
  BY <1>1, <1>2, <1>3 DEF TypeOK
<1>5. Numbered'
  BY <1>1, <1>2 DEF Numbered
<1>6. Remaining' /\ InOrder' /\ Bounded' /\ Dense'
  BY <1>2 DEF Remaining, InOrder, Bounded, Dense
<1>7. Durable'
  BY <1>2 DEF Durable, Sound, Filled
<1> QED BY <1>4, <1>5, <1>6, <1>7

LEMMA DieKeeps ==
  ASSUME Inductive, Die
  PROVE  Inductive'
<1> USE DEF Inductive
<1>1. PICK n \in synced..Len(file) : file' = SubSeq(file, 1, n)
  BY DEF Die
<1>2. up' = FALSE /\ UNCHANGED <<synced, lock, current, pending, begun, returned, failed>>
  BY DEF Die
<1>3. file \in Seq(Pieces) /\ Len(file) \in Nat /\ synced \in Nat
  BY DEF TypeOK
<1>4. /\ file' \in Seq(Pieces) /\ Len(file') = n /\ n \in Nat
      /\ synced <= n /\ n <= Len(file)
      /\ DOMAIN file = 1..Len(file) /\ DOMAIN file' = 1..n
      /\ \A i \in 1..n : file'[i] = file[i]
  BY <1>1, <1>3
<1>5. TypeOK'
  BY <1>2, <1>4 DEF TypeOK
<1>6. Numbered' /\ Remaining' /\ Dense'
  BY <1>2 DEF Numbered, Remaining, Dense
<1>7. InOrder'
  BY <1>2, <1>4 DEF InOrder
<1>8. Bounded'
  <2>1. begun \in Nat
    BY BoundsAssumption DEF TypeOK
  <2>2. lock # Free => Len(pending[lock]) \in Nat
    BY DEF TypeOK
  <2> QED BY <1>2, <1>4, <2>1, <2>2 DEF Bounded
<1>9. Durable'
  <2>1. ASSUME NEW e \in returned, Sound(e)
        PROVE  3 * e <= synced /\ 1..e \subseteq returned /\ Filled(e, 3)'
    <3>1. e \in Nat \ {0} /\ 3 * e <= synced
      BY <2>1, BoundsAssumption DEF Durable, TypeOK, Events
    <3>2. \A k \in 1..3 : 3 * (e - 1) + k \in 1..n
      BY <1>4, <3>1, <1>3
    <3>3. Filled(e, 3)
      BY <2>1 DEF Durable
    <3>4. \A k \in 1..3 : file'[3 * (e - 1) + k] = Line(e)[k]
      BY <1>4, <3>2, <3>3 DEF Filled
    <3>5. Filled(e, 3)'
      BY <1>4, <3>2, <3>4 DEF Filled, Line, Piece
    <3> QED BY <2>1, <3>5 DEF Durable
  <2> QED BY <1>2, <2>1 DEF Durable, Sound
<1> QED BY <1>5, <1>6, <1>7, <1>8, <1>9

LEMMA StartsInductive == Init => Inductive
<1> SUFFICES ASSUME Init PROVE Inductive
  OBVIOUS
<1>1. TypeOK
  BY BoundsAssumption DEF Init, TypeOK
<1>2. /\ file = <<>> /\ lock = Free /\ begun = 0 /\ returned = {} /\ failed = {}
      /\ synced = 0 /\ Len(file) = 0 /\ DOMAIN file = {} /\ 1..0 = {}
  BY DEF Init
<1>3. Numbered /\ Remaining /\ InOrder /\ Bounded
  BY <1>2 DEF Numbered, Remaining, InOrder, Bounded
<1>4. Durable /\ Dense
  BY <1>2 DEF Durable, Dense
<1> QED BY <1>1, <1>3, <1>4 DEF Inductive

LEMMA Always == Spec => []Inductive
<1>1. Inductive /\ UNCHANGED vars => Inductive'
  <2> SUFFICES ASSUME Inductive, UNCHANGED vars PROVE Inductive'
    OBVIOUS
  <2>1. UNCHANGED <<file, synced, lock, current, pending, begun, returned, failed, up>>
    BY DEF vars
  <2>2. TypeOK'
    BY <2>1 DEF Inductive, TypeOK
  <2>3. Numbered' /\ Remaining' /\ InOrder' /\ Bounded'
    BY <2>1 DEF Inductive, Numbered, Remaining, InOrder, Bounded
  <2>4. Durable' /\ Dense'
    BY <2>1 DEF Inductive, Durable, Dense, Filled, Sound
  <2> QED BY <2>2, <2>3, <2>4 DEF Inductive
<1>2. Inductive /\ [Next]_vars => Inductive'
  BY <1>1, AcquireKeeps, WriteKeeps, ReturnKeeps, FailKeeps, DieKeeps DEF Next
<1> QED BY <1>2, StartsInductive, PTL DEF Spec

-----------------------------------------------------------------------------
(* What is read *)

\* Line d can be read, and nothing is behind it that belongs to it.
Parses(d) ==
  /\ 3 * d - 1 <= Len(file)
  /\ file[3 * d - 2] = [event |-> d, part |-> "head"]
  /\ file[3 * d - 1] = [event |-> d, part |-> "tail"]
  /\ 3 * d <= Len(file) => file[3 * d] = [event |-> 0, part |-> "newline"]

LEMMA ParsesWhole ==
  ASSUME Inductive, NEW d \in Nat \ {0}, \A c \in 1..d : Parses(c)
  PROVE  /\ 3 * d - 2 \in DOMAIN file
         /\ WholeAt(3 * d - 2) /\ file[3 * d - 2].event = d
         /\ ~TornAt(3 * d - 2) /\ ~TornAt(3 * d - 1)
         /\ 3 * d <= Len(file) => ~TornAt(3 * d)
<1>1. Len(file) \in Nat /\ DOMAIN file = 1..Len(file)
  BY Typed
<1>2. Parses(d)
  OBVIOUS
<1>3. /\ 3 * d - 1 <= Len(file)
      /\ file[3 * d - 2].part = "head" /\ file[3 * d - 2].event = d
      /\ file[3 * d - 1] = [event |-> d, part |-> "tail"]
      /\ 3 * d <= Len(file) => file[3 * d].part = "newline"
  BY <1>2 DEF Parses
<1>4. StartsLine(3 * d - 2)
  <2>1. CASE d = 1
    BY <2>1 DEF StartsLine
  <2>2. CASE d # 1
    <3>1. d - 1 \in 1..d /\ 3 * (d - 1) = (3 * d - 2) - 1 /\ 3 * (d - 1) <= Len(file)
      BY <1>1, <1>3, <2>2
    <3>2. Parses(d - 1)
      BY <3>1
    <3>3. file[3 * (d - 1)].part = "newline"
      BY <3>1, <3>2 DEF Parses
    <3>4. file[(3 * d - 2) - 1].part = "newline"
      BY <3>1, <3>3
    <3> QED BY <3>4 DEF StartsLine
  <2> QED BY <2>1, <2>2
<1>5. WholeAt(3 * d - 2)
  <2>1. /\ (3 * d - 2) + 1 = 3 * d - 1 /\ ((3 * d - 2) + 1) + 1 = 3 * d
        /\ 3 * d - 2 < Len(file)
    BY <1>1, <1>3
  <2>2. 3 * d - 1 = Len(file) \/ 3 * d <= Len(file)
    BY <1>1, <1>3
  <2>3. EndsLine((3 * d - 2) + 1)
    BY <1>3, <2>1, <2>2 DEF EndsLine
  <2> QED BY <1>3, <1>4, <2>1, <2>3 DEF WholeAt, Piece
<1>6. ~TornAt(3 * d - 1)
  <2>1. 3 * d - 1 # 1 /\ (3 * d - 1) - 1 = 3 * d - 2
    OBVIOUS
  <2>2. file[(3 * d - 1) - 1].part # "newline"
    BY <1>3, <2>1
  <2> QED BY <2>1, <2>2 DEF TornAt, StartsLine
<1>7. 3 * d <= Len(file) => ~TornAt(3 * d)
  BY <1>3 DEF TornAt
<1>8. 3 * d - 2 \in DOMAIN file
  BY <1>1, <1>3
<1> QED BY <1>3, <1>5, <1>6, <1>7, <1>8 DEF TornAt

LEMMA LineStands ==
  ASSUME Inductive, NEW e \in returned, Sound(e), NEW d \in 1..e
  PROVE  Parses(d) /\ 3 * d <= Len(file)
<1>1. /\ e \in Nat \ {0} /\ d \in Nat \ {0} /\ d <= e /\ Len(file) \in Nat
  BY Typed
<1>2. d \in returned
  BY DEF Inductive, Durable
<1>3. Sound(d)
  BY <1>1, BoundsAssumption DEF Sound, Inductive, TypeOK, Events
<1>4. Filled(d, 3)
  BY <1>2, <1>3 DEF Inductive, Durable
<1>5. /\ 3 * (d - 1) + 3 <= Len(file)
      /\ file[3 * (d - 1) + 1] = Line(d)[1]
      /\ file[3 * (d - 1) + 2] = Line(d)[2]
      /\ file[3 * (d - 1) + 3] = Line(d)[3]
  BY <1>4 DEF Filled
<1>6. /\ 3 * (d - 1) + 1 = 3 * d - 2 /\ 3 * (d - 1) + 2 = 3 * d - 1
      /\ 3 * (d - 1) + 3 = 3 * d
  BY <1>1
<1>7. /\ Line(d)[1] = [event |-> d, part |-> "head"]
      /\ Line(d)[2] = [event |-> d, part |-> "tail"]
      /\ Line(d)[3] = [event |-> 0, part |-> "newline"]
  BY <1>1, LineIs
<1>8. 3 * d <= Len(file) /\ 3 * d - 1 <= Len(file)
  BY <1>1, <1>5, <1>6
<1> QED BY <1>5, <1>6, <1>7, <1>8 DEF Parses

\* All lines up to one that can be read are read.
LEMMA ReadIfParses ==
  ASSUME Inductive, NEW d \in Nat \ {0}, \A c \in 1..d : Parses(c)
  PROVE  3 * d - 2 \in LinesRead /\ file[3 * d - 2].event = d
<1>1. /\ 3 * d - 2 \in DOMAIN file /\ WholeAt(3 * d - 2)
      /\ file[3 * d - 2].event = d
  BY ParsesWhole
<1>2. ASSUME NEW j \in 1..(3 * d - 2)
      PROVE  ~TornAt(j)
  <2> DEFINE c == (j + 2) \div 3
  <2>1. c \in 1..d /\ c \in Nat \ {0} /\ j \in {3 * c - 2, 3 * c - 1, 3 * c}
    OBVIOUS
  <2> HIDE DEF c
  <2>2. j = 3 * c => 3 * c <= Len(file)
    BY <1>1, Typed
  <2>3. \A b \in 1..c : Parses(b)
    BY <2>1
  <2> QED BY <2>1, <2>2, <2>3, ParsesWhole
<1> QED BY <1>1, <1>2 DEF LinesRead, Reached

LEMMA LineIsRead ==
  ASSUME Inductive, NEW e \in returned, Sound(e)
  PROVE  3 * e - 2 \in LinesRead /\ file[3 * e - 2].event = e
BY LineStands, ReadIfParses, Typed

-----------------------------------------------------------------------------
(* What readers make of the file *)

\* Where the first n lines begin.
Starts(n) == {3 * d - 2 : d \in 1..n}

LEMMA StartsCount ==
  ASSUME NEW n \in Nat
  PROVE  Cardinality(Starts(n)) = n
<1> DEFINE f == [d \in 1..n |-> 3 * d - 2]
<1>1. f \in Bijection(1..n, Starts(n))
  <2>1. f \in [1..n -> Starts(n)]
    BY DEF Starts
  <2>2. \A c, d \in 1..n : f[c] = f[d] => c = d
    OBVIOUS
  <2>3. \A i \in Starts(n) : \E d \in 1..n : f[d] = i
    BY DEF Starts
  <2> QED BY <2>1, <2>2, <2>3 DEF Bijection, Injection, Surjection, IsInjective
<1> QED BY <1>1, FS_CountingElements DEF ExistsBijection

LEMMA NthStart ==
  ASSUME NEW n \in Nat, NEW k \in 1..n
  PROVE  Nth(Starts(n), k) = 3 * k - 2
<1>1. ASSUME NEW d \in 1..n
      PROVE  Cardinality({j \in Starts(n) : j <= 3 * d - 2}) = d
  <2>1. {j \in Starts(n) : j <= 3 * d - 2} = Starts(d)
    BY DEF Starts
  <2>2. d \in Nat
    OBVIOUS
  <2> QED BY <2>1, <2>2, StartsCount
<1>2. 3 * k - 2 \in Starts(n)
  BY DEF Starts
<1>3. ASSUME NEW i \in Starts(n), Cardinality({j \in Starts(n) : j <= i}) = k
      PROVE  i = 3 * k - 2
  BY <1>1, <1>3 DEF Starts
<1> QED BY <1>1, <1>2, <1>3 DEF Nth

LEMMA EventsAtStarts ==
  ASSUME NEW n \in Nat, \A d \in 1..n : file[3 * d - 2].event = d
  PROVE  EventsAt(Starts(n)) = [k \in 1..n |-> k]
BY StartsCount, NthStart DEF EventsAt

\* Until an append fails, every piece of the file is where it belongs, also when
\* the process is dead.
InPlace ==
  failed = {} =>
    \A d \in 1..begun : \A k \in 1..3 :
      3 * (d - 1) + k <= Len(file) => file[3 * (d - 1) + k] = Line(d)[k]

\* All events before the first whose append failed had returned.
Settled ==
  failed # {} =>
    \E f \in failed : (\A g \in failed : f <= g) /\ 1..(f - 1) \subseteq returned

Numerals == \A i \in DOMAIN file : file[i].part = "head" => file[i].event # 0

Readable == InPlace /\ Settled /\ Numerals

LEMMA InPlaceAlive ==
  ASSUME Inductive, up
  PROVE  InPlace
<1> SUFFICES ASSUME failed = {}, NEW d \in 1..begun, NEW k \in 1..3,
                    3 * (d - 1) + k <= Len(file)
             PROVE  file[3 * (d - 1) + k] = Line(d)[k]
  BY DEF InPlace
<1>1. /\ begun \in Nat /\ d \in Nat \ {0} /\ d <= begun /\ Len(file) \in Nat
      /\ \A t \in Thread : Len(pending[t]) \in Nat
  BY Typed
<1>2. CASE d \in returned
  BY <1>2 DEF Inductive, Durable, Sound, Filled
<1>3. CASE d \notin returned
  <2>1. lock # Free /\ d = begun
    BY <1>1, <1>3 DEF Inductive, Dense
  <2>2. lock \in Thread
    BY <2>1 DEF Inductive, TypeOK
  <2> DEFINE m == Len(pending[lock])
  <2>3. /\ m \in Nat /\ Len(file) = 3 * begun - m /\ m <= 3
        /\ Filled(begun, 3 - m)
    BY <1>1, <2>1, <2>2 DEF Inductive, Dense, Remaining
  <2> HIDE DEF m
  <2>4. k \in 1..(3 - m)
    BY ONLY <1>1, <2>1, <2>3, 3 * (d - 1) + k <= Len(file), k \in 1..3
  <2> QED BY <2>1, <2>3, <2>4 DEF Filled
<1> QED BY <1>2, <1>3

LEMMA InPlaceKept ==
  ASSUME Inductive, Inductive', InPlace, [Next]_vars
  PROVE  InPlace'
<1>1. CASE Die
  <2>1. PICK n \in synced..Len(file) : file' = SubSeq(file, 1, n)
    BY <1>1 DEF Die
  <2>2. /\ begun' = begun /\ failed' = failed
        /\ file \in Seq(Pieces) /\ Len(file) \in Nat /\ synced \in Nat /\ begun \in Nat
    BY <1>1, Typed DEF Die
  <2>3. /\ Len(file') = n /\ n \in Nat /\ n <= Len(file)
        /\ \A i \in 1..n : file'[i] = file[i]
    BY <2>1, <2>2
  <2> SUFFICES ASSUME failed = {}, NEW d \in 1..begun, NEW k \in 1..3,
                      3 * (d - 1) + k <= n
               PROVE  file'[3 * (d - 1) + k] = Line(d)[k]
    BY <2>2, <2>3 DEF InPlace, Line, Piece
  <2>4. 3 * (d - 1) + k \in 1..n /\ 3 * (d - 1) + k <= Len(file)
    BY <2>2, <2>3
  <2> QED BY <2>3, <2>4 DEF InPlace
<1>2. CASE \E t \in Thread : Acquire(t) \/ Write(t) \/ Return(t) \/ Fail(t)
  <2>1. up' = up /\ up
    BY <1>2 DEF Acquire, Write, Return, Fail
  <2>2. (Inductive /\ up => InPlace)'
    BY InPlaceAlive, PTL
  <2> QED BY <2>1, <2>2
<1>3. CASE UNCHANGED vars
  BY <1>3 DEF vars, InPlace, Line, Piece
<1> QED BY <1>1, <1>2, <1>3 DEF Next

LEMMA SettledKept ==
  ASSUME Inductive, Settled, [Next]_vars
  PROVE  Settled'
<1>1. CASE \E t \in Thread : Fail(t)
  <2>1. PICK t \in Thread : Fail(t)
    BY <1>1
  <2>2. /\ lock # Free /\ begun \in Nat \ {0} /\ up
        /\ failed' = failed \cup {begun} /\ returned' = returned
    BY <2>1, Holder DEF Fail
  <2>3. CASE failed = {}
    <3>1. returned = 1..(begun - 1)
      BY <2>2, <2>3 DEF Inductive, Dense
    <3> QED BY <2>2, <2>3, <3>1 DEF Settled
  <2>4. CASE failed # {}
    <3>1. failed \subseteq 1..begun
      BY DEF Inductive, Numbered
    <3> QED BY <2>2, <2>4, <3>1 DEF Settled
  <2> QED BY <2>3, <2>4
<1>2. CASE ~\E t \in Thread : Fail(t)
  <2>1. failed' = failed /\ returned \subseteq returned'
    BY <1>2 DEF Next, vars, Acquire, Write, Return, Die
  <2> QED BY <2>1 DEF Settled
<1> QED BY <1>1, <1>2

LEMMA NumeralsKept ==
  ASSUME Inductive, Inductive', Numerals, [Next]_vars
  PROVE  Numerals'
<1>1. CASE \E t \in Thread : Write(t)
  <2>1. PICK t \in Thread : Write(t)
    BY <1>1
  <2> DEFINE rest == pending[t]
             m == Len(pending[t])
  <2>2. /\ lock = t /\ lock # Free /\ begun \in Nat \ {0}
        /\ rest \in Seq(Pieces) /\ rest # <<>> /\ file' = Append(file, Head(rest))
    BY <2>1, Holder DEF Write, Inductive, TypeOK
  <2>3. Head(rest) = rest[1] /\ Head(rest) \in Pieces /\ m \in Nat \ {0}
    BY <2>2
  <2>4. m <= 3 /\ rest[1] = Line(begun)[3 - m + 1]
    BY <2>2, <2>3 DEF Inductive, Remaining
  <2>5. 3 - m + 1 \in {1, 2, 3}
    BY ONLY <2>3, <2>4
  <2>6. Head(rest).part = "head" => Head(rest).event # 0
    <3>1. Head(rest) = Line(begun)[3 - m + 1]
      BY <2>3, <2>4
    <3>2. \A k \in {1, 2, 3} :
            Line(begun)[k].part = "head" => Line(begun)[k].event # 0
      <4>1. begun \in Nat
        BY <2>2
      <4>2. /\ Line(begun)[1] = [event |-> begun, part |-> "head"]
            /\ Line(begun)[2] = [event |-> begun, part |-> "tail"]
            /\ Line(begun)[3] = [event |-> 0, part |-> "newline"]
        BY <4>1, LineIs
      <4>3. begun # 0
        BY <2>2
      <4> QED BY ONLY <4>2, <4>3
    <3> HIDE DEF rest, m
    <3> QED BY <2>5, <3>1, <3>2
  <2>7. /\ DOMAIN file' = 1..(Len(file) + 1) /\ DOMAIN file = 1..Len(file)
        /\ Len(file) \in Nat
        /\ \A i \in 1..Len(file) : file'[i] = file[i]
        /\ file'[Len(file) + 1] = Head(rest)
    BY <2>2, <2>3, AppendFile DEF Inductive, TypeOK
  <2> HIDE DEF rest, m
  <2>8. \A i \in 1..(Len(file) + 1) : i \in 1..Len(file) \/ i = Len(file) + 1
    BY <2>7
  <2> QED BY <2>6, <2>7, <2>8 DEF Numerals
<1>2. CASE Die
  <2>1. PICK n \in synced..Len(file) : file' = SubSeq(file, 1, n)
    BY <1>2 DEF Die
  <2>2. /\ DOMAIN file' = 1..n /\ n <= Len(file) /\ n \in Nat /\ DOMAIN file = 1..Len(file)
        /\ \A i \in 1..n : file'[i] = file[i]
    BY <2>1, Typed
  <2> QED BY <2>2 DEF Numerals
<1>3. CASE UNCHANGED file
  BY <1>3 DEF Numerals
<1> QED BY <1>1, <1>2, <1>3 DEF Next, vars, Acquire, Return, Fail

LEMMA AlwaysReadable == Spec => []Readable
<1>1. Init => Readable
  BY DEF Init, Readable, InPlace, Settled, Numerals
<1>2. Inductive /\ Inductive' /\ Readable /\ [Next]_vars => Readable'
  BY InPlaceKept, SettledKept, NumeralsKept DEF Readable
<1> QED BY <1>1, <1>2, Always, PTL DEF Spec

\* Readers get the events 1..n that are promised for good.
Seen(n) ==
  /\ EventsAt(SoundLines) = [k \in 1..n |-> k]
  /\ failed = {} => 3 * n - 1 <= Len(file) /\ Len(file) < 3 * n + 2
  /\ failed # {} => n + 1 \in failed /\ \A g \in failed : n < g

LEMMA PlaceParses ==
  ASSUME Inductive, InPlace, failed = {}, NEW d \in Nat \ {0}, 3 * d - 1 <= Len(file)
  PROVE  Parses(d)
<1>1. Len(file) \in Nat /\ begun \in Nat /\ Len(file) <= 3 * begun
  BY Typed
<1>2. /\ d \in 1..begun
      /\ 3 * (d - 1) + 1 = 3 * d - 2 /\ 3 * (d - 1) + 2 = 3 * d - 1
      /\ 3 * (d - 1) + 3 = 3 * d /\ 3 * d - 2 <= Len(file)
  BY <1>1
<1>3. \A k \in 1..3 : 3 * (d - 1) + k <= Len(file) => file[3 * (d - 1) + k] = Line(d)[k]
  BY <1>2 DEF InPlace
<1>4. /\ file[3 * d - 2] = Line(d)[1] /\ file[3 * d - 1] = Line(d)[2]
      /\ 3 * d <= Len(file) => file[3 * d] = Line(d)[3]
  BY <1>2, <1>3
<1> QED BY <1>4, LineIs DEF Parses

\* In a file without failed appends the lines that are read are those whose tail
\* is there.
LEMMA SeenWhole ==
  ASSUME Inductive, Readable, failed = {}
  PROVE  \E n \in Nat : Seen(n)
<1>1. Len(file) \in Nat /\ begun \in Nat /\ Len(file) <= 3 * begun /\ DOMAIN file = 1..Len(file)
  BY Typed
<1> DEFINE n == (Len(file) + 1) \div 3
<1>2. n \in Nat /\ 3 * n - 1 <= Len(file) /\ Len(file) < 3 * n + 2
  BY <1>1
<1> HIDE DEF n
<1>3. \A d \in 1..n : d \in Nat \ {0} /\ 3 * d - 1 <= Len(file)
  BY <1>1, <1>2
<1>4. \A d \in 1..n : Parses(d)
  BY <1>3, PlaceParses DEF Readable
<1>5. ASSUME NEW d \in 1..n
      PROVE  3 * d - 2 \in LinesRead /\ file[3 * d - 2].event = d
  <2>1. \A c \in 1..d : Parses(c)
    BY <1>2, <1>4
  <2> QED BY <1>3, <2>1, ReadIfParses
<1>6. Starts(n) \subseteq SoundLines
  BY <1>5 DEF Starts, SoundLines, Sound
<1>7. ASSUME NEW i \in LinesRead
      PROVE  i \in Starts(n)
  <2>1. i \in 1..Len(file) /\ i < Len(file) /\ file[i].part = "head"
    BY <1>1 DEF LinesRead, Reached, WholeAt
  <2> DEFINE d == (i + 2) \div 3
             k == i - 3 * (d - 1)
  <2>2. d \in 1..begun /\ k \in 1..3 /\ i = 3 * (d - 1) + k /\ d \in Nat
    BY <1>1, <2>1
  <2> HIDE DEF d, k
  <2>3. file[i] = Line(d)[k]
    <3>1. 3 * (d - 1) + k <= Len(file)
      BY <2>1, <2>2
    <3>2. file[3 * (d - 1) + k] = Line(d)[k]
      BY <2>2, <3>1 DEF Readable, InPlace
    <3> QED BY <2>2, <3>2
  <2>4. k = 1
    <3>1. /\ Line(d)[2] = [event |-> d, part |-> "tail"]
          /\ Line(d)[3] = [event |-> 0, part |-> "newline"]
      BY <2>2, LineIs
    <3>2. k # 2 /\ k # 3
      BY <2>1, <2>3, <3>1
    <3> QED BY <2>2, <3>2
  <2>5. d \in 1..n /\ i = 3 * d - 2
    BY ONLY <1>1, <1>2, <2>1, <2>2, <2>4
  <2> QED BY <2>5 DEF Starts
<1>8. SoundLines = Starts(n)
  BY <1>6, <1>7 DEF SoundLines
<1>9. EventsAt(SoundLines) = [k \in 1..n |-> k]
  BY <1>2, <1>5, <1>8, EventsAtStarts
<1> QED BY <1>2, <1>9 DEF Seen

\* Afterwards they are those of the events before the first failed one, wherever
\* the file ends.
LEMMA SeenAfterFailure ==
  ASSUME Inductive, Readable, failed # {}
  PROVE  \E n \in Nat : Seen(n)
<1>1. PICK f \in failed : (\A g \in failed : f <= g) /\ 1..(f - 1) \subseteq returned
  BY DEF Readable, Settled
<1> DEFINE n == f - 1
<1>2. f \in Nat \ {0} /\ n \in Nat /\ n + 1 = f /\ failed \subseteq Nat
  BY Typed DEF Inductive, Numbered
<1>3. \A e \in Nat : Sound(e) <=> e <= n
  BY <1>1, <1>2 DEF Sound
<1> HIDE DEF n
<1>4. ASSUME NEW d \in 1..n
      PROVE  3 * d - 2 \in LinesRead /\ file[3 * d - 2].event = d /\ Sound(d)
  <2>1. d \in returned /\ Sound(d)
    BY <1>1, <1>2, <1>3 DEF n
  <2> QED BY <2>1, LineIsRead
<1>5. Starts(n) \subseteq SoundLines
  BY <1>4 DEF Starts, SoundLines
<1>6. ASSUME NEW i \in LinesRead, Sound(file[i].event)
      PROVE  i \in Starts(n)
  <2> DEFINE d == file[i].event
  <2>1. i \in DOMAIN file /\ i \in Nat /\ file[i].part = "head" /\ d \in Nat
    BY Typed DEF LinesRead, Reached, WholeAt
  <2>2. d # 0 /\ d <= n
    BY <1>3, <1>6, <2>1 DEF Readable, Numerals
  <2>3. d \in 1..n
    BY <1>2, <2>1, <2>2
  <2>4. /\ 3 * d - 2 \in DOMAIN file /\ file[3 * d - 2].part = "head"
        /\ file[3 * d - 2].event = d /\ 3 * d - 2 \in Nat
    <3>1. 3 * d - 2 \in LinesRead /\ file[3 * d - 2].event = d
      BY <1>4, <2>3
    <3> QED BY <2>3, <3>1 DEF LinesRead, Reached, WholeAt
  <2>5. i = 3 * d - 2
    <3>1. \A a, b \in DOMAIN file :
            a < b /\ file[a].part = "head" /\ file[b].part = "head"
              => file[a].event < file[b].event
      BY DEF Inductive, InOrder
    <3>2. ~(i < 3 * d - 2) /\ ~(3 * d - 2 < i)
      BY <2>1, <2>4, <3>1
    <3> QED BY <2>1, <2>4, <3>2
  <2> QED BY <2>3, <2>5 DEF Starts
<1>7. SoundLines = Starts(n)
  BY <1>5, <1>6 DEF SoundLines
<1>8. EventsAt(SoundLines) = [k \in 1..n |-> k]
  BY <1>2, <1>4, <1>7, EventsAtStarts
<1> QED BY <1>1, <1>2, <1>8 DEF Seen

-----------------------------------------------------------------------------
(* The file implements an append-only log *)

LEMMA Counting ==
  ASSUME NEW n \in Nat
  PROVE  /\ Log!ToSet([k \in 1..n |-> k]) = 1..n
         /\ Append([k \in 1..n |-> k], n + 1) = [k \in 1..(n + 1) |-> k]
         /\ \A m \in 0..n : Log!IsPrefix([k \in 1..m |-> k], [k \in 1..n |-> k])
<1>1. Log!ToSet([k \in 1..n |-> k]) = 1..n
  BY DEF Log!ToSet
<1>2. \A m \in Nat : [k \in 1..m |-> k] \in Seq(Nat) /\ Len([k \in 1..m |-> k]) = m
  OBVIOUS
<1>3. Append([k \in 1..n |-> k], n + 1) = [k \in 1..(n + 1) |-> k]
  BY <1>2
<1>4. ASSUME NEW m \in 0..n
      PROVE  Log!IsPrefix([k \in 1..m |-> k], [k \in 1..n |-> k])
  <2>1. m \in Nat /\ m <= n
    OBVIOUS
  <2>2. SubSeq([k \in 1..m |-> k], 1, m) = [k \in 1..m |-> k]
    BY <1>2, <2>1
  <2>3. SubSeq([k \in 1..n |-> k], 1, m) = [k \in 1..m |-> k]
    BY <1>2, <2>1
  <2> QED BY <1>2, <2>1, <2>2, <2>3 DEF Log!IsPrefix
<1> QED BY <1>1, <1>3, <1>4

Entries == EventsAt(SoundLines)
Acked == {e \in returned : Sound(e)}

\* What is acknowledged is shown.
LEMMA AckedSeen ==
  ASSUME Inductive, NEW n \in Nat, Seen(n)
  PROVE  Acked \subseteq 1..n
<1> SUFFICES ASSUME NEW e \in Acked PROVE e \in 1..n
  OBVIOUS
<1>1. e \in Nat \ {0} /\ e \in returned /\ Sound(e) /\ Len(file) \in Nat /\ synced \in Nat
      /\ synced <= Len(file)
  BY Typed DEF Acked
<1>2. CASE failed = {}
  <2>1. 3 * e <= synced
    BY <1>1 DEF Inductive, Durable
  <2> QED BY <1>1, <1>2, <2>1 DEF Seen
<1>3. CASE failed # {}
  <2>1. e < n + 1
    BY <1>1, <1>3 DEF Seen, Sound
  <2> QED BY <1>1, <2>1
<1> QED BY <1>2, <1>3

Shows == Inductive /\ Readable /\ \E n \in Nat : Seen(n) /\ Acked \subseteq 1..n

LEMMA AlwaysShows == Spec => []Shows
<1>1. Inductive /\ Readable => Shows
  BY SeenWhole, SeenAfterFailure, AckedSeen DEF Shows
<1> QED BY <1>1, Always, AlwaysReadable, PTL

\* Once an append has failed, what the log promises is settled.
LEMMA SettledStutters ==
  ASSUME Shows, Shows', [Next]_vars, failed # {}
  PROVE  UNCHANGED Log!vars
<1>1. PICK n \in Nat : Seen(n) /\ Acked \subseteq 1..n
  BY DEF Shows
<1>2. PICK m \in Nat : Seen(m)' /\ Acked' \subseteq 1..m
  BY DEF Shows
<1>3. /\ Inductive /\ begun \in Nat /\ failed \subseteq 1..begun
      /\ \A e \in returned : e \in Nat
  BY Typed DEF Shows, Inductive, Numbered
<1>4. /\ returned \subseteq returned' /\ returned' \subseteq returned \cup {begun}
      /\ failed \subseteq failed' /\ failed' \subseteq failed \cup {begun}
  BY <1>3, Holder DEF Next, vars, Acquire, Write, Return, Fail, Die
<1>5. n + 1 \in failed /\ n + 1 <= begun /\ \A g \in failed : n < g
  BY <1>1, <1>3 DEF Seen
<1>6. failed' # {} /\ m + 1 \in failed' /\ \A g \in failed' : m < g
  BY <1>2, <1>4, <1>5 DEF Seen
<1>7. m = n
  <2>1. m + 1 \in failed \/ m + 1 = begun
    BY <1>4, <1>6
  <2>2. m < n + 1 /\ n < m + 1
    BY <1>4, <1>5, <1>6, <2>1
  <2> QED BY <2>2
<1>8. \A e \in returned \cup {begun} : (Sound(e) <=> e <= n) /\ (Sound(e)' <=> e <= n)
  <2>1. \A e \in Nat : Sound(e) <=> e <= n
    BY <1>3, <1>5 DEF Sound
  <2>2. failed' \subseteq Nat
    BY <1>3, <1>4
  <2>3. \A e \in Nat : (\A g \in failed' : e < g) <=> e <= n
    BY <1>6, <1>7, <2>2
  <2> QED BY <1>3, <2>1, <2>3 DEF Sound
<1>9. ~Sound(begun) /\ \A e \in returned : Sound(e) <=> Sound(e)'
  BY <1>3, <1>5, <1>8
<1>10. Acked' = Acked
  <2>1. \A e \in returned' : Sound(e)' => e \in returned /\ Sound(e)
    BY <1>3, <1>4, <1>5, <1>8
  <2>2. \A e \in returned : Sound(e) => e \in returned' /\ Sound(e)'
    BY <1>4, <1>9
  <2> QED BY <2>1, <2>2 DEF Acked
<1>11. Entries' = Entries
  BY <1>1, <1>2, <1>7 DEF Seen, Entries
<1>12. (up /\ failed = {})' = (up /\ failed = {})
  BY <1>6
<1> QED BY <1>10, <1>11, <1>12 DEF Log!vars, Entries, Acked

\* Before, a step of the file is one of the log.
LEMMA WriteShows ==
  ASSUME Shows, Shows', failed = {}, NEW t \in Thread, Write(t)
  PROVE  [Log!Next]_Log!vars
<1>1. PICK n \in Nat : Seen(n) /\ Acked \subseteq 1..n
  BY DEF Shows
<1>2. PICK m \in Nat : Seen(m)' /\ Acked' \subseteq 1..m
  BY DEF Shows
<1>3. /\ up /\ UNCHANGED <<begun, returned, failed, up>>
      /\ Len(file) \in Nat /\ Len(file') = Len(file) + 1
      /\ begun \in Nat /\ begun <= MaxEvents /\ Len(file') <= 3 * begun
  <2>1. file \in Seq(Pieces) /\ pending[t] \in Seq(Pieces)
    BY DEF Shows, Inductive, TypeOK
  <2>2. file' = Append(file, Head(pending[t])) /\ Head(pending[t]) \in Pieces
    BY <2>1 DEF Write
  <2>3. Len(file') <= 3 * begun'
    BY DEF Shows, Inductive, Bounded
  <2> QED BY <2>1, <2>2, <2>3, Typed DEF Write, Shows
<1>4. /\ 3 * n - 1 <= Len(file) /\ Len(file) < 3 * n + 2
      /\ 3 * m - 1 <= Len(file') /\ Len(file') < 3 * m + 2
  BY <1>1, <1>2, <1>3 DEF Seen
<1>5. Entries = [k \in 1..n |-> k] /\ Entries' = [k \in 1..m |-> k]
  BY <1>1, <1>2 DEF Seen, Entries
<1>6. Acked' = Acked
  BY <1>3 DEF Acked, Sound
<1>7. CASE m = n
  BY <1>3, <1>5, <1>6, <1>7 DEF Log!vars, Entries, Acked
<1>8. CASE m # n
  <2>1. m = n + 1 /\ n + 1 \in Events /\ n + 1 \notin 1..n
    BY ONLY <1>3, <1>4, <1>8, n \in Nat, m \in Nat, BoundsAssumption DEF Events
  <2>2. Entries' = Append(Entries, n + 1) /\ Log!ToSet(Entries) = 1..n
    BY <1>5, <2>1, Counting
  <2>3. Log!Add(n + 1)
    BY <1>3, <1>6, <2>1, <2>2 DEF Log!Add, Entries, Acked
  <2> QED BY <2>1, <2>3 DEF Log!Next
<1> QED BY <1>7, <1>8

LEMMA ReturnShows ==
  ASSUME Shows, Shows', failed = {}, NEW t \in Thread, Return(t)
  PROVE  Log!Next
<1>1. PICK n \in Nat : Seen(n) /\ Acked \subseteq 1..n
  BY DEF Shows
<1>2. PICK m \in Nat : Seen(m)' /\ Acked' \subseteq 1..m
  BY DEF Shows
<1>3. /\ up /\ up' = up /\ file' = file /\ failed' = failed
      /\ begun \in Events /\ returned' = returned \cup {begun}
  BY Holder DEF Return, Shows
<1>4. m = n
  <2>1. /\ 3 * n - 1 <= Len(file) /\ Len(file) < 3 * n + 2
        /\ 3 * m - 1 <= Len(file) /\ Len(file) < 3 * m + 2
        /\ Len(file) \in Nat
    BY <1>1, <1>2, <1>3, Typed DEF Seen, Shows
  <2> QED BY <2>1
<1>5. Entries = [k \in 1..n |-> k] /\ Entries' = Entries
  BY <1>1, <1>2, <1>4 DEF Seen, Entries
<1>6. Acked' = Acked \cup {begun} /\ begun \in Acked'
  BY <1>3 DEF Acked, Sound
<1>7. begun \in 1..n
  BY <1>2, <1>4, <1>6
<1>8. Log!ToSet(Entries) = 1..n
  BY <1>5, Counting
<1>9. Log!Acknowledge(begun)
  BY <1>3, <1>5, <1>6, <1>7, <1>8 DEF Log!Acknowledge, Entries, Acked
<1> QED BY <1>3, <1>9 DEF Log!Next

\* An append that fails, and the death of the process, take only events off the
\* end that were not acknowledged.
LEMMA CrashShows ==
  ASSUME Shows, Shows', failed = {}, Die \/ \E t \in Thread : Fail(t)
  PROVE  Log!Next
<1>1. PICK n \in Nat : Seen(n) /\ Acked \subseteq 1..n
  BY DEF Shows
<1>2. PICK m \in Nat : Seen(m)' /\ Acked' \subseteq 1..m
  BY DEF Shows
<1>3. up /\ ~(up /\ failed = {})' /\ returned' = returned
  BY DEF Die, Fail
<1>4. Len(file) \in Nat /\ begun \in Nat
  BY Typed DEF Shows
<1>5. 3 * n - 1 <= Len(file) /\ Len(file) < 3 * n + 2
  BY <1>1 DEF Seen
<1>6. m <= n /\ Acked' = Acked
  <2>1. CASE Die
    <3>1. failed' = {}
      BY <2>1 DEF Die
    <3>2. Len(file') \in Nat /\ Len(file') <= Len(file)
      <4>1. PICK k \in synced..Len(file) : file' = SubSeq(file, 1, k)
        BY <2>1 DEF Die
      <4> QED BY <4>1, Typed DEF Shows
    <3>3. 3 * m - 1 <= Len(file')
      BY <1>2, <3>1 DEF Seen
    <3>4. m <= n
      BY <1>4, <1>5, <3>2, <3>3
    <3> QED BY <1>3, <3>1, <3>4 DEF Acked, Sound
  <2>2. CASE \E t \in Thread : Fail(t)
    <3>1. PICK t \in Thread : Fail(t)
      BY <2>2
    <3>2. /\ failed' = {begun} /\ lock = t /\ lock # Free /\ begun \in Nat \ {0}
      BY <3>1, Holder DEF Fail, Shows
    <3>3. m + 1 = begun
      BY <1>2, <3>2 DEF Seen
    <3>4. /\ Len(file) = 3 * begun - Len(pending[t]) /\ Len(pending[t]) <= 3
          /\ Len(pending[t]) \in Nat /\ returned = 1..(begun - 1)
      BY <1>3, <3>2, Typed DEF Shows, Inductive, Dense, Remaining
    <3>5. m <= n
      <4>1. 3 * begun - 3 <= Len(file)
        BY ONLY <1>4, <3>4
      <4> QED BY ONLY <1>4, <1>5, <3>3, <4>1, n \in Nat, m \in Nat
    <3>6. Acked = returned /\ Acked' = returned
      <4>1. \A e \in returned : e < begun
        BY <3>2, <3>4
      <4> QED BY <1>3, <3>2, <4>1 DEF Acked, Sound
    <3> QED BY <3>5, <3>6
  <2> QED BY <2>1, <2>2
<1>7. Entries = [k \in 1..n |-> k] /\ Entries' = [k \in 1..m |-> k]
  BY <1>1, <1>2 DEF Seen, Entries
<1>8. Log!IsPrefix(Entries', Entries) /\ Acked \subseteq Log!ToSet(Entries')
  <2>1. m \in 0..n
    BY <1>6
  <2>2. Log!ToSet(Entries') = 1..m /\ Log!IsPrefix(Entries', Entries)
    BY <1>7, <2>1, Counting
  <2> QED BY <1>2, <1>6, <2>2
<1>9. Log!Crash
  BY <1>3, <1>6, <1>8 DEF Log!Crash, Entries, Acked
<1> QED BY <1>9 DEF Log!Next

-----------------------------------------------------------------------------

\* Only the holder of the lock has a line under way, an event has one fate, and
\* no more is synced than was begun, whatever fails (EpisodicLog.append).
THEOREM TypeCorrect == Spec => []TypeOK
BY Always, PTL DEF Inductive

\* Readers get events in the order of their appends, and one whose append
\* returned before any append failed is read for ever, whatever other threads,
\* failures and a power failure do afterwards.
THEOREM ReturnedIsRead == Spec => []ReadsWhatReturned
<1>1. Inductive => ReadsWhatReturned
  <2> SUFFICES ASSUME Inductive PROVE ReadsWhatReturned
    OBVIOUS
  <2>1. \A i, j \in LinesRead : i < j => file[i].event < file[j].event
    BY DEF Inductive, InOrder, LinesRead, Reached, WholeAt
  <2>2. ASSUME NEW e \in returned, ~\E f \in failed : f < e
        PROVE  \E i \in LinesRead : file[i].event = e
    <3>1. Sound(e)
      BY <2>2, BoundsAssumption DEF Inductive, TypeOK, Events, Sound
    <3> QED BY <3>1, LineIsRead
  <2> QED BY <2>1, <2>2 DEF ReadsWhatReturned
<1> QED BY <1>1, Always, PTL

\* Whatever fails and whenever the process dies, and while lines are being
\* written, the file is an append-only log to whoever reads it: events appear at
\* the end and in order, an acknowledged one is never lost, and the first failed
\* append is the last crash (EpisodicLog.append and read_all).
THEOREM LogIsAppendOnly == Spec => LogRefinement
<1>1. Init => Log!Init
  <2> SUFFICES ASSUME Init PROVE Log!Init
    OBVIOUS
  <2>1. file = <<>> /\ returned = {} /\ failed = {} /\ up = TRUE
    BY DEF Init
  <2>2. SoundLines = Starts(0)
    BY <2>1 DEF SoundLines, LinesRead, Reached, Starts
  <2>3. EventsAt(SoundLines) = <<>>
    BY <2>2, EventsAtStarts
  <2> QED BY <2>1, <2>3 DEF Log!Init
<1>2. Shows /\ Shows' /\ [Next]_vars => [Log!Next]_Log!vars
  <2> SUFFICES ASSUME Shows, Shows', [Next]_vars PROVE [Log!Next]_Log!vars
    OBVIOUS
  <2>1. CASE failed # {}
    BY <2>1, SettledStutters
  <2>2. ASSUME failed = {}, \/ \E t \in Thread : Acquire(t)
                           \/ UNCHANGED vars
        PROVE  UNCHANGED Log!vars
    <3>1. UNCHANGED <<file, returned, failed, up>>
      BY <2>2 DEF Acquire, vars
    <3>2. SoundLines' = SoundLines
      BY <3>1 DEF SoundLines, Sound, LinesRead, Reached, TornAt, WholeAt,
                  StartsLine, EndsLine, Piece
    <3>3. EventsAt(SoundLines)' = EventsAt(SoundLines)
      BY <3>1, <3>2 DEF EventsAt, Nth
    <3> QED BY <3>1, <3>3 DEF Log!vars, Sound
  <2> QED BY <2>1, <2>2, WriteShows, ReturnShows, CrashShows DEF Next
<1>3. Log!Init /\ [][Log!Next]_Log!vars => LogRefinement
  BY DEF LogRefinement, Log!Spec
<1> QED BY <1>1, <1>2, <1>3, AlwaysShows, PTL DEF Spec

\* "Return every event in the log, in append order" (memory.py:130) is true as
\* long as no append has failed, also after a crash: ReadsEveryEvent is broken by
\* failed appends only.
THEOREM AllReadUnlessFailed == Spec => [](failed = {} => ReadsEveryEvent)
<1>1. Shows => (failed = {} => ReadsEveryEvent)
  <2> SUFFICES ASSUME Shows, failed = {} PROVE ReadsEveryEvent
    OBVIOUS
  <2>1. PICK n \in Nat : Seen(n) /\ Acked \subseteq 1..n
    BY DEF Shows
  <2>2. SoundLines = LinesRead /\ Acked = returned
    BY DEF SoundLines, Sound, Acked
  <2>3. ReadAll = [k \in 1..n |-> k]
    BY <2>1, <2>2 DEF Seen, ReadAll
  <2>4. ToSet(ReadAll) = 1..n
    BY <2>3 DEF ToSet
  <2> QED BY <2>1, <2>2, <2>4 DEF ReadsEveryEvent
<1> QED BY <1>1, AlwaysShows, PTL
=============================================================================
