--------------------------- MODULE AppendOnlyLog ---------------------------
(***************************************************************************)
(* What an audit log promises its readers: events are added at the end and *)
(* never change or move; an event whose append was acknowledged is read    *)
(* for ever; a crash may only take unacknowledged events off the end.      *)
(***************************************************************************)
EXTENDS Naturals, SequencesExt

CONSTANT Event

VARIABLES
  entries,  \* the events a reader gets
  acked,    \* those whose append returned
  up        \* the writing process lives

vars == <<entries, acked, up>>

Init == entries = <<>> /\ acked = {} /\ up = TRUE

Add(e) ==
  /\ up
  /\ e \notin ToSet(entries)
  /\ entries' = Append(entries, e)
  /\ UNCHANGED <<acked, up>>

Acknowledge(e) ==
  /\ up
  /\ e \in ToSet(entries)
  /\ acked' = acked \cup {e}
  /\ UNCHANGED <<entries, up>>

Crash ==
  /\ up
  /\ up' = FALSE
  /\ IsPrefix(entries', entries)
  /\ acked \subseteq ToSet(entries')
  /\ UNCHANGED acked

Next == Crash \/ \E e \in Event : Add(e) \/ Acknowledge(e)

Spec == Init /\ [][Next]_vars

=============================================================================
