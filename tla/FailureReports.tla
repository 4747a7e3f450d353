--------------------------- MODULE FailureReports ---------------------------
(***************************************************************************)
(* escalation.write_report: runs that escalate put a Markdown file and     *)
(* then a JSON file into one shared directory, under a name made of the    *)
(* goal class and the second the report was built in.  Runs are processes  *)
(* of their own; either write may raise OSError, and a run may be killed   *)
(* anywhere.                                                               *)
(***************************************************************************)
EXTENDS Naturals, FiniteSets

CONSTANTS
  Agent,        \* runs that come to escalate
  GoalClass,    \* values of --goal-class
  NoClass,      \* no goal class was given
  Unclassified, \* the slug for it; a goal class may be called that, too
  Nobody,       \* a file that does not exist
  MaxSeconds    \* bound of the clock

ASSUME NamesAssumption == NoClass \notin GoalClass /\ Nobody \notin Agent
ASSUME ClockAssumption == MaxSeconds \in Nat

Slug == GoalClass \cup {Unclassified}
Name == [slug : Slug, stamp : 0..MaxSeconds]

VARIABLES
  now,    \* the clock, in seconds
  phase,  \* where each run is
  class,  \* its goal class
  ended,  \* report.ended_at: when its report was built
  md, js  \* whose report each file holds

vars == <<now, phase, class, ended, md, js>>

\* Mutant: reports are not namespaced by goal class.
NameOf_NoClass(a) == [slug |-> Unclassified, stamp |-> ended[a]]

\* slug-stamp, the stamp cut to seconds.
NameOf(a) ==
  [slug |-> IF class[a] = NoClass THEN Unclassified ELSE class[a],
   stamp |-> ended[a]]

\* build_report.
BuildReport(a) ==
  /\ phase[a] = "running"
  /\ phase' = [phase EXCEPT ![a] = "built"]
  /\ ended' = [ended EXCEPT ![a] = now]
  /\ UNCHANGED <<now, class, md, js>>

\* Mutant: the JSON file is named by the time it is written at.
WriteJson_Restamped(a) ==
  /\ phase[a] = "half"
  /\ phase' = [phase EXCEPT ![a] = "written"]
  /\ js' = [js EXCEPT ![[NameOf(a) EXCEPT !.stamp = now]] = a]
  /\ UNCHANGED <<now, class, ended, md>>

WriteMarkdown(a) ==
  /\ phase[a] = "built"
  /\ phase' = [phase EXCEPT ![a] = "half"]
  /\ md' = [md EXCEPT ![NameOf(a)] = a]
  /\ UNCHANGED <<now, class, ended, js>>

\* The run returns both paths.
WriteJson(a) ==
  /\ phase[a] = "half"
  /\ phase' = [phase EXCEPT ![a] = "written"]
  /\ js' = [js EXCEPT ![NameOf(a)] = a]
  /\ UNCHANGED <<now, class, ended, md>>

\* OSError, which _escalate turns into "no report", or death of the process.
GiveUp(a) ==
  /\ phase[a] \in {"built", "half"}
  /\ phase' = [phase EXCEPT ![a] = "unreported"]
  /\ UNCHANGED <<now, class, ended, md, js>>

Tick ==
  /\ now < MaxSeconds
  /\ now' = now + 1
  /\ UNCHANGED <<phase, class, ended, md, js>>

Init ==
  /\ now = 0
  /\ phase = [a \in Agent |-> "running"]
  /\ class \in [Agent -> GoalClass \cup {NoClass}]
  /\ ended = [a \in Agent |-> 0]
  /\ md = [n \in Name |-> Nobody] /\ js = [n \in Name |-> Nobody]

Next ==
  \/ Tick
  \/ \E a \in Agent :
       BuildReport(a) \/ WriteMarkdown(a) \/ WriteJson(a) \/ GiveUp(a)

Spec == Init /\ [][Next]_vars

-----------------------------------------------------------------------------
(* Properties *)

\* A run whose name no other run's report has: another goal class, or another
\* second.
OwnName(a) ==
  \A b \in Agent \ {a} :
    phase[b] # "running" =>
      \/ ended[a] # ended[b]
      \/ /\ class[a] # class[b]
         /\ {class[a], class[b]} # {NoClass, Unclassified}

\* "Files are namespaced by goal_class so the same problem class accumulates a
\* history" (escalation.py:400-401): a report that was returned to the user
\* stays, both files, unless another of its class was built in the same second.
ReportsStay ==
  \A a \in Agent : phase[a] = "written" /\ OwnName(a) =>
    \E n \in Name : n.stamp = ended[a] /\ md[n] = a /\ js[n] = a

\* What a run leaves half-written belongs to a run that says it has no report,
\* is still writing, or shares its name: a Markdown file has its JSON file.
PairsMatch ==
  \A n \in Name : md[n] # js[n] =>
    \E a \in Agent : /\ phase[a] # "running" /\ NameOf(a) = n
                     /\ phase[a] \in {"half", "unreported"} \/ ~OwnName(a)

=============================================================================
