------------------------ MODULE FailureReportsProofs ------------------------
(***************************************************************************)
(* Proofs about FailureReports, for any number of runs, classes and        *)
(* seconds.  A file tells whose it is by its name, so that a run whose     *)
(* name is its own cannot be overwritten; and a name that is a run's own   *)
(* at the end was its own all the time, because stamps never change.       *)
(***************************************************************************)
EXTENDS FailureReports, TLAPS

Phase == {"running", "built", "half", "written", "unreported"}

Types ==
  /\ now \in 0..MaxSeconds
  /\ phase \in [Agent -> Phase]
  /\ class \in [Agent -> GoalClass \cup {NoClass}]
  /\ ended \in [Agent -> 0..MaxSeconds]
  /\ md \in [Name -> Agent \cup {Nobody}]
  /\ js \in [Name -> Agent \cup {Nobody}]

\* A file is under its writer's name, and its writer has come that far.
Labelled ==
  \A a \in Agent, n \in Name :
    /\ md[n] = a => n = NameOf(a) /\ phase[a] \in {"half", "written", "unreported"}
    /\ js[n] = a => n = NameOf(a) /\ phase[a] = "written"

\* What a run with a name of its own has written is there.
Kept ==
  \A a \in Agent : OwnName(a) =>
    /\ phase[a] \in {"half", "written"} => md[NameOf(a)] = a
    /\ phase[a] = "written" => js[NameOf(a)] = a

Inductive == Types /\ Labelled /\ Kept

-----------------------------------------------------------------------------
(* Names *)

LEMMA NameType ==
  ASSUME Types, NEW a \in Agent
  PROVE  NameOf(a) \in Name /\ NameOf(a).stamp = ended[a]
BY DEF Types, NameOf, Name, Slug

\* Two runs past building with one name: neither has it for its own.
LEMMA SharedName ==
  ASSUME Types, NEW a \in Agent, NEW b \in Agent \ {a},
         phase[b] # "running", NameOf(a) = NameOf(b)
  PROVE  ~OwnName(a)
<1>1. ended[a] = ended[b]
  BY NameType
<1>2. class[a] # class[b] => {class[a], class[b]} = {NoClass, Unclassified}
  <2>1. NameOf(a).slug = NameOf(b).slug
    OBVIOUS
  <2>2. CASE class[a] = NoClass /\ class[b] # NoClass
    BY <2>1, <2>2 DEF NameOf
  <2>3. CASE class[b] = NoClass /\ class[a] # NoClass
    BY <2>1, <2>3 DEF NameOf
  <2>4. CASE class[a] # NoClass /\ class[b] # NoClass
    BY <2>1, <2>4 DEF NameOf
  <2> QED BY <2>2, <2>3, <2>4
<1> QED BY <1>1, <1>2 DEF OwnName

\* A run that is past building had its own name already if it has it now.
LEMMA OwnBefore ==
  ASSUME NEW a \in Agent, OwnName(a)', ended'[a] = ended[a], UNCHANGED class,
         \A b \in Agent : phase[b] # "running"
                            => phase'[b] # "running" /\ ended'[b] = ended[b]
  PROVE  OwnName(a)
BY DEF OwnName

-----------------------------------------------------------------------------
(* The actions *)

LEMMA BuildReportKeeps ==
  ASSUME Inductive, NEW a \in Agent, BuildReport(a)
  PROVE  Inductive'
<1> USE DEF Inductive
<1>1. Types'
  BY DEF BuildReport, Types, Phase
<1>2. \A b \in Agent \ {a} : NameOf(b)' = NameOf(b) /\ phase'[b] = phase[b]
                              /\ ended'[b] = ended[b]
  BY DEF BuildReport, Types, NameOf
<1>3. \A n \in Name : md[n] # a /\ js[n] # a
  BY DEF BuildReport, Labelled
<1>4. Labelled'
  BY <1>2, <1>3 DEF BuildReport, Labelled
<1>5. ASSUME NEW b \in Agent, OwnName(b)'
      PROVE  /\ phase'[b] \in {"half", "written"} => md'[NameOf(b)'] = b
             /\ phase'[b] = "written" => js'[NameOf(b)'] = b
  <2>1. CASE b = a
    BY <2>1 DEF BuildReport, Types
  <2>2. CASE b # a
    <3>1. OwnName(b)
      BY <1>2, <1>5, <2>2, OwnBefore DEF BuildReport
    <3> QED BY <1>2, <2>2, <3>1 DEF BuildReport, Kept
  <2> QED BY <2>1, <2>2
<1>6. Kept'
  BY <1>5 DEF Kept
<1> QED BY <1>1, <1>4, <1>6

\* The steps of a run that has a report to write.
LEMMA WritingKeeps ==
  ASSUME Inductive, NEW a \in Agent,
         WriteMarkdown(a) \/ WriteJson(a) \/ GiveUp(a)
  PROVE  Inductive'
<1> USE DEF Inductive
<1>1. Types'
  BY NameType DEF WriteMarkdown, WriteJson, GiveUp, Types, Phase
<1>2. \A b \in Agent : /\ NameOf(b)' = NameOf(b)
                       /\ b # a => phase'[b] = phase[b]
  BY DEF WriteMarkdown, WriteJson, GiveUp, Types, NameOf
<1>3. phase[a] # "running" /\ phase'[a] # "running"
  BY DEF WriteMarkdown, WriteJson, GiveUp, Types
<1>4. \A b \in Agent : OwnName(b)' => OwnName(b)
  BY <1>2, <1>3 DEF OwnName, WriteMarkdown, WriteJson, GiveUp
<1>5. \A b \in Agent \ {a} : OwnName(b) => NameOf(b) # NameOf(a)
  BY <1>3, SharedName
<1>6. NameOf(a) \in Name /\ \A b \in Agent : NameOf(b) \in Name
  BY NameType
<1>7. CASE WriteMarkdown(a)
  <2>1. \A n \in Name : md'[n] = IF n = NameOf(a) THEN a ELSE md[n]
    BY <1>7 DEF WriteMarkdown, Types
  <2>2. phase[a] = "built" /\ phase'[a] = "half" /\ js' = js
    BY <1>7 DEF WriteMarkdown, Types
  <2>3. Labelled'
    BY <1>2, <2>1, <2>2 DEF Labelled
  <2>4. Kept'
    BY <1>2, <1>4, <1>5, <1>6, <2>1, <2>2 DEF Kept
  <2> QED BY <1>1, <2>3, <2>4
<1>8. CASE WriteJson(a)
  <2>1. \A n \in Name : js'[n] = IF n = NameOf(a) THEN a ELSE js[n]
    BY <1>8 DEF WriteJson, Types
  <2>2. phase[a] = "half" /\ phase'[a] = "written" /\ md' = md
    BY <1>8 DEF WriteJson, Types
  <2>3. Labelled'
    BY <1>2, <2>1, <2>2 DEF Labelled
  <2>4. Kept'
    BY <1>2, <1>4, <1>5, <1>6, <2>1, <2>2 DEF Kept
  <2> QED BY <1>1, <2>3, <2>4
<1>9. CASE GiveUp(a)
  <2>1. phase[a] \in {"built", "half"} /\ phase'[a] = "unreported"
        /\ md' = md /\ js' = js
    BY <1>9 DEF GiveUp, Types
  <2>2. Labelled'
    BY <1>2, <2>1 DEF Labelled
  <2>3. Kept'
    BY <1>2, <1>4, <2>1 DEF Kept
  <2> QED BY <1>1, <2>2, <2>3
<1> QED BY <1>7, <1>8, <1>9

LEMMA StandsStill ==
  ASSUME Inductive, Tick \/ UNCHANGED vars
  PROVE  Inductive'
<1> USE DEF Inductive
<1>1. UNCHANGED <<phase, class, ended, md, js>>
  BY DEF Tick, vars
<1>2. Types'
  BY <1>1, ClockAssumption DEF Types, Tick, vars
<1>3. Labelled' /\ Kept'
  BY <1>1 DEF Labelled, Kept, OwnName, NameOf
<1> QED BY <1>2, <1>3

LEMMA Always == Spec => []Inductive
<1>1. Init => Inductive
  <2> SUFFICES ASSUME Init PROVE Inductive
    OBVIOUS
  <2>1. Types
    BY ClockAssumption DEF Init, Types, Phase
  <2>2. Labelled /\ Kept
    BY NamesAssumption DEF Init, Labelled, Kept
  <2> QED BY <2>1, <2>2 DEF Inductive
<1>2. Inductive /\ [Next]_vars => Inductive'
  BY BuildReportKeeps, WritingKeeps, StandsStill DEF Next
<1> QED BY <1>1, <1>2, PTL DEF Spec

-----------------------------------------------------------------------------

\* A report that was returned to the user stays, both files, for any number of
\* runs that write, fail or die in any order (escalation.write_report), unless
\* another run's report has the very same name.
THEOREM ReportsAreKept == Spec => []ReportsStay
<1>1. Inductive => ReportsStay
  <2> SUFFICES ASSUME Inductive, NEW a \in Agent, phase[a] = "written", OwnName(a)
               PROVE  \E n \in Name : n.stamp = ended[a] /\ md[n] = a /\ js[n] = a
    BY DEF ReportsStay
  <2>1. NameOf(a) \in Name /\ NameOf(a).stamp = ended[a]
    BY NameType DEF Inductive
  <2>2. md[NameOf(a)] = a /\ js[NameOf(a)] = a
    BY DEF Inductive, Kept
  <2> QED BY <2>1, <2>2
<1> QED BY <1>1, Always, PTL

\* Where the Markdown and the JSON file of a name are not of one run, some run
\* is between its two writes, was broken off there, or shares the name.
THEOREM PairsAreTold == Spec => []PairsMatch
<1>1. Inductive => PairsMatch
  <2> SUFFICES ASSUME Inductive, NEW n \in Name, md[n] # js[n]
               PROVE  \E a \in Agent : /\ phase[a] # "running" /\ NameOf(a) = n
                                       /\ phase[a] \in {"half", "unreported"} \/ ~OwnName(a)
    BY DEF PairsMatch
  <2>1. CASE md[n] \in Agent
    <3>1. /\ NameOf(md[n]) = n
          /\ phase[md[n]] \in {"half", "written", "unreported"}
      BY <2>1 DEF Inductive, Labelled
    <3>2. phase[md[n]] = "written" => ~OwnName(md[n])
      BY <2>1, <3>1 DEF Inductive, Kept
    <3> QED BY <2>1, <3>1, <3>2
  <2>2. CASE md[n] \notin Agent
    <3>1. js[n] \in Agent
      BY <2>2 DEF Inductive, Types
    <3>2. NameOf(js[n]) = n /\ phase[js[n]] = "written"
      BY <3>1 DEF Inductive, Labelled
    <3>3. ~OwnName(js[n])
      BY <2>2, <3>1, <3>2 DEF Inductive, Kept
    <3> QED BY <3>1, <3>2, <3>3
  <2> QED BY <2>1, <2>2
<1> QED BY <1>1, Always, PTL
=============================================================================
