------------------------------ MODULE TaskRun ------------------------------
(***************************************************************************)
(* What a task run promises its user, without plans, tools or models: it   *)
(* makes a bounded number of attempts; an attempt writes to the machine at *)
(* most once; it writes with a high-risk action only after a consent that  *)
(* names the very step, and a consent is spent by the attempt it was given *)
(* for; then the run is done, escalated or, at worst, broken.  AgentLoop   *)
(* implements this specification.                                          *)
(***************************************************************************)
EXTENDS Naturals, Sequences

CONSTANTS
  Step,         \* the steps a plan can hold
  HighRisk,     \* those that need consent
  MaxAttempts,  \* the attempt budget
  NoStep        \* no consent

VARIABLES
  status,   \* "running", "done", "escalated" or "broken"
  spent,    \* attempts made
  consent,  \* the step the user agreed to, or NoStep
  deeds     \* the steps that wrote to the machine, in order

vars == <<status, spent, consent, deeds>>

Init ==
  /\ status = "running"
  /\ spent = 0
  /\ consent = NoStep
  /\ deeds = <<>>

Running == status = "running" /\ UNCHANGED status

Consent(step) ==
  /\ Running
  /\ spent < MaxAttempts
  /\ consent = NoStep
  /\ step \in HighRisk
  /\ consent' = step
  /\ UNCHANGED <<spent, deeds>>

\* The step writes, or does not.
Deed(step) ==
  \/ UNCHANGED deeds
  \/ /\ step \in HighRisk => consent = step
     /\ deeds' = Append(deeds, step)

Attempt(step) ==
  /\ Running
  /\ spent < MaxAttempts
  /\ Deed(step)
  /\ spent' = spent + 1
  /\ consent' = NoStep

\* The run breaks between attempts or in the middle of one.
Break(step) ==
  /\ status = "running"
  /\ spent < MaxAttempts \/ UNCHANGED deeds
  /\ Deed(step)
  /\ status' = "broken"
  /\ consent' = NoStep
  /\ UNCHANGED spent

End(how) ==
  /\ status = "running"
  /\ consent = NoStep
  /\ status' = how
  /\ UNCHANGED <<spent, consent, deeds>>

Next ==
  \/ \E step \in Step : Consent(step) \/ Attempt(step) \/ Break(step)
  \/ End("done")
  \/ End("escalated")

Spec == Init /\ [][Next]_vars

=============================================================================
