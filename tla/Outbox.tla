------------------------------- MODULE Outbox -------------------------------
(***************************************************************************)
(* What internal/transfer promises to the GUI, without saying how: a send  *)
(* that was accepted is recorded once, with one outcome, and only then     *)
(* reported finished; once the gate is shut nothing more is accepted, and  *)
(* the outbox is drained only when every accepted send was reported.       *)
(* Transfer.tla implements this specification.                             *)
(***************************************************************************)

CONSTANTS Sends,    \* every send a caller may ask for
          Outcomes  \* how a send can end

VARIABLES state,    \* [Sends -> stage of the send]
          outcome,  \* [Sends -> the recorded outcome, NoOutcome before]
          gate      \* "open", then "shut", then "drained"

vars == <<state, outcome, gate>>

NoOutcome == "none"

Stages == {"absent", "accepted", "recorded", "reported"}

TypeOK ==
  /\ state \in [Sends -> Stages]
  /\ outcome \in [Sends -> Outcomes \cup {NoOutcome}]
  /\ gate \in {"open", "shut", "drained"}

Init ==
  /\ state = [x \in Sends |-> "absent"]
  /\ outcome = [x \in Sends |-> NoOutcome]
  /\ gate = "open"

\* One call hands over several sends at once.
Accept(S) ==
  /\ gate = "open"
  /\ \A x \in S : state[x] = "absent"
  /\ state' = [x \in Sends |-> IF x \in S THEN "accepted" ELSE state[x]]
  /\ UNCHANGED <<outcome, gate>>

Record(x, o) ==
  /\ state[x] = "accepted"
  /\ state' = [state EXCEPT ![x] = "recorded"]
  /\ outcome' = [outcome EXCEPT ![x] = o]
  /\ UNCHANGED gate

Report(x) ==
  /\ state[x] = "recorded"
  /\ state' = [state EXCEPT ![x] = "reported"]
  /\ UNCHANGED <<outcome, gate>>

Shut ==
  /\ gate = "open"
  /\ gate' = "shut"
  /\ UNCHANGED <<state, outcome>>

Drain ==
  /\ gate = "shut"
  /\ \A x \in Sends : state[x] \in {"absent", "reported"}
  /\ gate' = "drained"
  /\ UNCHANGED <<state, outcome>>

Next ==
  \/ \E S \in SUBSET Sends : Accept(S)
  \/ \E x \in Sends, o \in Outcomes : Record(x, o)
  \/ \E x \in Sends : Report(x)
  \/ Shut
  \/ Drain

Spec == Init /\ [][Next]_vars
=============================================================================
