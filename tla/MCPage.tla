-------------------------------- MODULE MCPage --------------------------------
(***************************************************************************)
(* The two parts of the web page in one run: the view of the open chat and *)
(* the cards of running sends.  A behaviour is one of the part it has      *)
(* picked; the other stays in its initial state.                           *)
(***************************************************************************)
EXTENDS ChatView

CONSTANTS Send, Path, Hold, Remember, MaxQueue    \* LiveTransfers

VARIABLES
  part,     \* the part that runs
  chatOf, pathOf, stage, sends, cards, doneFor, finished, open, views, opens,
  filed, entered, forgotten

cardVars ==
  <<chatOf, pathOf, stage, sends, cards, doneFor, finished, open, views, opens,
    filed, entered, forgotten>>
pageVars == <<part, vars, cardVars>>

Live == INSTANCE LiveTransfers WITH events <- sends

ASSUME LiveConstants == Live!ConstantsOK

PageInit == part \in {"view", "cards"} /\ Init /\ Live!Init

View == part = "view" /\ UNCHANGED <<part, cardVars>>
Cards == part = "cards" /\ UNCHANGED <<part, vars>>

PageNext ==
  \/ View /\ Next
  \/ Cards /\ Live!Next

\* The fairness of each part, for its steps in a behaviour of that part; as
\* the other part has none, two of them can share a condition.
PageFairness ==
  /\ WF_pageVars((View /\ GoStep) \/ (Cards /\ Live!Take))
  /\ WF_pageVars((View /\ PageStep) \/ (Cards /\ Live!Tick))
  /\ WF_pageVars(View /\ \E q \in calls : Answer(q))
  /\ \A s \in Send : SF_pageVars(Cards /\ Live!End(s))

PageSpec == PageInit /\ [][PageNext]_pageVars /\ PageFairness

\* A page in one chat, and one entry in the other.
Short == [c \in Chat |-> IF c = "a" THEN 2 ELSE 1]

TimeOf == [e \in [chat : Chat, n : 1..9] |-> e.n]

----------------------------------------------------------------------------
(* The properties of the parts.                                             *)

\* The types of the variables of both parts.
TypesOK == TypeOK /\ Live!TypeOK

\* LiveTransfers: a send has its card from its first update to its entry, and
\* the open chat shows its own cards (entryAdded, onTransfer, onMessage).
CardsAgree == Live!OneCardPerSend /\ Live!ViewsAreCards

\* The view comes to rest and every card goes.
PageSettles == Busy \/ Live!CardLeft ~> ~Busy /\ ~Live!CardLeft
=============================================================================
