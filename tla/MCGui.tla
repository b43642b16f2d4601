--------------------------------- MODULE MCGui --------------------------------
(***************************************************************************)
(* The parts of the desktop program's Go side that share no state with the *)
(* rest, in one run: the chat store, the throttle of the "chats" event and *)
(* the toasts.  A behaviour is one of the part it has picked; the others    *)
(* stay in their initial states.                                           *)
(***************************************************************************)
EXTENDS ChatStore, MCChatEntries

CONSTANTS
  Caller, Timer, None, Interval, MaxChanges,    \* Throttle
  Duration, MaxShows, MaxPages, MaxClicks       \* Toaster

VARIABLES
  part,     \* the part that runs
  version, told, since, pending, left, stopped, at, fireMu, read, hurried,
  closed, ready, want, gen, pages, age, timer, fired, wake, worker, hand,
  shown, last, screen, clicks, reports, aim, acted, opened

throttleVars ==
  <<version, told, since, pending, left, stopped, at, fireMu, read, hurried>>
toastVars ==
  <<closed, ready, want, gen, pages, age, timer, fired, wake, worker, hand,
    shown, last, screen, clicks, reports, aim, acted, opened>>
guiVars == <<part, vars, throttleVars, toastVars>>

Limit == INSTANCE Throttle
Toasts == INSTANCE Toaster

ASSUME PartsConstants == Limit!ConstantsOK /\ Toasts!ConstantsOK

GuiInit ==
  /\ part \in {"store", "throttle", "toasts"}
  /\ Init /\ Limit!Init /\ Toasts!Init

Picks(p, others) == part = p /\ UNCHANGED <<part, others>>

Store == Picks("store", <<throttleVars, toastVars>>)
Trigger == Picks("throttle", <<vars, toastVars>>)
Toast == Picks("toasts", <<vars, throttleVars>>)

GuiNext ==
  \/ Store /\ Next
  \/ Trigger /\ Limit!Next
  \/ Toast /\ Toasts!Next

\* The fairness of each part, for its steps in a behaviour of that part.
Fairness ==
  /\ WF_guiVars(Trigger /\ Limit!Tick)
  /\ \A t \in Caller \cup Timer : /\ WF_guiVars(Trigger /\ Limit!Step(t))
                                  /\ SF_guiVars(Trigger /\ Limit!Fire(t))
  /\ WF_guiVars(Toast /\ Toasts!Tick) /\ WF_guiVars(Toast /\ Toasts!TimerFires)
  /\ \A g \in 0..MaxShows : WF_guiVars(Toast /\ Toasts!Expire(g))
  /\ WF_guiVars(Toast /\ Toasts!WorkerStep)

GuiSpec == GuiInit /\ [][GuiNext]_guiVars /\ Fairness

----------------------------------------------------------------------------
(* The properties of the parts.                                             *)

\* The types of the variables of every part.
TypesOK == TypeOK /\ Limit!TypeOK /\ Toasts!TypeOK

\* ChatStore: every entry is in one place, and the entries of a chat are in the
\* order of their times (SetPeers, mergeByTime).
EntriesKept == NothingLost /\ InTimeOrder

\* ChatStore: the badges are what opening a chat can clear, and the open chat
\* has none (Add, SetPeers, clearUnread).
BadgesAgree == UnreadAgrees /\ OpenIsRead

\* ChatStore: entries are grouped as the current list says, and keys the page
\* still holds lead to them (classify, resolve).
GroupsAgree == Grouped /\ AliasEndsAtAChat

\* Throttle: no trigger is lost (trigger, flush).
LastTriggerTold == Limit!LastTriggerTold

\* Toaster: a toaster at rest shows what is wanted (present, dismiss).
ScreenAgrees == Toasts!ScreenAgrees

\* Throttle and Toaster: a timer that comes late, or twice, neither calls too
\* early or out of order nor hides what it was not armed for; nor does the second
\* report of a click hide the toast that was clicked, or open a chat once more
\* (fire, expire, clicked).
LateTimersHarmless == Limit!CallsInOrder /\ Toasts!OnlyTimeOrAClickHides

\* Every change is told and every toast hides in the end.
ChangesToldAndToastsHide == Limit!ChangeIsTold /\ Toasts!EveryToastHides
=============================================================================
