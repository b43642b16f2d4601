----------------------------- MODULE LiveTransfers ----------------------------
(***************************************************************************)
(* gui/frontend: the cards of running sends (transfers.ts) and the view of *)
(* them in the open chat (chat.ts).  Go reports each send with updates and *)
(* records an entry before the last one; both reach the page as events, in *)
(* order.  The entry has no transfer ID, so the page matches it with a     *)
(* card by path.  An update carries the key of the chat its item was       *)
(* dropped on, the entry the key of the chat it was added to: SetPeers may *)
(* have regrouped the chat meanwhile.                                      *)
(***************************************************************************)
EXTENDS Naturals, FiniteSets, SequencesExt, Selection

CONSTANTS
  Send,       \* update IDs of items
  Chat,
  Path,       \* absolute source paths
  None,
  Hold,       \* DONE_HOLD_MS, in calls of the page's clock
  Remember,   \* REMEMBER_FINISHED
  MaxQueue,   \* bound: events on their way
  MaxOpens    \* bound: how often a chat is opened

\* What the constants have to be.
ConstantsOK ==
  /\ None \notin Chat \cup Path
  /\ {Hold, Remember, MaxQueue} \subseteq Nat \ {0} /\ MaxOpens \in Nat

VARIABLES
  chatOf,    \* [Send -> the chat the item is dropped on]
  pathOf,    \* [Send -> its source path]
  stage,     \* [Send -> how far Go is: "none", "runs", "recorded", "done"]
  events,    \* events on their way to the page
  cards,     \* the live cards, oldest first
  doneFor,   \* [Send -> ticks since the Done update, or Waiting]
  finished,  \* the removed IDs that are remembered, oldest first
  open,      \* the chat that is open, or None
  views,     \* the cards on the screen
  opens,
  filed,     \* history variable: [Send -> the chat of its entry's event]
  entered,   \* history variable: sends whose entry the page has taken
  forgotten  \* history variable: removed IDs that finished dropped again

goVars == <<chatOf, pathOf, stage, events>>
liveVars == <<cards, doneFor, finished>>
viewVars == <<open, views, opens>>
history == <<filed, entered, forgotten>>
vars == <<goVars, liveVars, viewVars, history>>

Waiting == Hold + 1

Init ==
  /\ chatOf = [s \in Send |-> None] /\ pathOf = [s \in Send |-> None]
  /\ stage = [s \in Send |-> "none"]
  /\ events = <<>>
  /\ cards = <<>> /\ doneFor = [s \in Send |-> Waiting] /\ finished = <<>>
  /\ open = None /\ views = {} /\ opens = 0
  /\ filed = [s \in Send |-> None] /\ entered = {} /\ forgotten = {}

----------------------------------------------------------------------------
(* The Go side: the updates of an item, its entry, and its last update.     *)

Event(kind, s, c) == [kind |-> kind, send |-> s, chat |-> c]

Emit(e) ==
  /\ Len(events) < MaxQueue
  /\ events' = Append(events, e)
  /\ UNCHANGED <<liveVars, viewVars, entered, forgotten>>

Start(s, c, p) ==
  /\ stage[s] = "none"
  /\ chatOf' = [chatOf EXCEPT ![s] = c] /\ pathOf' = [pathOf EXCEPT ![s] = p]
  /\ stage' = [stage EXCEPT ![s] = "runs"]
  /\ Emit(Event("update", s, c))
  /\ UNCHANGED filed

Progress(s) ==
  /\ stage[s] = "runs"
  /\ Emit(Event("update", s, chatOf[s]))
  /\ UNCHANGED <<chatOf, pathOf, stage, filed>>

\* The entry is recorded, added to the chat that its peer has by now, and
\* reported; or it is lost on the way.
Record(s, c) ==
  /\ stage[s] = "runs"
  /\ stage' = [stage EXCEPT ![s] = "recorded"]
  /\ \/ Emit(Event("entry", s, c)) /\ filed' = [filed EXCEPT ![s] = c]
     \/ UNCHANGED <<events, liveVars, viewVars, history>>
  /\ UNCHANGED <<chatOf, pathOf>>

Finish(s) ==
  /\ stage[s] = "recorded"
  /\ stage' = [stage EXCEPT ![s] = "done"]
  /\ Emit(Event("done", s, chatOf[s]))
  /\ UNCHANGED <<chatOf, pathOf, filed>>

----------------------------------------------------------------------------
(* The page: LiveTransfers.                                                 *)

\* An update of a card that was removed.
IsLate(s) == Contains(finished, s)

\* apply
Applied(s, isDone) ==
  /\ cards' = IF Contains(cards, s) THEN cards ELSE Append(cards, s)
  /\ doneFor' = IF isDone /\ doneFor[s] = Waiting
                THEN [doneFor EXCEPT ![s] = 0] ELSE doneFor

\* remove, for one card or several.
Removed(S) ==
  /\ cards' = Chosen(cards, Send \ S)
  /\ doneFor' = [s \in Send |-> IF s \in S THEN Waiting ELSE doneFor[s]]
  /\ LET all == finished \o Chosen(cards, S)
     IN  /\ finished' = IF Len(all) > Remember
                        THEN SubSeq(all, Len(all) - Remember + 1, Len(all))
                        ELSE all
         /\ forgotten' = forgotten \cup (ToSet(all) \ ToSet(finished'))

BadMatches(s, chat) == {c \in ToSet(cards) : pathOf[c] = pathOf[s]}

\* entryAdded: the oldest card of the path in the chat the entry came for,
\* else the oldest one of the path.
Matches(s, chat) ==
  LET ofPath == {c \in ToSet(cards) : pathOf[c] = pathOf[s]}
      ofChat == {c \in ofPath : chatOf[c] = chat}
  IN  IF ofChat # {} THEN ofChat ELSE ofPath
Oldest(S) == SelectInSeq(cards, LAMBDA c : c \in S)

----------------------------------------------------------------------------
(* The page: what main.ts and ChatView do with the events.                  *)

\* onTransfer
TakeUpdate ==
  LET v == Head(events)
      s == v.send
  IN  /\ events # <<>> /\ v.kind # "entry"
      /\ events' = Tail(events)
      /\ IF IsLate(s)
         THEN UNCHANGED <<liveVars, views>>
         ELSE /\ Applied(s, v.kind = "done")
              /\ UNCHANGED finished
              /\ views' = IF chatOf[s] = open /\ ~Contains(cards, s)
                         THEN views \cup {s} ELSE views
      /\ UNCHANGED <<chatOf, pathOf, stage, open, opens, history>>

\* onMessage: the card goes from every view that has it.
TakeEntry ==
  LET s == Head(events).send
      S == Matches(s, Head(events).chat)
  IN  /\ events # <<>> /\ Head(events).kind = "entry"
      /\ events' = Tail(events)
      /\ entered' = entered \cup {s}
      /\ IF S = {}
         THEN UNCHANGED <<liveVars, views, forgotten>>
         ELSE LET c == cards[Oldest(S)]
              IN  Removed({c}) /\ views' = views \ {c}
      /\ UNCHANGED <<chatOf, pathOf, stage, open, opens, filed>>

CardsOf(chat, list) == {s \in ToSet(list) : chatOf[s] = chat}

\* open: renderCards
Open(c) ==
  /\ opens < MaxOpens
  /\ c # open
  /\ open' = c /\ opens' = opens + 1
  /\ views' = CardsOf(c, cards)
  /\ UNCHANGED <<goVars, liveVars, history>>

HasWaited(s) == doneFor[s] = Hold

\* The page's clock: expire, and removeCards.
Tick ==
  LET old == {s \in ToSet(cards) : doneFor[s] \in 0..Hold}
      S == {s \in old : HasWaited(s)}
  IN  /\ old # {}
      /\ IF S # {}
         THEN Removed(S)
         ELSE /\ doneFor' = [s \in Send |-> IF s \in old THEN doneFor[s] + 1
                                                        ELSE doneFor[s]]
              /\ UNCHANGED <<cards, finished, forgotten>>
      /\ views' = views \ S
      /\ UNCHANGED <<goVars, open, opens, filed, entered>>

----------------------------------------------------------------------------

Take == TakeUpdate \/ TakeEntry

Next ==
  \/ \E s \in Send, c \in Chat, p \in Path : Start(s, c, p)
  \/ \E s \in Send : Progress(s) \/ Finish(s)
  \/ \E s \in Send, c \in Chat : Record(s, c)
  \/ Take \/ Tick
  \/ \E c \in Chat : Open(c)

End(s) == (\E c \in Chat : Record(s, c)) \/ Finish(s)

\* A send that runs ends; the page takes events, and its clock runs.
Fairness ==
  /\ \A s \in Send : SF_vars(End(s))
  /\ WF_vars(Take) /\ WF_vars(Tick)

Spec == Init /\ [][Next]_vars /\ Fairness

----------------------------------------------------------------------------
(* Properties.                                                              *)

\* The types of the variables.
TypeOK ==
  /\ chatOf \in [Send -> Chat \cup {None}]
  /\ pathOf \in [Send -> Path \cup {None}]
  /\ stage \in [Send -> {"none", "runs", "recorded", "done"}]
  /\ \A i \in DOMAIN events :
       events[i] \in [kind : {"update", "entry", "done"}, send : Send,
                      chat : Chat]
  /\ IsInjective(cards) /\ ToSet(cards) \subseteq Send
  /\ doneFor \in [Send -> 0..Waiting]
  /\ ToSet(finished) \subseteq Send /\ Len(finished) <= Remember
  /\ open \in Chat \cup {None} /\ views \subseteq Send /\ opens \in 0..MaxOpens
  /\ filed \in [Send -> Chat \cup {None}]
  /\ entered \subseteq Send /\ forgotten \subseteq Send

OnTheWay(s, kinds) ==
  \E i \in DOMAIN events : events[i].send = s /\ events[i].kind \in kinds

\* The file of s is sent once; or it is sent to several chats, once to each,
\* and none of them was regrouped between the drop and the entry.
Apart(s) ==
  \A x, y \in Send :
    pathOf[x] = pathOf[s] /\ pathOf[y] = pathOf[s] /\ x # y =>
      chatOf[x] # chatOf[y] /\ filed[x] \in {None, chatOf[x]}

\* The card of a send is there from its first update to its entry and not
\* after it, though the entry names only a path, another chat may be sending
\* the same file, and the entry of a file that is sent once may come for
\* another chat (entryAdded).  Excepted are a card whose ID was forgotten
\* before its last update, and a file that runs more than once in one chat or
\* across a regrouping: those may swap their cards.
OneCardPerSend ==
  \A s \in Send : Apart(s) =>
    /\ stage[s] = "runs" /\ ~OnTheWay(s, {"update"}) => Contains(cards, s)
    /\ s \in entered \ forgotten => ~Contains(cards, s)

\* The open chat shows exactly its own cards, whichever event, expiry or
\* change of the chat came last (onTransfer, onMessage, removeCards, open).
ViewsAreCards == views = CardsOf(open, cards)

\* No card stays for good, even when its entry is lost or another entry of
\* the same path took another card.
CardLeft ==
  \E s \in Send : stage[s] = "done" /\ (Contains(cards, s) \/ s \in views)
CardsGo == CardLeft ~> ~CardLeft
=============================================================================
