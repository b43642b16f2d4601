-------------------------------- MODULE ChatView ------------------------------
(***************************************************************************)
(* gui/frontend: the page's view of the open chat (chat.ts) against the    *)
(* chat store of the Go side.  The page gets every new entry as an event,  *)
(* in order, and asks for pages of older ones with calls, whose answers    *)
(* are not ordered with the events.  Go adds an entry to its store and     *)
(* emits the event afterwards.                                             *)
(*                                                                         *)
(* An entry is the chat it was added to and its number there.  When the    *)
(* peers change, a chat can get a new key, once, and entries of one chat   *)
(* can be merged into another, by time: anywhere in its list.  Go still    *)
(* resolves the old key of a chat that is gone.                            *)
(***************************************************************************)
EXTENDS Integers, FiniteSets, SequencesExt, Selection

CONSTANTS
  Chat,
  None,
  Time,         \* [entry -> its time]
  Older,        \* [Chat -> entries there are when the page loads]
  Regrouping,   \* chats that may be regrouped
  PageSize,     \* entries of a page
  Window,       \* DUPLICATE_WINDOW
  MaxEntries,   \* bound: entries that arrive
  MaxMerged,    \* bound: entries that are merged into another chat
  MaxOpens,     \* bound: how often a chat is opened
  MaxFails      \* bound: calls that fail

ASSUME OlderType == Older \in [Chat -> Nat] /\ None \notin Chat
ASSUME RegroupingType == Regrouping \subseteq Chat
ASSUME Sizes ==    \* 200 and 50 in the code
  PageSize \in Nat \ {0} /\ Window \in Nat \ {0} /\ Window <= PageSize
ASSUME ViewBounds ==
  {MaxEntries, MaxMerged, MaxOpens, MaxFails} \subseteq Nat

VARIABLES
  log,        \* [Chat -> number of entries that were added to it]
  mix,        \* [Chat -> its list once entries were merged, else <<>>]
  into,       \* [Chat -> the chat that has all its entries, or None]
  moved,      \* chats that were regrouped
  merged,     \* entries that were merged into another chat
  adding,     \* the entry that was added but not emitted, or None
  listDue,    \* the throttle has a "chats" event to emit
  events,     \* events on their way to the page
  calls,      \* calls of the page
  key,        \* the key of the open chat, or NoKey
  shown,      \* the entries of the view
  next,       \* "before" of the next older page, or NoPage
  pending,    \* entries taken while the first page loads
  loading,    \* the first page loads: pending is not null
  older,      \* loadingOlder
  token, syncing, syncAgain,
  rows,       \* chats that the peer list shows under their new key
  fails,      \* calls that failed
  floor,      \* history variable: the first entry of the first page
  excused,    \* history variable: entries the view knows it does not have
  spoilt      \* history variable: a merge or a burst met the open chat

goVars   == <<log, mix, into, moved, merged, adding, listDue>>
viewVars == <<key, shown, next, pending, loading, older, token>>
syncVars == <<syncing, syncAgain>>
history  == <<fails, floor, excused, spoilt>>
vars == <<goVars, events, calls, viewVars, syncVars, rows, history>>

NoPage == -1
Key(c, new) == [chat |-> c, new |-> new]
NoKey == Key(None, FALSE)
Entry(c, n) == [chat |-> c, n |-> n]
Message(c, n, new) ==
  [kind |-> "message", key |-> Key(c, new), n |-> n, rows |-> {}]
Rows(r) == [kind |-> "chats", key |-> NoKey, n |-> 0, rows |-> r]

Init ==
  /\ log = Older /\ moved = {} /\ adding = None /\ listDue = FALSE
  /\ mix = [c \in Chat |-> <<>>] /\ into = [c \in Chat |-> None]
  /\ merged = 0
  /\ events = <<>> /\ calls = {}
  /\ key = NoKey /\ shown = <<>> /\ next = NoPage
  /\ pending = <<>> /\ loading = FALSE /\ older = FALSE /\ token = 0
  /\ syncing = FALSE /\ syncAgain = FALSE
  /\ rows = {}
  /\ fails = 0 /\ floor = 1 /\ excused = {} /\ spoilt = FALSE

----------------------------------------------------------------------------
(* The Go side.                                                             *)

Arrived == LET Sum[C \in SUBSET Chat] ==
                 IF C = {} THEN 0
                 ELSE LET c == CHOOSE x \in C : TRUE
                      IN  log[c] - Older[c] + Sum[C \ {c}]
           IN  Sum[Chat]

InFlight == {i \in DOMAIN events : events[i].kind = "message"}
Flying == Cardinality(InFlight) + (IF adding = None THEN 0 ELSE 1)

\* addEntry: store.Add, and then the event.
Add(c) ==
  /\ adding = None /\ into[c] = None
  /\ Arrived < MaxEntries
  /\ log' = [log EXCEPT ![c] = @ + 1]
  /\ mix' = IF mix[c] = <<>> THEN mix
            ELSE [mix EXCEPT ![c] = Append(@, Entry(c, log[c] + 1))]
  /\ adding' = c
  /\ spoilt' = (spoilt \/ Flying + 1 > Window)
  /\ UNCHANGED <<into, moved, merged, listDue, events, calls, viewVars,
                 syncVars, rows, fails, floor, excused>>

EmitMessage ==
  /\ adding # None
  /\ events' = Append(events, Message(adding, log[adding], adding \in moved))
  /\ adding' = None
  /\ UNCHANGED <<log, mix, into, moved, merged, listDue, calls, viewVars,
                 syncVars, rows, history>>

\* SetPeers gives the chat another key; the same goroutine adds entries.
Regroup(c) ==
  /\ adding = None
  /\ c \in Regrouping \ moved
  /\ moved' = moved \cup {c}
  /\ listDue' = TRUE
  /\ UNCHANGED <<log, mix, into, merged, adding, events, calls, viewVars,
                 syncVars, rows, history>>

\* The list of a chat.
List(c) == IF mix[c] = <<>> THEN [n \in 1..log[c] |-> Entry(c, n)] ELSE mix[c]

\* The list that has t at the places P and s at the others.
MergedAt(P, s, t) ==
  LET Put(i) == Cardinality({j \in P : j <= i}) IN
  [i \in 1..(Len(s) + Len(t)) |-> IF i \in P THEN t[Put(i)] ELSE s[i - Put(i)]]

\* mergeByTime puts t into s at these places: behind it when it starts no
\* earlier than s ends, else always the earlier of the next two, s on a tie.
ByTime(P, s, t) ==
  LET m == MergedAt(P, s, t)
      rest == DOMAIN m \ P
  IN  IF s = <<>> \/ Time[t[1]] >= Time[Last(s)]
      THEN P = (Len(s) + 1)..Len(m)
      ELSE \A i \in P, j \in rest :
             /\ i < j /\ i..(j - 1) \subseteq P => Time[m[i]] < Time[m[j]]
             /\ j < i /\ j..(i - 1) \subseteq rest => Time[m[j]] <= Time[m[i]]

\* resolve: the chat that a key stands for.
Holder(c) == IF into[c] = None THEN c ELSE into[c]

\* SetPeers files some or all entries of a chat under another chat, each
\* where its time puts it.  A chat that keeps none leaves an alias.
Join(d, c) ==
  /\ adding = None
  /\ d \in Regrouping \ moved /\ c # d /\ into[c] = None
  /\ \E E \in (SUBSET ToSet(List(d))) \ {{}} :
       LET s == List(c)
           t == Chosen(List(d), E)
           kept == Chosen(List(d), ToSet(List(d)) \ E)
       IN  /\ merged' = merged + Len(t) /\ merged' <= MaxMerged
           /\ \E P \in kSubset(Len(t), 1..(Len(s) + Len(t))) :
                /\ ByTime(P, s, t)
                /\ mix' = [mix EXCEPT ![d] = kept, ![c] = MergedAt(P, s, t)]
           /\ IF kept = <<>>
              THEN /\ moved' = moved \cup {d}
                   /\ into' = [x \in Chat |-> IF d \in {x, into[x]} THEN c
                                                               ELSE into[x]]
              ELSE UNCHANGED <<moved, into>>
  /\ listDue' = TRUE
  /\ spoilt' = (\/ spoilt
                \/ /\ key # NoKey
                   /\ {key.chat, Holder(key.chat)} \cap {c, d} # {})
  /\ UNCHANGED <<log, adding, events, calls, viewVars, syncVars, rows,
                 fails, floor, excused>>

\* The throttle emits the list at once or later.
EmitChats ==
  /\ listDue
  /\ listDue' = FALSE
  /\ events' = Append(events, Rows(moved))
  /\ UNCHANGED <<log, mix, into, moved, merged, adding, calls, viewVars,
                 syncVars, rows, history>>

\* Store.Messages, read under the store's mutex while a call is answered.
Read(q) ==
  LET h == Holder(q.chat) IN
  /\ q.cut < 0
  /\ calls' = (calls \ {q})
              \cup {[q EXCEPT !.cut = Len(List(h)), !.list = mix[h]]}
  /\ UNCHANGED <<goVars, events, viewVars, syncVars, rows, history>>

\* The n-th entry of the list that a call has read.
Item(q, n) == IF q.list = <<>> THEN Entry(q.chat, n) ELSE q.list[n]

\* The entries start+1..end of that list, and the key of the next older page.
PageOf(q) ==
  LET end == q.cut - q.before
      start == IF end > PageSize THEN end - PageSize ELSE 0
  IN  IF q.before >= q.cut
      THEN [first |-> 1, messages |-> <<>>, next |-> NoPage]
      ELSE [first |-> start + 1,
            messages |-> [i \in 1..(end - start) |-> Item(q, start + i)],
            next |-> IF start = 0 THEN NoPage ELSE q.cut - start]

----------------------------------------------------------------------------
(* The page.                                                                *)

Call(what, c, tok, before) ==
  [what |-> what, chat |-> c, token |-> tok, before |-> before,
   cut |-> -1, list |-> <<>>]

\* The list of the chat has entries of other chats in it, or gave some away.
Mixed(c) == mix[c] # <<>> \/ into[c] # None

\* open: everything of the last chat goes, and the newest page is asked for.
OpenKey(k) ==
  /\ token' = token + 1
  /\ key' = k
  /\ shown' = <<>> /\ next' = NoPage /\ older' = FALSE
  /\ pending' = <<>> /\ loading' = TRUE
  /\ excused' = {} /\ floor' = 1
  /\ spoilt' = (Flying > IF Mixed(k.chat) THEN 0 ELSE Window)

\* The user selects a row of the list.
Open(c) ==
  /\ token < MaxOpens
  /\ into[c] = None \/ c \notin rows
  /\ Key(c, c \in rows) # key
  /\ OpenKey(Key(c, c \in rows))
  /\ calls' = calls \cup {Call("open", c, token + 1, 0)}
  /\ UNCHANGED <<goVars, events, syncVars, rows, fails>>

BadShifted(nxt, k) == nxt + k

\* Each entry that arrives after the page that next was taken from moves the
\* next older page by one.
Shifted(nxt, k) == IF nxt >= 0 THEN nxt + k ELSE nxt

\* Entries of the chat that are in no event that is still to come.
Delivered(c) ==
  ToSet(List(Holder(c)))
    \ ({Entry(events[i].key.chat, events[i].n) : i \in InFlight}
         \cup (IF adding = None THEN {} ELSE {Entry(adding, log[adding])}))

BadUnseen(messages) == <<>>

\* What arrived while the page was loading and is not in the page.
Unseen(messages) == Chosen(pending, ToSet(pending) \ ToSet(messages))

Listed(q, m, n) == {Item(q, i) : i \in m..n}

\* More than a page came between what a call has read and what the view has,
\* so that its answer does not meet the view.
Swamps(q) ==
  LET first == PageOf(q).first IN
  \/ q.what = "open" /\ ToSet(pending) \cap Listed(q, 1, first - 1) # {}
  \/ q.what = "older" /\ shown[1] \in Listed(q, 1, first - 1)
  \/ /\ q.what = "sync" /\ shown = <<>>
     /\ ~(Listed(q, floor, first - 1) \subseteq excused)

FirstPage(q) ==
  LET p == PageOf(q)
      later == Unseen(p.messages)
  IN  /\ q.what = "open" /\ q.token = token
      /\ shown' = p.messages \o later
      /\ next' = Shifted(p.next, Len(later))
      /\ floor' = p.first /\ spoilt' = (spoilt \/ Swamps(q))
      /\ pending' = <<>> /\ loading' = FALSE
      /\ UNCHANGED <<key, older, token, syncVars, fails, excused>>

FirstPageFails(q) ==
  /\ q.what = "open" /\ q.token = token
  /\ pending' = <<>> /\ loading' = FALSE
  /\ excused' = Delivered(q.chat)
  /\ UNCHANGED <<key, shown, next, older, token, syncVars, floor, spoilt>>

\* loadOlder, when the user scrolls up or the entries do not fill the window.
Scroll ==
  /\ ~older /\ ~loading /\ next >= 0 /\ key # NoKey
  /\ older' = TRUE
  /\ calls' = calls \cup {Call("older", key.chat, token, next)}
  /\ UNCHANGED <<goVars, events, key, shown, next, pending, loading, token,
                 syncVars, rows, history>>

BadNotHad(messages) == messages

\* What is not in the view yet.
NotHad(messages) == Chosen(messages, ToSet(messages) \ ToSet(shown))

OlderPage(q) ==
  LET p == PageOf(q) IN
  /\ q.what = "older" /\ q.token = token
  /\ shown' = NotHad(p.messages) \o shown
  /\ next' = p.next
  /\ older' = FALSE
  /\ spoilt' = (spoilt \/ Swamps(q))
  /\ UNCHANGED <<key, pending, loading, token, syncVars, fails, floor,
                 excused>>

OlderPageFails(q) ==
  /\ q.what = "older" /\ q.token = token
  /\ older' = FALSE
  /\ UNCHANGED <<key, shown, next, pending, loading, token, syncVars, floor,
                 excused, spoilt>>

\* finally: a refresh that was asked for meanwhile follows, in the same chat.
SyncAgain(q, tok, rest) ==
  IF syncAgain /\ q.token = tok
  THEN /\ syncing' = TRUE /\ syncAgain' = FALSE
       /\ calls' = rest \cup {Call("sync", key.chat, token, 0)}
  ELSE syncing' = FALSE /\ calls' = rest /\ UNCHANGED syncAgain

\* What comes after an entry of a page.
After(messages, last) ==
  LET at == CHOOSE i \in DOMAIN messages : messages[i] = last
  IN  SubSeq(messages, at + 1, Len(messages))

\* The messages after the last one of the view, or the chat from the start
\* when the page does not have that one.
SyncPage(q) ==
  LET p == PageOf(q)
      rest == calls \ {q}
      last == Last(shown)
      fresh == IF shown = <<>> THEN p.messages ELSE After(p.messages, last)
  IN  /\ q.what = "sync" /\ q.token = token
      /\ IF shown # <<>> /\ last \notin ToSet(p.messages)
         THEN /\ OpenKey(key)
              /\ SyncAgain(q, token + 1,
                          rest \cup {Call("open", key.chat, token + 1, 0)})
         ELSE /\ shown' = shown \o fresh
              /\ next' = Shifted(next, Len(fresh))
              /\ spoilt' = (spoilt \/ Swamps(q))
              /\ UNCHANGED <<key, pending, loading, older, token, floor,
                             excused>>
              /\ SyncAgain(q, token, rest)
      /\ UNCHANGED fails

SyncFails(q) ==
  /\ q.what = "sync" /\ q.token = token
  /\ excused' = excused \cup (Delivered(q.chat) \ ToSet(shown))
  /\ UNCHANGED <<viewVars, floor, spoilt>>
  /\ SyncAgain(q, token, calls \ {q})

BadStale(q) == FALSE

\* The answer is for a chat that is no longer open.
Stale(q) == q.token # token

StaleAnswer(q) ==
  /\ Stale(q)
  /\ IF q.what = "sync" THEN SyncAgain(q, token, calls \ {q})
                        ELSE calls' = calls \ {q} /\ UNCHANGED syncVars
  /\ UNCHANGED <<viewVars, history>>

Answer(q) ==
  /\ q.cut >= 0
  /\ \/ StaleAnswer(q)
     \/ (FirstPage(q) \/ OlderPage(q)) /\ calls' = calls \ {q}
     \/ SyncPage(q)
  /\ UNCHANGED <<goVars, events, rows>>

Fail(q) ==
  /\ fails < MaxFails
  /\ fails' = fails + 1
  /\ \/ (FirstPageFails(q) \/ OlderPageFails(q)) /\ calls' = calls \ {q}
     \/ SyncFails(q)
  /\ UNCHANGED <<goVars, events, rows>>

\* hasSelectedInList
SelectedInList == key.new = (key.chat \in rows)

\* One of the newest entries of the view is the same.
Repeat(e) ==
  \E i \in DOMAIN shown : i > Len(shown) - Window /\ shown[i] = e

\* onMessage for the key that is open.
TakeOwn(e) ==
  /\ IF loading
     THEN pending' = Append(pending, e) /\ UNCHANGED <<shown, next>>
     ELSE /\ IF Repeat(e)
             THEN UNCHANGED <<shown, next>>
             ELSE shown' = Append(shown, e) /\ next' = Shifted(next, 1)
          /\ UNCHANGED pending
  /\ UNCHANGED <<key, loading, older, token, syncVars, calls, excused>>

\* syncNewest
Sync ==
  IF syncing
  THEN syncAgain' = TRUE /\ UNCHANGED <<syncing, calls>>
  ELSE /\ syncing' = TRUE
       /\ calls' = calls \cup {Call("sync", key.chat, token, 0)}
       /\ UNCHANGED syncAgain

\* A message for another key may belong to an open chat without a row.
MaySync == ~SelectedInList /\ ~loading

\* A refresh that was asked for is forgotten when the running one was for
\* another chat.
Lost == \E q \in calls : q.what = "sync" /\ Stale(q)

TakeOther(e) ==
  /\ IF MaySync THEN Sync ELSE UNCHANGED <<syncVars, calls>>
  /\ excused' = IF e \in ToSet(List(Holder(key.chat))) /\ (~MaySync \/ Lost)
                THEN excused \cup {e} ELSE excused
  /\ UNCHANGED viewVars

TakeMessage ==
  LET v == Head(events)
      e == Entry(v.key.chat, v.n)
  IN  /\ events # <<>> /\ v.kind = "message"
      /\ events' = Tail(events)
      /\ IF key = NoKey THEN UNCHANGED <<viewVars, syncVars, calls, excused>>
         ELSE IF v.key = key THEN TakeOwn(e) ELSE TakeOther(e)
      /\ UNCHANGED <<goVars, rows, fails, floor, spoilt>>

TakeChats ==
  /\ events # <<>> /\ Head(events).kind = "chats"
  /\ events' = Tail(events)
  /\ rows' = Head(events).rows
  /\ UNCHANGED <<goVars, calls, viewVars, syncVars, history>>

----------------------------------------------------------------------------

GoStep == EmitMessage \/ EmitChats \/ \E q \in calls : Read(q)
PageStep == TakeMessage \/ TakeChats

Next ==
  \/ \E c \in Chat : Add(c) \/ Regroup(c) \/ Open(c)
  \/ \E c, d \in Chat : Join(d, c)
  \/ GoStep \/ PageStep \/ Scroll
  \/ \E q \in calls : Answer(q) \/ Fail(q)

\* Go answers calls and emits, and the page takes what comes.
Fairness ==
  /\ WF_vars(GoStep) /\ WF_vars(PageStep)
  /\ WF_vars(\E q \in calls : Answer(q))

Spec == Init /\ [][Next]_vars /\ Fairness

----------------------------------------------------------------------------
(* Properties.                                                              *)

EntryType == [chat : Chat, n : Nat]

\* The types of the variables.
TypeOK ==
  /\ log \in [Chat -> Nat] /\ moved \subseteq Chat /\ merged \in Nat
  /\ mix \in [Chat -> Seq(EntryType)] /\ into \in [Chat -> Chat \cup {None}]
  /\ adding \in Chat \cup {None} /\ listDue \in BOOLEAN
  /\ \A i \in DOMAIN events : events[i].kind \in {"message", "chats"}
  /\ \A q \in calls : q.what \in {"open", "older", "sync"} /\ q.chat \in Chat
  /\ key = NoKey \/ key \in [chat : Chat, new : BOOLEAN]
  /\ shown \in Seq(EntryType) /\ pending \in Seq(EntryType)
  /\ next = NoPage \/ next \in Nat \ {0}
  /\ {loading, older, syncing, syncAgain, spoilt} \subseteq BOOLEAN
  /\ token \in Nat /\ rows \subseteq Chat
  /\ fails \in 0..MaxFails /\ floor \in Nat /\ excused \subseteq EntryType

\* Go's list of the open chat.
Now == List(Holder(key.chat))

\* The view shows only entries of the open chat, in Go's order and none twice,
\* whatever calls and events overtake each other (open, loadOlder, appendNew,
\* syncNewest), for a chat that was regrouped or merged before as well.  Not
\* so until the chat is opened again, once entries were merged into or out of
\* it while it was open, entries were on their way when it was opened after a
\* merge, more were on their way at once than appendNew looks back, or a call
\* was overtaken by more than a page.
InOrderOnce ==
  ~spoilt =>
    \A j \in DOMAIN shown : \E n \in DOMAIN Now :
      /\ shown[j] = Now[n]
      /\ \A i \in 1..(j - 1) : \E m \in 1..(n - 1) : shown[i] = Now[m]

\* Nothing is on its way between Go and the page.
AtRest == calls = {} /\ events = <<>> /\ adding = None

\* Entries that arrive while the chat is open are shown, unless a call failed,
\* they came under another key while the list still had the old row, while the
\* first page was loading or while a refresh of the chat before was running,
\* or the order is not promised either.
ArrivalsShown ==
  AtRest /\ key # NoKey /\ ~spoilt =>
    \A n \in floor..Len(Now) : Now[n] \in ToSet(shown) \cup excused

\* The entries of the view have no gap and end at the newest one: "each one
\* moves the next older page by one".
NoGap ==
  AtRest /\ key # NoKey /\ fails = 0 /\ moved = {} /\ merged = 0 =>
    \A n \in 1..log[key.chat] :
      (\E e \in ToSet(shown) : e.n < n) => Entry(key.chat, n) \in ToSet(shown)

\* The page does not stay busy: every refresh and every page that is loading
\* comes to its end.
Busy == loading \/ older \/ syncing
ViewComesToRest == Busy ~> ~Busy
=============================================================================
