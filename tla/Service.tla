------------------------------- MODULE Service ------------------------------
(***************************************************************************)
(* gui: the life of the receiver inside the desktop application.  App owns *)
(* the running node, Service starts, restarts and quits it, holds the      *)
(* transfer manager, and puts what both report into one queue that one     *)
(* goroutine drains into the chats and the page.                           *)
(*                                                                         *)
(* startup, SaveSettings, Retry and quit run in goroutines of their own    *)
(* and meet at lifeMu and at App's mutex, which is held while a node is    *)
(* stopped.  A node is used here through what PeerList shows of it (no     *)
(* event once Wait has returned), a manager through what Outbox promises.  *)
(***************************************************************************)
EXTENDS Integers, SequencesExt

CONSTANTS
  Startup,   \* the startup goroutine
  Saver,     \* SaveSettings calls that pass the checks before lifeMu
  Retrier,   \* Retry calls
  Stopper,   \* the goroutine that runs App.Stop for quit
  Sent,      \* entries of sends
  Received,  \* entries of received files and texts
  None,
  Quits,       \* whether the application quits
  MaxQueue,    \* bound: how many work items wait for the drain goroutine
  MaxGiveUps   \* bound: how many bounded waits end before what they wait for

\* A node is named after the call that started it, a manager after the call
\* that installed it.
Manager == {Startup} \cup Saver
Caller == Manager \cup Retrier

ASSUME ThreadsApart ==
  /\ Startup \notin Saver \cup Retrier /\ Saver \cap Retrier = {}
  /\ Stopper \notin Caller /\ None \notin Caller \cup {Stopper}
ASSUME EntriesApart == Sent \cap Received = {}
ASSUME Bounds ==
  Quits \in BOOLEAN /\ MaxQueue \in Nat \ {0} /\ MaxGiveUps \in Nat

Entry == Sent \cup Received

VARIABLES
  pc,        \* [Caller -> where the call is]
  old,       \* [Saver -> the manager it replaces]
  lifeMu,    \* the call that holds it, or None
  closed,    \* no call may start the receiver any more
  quitting,
  quit,      \* where quit is
  locker,    \* the goroutine of quit that sets closed: "none", "asks", "done"
  stopper,   \* the one that stops the node: "none", "asks", "waits", "done"
  last,      \* the manager quit closes
  appMu,     \* who holds App's mutex, or None
  run, cur,  \* App.run and App.cur: a node or None
  state,     \* App.state
  node,      \* [Caller -> "none", "up", "ending", "closed"]
  waiter,    \* [Caller -> the goroutine that waits for the node:
             \* "none", "waits", "signalled", "over"]
  greeted,   \* nodes that have reported their first peer list
  mgr,       \* the current manager, or None
  open,      \* managers that accept sends
  stage,     \* [Entry -> how far it is]
  owner,     \* [Sent -> the manager the send was given to]
  via,       \* [Entry -> the node it was recorded by, None without one]
  file,      \* entries in the history file
  queue, qclosed,
  drain,     \* "runs" or "ended"
  shown,     \* entries of the chats, in the order they were added
  peers,     \* whose peer list the chats have: a node's, "saved" or None
  page,      \* what the page was told: the state, and the sends that are done
  gaveUp     \* history variable: how many bounded waits of quit or SaveSettings
             \* ended before what they waited for

lifeVars  == <<pc, old, lifeMu, closed>>
quitVars  == <<quitting, quit, locker, stopper, last>>
appVars   == <<appMu, run, cur, state>>
nodeVars  == <<node, waiter, greeted>>
mgrVars   == <<mgr, open>>
entryVars == <<stage, owner, via, file>>
queueVars == <<queue, qclosed>>
pageVars  == <<drain, shown, peers, page>>
vars == <<pc, old, lifeMu, closed, quitting, quit, locker, stopper, last,
          appMu, run, cur, state, node, waiter, greeted, mgr, open, stage,
          owner, via, file, queue, qclosed, drain, shown, peers, page, gaveUp>>

\* The history file holds entries of an earlier session.
Init ==
  /\ pc = [c \in Caller |-> IF c = Startup THEN "load" ELSE "idle"]
  /\ old = [c \in Saver |-> None]
  /\ lifeMu = None /\ closed = FALSE
  /\ quitting = FALSE /\ quit = "idle" /\ locker = "none" /\ stopper = "none"
  /\ last = None
  /\ appMu = None /\ run = None /\ cur = None /\ state = "starting"
  /\ node = [c \in Caller |-> "none"]
  /\ waiter = [c \in Caller |-> "none"]
  /\ greeted = {}
  /\ mgr = None /\ open = {}
  /\ file \in SUBSET Received /\ IsFiniteSet(file)
  /\ stage = [e \in Entry |-> IF e \in file THEN "over" ELSE "none"]
  /\ owner = [e \in Sent |-> None]
  /\ via = [e \in Entry |-> None]
  /\ queue = <<>> /\ qclosed = FALSE
  /\ drain = "runs" /\ shown = <<>> /\ peers = None
  /\ page = [state |-> "starting", done |-> {}]
  /\ gaveUp = 0

----------------------------------------------------------------------------
(* The queue.                                                               *)

Work(kind, x) == [kind |-> kind, of |-> x]

\* push does nothing after close.
PushAll(works) ==
  /\ qclosed \/ Len(queue) + Len(works) <= MaxQueue
  /\ queue' = IF qclosed THEN queue ELSE queue \o works
Push(kind, x) == PushAll(<<Work(kind, x)>>)

\* handle: what the one goroutine that drains the queue does with a work item.
\* The throttle of the chats event and the notifications are left out.
Handle ==
  LET w == Head(queue) IN
  /\ drain = "runs"
  /\ queue # <<>>
  /\ queue' = Tail(queue)
  /\ shown' = IF w.kind = "entry" THEN Append(shown, w.of) ELSE shown
  /\ peers' = IF w.kind = "peers" THEN w.of ELSE peers
  /\ page' = CASE w.kind = "state" -> [page EXCEPT !.state = w.of]
               [] w.kind = "done"  -> [page EXCEPT !.done = @ \cup {w.of}]
               [] OTHER -> page
  /\ UNCHANGED <<lifeVars, quitVars, appVars, nodeVars, mgrVars, entryVars,
                 qclosed, drain, gaveUp>>

DrainEnds ==
  /\ drain = "runs"
  /\ queue = <<>> /\ qclosed
  /\ drain' = "ended"
  /\ UNCHANGED <<lifeVars, quitVars, appVars, nodeVars, mgrVars, entryVars,
                 queueVars, shown, peers, page, gaveUp>>

----------------------------------------------------------------------------
(* A node, and the goroutine that waits for it.                             *)

\* The first event of a node is its peer list.
Greet(n) ==
  /\ node[n] \in {"up", "ending"}
  /\ n \notin greeted
  /\ greeted' = greeted \cup {n}
  /\ Push("peers", n)
  /\ UNCHANGED <<lifeVars, quitVars, appVars, node, waiter, mgrVars,
                 entryVars, qclosed, pageVars, gaveUp>>

\* Its HTTP server fails.
Fail(n) ==
  /\ node[n] = "up"
  /\ node' = [node EXCEPT ![n] = "ending"]
  /\ UNCHANGED <<lifeVars, quitVars, appVars, waiter, greeted, mgrVars,
                 entryVars, queueVars, pageVars, gaveUp>>

\* Its emitter is closed, and Wait returns.
Close(n) ==
  /\ node[n] = "ending"
  /\ n \in greeted
  /\ node' = [node EXCEPT ![n] = "closed"]
  /\ UNCHANGED <<lifeVars, quitVars, appVars, waiter, greeted, mgrVars,
                 entryVars, queueVars, pageVars, gaveUp>>

BadMaySignal == appMu = None

\* It signals before it takes the mutex: Stop holds that while it waits.
MaySignal == TRUE

Signal(n) ==
  /\ waiter[n] = "waits"
  /\ node[n] = "closed"
  /\ MaySignal
  /\ waiter' = [waiter EXCEPT ![n] = "signalled"]
  /\ UNCHANGED <<lifeVars, quitVars, appVars, node, greeted, mgrVars,
                 entryVars, queueVars, pageVars, gaveUp>>

BadForgets(n) ==
  /\ run' = IF run = n THEN None ELSE run
  /\ cur' = IF run = n THEN None ELSE cur
  /\ state' = IF run = n THEN "failed" ELSE state
  /\ UNCHANGED queue

\* The node ended by itself, unless Stop or Restart ended it.
Forgets(n) ==
  IF run = n
  THEN /\ run' = None /\ cur' = None
       /\ state' = "failed" /\ Push("state", "failed")
  ELSE UNCHANGED <<run, cur, state, queue>>

Forget(n) ==
  /\ waiter[n] = "signalled"
  /\ appMu = None
  /\ waiter' = [waiter EXCEPT ![n] = "over"]
  /\ Forgets(n)
  /\ UNCHANGED <<lifeVars, quitVars, appMu, node, greeted, mgrVars, entryVars,
                 qclosed, pageVars, gaveUp>>

Stopped(n) == waiter[n] \in {"signalled", "over"}

\* stopLocked up to its wait: the node is hidden before it is cancelled.
Cancel(n) ==
  /\ cur' = None
  /\ node' = [node EXCEPT ![n] = IF @ = "up" THEN "ending" ELSE @]

----------------------------------------------------------------------------
(* startup, SaveSettings and Retry.                                         *)

Go(c, where) == pc' = [pc EXCEPT ![c] = where]

\* startup: the history is loaded before anything else can add to the chats.
Load ==
  /\ pc[Startup] = "load"
  /\ shown' = SetToSeq(file)
  /\ Go(Startup, "lock")
  /\ UNCHANGED <<old, lifeMu, closed, quitVars, appVars, nodeVars, mgrVars,
                 entryVars, queueVars, drain, peers, page, gaveUp>>

\* ready: startup has finished.
Call(c) ==
  /\ c # Startup
  /\ pc[c] = "idle"
  /\ pc[Startup] = "done"
  /\ Go(c, "lock")
  /\ UNCHANGED <<old, lifeMu, closed, quitVars, appVars, nodeVars, mgrVars,
                 entryVars, queueVars, pageVars, gaveUp>>

BadMayStart == TRUE
MayStart == ~(closed \/ quitting)

Lock(c) ==
  /\ pc[c] = "lock"
  /\ lifeMu = None
  /\ IF MayStart
     THEN /\ lifeMu' = c
          /\ Go(c, IF c \in Saver THEN "save" ELSE "start")
     ELSE /\ Go(c, "done")
          /\ UNCHANGED lifeMu
  /\ UNCHANGED <<old, closed, quitVars, appVars, nodeVars, mgrVars, entryVars,
                 queueVars, pageVars, gaveUp>>

\* SaveSettings returns when nothing changed or the file cannot be written.
Unchanged(c) ==
  /\ pc[c] = "save"
  /\ lifeMu' = None
  /\ Go(c, "done")
  /\ UNCHANGED <<old, closed, quitVars, appVars, nodeVars, mgrVars, entryVars,
                 queueVars, pageVars, gaveUp>>

\* The old manager is taken away, and its Close begins.
Replace(c) ==
  /\ pc[c] = "save"
  /\ old' = [old EXCEPT ![c] = mgr]
  /\ mgr' = None
  /\ open' = open \ {mgr}
  /\ Go(c, "closing")
  /\ UNCHANGED <<lifeMu, closed, quitVars, appVars, nodeVars, entryVars,
                 queueVars, pageVars, gaveUp>>

Busy == {"sending", "picked", "stored", "unstored", "noted"}
Drained(m) == \A e \in Sent : owner[e] = m => stage[e] \notin Busy

GivesUp == gaveUp < MaxGiveUps /\ gaveUp' = gaveUp + 1

\* bounded: the wait for Close, or its end by the clock.
CloseOld(c) ==
  /\ pc[c] = "closing"
  /\ Drained(old[c])
  /\ Go(c, "restart")
  /\ UNCHANGED <<old, lifeMu, closed, quitVars, appVars, nodeVars, mgrVars,
                 entryVars, queueVars, pageVars, gaveUp>>

GiveUpOld(c) ==
  /\ pc[c] = "closing"
  /\ ~Drained(old[c])
  /\ GivesUp
  /\ Go(c, "restart")
  /\ UNCHANGED <<old, lifeMu, closed, quitVars, appVars, nodeVars, mgrVars,
                 entryVars, queueVars, pageVars>>

\* Restart: Stop and Start under one hold of the mutex.
Restart(c) ==
  /\ pc[c] = "restart"
  /\ appMu = None
  /\ appMu' = c
  /\ IF run = None
     THEN Go(c, "start") /\ UNCHANGED <<cur, node>>
     ELSE Go(c, "stopping") /\ Cancel(run)
  /\ UNCHANGED <<old, lifeMu, closed, quitVars, run, state, waiter, greeted,
                 mgrVars, entryVars, queueVars, pageVars, gaveUp>>

StopOld(c) ==
  /\ pc[c] = "stopping"
  /\ Stopped(run)
  /\ run' = None
  /\ state' = "stopped" /\ Push("state", "stopped")
  /\ Go(c, "start")
  /\ UNCHANGED <<old, lifeMu, closed, quitVars, appMu, cur, nodeVars, mgrVars,
                 entryVars, qclosed, pageVars, gaveUp>>

\* startLocked: it does nothing while a node runs; the node starts, and may
\* report events before App knows it, or it cannot start.
Start(c) ==
  /\ pc[c] = "start"
  /\ appMu \in {None, c}
  /\ \/ /\ run # None
        /\ appMu' = None
        /\ Go(c, "check")
        /\ UNCHANGED <<node, state, queue>>
     \/ /\ run = None
        /\ node' = [node EXCEPT ![c] = "up"]
        /\ appMu' = c
        /\ Go(c, "publish")
        /\ UNCHANGED <<state, queue>>
     \/ /\ run = None
        /\ state' = "failed" /\ Push("state", "failed")
        /\ appMu' = None
        /\ Go(c, "check")
        /\ UNCHANGED node
  /\ UNCHANGED <<old, lifeMu, closed, quitVars, run, cur, waiter, greeted,
                 mgrVars, entryVars, qclosed, pageVars, gaveUp>>

Publish(c) ==
  /\ pc[c] = "publish"
  /\ run' = c /\ cur' = c
  /\ state' = "running" /\ Push("state", "running")
  /\ waiter' = [waiter EXCEPT ![c] = "waits"]
  /\ appMu' = None
  /\ Go(c, "check")
  /\ UNCHANGED <<old, lifeMu, closed, quitVars, node, greeted, mgrVars,
                 entryVars, qclosed, pageVars, gaveUp>>

BadInstalls(c) == TRUE
Installs(c) == c \in Manager

\* Without a running receiver the saved peer list is reported, if it can be
\* read.  Retry keeps the manager.
Check(c) ==
  /\ pc[c] = "check"
  /\ appMu = None
  /\ \/ state # "running" /\ Push("peers", "saved")
     \/ UNCHANGED queue
  /\ IF Installs(c)
     THEN Go(c, "install") /\ UNCHANGED lifeMu
     ELSE Go(c, "done") /\ lifeMu' = None
  /\ UNCHANGED <<old, closed, quitVars, appVars, nodeVars, mgrVars, entryVars,
                 qclosed, pageVars, gaveUp>>

Install(c) ==
  /\ pc[c] = "install"
  /\ mgr' = c
  /\ open' = open \cup {c}
  /\ lifeMu' = None
  /\ Go(c, "done")
  /\ UNCHANGED <<old, closed, quitVars, appVars, nodeVars, entryVars,
                 queueVars, pageVars, gaveUp>>

----------------------------------------------------------------------------
(* quit, and the goroutines of its bounded waits.                           *)

Quit ==
  /\ quit = "idle" /\ Quits
  /\ quitting' = TRUE
  /\ quit' = "locking" /\ locker' = "asks"
  /\ UNCHANGED <<lifeVars, stopper, last, appVars, nodeVars, mgrVars,
                 entryVars, queueVars, pageVars, gaveUp>>

SetClosed ==
  /\ locker = "asks"
  /\ lifeMu = None
  /\ closed' = TRUE
  /\ locker' = "done"
  /\ UNCHANGED <<pc, old, lifeMu, quitting, quit, stopper, last, appVars,
                 nodeVars, mgrVars, entryVars, queueVars, pageVars, gaveUp>>

\* What each wait of quit waits for.
Over(where) ==
  CASE where = "locking"  -> locker = "done"
    [] where = "closing"  -> Drained(last)
    [] where = "stopping" -> stopper = "done"
    [] where = "flushing" -> drain = "ended"
    [] OTHER -> FALSE

TakeManager ==
  /\ quit = "locking"
  /\ quit' = "closing"
  /\ last' = mgr /\ mgr' = None /\ open' = open \ {mgr}
  /\ UNCHANGED <<quitting, locker, stopper, queueVars>>

StopReceiver ==
  /\ quit = "closing"
  /\ quit' = "stopping" /\ stopper' = "asks"
  /\ UNCHANGED <<quitting, locker, last, mgrVars, queueVars>>

CloseQueue ==
  /\ quit = "stopping"
  /\ quit' = "flushing" /\ qclosed' = TRUE
  /\ UNCHANGED <<quitting, locker, stopper, last, mgrVars, queue>>

EndQuit ==
  /\ quit = "flushing"
  /\ quit' = "done"
  /\ UNCHANGED <<quitting, locker, stopper, last, mgrVars, queueVars>>

QuitGoesOn ==
  /\ TakeManager \/ StopReceiver \/ CloseQueue \/ EndQuit
  /\ UNCHANGED <<lifeVars, appVars, nodeVars, entryVars, pageVars>>

\* bounded: the wait is over, or its time is.
QuitWaits == Over(quit) /\ QuitGoesOn /\ UNCHANGED gaveUp
QuitGivesUp == ~Over(quit) /\ QuitGoesOn /\ GivesUp

\* App.Stop, in a goroutine that goes on when quit gives up.
StopBegins ==
  /\ stopper = "asks"
  /\ appMu = None
  /\ IF run = None
     THEN stopper' = "done" /\ UNCHANGED <<appMu, cur, node>>
     ELSE stopper' = "waits" /\ appMu' = Stopper /\ Cancel(run)
  /\ UNCHANGED <<lifeVars, quitting, quit, locker, last, run, state, waiter,
                 greeted, mgrVars, entryVars, queueVars, pageVars, gaveUp>>

StopEnds ==
  /\ stopper = "waits"
  /\ Stopped(run)
  /\ run' = None
  /\ state' = "stopped" /\ Push("state", "stopped")
  /\ appMu' = None
  /\ stopper' = "done"
  /\ UNCHANGED <<lifeVars, quitting, quit, locker, last, cur, nodeVars,
                 mgrVars, entryVars, qclosed, pageVars, gaveUp>>

----------------------------------------------------------------------------
(* Sends and arrivals.                                                      *)

EntryStep(e, where) ==
  /\ stage' = [stage EXCEPT ![e] = where]
  /\ UNCHANGED <<lifeVars, quitVars, appVars, nodeVars, mgrVars, qclosed,
                 pageVars, gaveUp>>

\* manager: a send gets hold of the current manager,
Hold(e) ==
  /\ stage[e] = "none"
  /\ mgr # None
  /\ owner' = [owner EXCEPT ![e] = mgr]
  /\ EntryStep(e, "held")
  /\ UNCHANGED <<via, file, queue>>

\* and gives it the text or the paths, which a closed manager refuses.
Accept(e) ==
  /\ stage[e] = "held"
  /\ EntryStep(e, IF owner[e] \in open THEN "sending" ELSE "refused")
  /\ UNCHANGED <<owner, via, file, queue>>

\* The transfer has ended. Record reads the current node once,
Pick(e) ==
  /\ stage[e] = "sending"
  /\ via' = [via EXCEPT ![e] = cur]
  /\ EntryStep(e, "picked")
  /\ UNCHANGED <<owner, file, queue>>

\* writes the entry through it or directly, or fails to,
Store(e) ==
  /\ stage[e] = "picked"
  /\ \/ file' = file \cup {e} /\ EntryStep(e, "stored")
     \/ UNCHANGED file /\ EntryStep(e, "unstored")
  /\ UNCHANGED <<owner, via, queue>>

BadReports(e) == via[e] # None /\ node[via[e]] = "up"

\* A node drops the event once it has ended.
Reports(e) == via[e] # None /\ node[via[e]] # "closed"

BadNotesNone(e) == IF stage[e] = "unstored" \/ Reports(e) THEN <<e>> ELSE <<>>

\* The node's event, record without a node, or onUnrecorded: the entries that
\* are queued for the chats.
Notes(e) ==
  IF stage[e] = "unstored" \/ via[e] = None \/ Reports(e) THEN <<e>> ELSE <<>>

Show(e) ==
  /\ stage[e] \in {"stored", "unstored"}
  /\ PushAll([i \in DOMAIN Notes(e) |-> Work("entry", Notes(e)[i])])
  /\ EntryStep(e, "noted")
  /\ UNCHANGED <<owner, via, file>>

\* OnUpdate with done comes after the entry.
Finish(e) ==
  /\ stage[e] = "noted"
  /\ Push("done", e)
  /\ EntryStep(e, "over")
  /\ UNCHANGED <<owner, via, file>>

\* A receiving node stores an entry, or fails to, and then reports it.
Arrive(e, n) ==
  /\ stage[e] = "none"
  /\ node[n] \in {"up", "ending"}
  /\ via' = [via EXCEPT ![e] = n]
  /\ file' \in {file, file \cup {e}}
  /\ EntryStep(e, "kept")
  /\ UNCHANGED <<owner, queue>>

Report(e) ==
  /\ stage[e] = "kept"
  /\ IF Reports(e) THEN Push("entry", e) ELSE UNCHANGED queue
  /\ EntryStep(e, "over")
  /\ UNCHANGED <<owner, via, file>>

----------------------------------------------------------------------------
CallStep(c) ==
  \/ Call(c) \/ Lock(c) \/ Unchanged(c) \/ Replace(c) \/ CloseOld(c)
  \/ GiveUpOld(c) \/ Restart(c) \/ StopOld(c) \/ Start(c) \/ Publish(c)
  \/ Check(c) \/ Install(c)

NodeStep(n) == Greet(n) \/ Fail(n) \/ Close(n) \/ Signal(n) \/ Forget(n)

QuitStep ==
  \/ Quit \/ SetClosed \/ QuitWaits \/ QuitGivesUp \/ StopBegins \/ StopEnds

SendStep(e) ==
  Hold(e) \/ Accept(e) \/ Pick(e) \/ Store(e) \/ Show(e) \/ Finish(e)

ReceiveStep(e) == (\E n \in Caller : Arrive(e, n)) \/ Report(e)

Next ==
  \/ Handle \/ DrainEnds \/ Load \/ QuitStep
  \/ \E c \in Caller : CallStep(c) \/ NodeStep(c)
  \/ \E e \in Sent : SendStep(e)
  \/ \E e \in Received : ReceiveStep(e)

\* Every goroutine that can run does, and a free lock is taken.  Nothing says
\* that a wait ends by its time, that a node fails, or that anyone calls; a
\* transfer must end only when its manager was closed, which cancels it.
Fairness ==
  /\ WF_vars(Handle) /\ WF_vars(DrainEnds) /\ WF_vars(Load)
  /\ WF_vars(SetClosed) /\ WF_vars(QuitWaits)
  /\ WF_vars(StopBegins) /\ WF_vars(StopEnds)
  /\ \A c \in Caller :
       /\ WF_vars(Lock(c)) /\ WF_vars(Unchanged(c) \/ Replace(c))
       /\ WF_vars(CloseOld(c)) /\ WF_vars(Restart(c)) /\ WF_vars(StopOld(c))
       /\ WF_vars(Start(c)) /\ WF_vars(Publish(c)) /\ WF_vars(Check(c))
       /\ WF_vars(Install(c))
       /\ WF_vars(Greet(c)) /\ WF_vars(Close(c)) /\ WF_vars(Signal(c))
       /\ WF_vars(Forget(c))
  /\ \A e \in Sent :
       /\ WF_vars(Accept(e)) /\ WF_vars(owner[e] \notin open /\ Pick(e))
       /\ WF_vars(Store(e)) /\ WF_vars(Show(e)) /\ WF_vars(Finish(e))
  /\ \A e \in Received : WF_vars(Report(e))

Spec == Init /\ [][Next]_vars /\ Fairness

----------------------------------------------------------------------------
(* Properties.                                                              *)

WorkItem ==
  [kind : {"entry"}, of : Entry] \cup [kind : {"done"}, of : Sent]
    \cup [kind : {"peers"}, of : Caller \cup {"saved"}]
    \cup [kind : {"state"}, of : {"running", "stopped", "failed"}]

\* Every variable has its type; in particular the manager and the managers
\* that accept sends are the ones startup and SaveSettings installed, never
\* one of Retry.
TypeOK ==
  /\ pc \in [Caller -> {"idle", "load", "lock", "save", "closing", "restart",
                        "stopping", "start", "publish", "check", "install",
                        "done"}]
  /\ old \in [Saver -> Manager \cup {None}]
  /\ lifeMu \in Caller \cup {None}
  /\ closed \in BOOLEAN /\ quitting \in BOOLEAN
  /\ quit \in {"idle", "locking", "closing", "stopping", "flushing", "done"}
  /\ locker \in {"none", "asks", "done"}
  /\ stopper \in {"none", "asks", "waits", "done"}
  /\ appMu \in Caller \cup {Stopper, None}
  /\ run \in Caller \cup {None} /\ cur \in {run, None}
  /\ state \in {"starting", "running", "stopped", "failed"}
  /\ node \in [Caller -> {"none", "up", "ending", "closed"}]
  /\ waiter \in [Caller -> {"none", "waits", "signalled", "over"}]
  /\ greeted \in SUBSET Caller
  /\ mgr \in Manager \cup {None} /\ last \in Manager \cup {None}
  /\ open \in SUBSET Manager
  /\ stage \in [Entry -> Busy \cup {"none", "held", "refused", "kept", "over"}]
  /\ owner \in [Sent -> Manager \cup {None}]
  /\ via \in [Entry -> Caller \cup {None}]
  /\ file \in SUBSET Entry
  /\ queue \in Seq(WorkItem) /\ qclosed \in BOOLEAN
  /\ drain \in {"runs", "ended"}
  /\ shown \in Seq(Entry)
  /\ peers \in Caller \cup {"saved", None}
  /\ page \in [state : {"starting", "running", "stopped", "failed"},
               done : SUBSET Sent]
  /\ gaveUp \in 0 .. MaxGiveUps

QueuedAt == {i \in DOMAIN queue : queue[i].kind = "entry"}
Queued == {queue[i].of : i \in QueuedAt}

\* No entry is added to the chats twice: not by the load and an event, not by
\* record and the node's event.  An entry that was reported is in the chats or
\* on its way there, and a send the page was told is done is in the chats,
\* unless the node that recorded the entry had ended, in which case its event
\* was dropped (start, record, Record, stopLocked).
EntriesShown ==
  /\ IsInjective(shown) /\ ToSet(shown) \cap Queued = {}
  /\ \A i, k \in QueuedAt : queue[i].of = queue[k].of => i = k
  /\ \A e \in Entry :
       LET lost == via[e] # None /\ node[via[e]] = "closed" IN
       /\ stage[e] = "over" /\ pc[Startup] # "load" /\ ~qclosed
            => lost \/ e \in ToSet(shown) \cup Queued
       /\ e \in page.done => lost \/ e \in ToSet(shown)

\* Once the queue has been drained, the page shows App's state and the chats
\* have the peer list of the running node, whatever order the node, its
\* waiter, a stop and a start reported in (setStateLocked, handle).
PageKeepsUp ==
  queue = <<>> /\ ~qclosed =>
    /\ page.state = state
    /\ run # None /\ run \in greeted => peers = run

\* When quit has ended without giving a wait up, no receiver runs and none is
\* ending, no send goes on, no manager is left, and everything reported was
\* handled (quit).
CleanQuit ==
  quit = "done" /\ gaveUp = 0 =>
    /\ run = None
    /\ \A n \in Caller : node[n] \in {"none", "closed"}
    /\ mgr = None /\ open = {}
    /\ \A e \in Sent : stage[e] \notin Busy
    /\ queue = <<>> /\ drain = "ended"

\* startup, Retry, SaveSettings and quit end, and none of them needs the end
\* of a bounded wait by the clock for it: the lock Stop holds while it waits
\* for a node is not needed for that node's end (startLocked, stopLocked).
CallsEnd ==
  /\ \A c \in Caller : pc[c] # "idle" ~> pc[c] = "done"
  /\ quit # "idle" ~> quit = "done"

\* "The running node records it and reports it as an event, and viaNode is
\* true. Without a node the entry is written directly and nothing is reported,
\* so the caller must show it." (gui/app.go:163-165): so an entry that was
\* stored while nothing quits is shown.
RecordedIsShown ==
  \A e \in Sent :
    stage[e] = "over" /\ e \in file /\ ~quitting /\ gaveUp = 0
      => e \in ToSet(shown) \cup Queued
=============================================================================
