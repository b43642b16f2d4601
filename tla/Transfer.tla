------------------------------ MODULE Transfer ------------------------------
(***************************************************************************)
(* internal/transfer: the Manager that runs the GUI's sends.               *)
(*                                                                         *)
(* SendPaths registers a batch of items, announces each as queued, and     *)
(* starts one worker goroutine that sends them in order.  SendText runs in *)
(* its caller's goroutine.  Cancel and Close may come at any moment, and   *)
(* the HTTP transport may call the progress callback of an item after its  *)
(* send has returned.  A step of this module is what the code does under   *)
(* one lock or between two points where another goroutine can be seen.     *)
(***************************************************************************)
EXTENDS Integers, Sequences

CONSTANTS
  Batch,     \* SendPaths calls
  BatchLen,  \* [Batch -> Nat]: how many paths a call passes
  Text,      \* SendText calls
  Closer,    \* Close calls (Close may be called more than once)
  Size,      \* content bytes of an item, once examined
  Wire       \* bytes of its request body: the tar stream of a folder, or a
             \* file that grew since it was examined

ASSUME BatchLenType == BatchLen \in [Batch -> Nat]
ASSUME SizeType == Size \in Nat /\ Wire \in Nat
ASSUME CallsDistinct == Batch \cap Text = {}

Item == UNION {{b} \X (1..BatchLen[b]) : b \in Batch}
ItemsOf(b) == {b} \X (1..BatchLen[b])

ASSUME ItemsAreNotTexts == Item \cap Text = {}

Status == {"ok", "failed", "cancelled"}
NoStatus == "none"

VARIABLES
  closed,    \* Manager.closed
  stopped,   \* Manager.ctx is done
  items,     \* keys of Manager.items
  wg,        \* Manager.wg: who still holds a count of it
  batch,     \* [Batch -> stage of the SendPaths call and its worker]
  pos,       \* [Batch -> index the announcing loop or the worker is at]
  loc,       \* [Batch -> locator of the worker]
  present,   \* [Batch -> whether an uncancelled lookup finds the peer]
  phase,     \* [Item -> where process() is with the item]
  cancel,    \* [Item -> "none", "queued" (cancelQueued), "armed" (item.cancel
             \* set) or "fired" (item.cancel called)]
  entry,     \* [Item -> status of the history entry built by send()]
  base,      \* [Item -> Total of item.base]
  sent,      \* [Item -> item.sent]
  kind,      \* [Item -> what os.Stat found: "none", "file" or "folder"]
  opened,    \* items whose request was made: the transport may read the body
  wire,      \* [Item -> bytes the transport has read of the body]
  shown,     \* [Item -> last Update given to OnUpdate]
  text,      \* [Text -> stage of the SendText call]
  expired,   \* texts whose TextTimeout has passed
  log,       \* [Item and Text -> statuses recorded for it, in order]
  closer     \* [Closer -> stage of the Close call]

mgrVars  == <<closed, stopped, items, wg>>
batchVars == <<batch, pos, loc, present>>
ctlVars  == <<phase, cancel, entry>>
viewVars == <<kind, base, shown>>
bodyVars == <<opened, wire, sent>>
itemVars == <<ctlVars, viewVars, bodyVars>>
textVars == <<text, expired>>
vars == <<closed, stopped, items, wg, batch, pos, loc, present, phase, cancel,
          entry, base, sent, kind, opened, wire, shown, text, expired, log,
          closer>>

\* What a UI knows of an item: an Update, or NoUpdate before the first.
Update == [seen : BOOLEAN, sent : Nat, total : Nat, done : BOOLEAN,
           status : Status \cup {NoStatus}]
NoUpdate == [seen |-> FALSE, sent |-> 0, total |-> 0, done |-> FALSE,
             status |-> NoStatus]
Running(s, t) == [seen |-> TRUE, sent |-> s, total |-> t, done |-> FALSE,
                  status |-> NoStatus]
Ended(s, t, o) == [seen |-> TRUE, sent |-> s, total |-> t, done |-> TRUE,
                   status |-> o]

Init ==
  /\ closed = FALSE /\ stopped = FALSE /\ items = {} /\ wg = {}
  /\ batch = [b \in Batch |-> "idle"]
  /\ pos = [b \in Batch |-> 1]
  /\ loc = [b \in Batch |-> "unknown"]
  /\ present \in [Batch -> BOOLEAN]
  /\ phase = [i \in Item |-> "none"]
  /\ cancel = [i \in Item |-> "none"]
  /\ entry = [i \in Item |-> NoStatus]
  /\ base = [i \in Item |-> 0]
  /\ sent = [i \in Item |-> 0]
  /\ kind = [i \in Item |-> "none"]
  /\ opened = {}
  /\ wire = [i \in Item |-> 0]
  /\ shown = [i \in Item |-> NoUpdate]
  /\ text = [t \in Text |-> "idle"]
  /\ expired = {}
  /\ log = [x \in Item \cup Text |-> <<>>]
  /\ closer = [c \in Closer |-> "idle"]

----------------------------------------------------------------------------
(* Helpers of the code.                                                     *)

(* A definition named "Bad..." is a mutation of the one that follows it: the  *)
(* bug a property of this module is meant to catch.                         *)

BadEmitAfterDone(i, u) == shown' = [shown EXCEPT ![i] = u]

\* emitLocked: report u unless the item is already done.
Emit(i, u) ==
  shown' = IF shown[i].done THEN shown ELSE [shown EXCEPT ![i] = u]

BadCtxWithoutParent(i) == cancel[i] = "fired"

\* The item's context: cancelled by Cancel or, through its parent, by Close.
CtxDone(i) == stopped \/ cancel[i] = "fired"

\* fillOutcome for a send that failed.
FailedStatus(done) == IF done THEN "cancelled" ELSE "failed"

\* scaleProgress: the same fraction of the content as of the tar stream.
ScaleProgress(s, tar, content) ==
  IF s <= 0 \/ tar <= 0 \/ content <= 0 THEN 0
  ELSE IF s >= tar THEN content
  ELSE (s * content) \div tar

\* The progress reading of an item whose body was read up to byte s.
Reading(i, s) ==
  IF kind[i] = "folder" THEN ScaleProgress(s, Wire, base[i])
  ELSE IF s < base[i] THEN s ELSE base[i]

\* The item the worker of its batch is at.
Turn(i) == batch[i[1]] = "working" /\ pos[i[1]] = i[2]

BadCount(x) == UNCHANGED wg

\* wg.Add(1) and wg.Done(): x still has work Close must wait for.
Count(x) == wg' = wg \cup {x}
Uncount(x) == wg' = wg \ {x}

BadRecorded(x, s) == UNCHANGED log

\* record: Record may fail, and then OnUnrecorded gets the entry instead;
\* either way the entry leaves the Manager once.
Recorded(x, s) == log' = [log EXCEPT ![x] = Append(@, s)]

----------------------------------------------------------------------------
(* SendPaths.                                                               *)

SendPaths(b) ==
  /\ batch[b] = "idle"
  /\ IF closed
     THEN /\ batch' = [batch EXCEPT ![b] = "refused"]
          /\ UNCHANGED <<items, wg, phase>>
     ELSE /\ batch' = [batch EXCEPT ![b] = "announcing"]
          /\ items' = items \cup ItemsOf(b)
          /\ Count(b)
          /\ phase' = [i \in Item |-> IF i \in ItemsOf(b) THEN "queued"
                                      ELSE phase[i]]
  /\ UNCHANGED <<closed, stopped, pos, loc, present, cancel, entry, viewVars,
                 bodyVars, textVars, log, closer>>

\* The queued update of one item; the worker is not running yet.
Announce(b) ==
  /\ batch[b] = "announcing"
  /\ pos[b] <= BatchLen[b]
  /\ Emit(<<b, pos[b]>>, Running(0, base[<<b, pos[b]>>]))
  /\ pos' = [pos EXCEPT ![b] = @ + 1]
  /\ UNCHANGED <<mgrVars, batch, loc, present, ctlVars, kind, base, bodyVars,
                 textVars, log, closer>>

BadLaunch(b) ==
  /\ batch[b] = "announcing"
  /\ pos[b] > BatchLen[b]
  /\ batch' = [batch EXCEPT ![b] = "working"]
  /\ pos' = [pos EXCEPT ![b] = 0]
  /\ UNCHANGED <<mgrVars, loc, present, itemVars, textVars, log, closer>>

\* go m.work(...): SendPaths returns, the worker takes the first item.
Launch(b) ==
  /\ batch[b] = "announcing"
  /\ pos[b] > BatchLen[b]
  /\ batch' = [batch EXCEPT ![b] = "working"]
  /\ pos' = [pos EXCEPT ![b] = 1]
  /\ UNCHANGED <<mgrVars, loc, present, itemVars, textVars, log, closer>>

\* The worker's deferred wg.Done().
WorkerExit(b) ==
  /\ batch[b] = "working"
  /\ pos[b] > BatchLen[b]
  /\ batch' = [batch EXCEPT ![b] = "ended"]
  /\ Uncount(b)
  /\ UNCHANGED <<closed, stopped, items, pos, loc, present, itemVars,
                 textVars, log, closer>>

----------------------------------------------------------------------------
(* process: one item from its turn to its Done update.                      *)

\* start: skip an item that was cancelled while queued or when closing.  The
\* mark of a cancel in the queue is never taken back.
Skips(i) == cancel[i] = "queued" \/ stopped

Start(i) ==
  /\ Turn(i) /\ phase[i] = "queued"
  /\ IF Skips(i)
     THEN /\ phase' = [phase EXCEPT ![i] = "settle"]
          /\ entry' = [entry EXCEPT ![i] = "cancelled"]
          /\ UNCHANGED cancel
     ELSE /\ phase' = [phase EXCEPT ![i] = "examine"]
          /\ cancel' = [cancel EXCEPT ![i] =
                          IF @ = "queued" THEN @ ELSE "armed"]
          /\ UNCHANGED entry
  /\ UNCHANGED <<mgrVars, batchVars, viewVars, bodyVars, textVars, log,
                 closer>>

\* The item leaves send() with an error before its request was made.
GiveUp(i) ==
  /\ entry' = [entry EXCEPT ![i] = FailedStatus(CtxDone(i))]
  /\ phase' = [phase EXCEPT ![i] = "settle"]

\* begin: what is known of the item is reported right away.
Begin(i, total) ==
  /\ base' = [base EXCEPT ![i] = total]
  /\ Emit(i, Running(0, total))

\* os.Stat: it fails, finds a file, or finds a folder, which is shown as one
\* while it is scanned.
Examine(i) ==
  /\ Turn(i) /\ phase[i] = "examine"
  /\ \/ GiveUp(i) /\ UNCHANGED <<viewVars>>
     \/ /\ Begin(i, Size)
        /\ kind' = [kind EXCEPT ![i] = "file"]
        /\ phase' = [phase EXCEPT ![i] = "lookup"]
        /\ UNCHANGED entry
     \/ /\ Begin(i, 0)
        /\ kind' = [kind EXCEPT ![i] = "folder"]
        /\ phase' = [phase EXCEPT ![i] = "scan"]
        /\ UNCHANGED entry
  /\ UNCHANGED <<mgrVars, batchVars, cancel, bodyVars, textVars, log, closer>>

\* client.ScanDir and the begin that follows it.
Scan(i) ==
  /\ Turn(i) /\ phase[i] = "scan"
  /\ \/ GiveUp(i) /\ UNCHANGED <<base, shown>>
     \/ /\ Begin(i, Size)
        /\ phase' = [phase EXCEPT ![i] = "lookup"]
        /\ UNCHANGED entry
  /\ UNCHANGED <<mgrVars, batchVars, cancel, kind, bodyVars, textVars, log,
                 closer>>

BadRemembers(i) == TRUE

\* locate: one lookup per batch.  A lookup that failed while the item's
\* context was done is not remembered.
Remembers(i) == ~CtxDone(i)

Lookup(i) ==
  LET b == i[1] IN
  /\ Turn(i) /\ phase[i] = "lookup"
  /\ \/ /\ loc[b] = "found" \/ (loc[b] = "unknown" /\ present[b])
        /\ loc' = [loc EXCEPT ![b] = "found"]
        /\ phase' = [phase EXCEPT ![i] = "sending"]
        /\ opened' = opened \cup {i}
        /\ UNCHANGED entry
     \/ /\ loc[b] = "absent"
        /\ GiveUp(i) /\ UNCHANGED <<loc, opened>>
     \/ /\ loc[b] = "unknown" /\ (~present[b] \/ CtxDone(i))
        /\ loc' = IF Remembers(i) THEN [loc EXCEPT ![b] = "absent"] ELSE loc
        /\ GiveUp(i) /\ UNCHANGED opened
  /\ UNCHANGED <<mgrVars, batch, pos, present, cancel, viewVars, wire, sent,
                 textVars, log, closer>>

\* client.Send or client.SendDir returns.  It may succeed although the item
\* was cancelled: the answer was already there.
SendReturns(i) ==
  /\ Turn(i) /\ phase[i] = "sending"
  /\ entry' \in {[entry EXCEPT ![i] = "ok"],
                 [entry EXCEPT ![i] = FailedStatus(CtxDone(i))]}
  /\ phase' = [phase EXCEPT ![i] = "settle"]
  /\ UNCHANGED <<mgrVars, batchVars, cancel, viewVars, bodyVars, textVars,
                 log, closer>>

\* The transport reads a byte of the request body and calls progress; it may
\* do so after the send has returned.  The reading is kept, and reported when
\* progressInterval has passed since the last update.
Progress(i) ==
  /\ i \in opened
  /\ wire[i] < Wire
  /\ wire' = [wire EXCEPT ![i] = @ + 1]
  /\ sent' = [sent EXCEPT ![i] = Reading(i, wire[i] + 1)]
  /\ \/ Emit(i, Running(Reading(i, wire[i] + 1), base[i]))
     \/ UNCHANGED shown
  /\ UNCHANGED <<mgrVars, batchVars, ctlVars, kind, base, opened, textVars,
                 log, closer>>

\* settle: forget the item, record it, report it done.
Deregister(i) ==
  /\ Turn(i) /\ phase[i] = "settle"
  /\ items' = items \ {i}
  /\ phase' = [phase EXCEPT ![i] = "record"]
  /\ UNCHANGED <<closed, stopped, wg, batchVars, cancel, entry, viewVars,
                 bodyVars, textVars, log, closer>>

RecordItem(i) ==
  /\ Turn(i) /\ phase[i] = "record"
  /\ Recorded(i, entry[i])
  /\ phase' = [phase EXCEPT ![i] = "finish"]
  /\ UNCHANGED <<mgrVars, batchVars, cancel, entry, viewVars, bodyVars,
                 textVars, closer>>

BadFinalSent(i) == IF entry[i] = "ok" THEN base[i] ELSE 0

\* finish: a delivered item shows as complete, another one as far as it got.
FinalSent(i) == IF entry[i] = "ok" THEN base[i] ELSE sent[i]

Finish(i) ==
  /\ Turn(i) /\ phase[i] = "finish"
  /\ Emit(i, Ended(FinalSent(i), base[i], entry[i]))
  /\ phase' = [phase EXCEPT ![i] = "over"]
  /\ pos' = [pos EXCEPT ![i[1]] = @ + 1]
  /\ UNCHANGED <<mgrVars, batch, loc, present, cancel, entry, kind, base,
                 bodyVars, textVars, log, closer>>

\* Cancel of a known item: a running one is aborted, a queued one is marked.
\* For any other ID it returns false and changes nothing.
Cancel(i) ==
  /\ i \in items
  /\ cancel' = [cancel EXCEPT ![i] =
                  IF @ \in {"armed", "fired"} THEN "fired" ELSE "queued"]
  /\ UNCHANGED <<mgrVars, batchVars, phase, entry, viewVars, bodyVars,
                 textVars, log, closer>>

----------------------------------------------------------------------------
(* SendText.                                                                *)

SendText(t) ==
  /\ text[t] = "idle"
  /\ IF closed
     THEN text' = [text EXCEPT ![t] = "refused"] /\ UNCHANGED wg
     ELSE text' = [text EXCEPT ![t] = "locating"] /\ Count(t)
  /\ UNCHANGED <<closed, stopped, items, batchVars, itemVars, expired, log,
                 closer>>

TextLocated(t) ==
  /\ text[t] = "locating"
  /\ text' = [text EXCEPT ![t] = "saying"]
  /\ UNCHANGED <<mgrVars, batchVars, itemVars, expired, log, closer>>

\* TextTimeout passes while the lookup or the request is under way.
Expire(t) ==
  /\ text[t] \in {"locating", "saying"}
  /\ t \notin expired
  /\ expired' = expired \cup {t}
  /\ UNCHANGED <<mgrVars, batchVars, itemVars, text, log, closer>>

BadTextFailure(t) == FailedStatus(stopped \/ t \in expired)

\* The lookup or client.Say fails.  The entry is classified by the Manager's
\* context: running out of time is a failure, only Close makes a cancel.
TextFailure(t) == FailedStatus(stopped)

TextFails(t) ==
  /\ text[t] \in {"locating", "saying"}
  /\ Recorded(t, TextFailure(t))
  /\ text' = [text EXCEPT ![t] = "recorded"]
  /\ UNCHANGED <<mgrVars, batchVars, itemVars, expired, closer>>

TextDelivered(t) ==
  /\ text[t] = "saying"
  /\ Recorded(t, "ok")
  /\ text' = [text EXCEPT ![t] = "recorded"]
  /\ UNCHANGED <<mgrVars, batchVars, itemVars, expired, closer>>

TextReturns(t) ==
  /\ text[t] = "recorded"
  /\ text' = [text EXCEPT ![t] = "returned"]
  /\ Uncount(t)
  /\ UNCHANGED <<closed, stopped, items, batchVars, itemVars, expired, log,
                 closer>>

----------------------------------------------------------------------------
(* Close.                                                                   *)

CloseMark(c) ==
  /\ closer[c] = "idle"
  /\ closed' = TRUE
  /\ closer' = [closer EXCEPT ![c] = "marked"]
  /\ UNCHANGED <<stopped, items, wg, batchVars, itemVars, textVars, log>>

CloseStop(c) ==
  /\ closer[c] = "marked"
  /\ stopped' = TRUE
  /\ closer' = [closer EXCEPT ![c] = "waiting"]
  /\ UNCHANGED <<closed, items, wg, batchVars, itemVars, textVars, log>>

CloseReturn(c) ==
  /\ closer[c] = "waiting"
  /\ wg = {}
  /\ closer' = [closer EXCEPT ![c] = "returned"]
  /\ UNCHANGED <<mgrVars, batchVars, itemVars, textVars, log>>

----------------------------------------------------------------------------
BatchStep(b) == SendPaths(b) \/ Announce(b) \/ Launch(b) \/ WorkerExit(b)

ItemStep(i) ==
  \/ Start(i) \/ Examine(i) \/ Scan(i) \/ Lookup(i) \/ SendReturns(i)
  \/ Progress(i) \/ Deregister(i) \/ RecordItem(i) \/ Finish(i) \/ Cancel(i)

TextStep(t) ==
  \/ SendText(t) \/ TextLocated(t) \/ Expire(t) \/ TextFails(t)
  \/ TextDelivered(t) \/ TextReturns(t)

CloseStep(c) == CloseMark(c) \/ CloseStop(c) \/ CloseReturn(c)

Next ==
  \/ \E b \in Batch : BatchStep(b)
  \/ \E i \in Item : ItemStep(i)
  \/ \E t \in Text : TextStep(t)
  \/ \E c \in Closer : CloseStep(c)

\* Goroutines are scheduled; local work (stat, scan, append to the history)
\* and a lookup end.  A request ends for sure only once its context is done:
\* a file send has no time limit, a text send has TextTimeout.  Nobody is
\* obliged to call SendPaths, SendText, Cancel or Close.
Fairness ==
  /\ \A b \in Batch : WF_vars(Announce(b)) /\ WF_vars(Launch(b))
                      /\ WF_vars(WorkerExit(b))
  /\ \A i \in Item :
       /\ WF_vars(Start(i)) /\ WF_vars(Examine(i)) /\ WF_vars(Scan(i))
       /\ WF_vars(Lookup(i)) /\ WF_vars(CtxDone(i) /\ SendReturns(i))
       /\ WF_vars(Deregister(i)) /\ WF_vars(RecordItem(i))
       /\ WF_vars(Finish(i))
  /\ \A t \in Text :
       /\ WF_vars(Expire(t)) /\ WF_vars(TextReturns(t))
       /\ WF_vars((t \in expired \/ stopped)
                    /\ (TextFails(t) \/ TextDelivered(t)))
  /\ \A c \in Closer : WF_vars(CloseStop(c)) /\ WF_vars(CloseReturn(c))

Spec == Init /\ [][Next]_vars /\ Fairness

----------------------------------------------------------------------------
(* Properties.                                                              *)

Phases == {"none", "queued", "examine", "scan", "lookup", "sending", "settle",
           "record", "finish", "over"}

\* Every variable holds a value of its kind; a batch index stays within one
\* past the end of its batch.
TypeOK ==
  /\ closed \in BOOLEAN /\ stopped \in BOOLEAN
  /\ items \subseteq Item
  /\ wg \subseteq Batch \cup Text
  /\ batch \in [Batch -> {"idle", "refused", "announcing", "working", "ended"}]
  /\ pos \in [Batch -> Nat \ {0}]
  /\ loc \in [Batch -> {"unknown", "found", "absent"}]
  /\ present \in [Batch -> BOOLEAN]
  /\ phase \in [Item -> Phases]
  /\ cancel \in [Item -> {"none", "queued", "armed", "fired"}]
  /\ entry \in [Item -> Status \cup {NoStatus}]
  /\ base \in [Item -> Nat]
  /\ sent \in [Item -> Nat]
  /\ kind \in [Item -> {"none", "file", "folder"}]
  /\ opened \subseteq Item
  /\ wire \in [Item -> 0..Wire]
  /\ shown \in [Item -> Update]
  /\ text \in [Text -> {"idle", "refused", "locating", "saying", "recorded",
                        "returned"}]
  /\ expired \subseteq Text
  /\ log \in [Item \cup Text -> Seq(Status \cup {NoStatus})]
  /\ closer \in [Closer -> {"idle", "marked", "waiting", "returned"}]

\* The history has at most one entry per send, and a UI that sees an item
\* done finds exactly that outcome already recorded (settle: record, then
\* finish; Config.Record: "once per finished item, before ... Done").
RecordedOnceBeforeDone ==
  /\ \A x \in Item \cup Text : Len(log[x]) \in {0, 1}
  /\ \A i \in Item : shown[i].done => log[i] = <<shown[i].status>>

\* No update follows the Done update of an item, not even a progress call the
\* transport makes after the send has returned (Config.OnUpdate).
NothingAfterDone ==
  [][\A i \in Item : shown[i].done => shown'[i] = shown[i]]_vars

\* A progress bar never runs backwards nor past its end: over throttled
\* updates, late readings, a folder's two begins and the final update.
BarNeverShrinks ==
  [][\A i \in Item : /\ shown'[i].sent >= shown[i].sent
                     /\ shown'[i].total > 0 =>
                          shown'[i].sent <= shown'[i].total]_vars

\* When a Close has returned, every send that was accepted has been recorded
\* and reported, and none can be accepted any more (Close: "waits until they
\* have been recorded").
CloseDrains ==
  (\E c \in Closer : closer[c] = "returned") =>
    /\ closed /\ items = {}
    /\ \A b \in Batch : batch[b] \in {"idle", "refused", "ended"}
    /\ \A i \in Item : phase[i] # "none" => shown[i].done
    /\ \A t \in Text : text[t] \in {"idle", "refused", "returned"}

\* An item that Cancel caught in the queue is never sent and ends cancelled.
QueuedCancelHolds ==
  \A i \in Item : cancel[i] = "queued" =>
    /\ i \notin opened
    /\ shown[i].done => shown[i].status = "cancelled"

\* A cancellation is recorded only of a send somebody cancelled: an item by
\* Cancel or Close, a text by Close alone (a text that ran out of time has
\* failed).
NoPhantomCancel ==
  /\ \A i \in Item : log[i] = <<"cancelled">> =>
                       stopped \/ cancel[i] \in {"queued", "fired"}
  /\ \A t \in Text : log[t] = <<"cancelled">> => stopped

\* Cancelling one item of a batch never makes the worker believe that the
\* peer is gone: a remembered failure is the peer's, so later items of the
\* batch do not fail because of it.
CancelDoesNotPoisonLookup ==
  \A b \in Batch : loc[b] = "absent" => ~present[b]

\* What Cancel did to an item is final for that item and does nothing to the
\* others of its batch.
CancelStaysWithItem == QueuedCancelHolds /\ CancelDoesNotPoisonLookup

\* Close returns, whatever sends are under way.
CloseReturns ==
  \A c \in Closer : closer[c] = "waiting" ~> closer[c] = "returned"

\* A running item that is cancelled is reported done, also while no Close is
\* pending and the receiver never answers.
CancelledEnds ==
  \A i \in Item : cancel[i] = "fired" ~> shown[i].done

\* Both: a cancelled context ends whatever waits for it.
CancelsAndClosesEnd == CancelledEnds /\ CloseReturns

\* The Manager keeps the promise of Outbox.
OutboxState(x) ==
  IF x \in Item
  THEN IF shown[x].done THEN "reported"
       ELSE IF log[x] # <<>> THEN "recorded"
       ELSE IF phase[x] # "none" THEN "accepted" ELSE "absent"
  ELSE IF text[x] = "returned" THEN "reported"
       ELSE IF log[x] # <<>> THEN "recorded"
       ELSE IF text[x] \in {"locating", "saying"} THEN "accepted" ELSE "absent"

OutboxGate ==
  IF \E c \in Closer : closer[c] = "returned" THEN "drained"
  ELSE IF closed THEN "shut" ELSE "open"

Promise == INSTANCE Outbox WITH
  Sends <- Item \cup Text,
  Outcomes <- Status,
  state <- [x \in Item \cup Text |-> OutboxState(x)],
  outcome <- [x \in Item \cup Text |->
                IF log[x] = <<>> THEN NoStatus ELSE log[x][1]],
  gate <- OutboxGate

\* Transfer implements Outbox: each step is one of its steps or invisible.
ImplementsOutbox == Promise!Spec
=============================================================================
