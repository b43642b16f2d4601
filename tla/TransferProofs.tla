--------------------------- MODULE TransferProofs ---------------------------
(***************************************************************************)
(* Theorems of Transfer, for any batches, texts and Close calls.           *)
(*                                                                         *)
(* The properties of Transfer are not inductive by themselves.  The        *)
(* strengthening IInv says where process() is with every item of a batch   *)
(* (ItemPlace), what must have happened to it by then (ItemFacts), and who *)
(* holds a count of the wait group (Counts).                               *)
(*                                                                         *)
(* The last two sections use it for the refinement of Outbox and for the   *)
(* progress bars.                                                          *)
(***************************************************************************)
EXTENDS Transfer, TLAPS

----------------------------------------------------------------------------
(* Items.                                                                   *)

\* An item is a batch and an index of that batch.
LEMMA ItemParts ==
  ASSUME NEW i \in Item
  PROVE  /\ i[1] \in Batch /\ i[2] \in 1..BatchLen[i[1]]
         /\ i[2] \in Nat /\ i[2] > 0 /\ i = <<i[1], i[2]>>
BY BatchLenType DEF Item

\* The index of a batch, and only that, makes an item.
LEMMA ItemOfIndex ==
  ASSUME NEW b \in Batch, NEW k \in 1..BatchLen[b]
  PROVE  <<b, k>> \in Item
BY DEF Item

LEMMA ItemsOfBatch ==
  ASSUME NEW b \in Batch, NEW i \in Item
  PROVE  i \in ItemsOf(b) <=> i[1] = b
BY ItemParts DEF Item, ItemsOf

LEMMA ItemsOfAreItems ==
  ASSUME NEW b \in Batch
  PROVE  ItemsOf(b) \subseteq Item
BY DEF Item, ItemsOf

\* The only histories a send ever has.
LEMMA ShortSequences ==
  /\ Len(<<>>) = 0
  /\ \A x : Len(<<x>>) = 1 /\ Append(<<>>, x) = <<x>>
OBVIOUS

----------------------------------------------------------------------------
(* Types.                                                                   *)

\* A scaled reading is a natural number.
LEMMA ReadingType ==
  ASSUME TypeOK, NEW i \in Item, NEW s \in Nat
  PROVE  Reading(i, s) \in Nat
<1>1. base[i] \in Nat
  BY DEF TypeOK
<1>2. ScaleProgress(s, Wire, base[i]) \in Nat
  BY <1>1, SizeType DEF ScaleProgress
<1>3. QED
  BY <1>1, <1>2 DEF Reading

LEMMA EmitType ==
  ASSUME TypeOK, NEW i \in Item, NEW u \in Update, Emit(i, u)
  PROVE  shown' \in [Item -> Update]
BY DEF TypeOK, Emit

LEMMA UpdateTypes ==
  ASSUME NEW s \in Nat, NEW t \in Nat, NEW o \in Status \cup {NoStatus}
  PROVE  Running(s, t) \in Update /\ Ended(s, t, o) \in Update
BY DEF Running, Ended, Update

LEMMA BatchStepType ==
  ASSUME TypeOK, NEW b \in Batch, BatchStep(b)
  PROVE  TypeOK'
<1>1. CASE SendPaths(b)
  <2>1. CASE closed
    BY <1>1, <2>1
    DEF TypeOK, SendPaths, viewVars, bodyVars, textVars
  <2>2. CASE ~closed
    <3>1. items' \subseteq Item /\ wg' \subseteq Batch \cup Text
      BY <1>1, <2>2, ItemsOfAreItems DEF TypeOK, SendPaths, Count
    <3>2. phase' \in [Item -> Phases]
      BY <1>1, <2>2 DEF TypeOK, SendPaths, Phases
    <3>3. batch' = [batch EXCEPT ![b] = "announcing"]
      BY <1>1, <2>2 DEF SendPaths
    <3>4. QED
      BY <1>1, <3>1, <3>2, <3>3
      DEF TypeOK, SendPaths, viewVars, bodyVars, textVars
  <2>3. QED
    BY <2>1, <2>2
<1>2. CASE Announce(b)
  <2>1. <<b, pos[b]>> \in Item
    BY <1>2, ItemOfIndex, BatchLenType DEF Announce, TypeOK
  <2>2. Running(0, base[<<b, pos[b]>>]) \in Update
    BY <2>1, UpdateTypes DEF TypeOK
  <2>3. shown' \in [Item -> Update]
    BY <1>2, <2>1, <2>2, EmitType DEF Announce
  <2>4. QED
    BY <1>2, <2>3
    DEF TypeOK, Announce, mgrVars, ctlVars, bodyVars, textVars
<1>3. CASE Launch(b)
  BY <1>3 DEF TypeOK, Launch, mgrVars, itemVars, ctlVars, viewVars, bodyVars,
              textVars
<1>4. CASE WorkerExit(b)
  BY <1>4 DEF TypeOK, WorkerExit, Uncount, itemVars, ctlVars, viewVars,
              bodyVars, textVars
<1>5. QED
  BY <1>1, <1>2, <1>3, <1>4 DEF BatchStep

LEMMA ItemStepType ==
  ASSUME TypeOK, NEW i \in Item, ItemStep(i)
  PROVE  TypeOK'
<1> USE DEF TypeOK, mgrVars, batchVars, itemVars, ctlVars, viewVars, bodyVars,
            textVars
<1>0. /\ Size \in Nat /\ i[1] \in Batch
      /\ \A s, t \in Nat : /\ Running(s, t) \in Update
                          /\ \A o \in Status \cup {NoStatus} : Ended(s, t, o) \in Update
  BY SizeType, ItemParts, UpdateTypes
<1>1. CASE Start(i)
  <2>1. \/ /\ phase' = [phase EXCEPT ![i] = "settle"]
           /\ entry' = [entry EXCEPT ![i] = "cancelled"]
           /\ UNCHANGED cancel
        \/ /\ phase' = [phase EXCEPT ![i] = "examine"]
           /\ cancel' = [cancel EXCEPT ![i] = "armed"]
           /\ UNCHANGED entry
    BY <1>1 DEF Start, Skips
  <2>2. UNCHANGED <<mgrVars, batchVars, viewVars, bodyVars, textVars, log,
                    closer>>
    BY <1>1 DEF Start
  <2>3. QED
    BY <2>1, <2>2 DEF Phases, Status
<1>2. CASE Examine(i)
  <2>1. CASE GiveUp(i) /\ UNCHANGED <<viewVars>>
    BY <1>2, <2>1 DEF Examine, GiveUp, FailedStatus, Phases, Status
  <2>2. ASSUME NEW n \in {0, Size}, Begin(i, n)
        PROVE  base' \in [Item -> Nat] /\ shown' \in [Item -> Update]
    <3>0. n \in Nat
      BY <1>0, <2>2
    <3>1. n \in Nat /\ Running(0, n) \in Update
      BY <1>0, <3>0
    <3>2. base' = [base EXCEPT ![i] = n] /\ Emit(i, Running(0, n))
      BY <2>2 DEF Begin
    <3>3. shown' \in [Item -> Update]
      BY <3>1, <3>2, EmitType
    <3>4. QED
      BY <3>1, <3>2, <3>3
  <2>3. CASE ~(GiveUp(i) /\ UNCHANGED <<viewVars>>)
    BY <1>2, <2>2, <2>3 DEF Examine, Phases
  <2>4. QED
    BY <2>1, <2>3
<1>3. CASE Scan(i)
  <2>1. CASE GiveUp(i) /\ UNCHANGED <<base, shown>>
    BY <1>3, <2>1 DEF Scan, GiveUp, FailedStatus, Phases, Status
  <2>2. CASE Begin(i, Size) /\ phase' = [phase EXCEPT ![i] = "lookup"]
             /\ UNCHANGED entry
    <3>1. base' \in [Item -> Nat] /\ shown' \in [Item -> Update]
      BY <1>0, <2>2, EmitType DEF Begin
    <3>2. QED
      BY <1>3, <2>2, <3>1 DEF Scan, Phases
  <2>3. QED
    BY <1>3, <2>1, <2>2 DEF Scan
<1>4. CASE Lookup(i)
  <2>1. /\ \/ loc' = loc
           \/ loc' = [loc EXCEPT ![i[1]] = "found"]
           \/ loc' = [loc EXCEPT ![i[1]] = "absent"]
        /\ opened' = opened \/ opened' = opened \cup {i}
        /\ \/ phase' = [phase EXCEPT ![i] = "sending"] /\ UNCHANGED entry
           \/ GiveUp(i)
        /\ UNCHANGED <<mgrVars, batch, pos, present, cancel, viewVars, wire,
                       sent, textVars, log, closer>>
    BY <1>4 DEF Lookup
  <2>2. /\ phase' \in [Item -> Phases]
        /\ entry' \in [Item -> Status \cup {NoStatus}]
    BY <2>1 DEF GiveUp, FailedStatus, Phases, Status
  <2>3. loc' \in [Batch -> {"unknown", "found", "absent"}]
    BY <1>0, <2>1
  <2>4. QED
    BY <2>1, <2>2, <2>3
<1>5. CASE SendReturns(i)
  BY <1>5 DEF SendReturns, FailedStatus, Phases, Status
<1>6. CASE Progress(i)
  <2>1. wire[i] + 1 \in 0..Wire /\ wire[i] + 1 \in Nat
    BY <1>6, SizeType DEF Progress
  <2>2. Reading(i, wire[i] + 1) \in Nat
    BY <2>1, ReadingType
  <2>3. shown' \in [Item -> Update]
    BY <1>0, <1>6, <2>2, EmitType DEF Progress
  <2>4. sent' \in [Item -> Nat] /\ wire' \in [Item -> 0..Wire]
    BY <1>6, <2>1, <2>2 DEF Progress
  <2>5. QED
    BY <1>6, <2>3, <2>4 DEF Progress
<1>7. CASE Deregister(i)
  BY <1>7 DEF Deregister, Phases
<1>8. CASE RecordItem(i)
  <2>1. log' \in [Item \cup Text -> Seq(Status \cup {NoStatus})]
    <3>1. Append(log[i], entry[i]) \in Seq(Status \cup {NoStatus})
      OBVIOUS
    <3>2. log' = [log EXCEPT ![i] = Append(log[i], entry[i])]
      BY <1>8 DEF RecordItem, Recorded
    <3>3. QED
      BY <3>1, <3>2
  <2>2. phase' \in [Item -> Phases]
    BY <1>8 DEF RecordItem, Phases
  <2>3. QED
    BY <1>8, <2>1, <2>2 DEF RecordItem
<1>9. CASE Finish(i)
  <2>1. FinalSent(i) \in Nat
    BY DEF FinalSent
  <2>2. Ended(FinalSent(i), base[i], entry[i]) \in Update
    BY <1>0, <2>1
  <2>3. shown' \in [Item -> Update]
    BY <1>9, <2>2, EmitType DEF Finish
  <2>4. phase' \in [Item -> Phases] /\ pos' \in [Batch -> Nat \ {0}]
    BY <1>0, <1>9 DEF Finish, Phases
  <2>5. QED
    BY <1>9, <2>3, <2>4 DEF Finish
<1>10. CASE Cancel(i)
  BY <1>10 DEF Cancel
<1>11. QED
  BY <1>1, <1>2, <1>3, <1>4, <1>5, <1>6, <1>7, <1>8, <1>9, <1>10 DEF ItemStep

LEMMA TextStepType ==
  ASSUME TypeOK, NEW t \in Text, TextStep(t)
  PROVE  TypeOK'
<1> USE DEF TypeOK, mgrVars, batchVars, itemVars, ctlVars, viewVars, bodyVars,
            textVars
<1>1. CASE SendText(t)
  <2>1. wg' \subseteq Batch \cup Text
    BY <1>1 DEF SendText, Count
  <2>2. \E s \in {"refused", "locating"} : text' = [text EXCEPT ![t] = s]
    BY <1>1 DEF SendText
  <2>3. QED
    BY <1>1, <2>1, <2>2 DEF SendText
<1>2. CASE TextLocated(t)
  BY <1>2 DEF TextLocated
<1>3. CASE Expire(t)
  BY <1>3 DEF Expire
<1>0. ASSUME NEW s \in Status, Recorded(t, s)
      PROVE  log' \in [Item \cup Text -> Seq(Status \cup {NoStatus})]
  <2>1. Append(log[t], s) \in Seq(Status \cup {NoStatus})
    OBVIOUS
  <2>2. log' = [log EXCEPT ![t] = Append(log[t], s)]
    BY <1>0 DEF Recorded
  <2>3. QED
    BY <2>1, <2>2
<1>4. CASE TextFails(t)
  <2>1. TextFailure(t) \in Status
    BY DEF TextFailure, FailedStatus, Status
  <2>2. QED
    BY <1>0, <1>4, <2>1 DEF TextFails
<1>5. CASE TextDelivered(t)
  BY <1>0, <1>5 DEF TextDelivered, Status
<1>6. CASE TextReturns(t)
  BY <1>6 DEF TextReturns, Uncount
<1>7. QED
  BY <1>1, <1>2, <1>3, <1>4, <1>5, <1>6 DEF TextStep

LEMMA CloseStepType ==
  ASSUME TypeOK, NEW c \in Closer, CloseStep(c)
  PROVE  TypeOK'
BY DEF CloseStep, CloseMark, CloseStop, CloseReturn, TypeOK, mgrVars,
       batchVars, itemVars, ctlVars, viewVars, bodyVars, textVars

LEMMA InitType == Init => TypeOK
<1> SUFFICES ASSUME Init PROVE TypeOK
OBVIOUS
<1>1. NoUpdate \in Update
  BY DEF NoUpdate, Update
<1>2. log \in [Item \cup Text -> Seq(Status \cup {NoStatus})]
  BY DEF Init
<1>3. /\ entry \in [Item -> Status \cup {NoStatus}]
      /\ phase \in [Item -> Phases]
      /\ shown \in [Item -> Update]
      /\ wire \in [Item -> 0..Wire]
  BY <1>1, SizeType DEF Init, Phases
<1>4. /\ pos \in [Batch -> Nat \ {0}]
      /\ batch \in [Batch -> {"idle", "refused", "announcing", "working",
                             "ended"}]
      /\ loc \in [Batch -> {"unknown", "found", "absent"}]
      /\ base \in [Item -> Nat] /\ sent \in [Item -> Nat]
      /\ closer \in [Closer -> {"idle", "marked", "waiting", "returned"}]
  BY DEF Init
<1>5. /\ cancel \in [Item -> {"none", "queued", "armed", "fired"}]
      /\ kind \in [Item -> {"none", "file", "folder"}]
      /\ text \in [Text -> {"idle", "refused", "locating", "saying",
                           "recorded", "returned"}]
      /\ present \in [Batch -> BOOLEAN]
      /\ closed \in BOOLEAN /\ stopped \in BOOLEAN
      /\ items = {} /\ wg = {} /\ opened = {} /\ expired = {}
  BY DEF Init
<1>6. QED
  BY <1>2, <1>3, <1>4, <1>5 DEF TypeOK

LEMMA StutterType ==
  ASSUME TypeOK, UNCHANGED vars
  PROVE  TypeOK'
BY DEF vars, TypeOK

\* Every state of the Manager is of the declared kind.
THEOREM TypeCorrect == Spec => []TypeOK
<1>1. TypeOK /\ [Next]_vars => TypeOK'
  BY StutterType, BatchStepType, ItemStepType, TextStepType, CloseStepType
  DEF Next
<1>2. QED
  BY InitType, <1>1, PTL DEF Spec

----------------------------------------------------------------------------
(* The inductive invariant.                                                 *)

\* Where process() is with an item follows from where its batch is.
PlaceOf(i) ==
  /\ batch[i[1]] \in {"idle", "refused"} => phase[i] = "none"
  /\ batch[i[1]] = "announcing" => phase[i] = "queued"
  /\ batch[i[1]] = "working" =>
       /\ i[2] < pos[i[1]] => phase[i] = "over"
       /\ i[2] = pos[i[1]] => phase[i] \notin {"none", "over"}
       /\ i[2] > pos[i[1]] => phase[i] = "queued"
  /\ batch[i[1]] = "ended" => phase[i] = "over"

ItemPlace == \A i \in Item : PlaceOf(i)

\* What has been written about an item follows from where it is.
FactsOf(i) ==
  /\ entry[i] # NoStatus <=>
       phase[i] \in {"settle", "record", "finish", "over"}
  /\ log[i] = IF phase[i] \in {"finish", "over"} THEN <<entry[i]>> ELSE <<>>
  /\ shown[i].done <=> phase[i] = "over"
  /\ shown[i].done => shown[i].status = entry[i]
  /\ i \in items <=> phase[i] \notin {"none", "record", "finish", "over"}

ItemFacts == \A i \in Item : FactsOf(i)

\* An item runs only after start() armed its cancel function; one that
\* start() skipped has a cancelled entry and no request.
CancelOf(i) ==
  /\ i \in opened => cancel[i] \in {"armed", "fired"}
  /\ phase[i] = "none" => cancel[i] = "none"
  /\ phase[i] = "queued" => cancel[i] \in {"none", "queued"}
  /\ phase[i] \in {"examine", "scan", "lookup", "sending"} =>
       cancel[i] \in {"armed", "fired"}
  /\ entry[i] # NoStatus /\ cancel[i] \in {"none", "queued"} =>
       entry[i] = "cancelled"
  /\ entry[i] = "cancelled" => stopped \/ cancel[i] \in {"queued", "fired"}

CancelFacts == \A i \in Item : CancelOf(i)

TextFacts ==
  \A t \in Text :
    /\ text[t] \in {"idle", "refused", "locating", "saying"} => log[t] = <<>>
    /\ text[t] \in {"recorded", "returned"} => Len(log[t]) = 1
    /\ log[t] = <<"cancelled">> => stopped

\* The wait group counts the workers and the texts that are not over.
Counts ==
  /\ \A b \in Batch : b \in wg <=> batch[b] \in {"announcing", "working"}
  /\ \A t \in Text : t \in wg <=> text[t] \in {"locating", "saying", "recorded"}

CloseFacts ==
  \A c \in Closer : /\ closer[c] # "idle" => closed
                    /\ closer[c] = "returned" => wg = {}

IInv == /\ TypeOK /\ ItemPlace /\ ItemFacts /\ CancelFacts /\ TextFacts
        /\ Counts /\ CloseFacts /\ CancelDoesNotPoisonLookup

----------------------------------------------------------------------------
(* A step of one item.                                                      *)

\* It leaves every other item as it is.
LEMMA ItemStepFrame ==
  ASSUME TypeOK, NEW i \in Item, ItemStep(i), NEW j \in Item, j # i
  PROVE  /\ phase'[j] = phase[j] /\ cancel'[j] = cancel[j]
         /\ entry'[j] = entry[j] /\ log'[j] = log[j] /\ shown'[j] = shown[j]
         /\ j \in items' <=> j \in items
         /\ j \in opened' <=> j \in opened
<1> USE DEF TypeOK, mgrVars, batchVars, itemVars, ctlVars, viewVars, bodyVars,
            textVars
<1>1. CASE Start(i)
  BY <1>1 DEF Start
<1>2. CASE Examine(i)
  BY <1>2 DEF Examine, GiveUp, Begin, Emit
<1>3. CASE Scan(i)
  BY <1>3 DEF Scan, GiveUp, Begin, Emit
<1>4. CASE Lookup(i)
  BY <1>4 DEF Lookup, GiveUp
<1>5. CASE SendReturns(i)
  BY <1>5 DEF SendReturns
<1>6. CASE Progress(i)
  BY <1>6 DEF Progress, Emit
<1>7. CASE Deregister(i)
  BY <1>7 DEF Deregister
<1>8. CASE RecordItem(i)
  BY <1>8 DEF RecordItem, Recorded
<1>9. CASE Finish(i)
  BY <1>9 DEF Finish, Emit
<1>10. CASE Cancel(i)
  BY <1>10 DEF Cancel
<1>11. QED
  BY <1>1, <1>2, <1>3, <1>4, <1>5, <1>6, <1>7, <1>8, <1>9, <1>10 DEF ItemStep

\* It leaves the batches and the other goroutines as they are; only a Finish
\* moves the worker on.
LEMMA ItemStepOutside ==
  ASSUME TypeOK, NEW i \in Item, ItemStep(i)
  PROVE  /\ UNCHANGED <<closed, stopped, wg, batch, present, text, expired,
                        closer>>
         /\ \A t \in Text : log'[t] = log[t]
         /\ Finish(i) \/ UNCHANGED pos
<1> USE DEF mgrVars, batchVars, itemVars, ctlVars, viewVars, bodyVars,
            textVars
<1>1. CASE RecordItem(i)
  BY <1>1, ItemsAreNotTexts DEF RecordItem, Recorded, TypeOK
<1>2. CASE ~RecordItem(i)
  BY <1>2 DEF ItemStep, Start, Examine, Scan, Lookup, SendReturns, Progress,
              Deregister, Finish, Cancel
<1>3. QED
  BY <1>1, <1>2

\* FactsOf of the item itself, action by action.
LEMMA ItemStepFacts ==
  ASSUME IInv, NEW i \in Item, ItemStep(i)
  PROVE  FactsOf(i)'
<1> USE DEF IInv, ItemFacts, FactsOf, TypeOK, mgrVars, batchVars, itemVars,
            ctlVars, viewVars, bodyVars, textVars
<1>1. CASE Start(i)
  BY <1>1 DEF Start, NoStatus
<1>2. CASE Examine(i)
  <2>1. CASE GiveUp(i) /\ UNCHANGED <<viewVars>>
    BY <1>2, <2>1 DEF Examine, GiveUp, FailedStatus, NoStatus
  <2>2. CASE ~(GiveUp(i) /\ UNCHANGED <<viewVars>>)
    <3>1. \E p \in {"scan", "lookup"}, n \in {0, Size} :
            Begin(i, n) /\ phase' = [phase EXCEPT ![i] = p] /\ UNCHANGED entry
      BY <1>2, <2>2 DEF Examine
    <3>2. phase[i] = "examine" /\ UNCHANGED <<items, log>>
      BY <1>2 DEF Examine
    <3>3. ~shown'[i].done
      BY <3>1, <3>2 DEF Begin, Emit, Running
    <3>4. QED
      BY <3>1, <3>2, <3>3
  <2>3. QED
    BY <2>1, <2>2
<1>3. CASE Scan(i)
  <2>1. CASE GiveUp(i) /\ UNCHANGED <<base, shown>>
    BY <1>3, <2>1 DEF Scan, GiveUp, FailedStatus, NoStatus
  <2>2. CASE ~(GiveUp(i) /\ UNCHANGED <<base, shown>>)
    <3>1. /\ Begin(i, Size) /\ phase' = [phase EXCEPT ![i] = "lookup"]
          /\ UNCHANGED <<entry, items, log>> /\ phase[i] = "scan"
      BY <1>3, <2>2 DEF Scan
    <3>2. ~shown'[i].done
      BY <3>1 DEF Begin, Emit, Running
    <3>3. QED
      BY <3>1, <3>2
  <2>3. QED
    BY <2>1, <2>2
<1>4. CASE Lookup(i)
  BY <1>4 DEF Lookup, GiveUp, FailedStatus, NoStatus
<1>5. CASE SendReturns(i)
  BY <1>5 DEF SendReturns, FailedStatus, NoStatus
<1>6. CASE Progress(i)
  <2>1. UNCHANGED <<phase, entry, log, items>>
    BY <1>6 DEF Progress
  <2>2. \/ shown'[i] = shown[i]
        \/ ~shown[i].done /\ ~shown'[i].done
    BY <1>6 DEF Progress, Emit, Running
  <2>3. QED
    BY <2>1, <2>2
<1>7. CASE Deregister(i)
  BY <1>7 DEF Deregister
<1>8. CASE RecordItem(i)
  <2>1. /\ phase[i] = "record" /\ UNCHANGED <<entry, shown, items>>
        /\ phase' = [phase EXCEPT ![i] = "finish"]
        /\ log' = [log EXCEPT ![i] = Append(log[i], entry[i])]
    BY <1>8 DEF RecordItem, Recorded
  <2>2. log[i] = <<>>
    BY <2>1
  <2>3. log'[i] = <<entry[i]>>
    BY <2>1, <2>2
  <2>4. QED
    BY <2>1, <2>3
<1>9. CASE Finish(i)
  <2>1. /\ phase[i] = "finish" /\ UNCHANGED <<entry, log, items>>
        /\ phase' = [phase EXCEPT ![i] = "over"]
        /\ Emit(i, Ended(FinalSent(i), base[i], entry[i]))
    BY <1>9 DEF Finish
  <2>2. shown'[i].done /\ shown'[i].status = entry[i]
    BY <2>1 DEF Emit, Ended
  <2>3. QED
    BY <2>1, <2>2
<1>10. CASE Cancel(i)
  BY <1>10 DEF Cancel
<1>11. QED
  BY <1>1, <1>2, <1>3, <1>4, <1>5, <1>6, <1>7, <1>8, <1>9, <1>10 DEF ItemStep

LEMMA ItemStepCancel ==
  ASSUME IInv, NEW i \in Item, ItemStep(i)
  PROVE  CancelOf(i)'
<1> USE DEF IInv, CancelFacts, CancelOf, TypeOK, mgrVars, batchVars, itemVars,
            ctlVars, viewVars, bodyVars, textVars
<1>0. FactsOf(i)
  BY DEF ItemFacts
<1>1. CASE Start(i)
  BY <1>0, <1>1 DEF Start, Skips, NoStatus, FactsOf
<1>2. CASE Examine(i)
  BY <1>2 DEF Examine, GiveUp, FailedStatus, CtxDone, NoStatus
<1>3. CASE Scan(i)
  BY <1>3 DEF Scan, GiveUp, FailedStatus, CtxDone, NoStatus
<1>4. CASE Lookup(i)
  BY <1>4 DEF Lookup, GiveUp, FailedStatus, CtxDone, NoStatus
<1>5. CASE SendReturns(i)
  BY <1>5 DEF SendReturns, FailedStatus, CtxDone, NoStatus
<1>6. CASE Progress(i)
  BY <1>6 DEF Progress
<1>7. CASE Deregister(i)
  BY <1>7 DEF Deregister
<1>8. CASE RecordItem(i)
  BY <1>8 DEF RecordItem
<1>9. CASE Finish(i)
  BY <1>9 DEF Finish
<1>10. CASE Cancel(i)
  BY <1>0, <1>10 DEF Cancel, FactsOf, NoStatus
<1>11. QED
  BY <1>1, <1>2, <1>3, <1>4, <1>5, <1>6, <1>7, <1>8, <1>9, <1>10 DEF ItemStep

\* The worker's place: only the item at its turn is in flight, and a Finish
\* passes the turn to the next one, which is still queued.
LEMMA ItemStepPlace ==
  ASSUME IInv, NEW i \in Item, ItemStep(i), NEW j \in Item
  PROVE  PlaceOf(j)'
<1> USE DEF IInv, ItemPlace, PlaceOf
<1>0. /\ i[1] \in Batch /\ i[2] \in Nat /\ j[1] \in Batch /\ j[2] \in Nat
      /\ pos \in [Batch -> Nat \ {0}] /\ phase \in [Item -> Phases]
      /\ j[1] = i[1] /\ j[2] = i[2] => j = i
  <2>1. i = <<i[1], i[2]>> /\ j = <<j[1], j[2]>>
    BY ItemParts
  <2>2. j[1] = i[1] /\ j[2] = i[2] => j = i
    BY <2>1
  <2>3. QED
    BY <2>2, ItemParts DEF TypeOK
<1>1. UNCHANGED batch
  BY ItemStepOutside
<1>2. j # i => phase'[j] = phase[j]
  BY ItemStepFrame
<1>3. CASE Finish(i)
  <2>1. /\ Turn(i) /\ phase' = [phase EXCEPT ![i] = "over"]
        /\ pos' = [pos EXCEPT ![i[1]] = @ + 1]
    BY <1>3 DEF Finish
  <2>2. QED
    BY <1>0, <1>1, <2>1 DEF Turn
<1>4. CASE Cancel(i) \/ Progress(i)
  BY <1>0, <1>1, <1>4 DEF Cancel, Progress, batchVars, ctlVars
<1>5. CASE ~(Finish(i) \/ Cancel(i) \/ Progress(i))
  <2>1. /\ Turn(i) /\ UNCHANGED pos
        /\ phase'[i] \notin {"none", "over"}
    BY <1>0, <1>5 DEF ItemStep, Start, Examine, Scan, Lookup, SendReturns,
       Deregister, RecordItem, GiveUp, batchVars
  <2>2. QED
    BY <1>0, <1>1, <1>2, <2>1 DEF Turn
<1>6. QED
  BY <1>3, <1>4, <1>5

LEMMA ItemStepInv ==
  ASSUME IInv, NEW i \in Item, ItemStep(i)
  PROVE  IInv'
<1>0. TypeOK
  BY DEF IInv
<1>1. TypeOK'
  BY <1>0, ItemStepType
<1>2. ItemPlace'
  BY ItemStepPlace DEF ItemPlace
<1>3. ItemFacts'
  <2> SUFFICES ASSUME NEW j \in Item, j # i PROVE FactsOf(j)'
    BY ItemStepFacts DEF ItemFacts
  <2>1. FactsOf(j)
    BY DEF IInv, ItemFacts
  <2>2. QED
    BY <1>0, <2>1, ItemStepFrame DEF FactsOf
<1>4. CancelFacts'
  <2> SUFFICES ASSUME NEW j \in Item, j # i PROVE CancelOf(j)'
    BY ItemStepCancel DEF CancelFacts
  <2>1. CancelOf(j)
    BY DEF IInv, CancelFacts
  <2>2. QED
    BY <1>0, <2>1, ItemStepFrame, ItemStepOutside DEF CancelOf
<1>5. TextFacts' /\ Counts' /\ CloseFacts'
  BY <1>0, ItemStepOutside DEF IInv, TextFacts, Counts, CloseFacts
<1>6. CancelDoesNotPoisonLookup'
  <2>1. CASE Lookup(i)
    BY <2>1, ItemParts
    DEF IInv, TypeOK, Lookup, Remembers, CancelDoesNotPoisonLookup
  <2>2. CASE ~Lookup(i)
    <3>1. UNCHANGED <<loc, present>>
      BY <2>2 DEF ItemStep, Start, Examine, Scan, SendReturns, Progress,
                  Deregister, RecordItem, Finish, Cancel, batchVars
    <3>2. QED
      BY <3>1 DEF IInv, CancelDoesNotPoisonLookup
  <2>3. QED
    BY <2>1, <2>2
<1>7. QED
  BY <1>1, <1>2, <1>3, <1>4, <1>5, <1>6 DEF IInv

----------------------------------------------------------------------------
(* Steps of the other goroutines.                                           *)

LEMMA BatchStepInv ==
  ASSUME IInv, NEW b \in Batch, BatchStep(b)
  PROVE  IInv'
<1>0. TypeOK /\ ItemPlace /\ ItemFacts /\ CancelFacts /\ TextFacts /\ Counts
      /\ CloseFacts /\ CancelDoesNotPoisonLookup
  BY DEF IInv
<1>1. TypeOK'
  BY <1>0, BatchStepType
<1>2. ASSUME NEW i \in Item
      PROVE  PlaceOf(i)' /\ FactsOf(i)' /\ CancelOf(i)'
  <2>0. /\ PlaceOf(i) /\ FactsOf(i) /\ CancelOf(i)
        /\ i[1] \in Batch /\ i[2] \in Nat /\ i[2] \in 1..BatchLen[i[1]]
        /\ i \in ItemsOf(b) <=> i[1] = b
        /\ BatchLen[b] \in Nat
    BY <1>0, ItemParts, ItemsOfBatch, BatchLenType
    DEF ItemPlace, ItemFacts, CancelFacts
  <2> USE DEF TypeOK, mgrVars, itemVars, ctlVars, viewVars, bodyVars, textVars
  <2>1. CASE SendPaths(b)
    BY <1>0, <2>0, <2>1, ItemsOfAreItems
    DEF SendPaths, PlaceOf, FactsOf, CancelOf
  <2>2. CASE Announce(b)
    <3>1. /\ UNCHANGED <<phase, batch, entry, log, items, cancel, opened,
                         stopped>>
          /\ batch[b] = "announcing"
          /\ pos' = [pos EXCEPT ![b] = @ + 1]
      BY <2>2 DEF Announce
    <3>2. shown'[i] = shown[i] \/ (~shown[i].done /\ ~shown'[i].done)
      BY <1>0, <2>2 DEF Announce, Emit, Running
    <3>3. PlaceOf(i)' /\ CancelOf(i)'
      BY <1>0, <2>0, <3>1 DEF PlaceOf, CancelOf
    <3>4. FactsOf(i)'
      BY <2>0, <3>1, <3>2 DEF FactsOf
    <3>5. QED
      BY <3>3, <3>4
  <2>3. CASE Launch(b)
    BY <1>0, <2>0, <2>3 DEF Launch, PlaceOf, FactsOf, CancelOf
  <2>4. CASE WorkerExit(b)
    BY <1>0, <2>0, <2>4 DEF WorkerExit, PlaceOf, FactsOf, CancelOf
  <2>5. QED
    BY <2>1, <2>2, <2>3, <2>4 DEF BatchStep
<1>3. UNCHANGED <<text, expired, log, closed, stopped, loc, present, closer>>
  BY DEF BatchStep, SendPaths, Announce, Launch, WorkerExit, mgrVars, textVars
<1>4. TextFacts' /\ CancelDoesNotPoisonLookup'
  BY <1>0, <1>3 DEF TextFacts, CancelDoesNotPoisonLookup
<1>5. Counts'
  <2>1. \A t \in Text : t # b
    BY CallsDistinct
  <2>2. \/ wg' = wg \cup {b} /\ batch' = [batch EXCEPT ![b] = "announcing"]
        \/ wg' = wg \ {b} /\ batch' = [batch EXCEPT ![b] = "ended"]
        \/ /\ wg' = wg
           /\ \/ batch' = batch
              \/ /\ batch[b] = "idle"
                 /\ batch' = [batch EXCEPT ![b] = "refused"]
              \/ /\ batch[b] = "announcing"
                 /\ batch' = [batch EXCEPT ![b] = "working"]
    BY DEF BatchStep, SendPaths, Announce, Launch, WorkerExit, Count,
           Uncount, mgrVars
  <2>3. batch \in [Batch -> {"idle", "refused", "announcing", "working",
                           "ended"}]
    BY <1>0 DEF TypeOK
  <2>4. QED
    BY <1>0, <1>3, <2>1, <2>2, <2>3 DEF Counts
<1>6. CloseFacts'
  BY <1>0, <1>3 DEF CloseFacts, BatchStep, SendPaths, Announce, Launch,
     WorkerExit, Count, Uncount, mgrVars
<1>7. QED
  BY <1>1, <1>2, <1>4, <1>5, <1>6
  DEF IInv, ItemPlace, ItemFacts, CancelFacts

LEMMA TextStepInv ==
  ASSUME IInv, NEW t \in Text, TextStep(t)
  PROVE  IInv'
<1>0. TypeOK /\ ItemPlace /\ ItemFacts /\ CancelFacts /\ TextFacts /\ Counts
      /\ CloseFacts /\ CancelDoesNotPoisonLookup
  BY DEF IInv
<1> USE DEF TextStep, SendText, TextLocated, Expire, TextFails, TextDelivered,
            TextReturns
<1>1. TypeOK'
  BY <1>0, TextStepType
<1>2. /\ UNCHANGED <<closed, stopped, items, batch, pos, loc, present, phase,
                     cancel, entry, opened, shown, closer>>
  BY DEF mgrVars, batchVars, itemVars, ctlVars, viewVars, bodyVars
<1>3. \A x \in Item \cup Text : x # t => log'[x] = log[x]
  BY <1>0 DEF Recorded, TypeOK
<1>4. t \notin Item /\ t \notin Batch
  BY ItemsAreNotTexts, CallsDistinct
<1>5. ItemPlace' /\ ItemFacts' /\ CancelFacts' /\ CancelDoesNotPoisonLookup'
  BY <1>0, <1>2, <1>3, <1>4
  DEF ItemPlace, PlaceOf, ItemFacts, FactsOf, CancelFacts, CancelOf,
      CancelDoesNotPoisonLookup
<1>6. TextFacts'
  <2>1. CASE TextFails(t) \/ TextDelivered(t)
    <3>1. PICK s \in Status :
            /\ Recorded(t, s)
            /\ s = "cancelled" => stopped
      BY <2>1 DEF TextFailure, FailedStatus, Status
    <3>2. /\ text[t] \in {"locating", "saying"}
          /\ text' = [text EXCEPT ![t] = "recorded"]
      BY <2>1
    <3>3. log[t] = <<>>
      BY <1>0, <3>2 DEF TextFacts
    <3>4. log'[t] = <<s>>
      <4>0. DOMAIN log = Item \cup Text /\ t \in DOMAIN log
        BY <1>0 DEF TypeOK
      <4>1. log' = [log EXCEPT ![t] = Append(log[t], s)]
        BY <3>1 DEF Recorded
      <4>2. QED
        BY <3>3, <4>0, <4>1, ShortSequences
    <3>5. Len(log'[t]) = 1 /\ (log'[t] = <<"cancelled">> => stopped')
      <4>1. Len(log'[t]) = 1
        BY <3>4, ShortSequences
      <4>2. log'[t] = <<"cancelled">> => s = "cancelled"
        BY <3>4
      <4>3. log'[t] = <<"cancelled">> => stopped'
        <5>1. stopped' = stopped
          BY <1>2
        <5>2. QED
          BY <3>1, <4>2, <5>1
      <4>4. QED
        BY <4>1, <4>3
    <3>6. \A u \in Text : u # t => text'[u] = text[u] /\ log'[u] = log[u]
      BY <1>0, <1>3, <3>2 DEF TypeOK
    <3>7. text'[t] = "recorded"
      BY <1>0, <3>2 DEF TypeOK
    <3>8. QED
      BY <1>0, <1>2, <3>5, <3>6, <3>7 DEF TextFacts
  <2>2. CASE ~(TextFails(t) \/ TextDelivered(t))
    <3>1. UNCHANGED log
      BY <2>2 DEF textVars
    <3>2. \/ UNCHANGED text
          \/ \E p \in {"refused", "locating", "saying"} :
               text[t] \in {"idle", "locating"} /\ text' = [text EXCEPT ![t] = p]
          \/ text[t] = "recorded" /\ text' = [text EXCEPT ![t] = "returned"]
      BY <2>2
    <3>3. text \in [Text -> {"idle", "refused", "locating", "saying",
                            "recorded", "returned"}]
      BY <1>0 DEF TypeOK
    <3>4. QED
      BY <1>0, <1>2, <3>1, <3>2, <3>3 DEF TextFacts
  <2>3. QED
    BY <2>1, <2>2
<1>7. Counts'
  <2>1. \A b \in Batch : b # t
    BY CallsDistinct
  <2>2. \/ wg' = wg \cup {t} /\ text' = [text EXCEPT ![t] = "locating"]
        \/ wg' = wg \ {t} /\ text' = [text EXCEPT ![t] = "returned"]
        \/ /\ wg' = wg
           /\ \/ UNCHANGED text
              \/ /\ text[t] = "idle"
                 /\ text' = [text EXCEPT ![t] = "refused"]
              \/ \E p \in {"saying", "recorded"} :
                   /\ text[t] \in {"locating", "saying"}
                   /\ text' = [text EXCEPT ![t] = p]
    BY DEF Count, Uncount, mgrVars, textVars
  <2>3. text \in [Text -> {"idle", "refused", "locating", "saying",
                          "recorded", "returned"}]
    BY <1>0 DEF TypeOK
  <2>4. QED
    BY <1>0, <1>2, <2>1, <2>2, <2>3 DEF Counts
<1>8. CloseFacts'
  BY <1>0, <1>2 DEF CloseFacts, Count, Uncount, mgrVars
<1>9. QED
  BY <1>1, <1>5, <1>6, <1>7, <1>8 DEF IInv

LEMMA CloseStepInv ==
  ASSUME IInv, NEW c \in Closer, CloseStep(c)
  PROVE  IInv'
<1>0. TypeOK /\ ItemPlace /\ ItemFacts /\ CancelFacts /\ TextFacts /\ Counts
      /\ CloseFacts /\ CancelDoesNotPoisonLookup
  BY DEF IInv
<1> USE DEF CloseStep, CloseMark, CloseStop, CloseReturn
<1>1. TypeOK'
  BY <1>0, CloseStepType
<1>2. /\ UNCHANGED <<items, wg, batch, pos, loc, present, phase, cancel, entry,
                     opened, shown, text, log>>
      /\ closed => closed'
      /\ stopped => stopped'
  BY DEF mgrVars, batchVars, itemVars, ctlVars, viewVars, bodyVars, textVars
<1>3. /\ ItemPlace' /\ ItemFacts' /\ CancelFacts' /\ TextFacts' /\ Counts'
      /\ CancelDoesNotPoisonLookup'
  BY <1>0, <1>2
  DEF ItemPlace, PlaceOf, ItemFacts, FactsOf, CancelFacts, CancelOf, TextFacts,
      Counts, CancelDoesNotPoisonLookup
<1>4. CloseFacts'
  BY <1>0 DEF CloseFacts, TypeOK, mgrVars
<1>5. QED
  BY <1>1, <1>3, <1>4 DEF IInv

----------------------------------------------------------------------------
(* The theorems.                                                            *)

LEMMA InitInv == Init => IInv
<1> SUFFICES ASSUME Init PROVE IInv
  OBVIOUS
<1>1. TypeOK
  BY InitType
<1>2. \A i \in Item : i[1] \in Batch
  BY ItemParts
<1>3. ItemPlace /\ ItemFacts /\ CancelFacts
  BY <1>2 DEF Init, ItemPlace, PlaceOf, ItemFacts, FactsOf, CancelFacts,
              CancelOf, NoUpdate, NoStatus
<1>4. TextFacts /\ Counts /\ CloseFacts /\ CancelDoesNotPoisonLookup
  BY DEF Init, TextFacts, Counts, CloseFacts, CancelDoesNotPoisonLookup
<1>5. QED
  BY <1>1, <1>3, <1>4 DEF IInv

\* IInv holds in every state of every behaviour.
THEOREM Inductive == Spec => []IInv
<1>1. IInv /\ [Next]_vars => IInv'
  <2> SUFFICES ASSUME IInv, [Next]_vars PROVE IInv'
    OBVIOUS
  <2>1. CASE UNCHANGED vars
    BY <2>1, StutterType
    DEF vars, IInv, ItemPlace, PlaceOf, ItemFacts, FactsOf, CancelFacts,
        CancelOf, TextFacts, Counts, CloseFacts, CancelDoesNotPoisonLookup
  <2>2. CASE Next
    BY <2>2, BatchStepInv, ItemStepInv, TextStepInv, CloseStepInv DEF Next
  <2>3. QED
    BY <2>1, <2>2
<1>2. QED
  BY InitInv, <1>1, PTL DEF Spec

\* A send is recorded at most once, and an item is shown as done only with
\* the outcome the history already holds.
THEOREM RecordedOnce == Spec => []RecordedOnceBeforeDone
<1>1. IInv => RecordedOnceBeforeDone
  <2> SUFFICES ASSUME IInv PROVE RecordedOnceBeforeDone
    OBVIOUS
  <2>1. ASSUME NEW i \in Item
        PROVE  /\ Len(log[i]) \in {0, 1}
               /\ shown[i].done => log[i] = <<shown[i].status>>
    <3>1. FactsOf(i)
      BY DEF IInv, ItemFacts
    <3>2. log[i] = <<>> \/ log[i] = <<entry[i]>>
      BY <3>1 DEF FactsOf
    <3>3. Len(log[i]) \in {0, 1}
      <4>1. Len(log[i]) = 0 \/ Len(log[i]) = 1
        BY <3>2, ShortSequences
      <4>2. QED
        BY <4>1
    <3>4. QED
      BY <3>1, <3>3 DEF FactsOf
  <2>2. ASSUME NEW t \in Text PROVE Len(log[t]) \in {0, 1}
    <3>1. text[t] \in {"idle", "refused", "locating", "saying", "recorded",
                      "returned"}
      BY DEF IInv, TypeOK
    <3>2. log[t] = <<>> \/ Len(log[t]) = 1
      BY <3>1 DEF IInv, TextFacts
    <3>3. Len(log[t]) = 0 \/ Len(log[t]) = 1
      BY <3>2, ShortSequences
    <3>4. QED
      BY <3>3
  <2>3. QED
    BY <2>1, <2>2 DEF RecordedOnceBeforeDone
<1>2. QED
  BY Inductive, <1>1, PTL

\* No update follows an item's Done update, in any step.
THEOREM DoneIsLast == Spec => NothingAfterDone
<1>1. IInv /\ [Next]_vars =>
        [\A i \in Item : shown[i].done => shown'[i] = shown[i]]_vars
  <2> SUFFICES ASSUME IInv, Next, NEW j \in Item, shown[j].done
               PROVE  shown'[j] = shown[j]
    OBVIOUS
  <2> USE DEF Emit
  <2>0. shown \in [Item -> Update]
    BY DEF IInv, TypeOK
  <2>1. ASSUME NEW b \in Batch, BatchStep(b) PROVE shown'[j] = shown[j]
    BY <2>0, <2>1 DEF BatchStep, SendPaths, Announce, Launch, WorkerExit,
                      itemVars, viewVars
  <2>2. ASSUME NEW i \in Item, ItemStep(i) PROVE shown'[j] = shown[j]
    BY <2>0, <2>2 DEF ItemStep, Start, Examine, Scan, Lookup, SendReturns,
       Progress, Deregister, RecordItem, Finish, Cancel, Begin, viewVars
  <2>3. ASSUME NEW t \in Text, TextStep(t) PROVE shown'[j] = shown[j]
    BY <2>3 DEF TextStep, SendText, TextLocated, Expire, TextFails,
       TextDelivered, TextReturns, itemVars, viewVars
  <2>4. ASSUME NEW c \in Closer, CloseStep(c) PROVE shown'[j] = shown[j]
    BY <2>4 DEF CloseStep, CloseMark, CloseStop, CloseReturn, itemVars, viewVars
  <2>5. QED
    BY <2>1, <2>2, <2>3, <2>4 DEF Next
<1>2. QED
  BY Inductive, <1>1, PTL DEF Spec, NothingAfterDone

\* A Close that has returned leaves nothing under way: every accepted send
\* was recorded and reported.
THEOREM CloseWaits == Spec => []CloseDrains
<1>1. IInv => CloseDrains
  <2> SUFFICES ASSUME IInv, NEW c \in Closer, closer[c] = "returned"
               PROVE  /\ closed /\ items = {}
                      /\ \A b \in Batch : batch[b] \in {"idle", "refused", "ended"}
                      /\ \A i \in Item : phase[i] # "none" => shown[i].done
                      /\ \A t \in Text : text[t] \in {"idle", "refused",
                                                     "returned"}
    BY DEF CloseDrains
  <2>1. closed /\ wg = {}
    BY DEF IInv, CloseFacts
  <2>2. \A b \in Batch : batch[b] \in {"idle", "refused", "ended"}
    BY <2>1 DEF IInv, Counts, TypeOK
  <2>3. \A t \in Text : text[t] \in {"idle", "refused", "returned"}
    BY <2>1 DEF IInv, Counts, TypeOK
  <2>4. ASSUME NEW i \in Item
        PROVE  i \notin items /\ (phase[i] # "none" => shown[i].done)
    <3>1. PlaceOf(i) /\ FactsOf(i) /\ i[1] \in Batch
      BY ItemParts DEF IInv, ItemPlace, ItemFacts
    <3>2. phase[i] \in {"none", "over"}
      BY <2>2, <3>1 DEF PlaceOf
    <3>3. QED
      BY <3>1, <3>2 DEF FactsOf
  <2>5. items \subseteq Item
    BY DEF IInv, TypeOK
  <2>6. QED
    BY <2>1, <2>2, <2>3, <2>4, <2>5
<1>2. QED
  BY Inductive, <1>1, PTL

\* An item cancelled while it was queued is never sent and ends cancelled.
THEOREM QueuedCancelIsFinal == Spec => []QueuedCancelHolds
<1>1. IInv => QueuedCancelHolds
  <2> SUFFICES ASSUME IInv, NEW i \in Item, cancel[i] = "queued"
               PROVE  /\ i \notin opened
                      /\ shown[i].done => shown[i].status = "cancelled"
    BY DEF QueuedCancelHolds
  <2>1. CancelOf(i) /\ FactsOf(i)
    BY DEF IInv, ItemFacts, CancelFacts
  <2>2. QED
    BY <2>1 DEF CancelOf, FactsOf
<1>2. QED
  BY Inductive, <1>1, PTL

\* Only a send somebody cancelled is recorded as cancelled.
THEOREM CancelIsReal == Spec => []NoPhantomCancel
<1>1. IInv => NoPhantomCancel
  <2> SUFFICES ASSUME IInv PROVE NoPhantomCancel
    OBVIOUS
  <2>1. ASSUME NEW i \in Item, log[i] = <<"cancelled">>
        PROVE  stopped \/ cancel[i] \in {"queued", "fired"}
    <3>1. CancelOf(i) /\ FactsOf(i)
      BY DEF IInv, ItemFacts, CancelFacts
    <3>2. entry[i] = "cancelled"
      BY <2>1, <3>1 DEF FactsOf
    <3>3. QED
      BY <3>1, <3>2 DEF CancelOf
  <2>2. QED
    BY <2>1 DEF NoPhantomCancel, IInv, TextFacts
<1>2. QED
  BY Inductive, <1>1, PTL

\* A cancelled item never makes its batch give up on the peer.
THEOREM LookupStaysHonest == Spec => []CancelDoesNotPoisonLookup
<1>1. IInv => CancelDoesNotPoisonLookup
  BY DEF IInv
<1>2. QED
  BY Inductive, <1>1, PTL

\* A cancel is final for its item and does nothing to the rest of its batch.
THEOREM CancelIsLocal == Spec => []CancelStaysWithItem
BY QueuedCancelIsFinal, LookupStaysHonest, PTL DEF CancelStaysWithItem

----------------------------------------------------------------------------
(* Transfer implements Outbox.                                              *)

\* The outbox of send x does not change.
Still(x) == OutboxState(x)' = OutboxState(x) /\ log'[x] = log[x]

\* What a step does when it is invisible to the Outbox.
LEMMA Invisible ==
  ASSUME \A x \in Item \cup Text : Still(x), OutboxGate' = OutboxGate
  PROVE  UNCHANGED Promise!vars
BY DEF Still, Promise!vars

\* The first entry in the history, where there was none, is the Outbox's Record.
LEMMA Recording ==
  ASSUME TypeOK, NEW x \in Item \cup Text, NEW o \in Status, Recorded(x, o),
         log[x] = <<>>, OutboxState(x) = "accepted",
         OutboxState(x)' = "recorded",
         \A y \in (Item \cup Text) \ {x} : OutboxState(y)' = OutboxState(y),
         OutboxGate' = OutboxGate
  PROVE  Promise!Record(x, o)
<1>1. log' = [log EXCEPT ![x] = <<o>>]
  BY ShortSequences DEF Recorded
<1>2. log \in [Item \cup Text -> Seq(Status \cup {NoStatus})]
  BY DEF TypeOK
<1>3. <<o>> # <<>> /\ <<o>>[1] = o
  OBVIOUS
<1>4. \A y \in Item \cup Text :
        (IF log'[y] = <<>> THEN NoStatus ELSE log'[y][1]) =
          IF y = x THEN o ELSE IF log[y] = <<>> THEN NoStatus ELSE log[y][1]
  BY <1>1, <1>2, <1>3
<1>5. QED
  BY <1>4 DEF Promise!Record

\* The final notice, or the answer of SendText, is its Report.
LEMMA Reporting ==
  ASSUME NEW x \in Item \cup Text, UNCHANGED log,
         OutboxState(x) = "recorded", OutboxState(x)' = "reported",
         \A y \in (Item \cup Text) \ {x} : OutboxState(y)' = OutboxState(y),
         OutboxGate' = OutboxGate
  PROVE  Promise!Report(x)
BY DEF Promise!Report

\* What SendPaths and SendText let in while no Close was called is its Accept.
LEMMA Accepting ==
  ASSUME NEW S \in SUBSET (Item \cup Text), UNCHANGED log,
         \A x \in S : OutboxState(x) = "absent" /\ OutboxState(x)' = "accepted",
         \A y \in (Item \cup Text) \ S : OutboxState(y)' = OutboxState(y),
         OutboxGate = "open", OutboxGate' = "open"
  PROVE  Promise!Accept(S)
BY DEF Promise!Accept

\* The stage of a send in the Outbox is that of its item or its text.
ItemStage(p) ==
  IF p = "over" THEN "reported" ELSE IF p = "finish" THEN "recorded"
  ELSE IF p = "none" THEN "absent" ELSE "accepted"

TextStage(s) ==
  IF s = "returned" THEN "reported" ELSE IF s = "recorded" THEN "recorded"
  ELSE IF s \in {"locating", "saying"} THEN "accepted" ELSE "absent"

\* The stage of an item follows from its phase,
LEMMA ItemStages ==
  ASSUME IInv, IInv', NEW i \in Item
  PROVE  /\ OutboxState(i) = ItemStage(phase[i])
         /\ OutboxState(i)' = ItemStage(phase'[i])
<1>1. FactsOf(i) /\ FactsOf(i)'
  BY DEF IInv, ItemFacts
<1>2. <<entry[i]>> # <<>> /\ <<entry'[i]>> # <<>>
  OBVIOUS
<1>3. QED
  BY <1>1, <1>2 DEF FactsOf, OutboxState, ItemStage

\* and that of a text from where SendText is.
LEMMA TextStages ==
  ASSUME IInv, IInv', NEW t \in Text
  PROVE  /\ OutboxState(t) = TextStage(text[t])
         /\ OutboxState(t)' = TextStage(text'[t])
<1>1. t \notin Item
  BY ItemsAreNotTexts
<1>2. Len(<<>>) = 0
  BY ShortSequences
<1>3. /\ text[t] \in {"idle", "refused", "locating", "saying", "recorded",
                      "returned"}
      /\ text'[t] \in {"idle", "refused", "locating", "saying", "recorded",
                       "returned"}
  BY DEF IInv, TypeOK
<1>4. /\ log[t] = <<>> <=> text[t] \notin {"recorded", "returned"}
      /\ log'[t] = <<>> <=> text'[t] \notin {"recorded", "returned"}
  BY <1>2, <1>3 DEF IInv, TextFacts
<1>5. QED
  BY <1>1, <1>4 DEF OutboxState, TextStage

\* The gate is open until a Close is called, and only Close moves it.
LEMMA Gates ==
  ASSUME IInv
  PROVE  /\ ~closed => OutboxGate = "open"
         /\ UNCHANGED <<closed, closer>> => OutboxGate' = OutboxGate
BY DEF OutboxGate, IInv, CloseFacts

\* A step of the manager as the Outbox sees it.
Seen == Promise!Next \/ UNCHANGED Promise!vars

\* SendPaths accepts the items of its batch; its worker shows nothing itself.
LEMMA BatchStepSeen ==
  ASSUME IInv, IInv', NEW b \in Batch, BatchStep(b)
  PROVE  Seen
<1>1. /\ UNCHANGED <<text, log, closed, closer>>
      /\ OutboxGate' = OutboxGate
  BY Gates DEF BatchStep, SendPaths, Announce, Launch, WorkerExit, itemVars,
               textVars, mgrVars
<1>2. \A t \in Text : OutboxState(t)' = OutboxState(t)
  BY <1>1, TextStages
<1>3. CASE SendPaths(b) /\ ~closed
  <2>1. ItemsOf(b) \subseteq Item
    BY ItemsOfAreItems
  <2>2. /\ batch[b] = "idle"
        /\ phase' = [i \in Item |-> IF i \in ItemsOf(b) THEN "queued"
                                    ELSE phase[i]]
    BY <1>3 DEF SendPaths
  <2>3. ASSUME NEW i \in Item
        PROVE  IF i \in ItemsOf(b)
               THEN OutboxState(i) = "absent" /\ OutboxState(i)' = "accepted"
               ELSE OutboxState(i)' = OutboxState(i)
    <3>1. i \in ItemsOf(b) => phase[i] = "none"
      BY <2>2, ItemsOfBatch DEF IInv, ItemPlace, PlaceOf
    <3>2. phase'[i] = IF i \in ItemsOf(b) THEN "queued" ELSE phase[i]
      BY <2>2
    <3>3. QED
      BY <3>1, <3>2, ItemStages DEF ItemStage
  <2>4. OutboxGate = "open"
    BY <1>3, Gates
  <2>5. Promise!Accept(ItemsOf(b))
    BY <1>1, <1>2, <2>1, <2>3, <2>4, ItemsAreNotTexts, Accepting
  <2>6. QED
    BY <2>1, <2>5 DEF Seen, Promise!Next
<1>4. CASE ~(SendPaths(b) /\ ~closed)
  <2>1. UNCHANGED phase
    BY <1>4 DEF BatchStep, SendPaths, Announce, Launch, WorkerExit, itemVars,
                ctlVars
  <2>2. \A i \in Item : OutboxState(i)' = OutboxState(i)
    BY <2>1, ItemStages
  <2>3. QED
    BY <1>1, <1>2, <2>2, Invisible DEF Still, Seen
<1>5. QED
  BY <1>3, <1>4

\* Of the steps of an item only the record and the final notice are seen.
LEMMA ItemStepSeen ==
  ASSUME IInv, IInv', NEW i \in Item, ItemStep(i)
  PROVE  Seen
<1>0. TypeOK
  BY DEF IInv
<1>1. /\ UNCHANGED <<text, closed, closer>>
      /\ OutboxGate' = OutboxGate
      /\ \A t \in Text : log'[t] = log[t]
  BY <1>0, Gates, ItemStepOutside
<1>2. \A t \in Text : OutboxState(t)' = OutboxState(t)
  BY <1>1, TextStages
<1>3. \A j \in Item \ {i} : OutboxState(j)' = OutboxState(j)
                            /\ log'[j] = log[j]
  BY <1>0, ItemStages, ItemStepFrame
<1>4. \A y \in (Item \cup Text) \ {i} : OutboxState(y)' = OutboxState(y)
  BY <1>2, <1>3
<1>5. OutboxState(i) = ItemStage(phase[i])
      /\ OutboxState(i)' = ItemStage(phase'[i])
  BY ItemStages
<1>6. phase \in [Item -> Phases]
  BY <1>0 DEF TypeOK
<1>7. CASE RecordItem(i)
  <2>1. phase[i] = "record" /\ phase'[i] = "finish"
    BY <1>6, <1>7 DEF RecordItem
  <2>2. FactsOf(i) /\ entry[i] \in Status \cup {NoStatus}
    BY DEF IInv, ItemFacts, TypeOK
  <2>3. log[i] = <<>> /\ entry[i] \in Status
    BY <2>1, <2>2 DEF FactsOf
  <2>4. PICK o \in Status : o = entry[i]
    BY <2>3
  <2>5. Recorded(i, o)
    BY <1>7, <2>4 DEF RecordItem, Recorded
  <2>6. Promise!Record(i, o)
    BY <1>0, <1>1, <1>4, <1>5, <2>1, <2>3, <2>5, Recording DEF ItemStage
  <2>7. QED
    BY <2>6 DEF Seen, Promise!Next
<1>8. CASE Finish(i)
  <2>1. phase[i] = "finish" /\ phase'[i] = "over" /\ UNCHANGED log
    BY <1>6, <1>8 DEF Finish
  <2>2. Promise!Report(i)
    BY <1>1, <1>4, <1>5, <2>1, Reporting DEF ItemStage
  <2>3. QED
    BY <2>2 DEF Seen, Promise!Next
<1>9. CASE ~RecordItem(i) /\ ~Finish(i)
  <2>1. UNCHANGED log
    BY <1>9 DEF ItemStep, Start, Examine, Scan, Lookup, SendReturns, Progress,
                Deregister, Cancel
  <2>2. phase'[i] = phase[i] \/
          {phase[i], phase'[i]} \cap {"none", "finish", "over"} = {}
    BY <1>6, <1>9 DEF ItemStep, Start, Examine, Scan, Lookup, SendReturns,
                      Progress, Deregister, Cancel, GiveUp, ctlVars
  <2>3. OutboxState(i)' = OutboxState(i)
    BY <1>5, <2>2 DEF ItemStage
  <2>4. QED
    BY <1>1, <1>4, <2>1, <2>3, Invisible DEF Still, Seen
<1>10. QED
  BY <1>7, <1>8, <1>9

\* A text is accepted, recorded when it fails or arrives, and answered.
LEMMA TextStepSeen ==
  ASSUME IInv, IInv', NEW t \in Text, TextStep(t)
  PROVE  Seen
<1> USE DEF itemVars, ctlVars, viewVars
<1>0. TypeOK
  BY DEF IInv
<1>1. UNCHANGED <<phase, closed, closer>> /\ OutboxGate' = OutboxGate
  BY Gates DEF TextStep, SendText, TextLocated, Expire, TextFails,
               TextDelivered, TextReturns, mgrVars
<1>2. \A i \in Item : OutboxState(i)' = OutboxState(i)
  BY <1>1, ItemStages
<1>3. \A s \in Text \ {t} : text'[s] = text[s]
  BY <1>0 DEF TypeOK, TextStep, SendText, TextLocated, Expire, TextFails,
              TextDelivered, TextReturns, textVars
<1>4. \A y \in (Item \cup Text) \ {t} : OutboxState(y)' = OutboxState(y)
  BY <1>2, <1>3, TextStages
<1>5. /\ OutboxState(t) = TextStage(text[t])
      /\ OutboxState(t)' = TextStage(text'[t])
  BY TextStages
<1>6. text \in [Text -> {"idle", "refused", "locating", "saying", "recorded",
                         "returned"}]
  BY <1>0 DEF TypeOK
<1>7. CASE SendText(t) /\ ~closed
  <2>1. text[t] = "idle" /\ text'[t] = "locating" /\ UNCHANGED log
    BY <1>6, <1>7 DEF SendText
  <2>2. OutboxGate = "open"
    BY <1>7, Gates
  <2>3. Promise!Accept({t})
    BY <1>1, <1>4, <1>5, <2>1, <2>2, Accepting DEF TextStage
  <2>4. QED
    BY <2>3 DEF Seen, Promise!Next
<1>8. ASSUME NEW o \in Status, text[t] \in {"locating", "saying"},
             Recorded(t, o), text' = [text EXCEPT ![t] = "recorded"]
      PROVE  Seen
  <2>1. log[t] = <<>>
    BY <1>8 DEF IInv, TextFacts
  <2>2. text'[t] = "recorded"
    BY <1>6, <1>8
  <2>3. Promise!Record(t, o)
    BY <1>0, <1>1, <1>4, <1>5, <1>8, <2>1, <2>2, Recording DEF TextStage
  <2>4. QED
    BY <2>3 DEF Seen, Promise!Next
<1>9. CASE TextFails(t) \/ TextDelivered(t)
  <2>1. TextFailure(t) \in Status /\ "ok" \in Status
    BY DEF TextFailure, FailedStatus, Status
  <2>2. QED
    BY <1>8, <1>9, <2>1 DEF TextFails, TextDelivered
<1>10. CASE TextReturns(t)
  <2>1. text[t] = "recorded" /\ text'[t] = "returned" /\ UNCHANGED log
    BY <1>6, <1>10 DEF TextReturns
  <2>2. Promise!Report(t)
    BY <1>1, <1>4, <1>5, <2>1, Reporting DEF TextStage
  <2>3. QED
    BY <2>2 DEF Seen, Promise!Next
<1>11. CASE (SendText(t) /\ closed) \/ TextLocated(t) \/ Expire(t)
  <2>1. UNCHANGED log
    BY <1>11 DEF SendText, TextLocated, Expire
  <2>2. \/ text'[t] = text[t]
        \/ text[t] = "idle" /\ text'[t] = "refused"
        \/ text[t] = "locating" /\ text'[t] = "saying"
    BY <1>6, <1>11 DEF SendText, TextLocated, Expire
  <2>3. OutboxState(t)' = OutboxState(t)
    BY <1>5, <2>2 DEF TextStage
  <2>4. QED
    BY <1>1, <1>4, <2>1, <2>3, Invisible DEF Still, Seen
<1>12. QED
  BY <1>7, <1>9, <1>10, <1>11 DEF TextStep

\* The first Close shuts the gate, the first that returns drains the outbox.
LEMMA CloseStepSeen ==
  ASSUME IInv, IInv', NEW c \in Closer, CloseStep(c)
  PROVE  Seen
<1> USE DEF itemVars, ctlVars, textVars
<1>1. UNCHANGED <<phase, text, log>>
  BY DEF CloseStep, CloseMark, CloseStop, CloseReturn
<1>2. \A x \in Item \cup Text : Still(x)
  BY <1>1, ItemStages, TextStages DEF Still
<1>3. closer \in [Closer -> {"idle", "marked", "waiting", "returned"}]
  BY DEF IInv, TypeOK
<1>4. CASE OutboxGate' = OutboxGate
  BY <1>2, <1>4, Invisible DEF Seen
<1>5. CASE CloseMark(c) /\ OutboxGate' # OutboxGate
  <2>1. OutboxGate = "open" /\ OutboxGate' = "shut"
    BY <1>3, <1>5 DEF CloseMark, OutboxGate
  <2>2. Promise!Shut
    BY <1>2, <2>1 DEF Promise!Shut, Still
  <2>3. QED
    BY <2>2 DEF Seen, Promise!Next
<1>6. CASE CloseStop(c)
  BY <1>3, <1>4, <1>6 DEF CloseStop, OutboxGate
<1>7. CASE CloseReturn(c) /\ OutboxGate' # OutboxGate
  <2>1. closed /\ wg = {}
    BY <1>7 DEF CloseReturn, IInv, CloseFacts
  <2>2. OutboxGate = "shut" /\ OutboxGate' = "drained"
    BY <1>3, <1>7, <2>1 DEF CloseReturn, OutboxGate, mgrVars
  <2>3. \A t \in Text : OutboxState(t) \in {"absent", "reported"}
    BY <2>1, TextStages DEF TextStage, IInv, TypeOK, Counts
  <2>4. ASSUME NEW i \in Item
        PROVE  OutboxState(i) \in {"absent", "reported"}
    <3>1. i[1] \in Batch /\ PlaceOf(i)
      BY ItemParts DEF IInv, ItemPlace
    <3>2. batch[i[1]] \in {"idle", "refused", "ended"}
      BY <2>1, <3>1 DEF IInv, TypeOK, Counts
    <3>3. phase[i] \in {"none", "over"}
      BY <3>1, <3>2 DEF PlaceOf
    <3>4. QED
      BY <3>3, ItemStages DEF ItemStage
  <2>5. Promise!Drain
    BY <1>2, <2>2, <2>3, <2>4 DEF Promise!Drain, Still
  <2>6. QED
    BY <2>5 DEF Seen, Promise!Next
<1>8. QED
  BY <1>4, <1>5, <1>6, <1>7 DEF CloseStep

\* Each step of the Manager is one of the Outbox or invisible: a send that was
\* accepted is recorded once, reported after that, and before a Close returns.
THEOREM Implements == Spec => ImplementsOutbox
<1>1. Init => Promise!Init
  <2> SUFFICES ASSUME Init PROVE Promise!Init
    OBVIOUS
  <2>1. \A x \in Item \cup Text : OutboxState(x) = "absent" /\ log[x] = <<>>
    BY ItemsAreNotTexts DEF Init, OutboxState, NoUpdate
  <2>2. OutboxGate = "open"
    BY DEF Init, OutboxGate
  <2>3. QED
    BY <2>1, <2>2 DEF Promise!Init, Promise!NoOutcome, NoStatus
<1>2. IInv /\ IInv' /\ [Next]_vars => [Promise!Next]_(Promise!vars)
  <2> SUFFICES ASSUME IInv, IInv', [Next]_vars PROVE Seen
    BY DEF Seen
  <2>1. CASE UNCHANGED vars
    <3>1. UNCHANGED <<phase, text, log, closed, closer>>
      BY <2>1 DEF vars
    <3>2. \A x \in Item \cup Text : Still(x)
      BY <3>1, ItemStages, TextStages DEF Still
    <3>3. QED
      BY <3>1, <3>2, Gates, Invisible DEF Seen
  <2>2. CASE Next
    BY <2>2, BatchStepSeen, ItemStepSeen, TextStepSeen, CloseStepSeen DEF Next
  <2>3. QED
    BY <2>1, <2>2
<1>3. QED
  BY Inductive, <1>1, <1>2, PTL DEF Spec, ImplementsOutbox, Promise!Spec

----------------------------------------------------------------------------
(* Progress bars.                                                           *)

\* Division as the prover knows it.
LEMMA Quotient ==
  ASSUME NEW a \in Nat, NEW d \in Nat, d > 0
  PROVE  /\ a \div d \in Nat
         /\ d * (a \div d) <= a /\ a < d * (a \div d) + d
OBVIOUS

\* A product grows with its factor,
LEMMA TimesGrows ==
  ASSUME NEW d \in Nat, NEW p \in Nat, NEW q \in Nat, p <= q
  PROVE  d * p <= d * q
<1>1. PICK r \in Nat : q = p + r
  <2>1. q - p \in Nat /\ q = p + (q - p)
    OBVIOUS
  <2>2. QED
    BY <2>1
<1>2. d * q = d * p + d * r /\ d * r \in Nat /\ d * p \in Nat
  BY <1>1
<1>3. QED
  BY <1>2

\* a quotient with what is divided,
LEMMA QuotientGrows ==
  ASSUME NEW a \in Nat, NEW b \in Nat, NEW d \in Nat, d > 0, a <= b
  PROVE  a \div d <= b \div d
<1> DEFINE p == a \div d
           q == b \div d
<1>1. /\ p \in Nat /\ q \in Nat
      /\ d * p <= a /\ b < d * q + d
  BY Quotient
<1>2. ASSUME q < p PROVE FALSE
  <2>1. d * (q + 1) <= d * p
    BY <1>1, <1>2, TimesGrows
  <2>2. d * (q + 1) = d * q + d
    BY <1>1
  <2>3. d * p \in Nat /\ d * q \in Nat
    BY <1>1
  <2>4. QED
    BY <1>1, <2>1, <2>2, <2>3
<1>3. QED
  BY <1>1, <1>2

\* and the quotient of a multiple is its factor.
LEMMA WholeQuotient ==
  ASSUME NEW c \in Nat, NEW d \in Nat, d > 0
  PROVE  (d * c) \div d = c
<1> DEFINE q == (d * c) \div d
<1>1. q \in Nat /\ d * c \in Nat /\ d * q <= d * c /\ d * c < d * q + d
  BY Quotient
<1>2. ASSUME c < q PROVE FALSE
  <2>1. d * (c + 1) <= d * q /\ d * (c + 1) = d * c + d
    BY <1>1, <1>2, TimesGrows
  <2>2. QED
    BY <1>1, <2>1
<1>3. ASSUME q < c PROVE FALSE
  <2>1. d * (q + 1) <= d * c /\ d * (q + 1) = d * q + d
    BY <1>1, <1>3, TimesGrows
  <2>2. QED
    BY <1>1, <2>1
<1>4. QED
  BY <1>1, <1>2, <1>3

\* A scaled reading grows with what was read, up to the content.
LEMMA ScaleGrows ==
  ASSUME NEW s \in Nat, NEW t \in Nat, NEW c \in Nat
  PROVE  /\ ScaleProgress(s, t, c) \in Nat
         /\ ScaleProgress(s, t, c) <= ScaleProgress(s + 1, t, c)
         /\ ScaleProgress(s, t, c) <= c
<1>1. CASE t <= 0 \/ c <= 0
  BY <1>1 DEF ScaleProgress
<1>2. CASE t > 0 /\ c > 0
  <2>0. ASSUME NEW k \in Nat, k <= t
        PROVE  /\ (k * c) \div t \in Nat /\ (k * c) \div t <= c
               /\ k * c \in Nat
    <3>1. k * c \in Nat /\ t * c \in Nat /\ k * c = c * k /\ t * c = c * t
      OBVIOUS
    <3>2. k * c <= t * c
      BY <2>0, <3>1, TimesGrows
    <3>3. (k * c) \div t <= (t * c) \div t
      BY <1>2, <3>1, <3>2, QuotientGrows
    <3>4. QED
      BY <1>2, <3>1, <3>3, WholeQuotient, Quotient
  <2>1. CASE s >= t
    BY <1>2, <2>1 DEF ScaleProgress
  <2>2. CASE s < t
    <3>1. (s * c) \div t <= ((s + 1) * c) \div t
      <4>1. s * c <= (s + 1) * c /\ s * c \in Nat /\ (s + 1) * c \in Nat
        <5>1. (s + 1) * c = s * c + c /\ s * c \in Nat
          OBVIOUS
        <5>2. QED
          BY <5>1
      <4>2. QED
        BY <1>2, <4>1, QuotientGrows
    <3>2. /\ ScaleProgress(s, t, c) = IF s = 0 THEN 0 ELSE (s * c) \div t
          /\ ScaleProgress(s + 1, t, c) =
               IF s + 1 >= t THEN c ELSE ((s + 1) * c) \div t
      BY <1>2, <2>2 DEF ScaleProgress
    <3>3. /\ (s * c) \div t \in Nat /\ (s * c) \div t <= c
          /\ s + 1 < t => ((s + 1) * c) \div t \in Nat
      BY <2>0, <2>2
    <3>4. QED
      BY <3>1, <3>2, <3>3
  <2>3. QED
    BY <2>1, <2>2
<1>3. QED
  BY <1>1, <1>2

\* What the transport has read of an item, and what was reported of it.
BarOf(i) ==
  /\ i \in opened =>
       phase[i] \in {"sending", "settle", "record", "finish", "over"}
  /\ i \notin opened => wire[i] = 0
  /\ sent[i] = Reading(i, wire[i])
  /\ shown[i].sent <= shown[i].total
  /\ ~shown[i].done => shown[i].sent <= sent[i]

Bars == \A i \in Item : BarOf(i)

\* What BarNeverShrinks says of an item and a step.
Grows(i) ==
  /\ shown'[i].sent >= shown[i].sent
  /\ shown'[i].total > 0 => shown'[i].sent <= shown'[i].total

\* The same of the reading of an item, which starts at 0.
LEMMA ReadingGrows ==
  ASSUME TypeOK, NEW i \in Item, NEW s \in Nat
  PROVE  /\ Reading(i, 0) = 0
         /\ Reading(i, s) \in Nat /\ Reading(i, s) <= base[i]
         /\ Reading(i, s) <= Reading(i, s + 1)
<1>1. base[i] \in Nat /\ Wire \in Nat
  BY SizeType DEF TypeOK
<1>2. ScaleProgress(0, Wire, base[i]) = 0
  BY DEF ScaleProgress
<1>3. /\ ScaleProgress(s, Wire, base[i]) \in Nat
      /\ ScaleProgress(s, Wire, base[i]) <= base[i]
      /\ ScaleProgress(s, Wire, base[i]) <= ScaleProgress(s + 1, Wire, base[i])
  BY <1>1, ScaleGrows
<1>4. QED
  BY <1>1, <1>2, <1>3 DEF Reading

\* The numbers of a bar.
LEMMA BarTypes ==
  ASSUME TypeOK, NEW i \in Item
  PROVE  /\ base[i] \in Nat /\ sent[i] \in Nat /\ wire[i] \in Nat
         /\ shown[i].sent \in Nat /\ shown[i].total \in Nat
         /\ shown[i].done \in BOOLEAN
BY SizeType DEF TypeOK, Update

\* An update that does not go back keeps the bar, and what is done stays.
LEMMA Reported ==
  ASSUME TypeOK, NEW i \in Item, NEW u \in Update, Emit(i, u),
         shown[i].sent <= shown[i].total, u.sent <= u.total,
         ~shown[i].done => shown[i].sent <= u.sent
  PROVE  /\ Grows(i) /\ shown'[i].sent <= shown'[i].total
         /\ \/ shown'[i] = shown[i] /\ shown[i].done
            \/ shown'[i] = u
<1>1. shown \in [Item -> Update]
  BY DEF TypeOK
<1>2. shown'[i] = IF shown[i].done THEN shown[i] ELSE u
  BY <1>1 DEF Emit
<1>3. u.sent \in Nat /\ u.total \in Nat
  BY DEF Update
<1>4. QED
  BY <1>2, <1>3, BarTypes DEF Grows

\* An item whose bar a step leaves alone.
BarStays(j) ==
  /\ kind'[j] = kind[j] /\ base'[j] = base[j] /\ shown'[j] = shown[j]
  /\ wire'[j] = wire[j] /\ sent'[j] = sent[j]
  /\ j \in opened' <=> j \in opened

\* Such a bar keeps its invariant, wherever else the item goes.
LEMMA Untouched ==
  ASSUME TypeOK, NEW j \in Item, BarOf(j), BarStays(j),
         \/ phase'[j] = phase[j]
         \/ j \notin opened
         \/ phase'[j] \in {"sending", "settle", "record", "finish", "over"}
  PROVE  BarOf(j)' /\ Grows(j)
BY BarTypes DEF BarOf, BarStays, Grows, Reading

\* A batch's steps touch the bar of the item they announce, at 0.
LEMMA BatchStepBars ==
  ASSUME IInv, NEW b \in Batch, BatchStep(b), NEW j \in Item, BarOf(j)
  PROVE  BarOf(j)' /\ Grows(j)
<1> USE DEF viewVars, bodyVars, ctlVars, itemVars
<1>0. TypeOK /\ ItemPlace /\ FactsOf(j) /\ PlaceOf(j) /\ j[1] \in Batch
  BY ItemParts DEF IInv, ItemPlace, ItemFacts
<1>1. CASE SendPaths(b)
  <2>1. BarStays(j)
    BY <1>1 DEF SendPaths, BarStays
  <2>2. phase'[j] = phase[j] \/ phase[j] = "none"
    BY <1>0, <1>1, ItemsOfBatch DEF SendPaths, PlaceOf
  <2>3. QED
    BY <1>0, <2>1, <2>2, Untouched DEF BarOf
<1>2. CASE Announce(b) /\ j = <<b, pos[b]>>
  <2>1. phase[j] = "queued" /\ UNCHANGED <<kind, base, opened, wire, sent, phase>>
    BY <1>0, <1>2 DEF Announce, PlaceOf
  <2>2. j \notin opened /\ ~shown[j].done
    BY <1>0, <2>1 DEF BarOf, FactsOf
  <2>3. sent[j] = 0 /\ shown[j].sent = 0
    BY <1>0, <2>2, BarTypes, ReadingGrows DEF BarOf
  <2>4. Running(0, base[j]) \in Update /\ Emit(j, Running(0, base[j]))
    BY <1>0, <1>2, BarTypes, UpdateTypes DEF Announce
  <2>5. Grows(j) /\ shown'[j].sent <= shown'[j].total /\ shown'[j].sent = 0
    BY <1>0, <2>3, <2>4, BarTypes, Reported DEF BarOf, Running
  <2>6. QED
    BY <2>1, <2>2, <2>3, <2>5 DEF BarOf, Reading
<1>3. CASE ~SendPaths(b) /\ ~(Announce(b) /\ j = <<b, pos[b]>>)
  <2>1. BarStays(j) /\ phase'[j] = phase[j]
    BY <1>0, <1>3 DEF BatchStep, Announce, Launch, WorkerExit, Emit, BarStays,
                      TypeOK
  <2>2. QED
    BY <1>0, <2>1, Untouched
<1>4. QED
  BY <1>1, <1>2, <1>3

\* A step of another item.
LEMMA OtherBars ==
  ASSUME TypeOK, NEW i \in Item, ItemStep(i), NEW j \in Item, j # i
  PROVE  BarStays(j)
<1>1. shown'[j] = shown[j] /\ (j \in opened' <=> j \in opened)
  BY ItemStepFrame
<1>2. /\ kind'[j] = kind[j] /\ base'[j] = base[j]
      /\ wire'[j] = wire[j] /\ sent'[j] = sent[j]
  BY DEF TypeOK, ItemStep, Start, Examine, Scan, Lookup, SendReturns, Progress,
     Deregister, RecordItem, Finish, Cancel, Begin, viewVars, bodyVars
<1>3. QED
  BY <1>1, <1>2 DEF BarStays

\* A step of an item moves its own bar forward or not at all.
LEMMA ItemStepBars ==
  ASSUME IInv, NEW i \in Item, ItemStep(i), BarOf(i)
  PROVE  BarOf(i)' /\ Grows(i)
<1> USE DEF viewVars, bodyVars, ctlVars
<1>0. TypeOK /\ FactsOf(i) /\ phase \in [Item -> Phases]
  BY DEF IInv, ItemFacts, TypeOK
<1>1. ASSUME NEW n \in Nat, Begin(i, n), UNCHANGED <<opened, wire, sent>>,
             phase[i] \in {"examine", "scan"}
      PROVE  BarOf(i)' /\ Grows(i)
  <2>1. i \notin opened /\ wire[i] = 0 /\ ~shown[i].done
    BY <1>0, <1>1 DEF BarOf, FactsOf
  <2>2. sent[i] = 0 /\ shown[i].sent = 0
    BY <1>0, <2>1, BarTypes, ReadingGrows DEF BarOf
  <2>3. Running(0, n) \in Update /\ Emit(i, Running(0, n))
    BY <1>1, UpdateTypes DEF Begin
  <2>4. Grows(i) /\ shown'[i].sent <= shown'[i].total /\ shown'[i].sent = 0
    BY <1>0, <1>1, <2>2, <2>3, BarTypes, Reported DEF BarOf, Running
  <2>5. base'[i] = n
    BY <1>0, <1>1 DEF Begin, TypeOK
  <2>6. Reading(i, wire[i])' = 0
    BY <1>1, <2>1, <2>5 DEF Reading, ScaleProgress
  <2>7. QED
    BY <1>1, <2>1, <2>2, <2>4, <2>6 DEF BarOf
<1>2. CASE Examine(i) \/ Scan(i)
  <2>1. CASE UNCHANGED viewVars
    <3>1. BarStays(i) /\ i \notin opened
      BY <1>0, <1>2, <2>1 DEF Examine, Scan, BarStays, BarOf
    <3>2. QED
      BY <1>0, <3>1, Untouched
  <2>2. CASE ~UNCHANGED viewVars
    <3>1. /\ Begin(i, 0) \/ Begin(i, Size)
          /\ UNCHANGED <<opened, wire, sent>>
          /\ phase[i] \in {"examine", "scan"}
      BY <1>2, <2>2 DEF Examine, Scan
    <3>2. QED
      BY <1>1, <3>1, SizeType
  <2>3. QED
    BY <2>1, <2>2
<1>3. CASE Progress(i)
  <2> DEFINE r == Reading(i, wire[i] + 1)
  <2>1. /\ i \in opened /\ UNCHANGED <<kind, base, opened, phase>>
        /\ wire'[i] = wire[i] + 1 /\ sent'[i] = r
        /\ Emit(i, Running(r, base[i])) \/ UNCHANGED shown
    BY <1>0, <1>3 DEF Progress, TypeOK
  <2>2. r \in Nat /\ sent[i] <= r /\ r <= base[i]
    <3>1. wire[i] + 1 \in Nat
      BY <1>0, BarTypes
    <3>2. QED
      BY <1>0, <3>1, BarTypes, ReadingGrows DEF BarOf
  <2>3. Reading(i, wire[i])' = r
    BY <2>1 DEF Reading
  <2>4. CASE Emit(i, Running(r, base[i]))
    <3>1. Running(r, base[i]) \in Update
      BY <1>0, <2>2, BarTypes, UpdateTypes
    <3>2. /\ Grows(i) /\ shown'[i].sent <= shown'[i].total
          /\ \/ shown'[i] = shown[i] /\ shown[i].done
             \/ shown'[i] = Running(r, base[i])
      BY <1>0, <2>2, <2>4, <3>1, BarTypes, Reported DEF BarOf, Running
    <3>3. ~shown'[i].done => shown'[i].sent <= r
      BY <2>2, <3>2 DEF Running
    <3>4. QED
      BY <2>1, <2>3, <3>2, <3>3 DEF BarOf
  <2>5. CASE UNCHANGED shown
    BY <1>0, <2>1, <2>2, <2>3, <2>5, BarTypes DEF BarOf, Grows
  <2>6. QED
    BY <2>1, <2>4, <2>5
<1>4. CASE Finish(i)
  <2>1. /\ phase'[i] = "over"
        /\ UNCHANGED <<kind, base, opened, wire, sent>>
        /\ Emit(i, Ended(FinalSent(i), base[i], entry[i]))
        /\ ~shown[i].done
    BY <1>0, <1>4 DEF Finish, FactsOf
  <2>2. sent[i] <= base[i]
    BY <1>0, BarTypes, ReadingGrows DEF BarOf
  <2>3. /\ FinalSent(i) \in Nat /\ FinalSent(i) <= base[i]
        /\ shown[i].sent <= FinalSent(i)
    BY <1>0, <2>1, <2>2, BarTypes DEF FinalSent, BarOf
  <2>4. Ended(FinalSent(i), base[i], entry[i]) \in Update
    <3>1. entry[i] \in Status \cup {NoStatus}
      BY <1>0 DEF TypeOK
    <3>2. QED
      BY <1>0, <2>3, <3>1, BarTypes, UpdateTypes
  <2>5. /\ Grows(i) /\ shown'[i].sent <= shown'[i].total
        /\ shown'[i].done
    BY <1>0, <2>1, <2>3, <2>4, Reported DEF BarOf, Ended
  <2>6. QED
    BY <2>1, <2>5 DEF BarOf, Reading
<1>5. CASE Lookup(i)
  <2>1. /\ UNCHANGED <<kind, base, shown, wire, sent>>
        /\ \/ opened' = opened \cup {i} /\ phase'[i] = "sending"
           \/ opened' = opened /\ phase'[i] = "settle"
    BY <1>0, <1>5 DEF Lookup, GiveUp
  <2>2. QED
    BY <1>0, <2>1, BarTypes DEF BarOf, Grows, Reading
<1>6. CASE Start(i) \/ SendReturns(i) \/ Deregister(i) \/ RecordItem(i)
             \/ Cancel(i)
  <2>1. BarStays(i)
    BY <1>6 DEF Start, SendReturns, Deregister, RecordItem, Cancel, BarStays
  <2>2. \/ phase'[i] = phase[i]
        \/ i \notin opened
        \/ phase'[i] \in {"sending", "settle", "record", "finish", "over"}
    BY <1>0, <1>6 DEF Start, SendReturns, Deregister, RecordItem, Cancel, BarOf
  <2>3. QED
    BY <1>0, <2>1, <2>2, Untouched
<1>7. QED
  BY <1>2, <1>3, <1>4, <1>5, <1>6 DEF ItemStep

\* A bar never runs backwards nor past its end, whatever callbacks come late.
THEOREM BarsGrow == Spec => BarNeverShrinks
<1>1. Init => Bars
  <2> SUFFICES ASSUME Init, NEW i \in Item PROVE BarOf(i)
    BY DEF Bars
  <2>1. TypeOK
    BY InitType
  <2>2. Reading(i, 0) = 0
    BY <2>1, ReadingGrows
  <2>3. QED
    BY <2>2 DEF Init, BarOf, NoUpdate
<1>2. IInv /\ Bars /\ [Next]_vars =>
        Bars' /\ [\A i \in Item : Grows(i)]_vars
  <2> SUFFICES ASSUME IInv, Bars, [Next]_vars, NEW j \in Item
               PROVE  BarOf(j)' /\ Grows(j)
    BY DEF Bars
  <2>0. TypeOK /\ BarOf(j)
    BY DEF IInv, Bars
  <2>1. ASSUME NEW i \in Item, ItemStep(i) PROVE BarOf(j)' /\ Grows(j)
    <3>1. CASE i = j
      BY <2>0, <2>1, <3>1, ItemStepBars
    <3>2. CASE i # j
      <4>1. BarStays(j) /\ phase'[j] = phase[j]
        BY <2>0, <2>1, <3>2, OtherBars, ItemStepFrame
      <4>2. QED
        BY <2>0, <4>1, Untouched
    <3>3. QED
      BY <3>1, <3>2
  <2>2. ASSUME \/ UNCHANGED vars
               \/ \E t \in Text : TextStep(t)
               \/ \E c \in Closer : CloseStep(c)
        PROVE  BarOf(j)' /\ Grows(j)
    <3>1. UNCHANGED <<phase, kind, base, shown, wire, sent, opened>>
      BY <2>2 DEF vars, TextStep, SendText, TextLocated, Expire, TextFails,
         TextDelivered, TextReturns, CloseStep, CloseMark, CloseStop,
         CloseReturn, itemVars, ctlVars, viewVars, bodyVars
    <3>2. QED
      BY <2>0, <3>1, Untouched DEF BarStays
  <2>3. QED
    BY <2>0, <2>1, <2>2, BatchStepBars DEF Next
<1>3. QED
  BY Inductive, <1>1, <1>2, PTL DEF Spec, BarNeverShrinks, Grows
=============================================================================
