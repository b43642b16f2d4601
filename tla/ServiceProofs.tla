----------------------------- MODULE ServiceProofs ----------------------------
(***************************************************************************)
(* Proofs about the desktop application's receiver, for any number of      *)
(* settings changes, retries, sends and arrivals, and any bounds.          *)
(***************************************************************************)
EXTENDS Service, SequenceTheorems, FiniteSetTheorems, TLAPS

----------------------------------------------------------------------------
(* The queue.                                                               *)

\* A push appends one work item, or nothing once the queue is closed.
LEMMA Pushed ==
  ASSUME queue \in Seq(WorkItem), NEW kind, NEW x,
         Push(kind, x), Work(kind, x) \in WorkItem
  PROVE  /\ queue' = IF qclosed THEN queue ELSE Append(queue, Work(kind, x))
         /\ queue' \in Seq(WorkItem)
<1>1. queue \o <<Work(kind, x)>> = Append(queue, Work(kind, x))
      BY AppendIsConcat
<1>2. queue' = IF qclosed THEN queue ELSE Append(queue, Work(kind, x))
      BY <1>1 DEF Push, PushAll
<1>3. Append(queue, Work(kind, x)) \in Seq(WorkItem)
      BY AppendProperties
<1> QED BY <1>2, <1>3

LEMMA WorkTypes ==
  /\ \A e \in Entry : Work("entry", e) \in WorkItem
  /\ \A e \in Sent : Work("done", e) \in WorkItem
  /\ \A n \in Caller \cup {"saved"} : Work("peers", n) \in WorkItem
  /\ \A s \in {"running", "stopped", "failed"} : Work("state", s) \in WorkItem
BY DEF Work, WorkItem

\* The entries of a finished or failed send, or none, are pushed.
LEMMA ShowPushes ==
  ASSUME queue \in Seq(WorkItem), NEW e \in Sent, Show(e)
  PROVE  \/ /\ stage[e] = "stored" /\ via[e] # None /\ ~Reports(e)
            /\ queue' = queue
         \/ /\ queue' = IF qclosed THEN queue
                        ELSE Append(queue, Work("entry", e))
            /\ queue' \in Seq(WorkItem)
<1> DEFINE works == [i \in DOMAIN Notes(e) |-> Work("entry", Notes(e)[i])]
<1>1. queue' = IF qclosed THEN queue ELSE queue \o works
      BY DEF Show, PushAll
<1>2. CASE Notes(e) = <<e>>
  <2>1. works = <<Work("entry", e)>>
        BY <1>2
  <2>2. Work("entry", e) \in WorkItem
        BY WorkTypes DEF Entry
  <2>3. queue \o <<Work("entry", e)>> = Append(queue, Work("entry", e))
        BY <2>2, AppendIsConcat
  <2>4. queue' = IF qclosed THEN queue ELSE Append(queue, Work("entry", e))
        BY <1>1, <2>1, <2>3
  <2>5. Append(queue, Work("entry", e)) \in Seq(WorkItem)
        BY <2>2, AppendProperties
  <2> QED BY <2>4, <2>5
<1>3. CASE Notes(e) = <<>>
  <2>1. works = <<>>
        BY <1>3
  <2>2. queue \o <<>> = queue
        BY ConcatEmptySeq
  <2>3. stage[e] = "stored" /\ via[e] # None /\ ~Reports(e)
        BY <1>3 DEF Notes, Show
  <2> QED BY <1>1, <2>1, <2>2, <2>3
<1>4. Notes(e) \in {<<e>>, <<>>}
      BY DEF Notes
<1> QED BY <1>2, <1>3, <1>4

\* The history of an earlier session as a sequence.
LEMMA LoadedOnce ==
  ASSUME NEW S, IsFiniteSet(S)
  PROVE  SetToSeq(S) \in Seq(S) /\ IsInjective(SetToSeq(S))
         /\ ToSet(SetToSeq(S)) = S
<1>1. Cardinality(S) \in Nat /\ ExistsBijection(1..Cardinality(S), S)
      BY FS_CardinalityType
<1>2. \E f \in [1..Cardinality(S) -> S] : IsInjective(f)
  <2>1. PICK f : f \in Bijection(1..Cardinality(S), S)
        BY <1>1 DEF ExistsBijection
  <2>2. f \in [1..Cardinality(S) -> S] /\ IsInjective(f)
        BY <2>1 DEF Bijection, Injection
  <2> QED BY <2>2
<1>3. SetToSeq(S) \in [1..Cardinality(S) -> S] /\ IsInjective(SetToSeq(S))
      BY <1>2 DEF SetToSeq
<1>4. SetToSeq(S) \in Injection(1..Cardinality(S), S)
      BY <1>3 DEF Injection
<1>5. IsFiniteSet(1..Cardinality(S)) /\ Cardinality(1..Cardinality(S)) = Cardinality(S)
      BY <1>1, FS_Interval
<1>6. SetToSeq(S) \in Surjection(1..Cardinality(S), S)
      BY <1>1, <1>4, <1>5, FS_Injection
<1> QED BY <1>1, <1>3, <1>6 DEF Surjection, ToSet

----------------------------------------------------------------------------
(* The inductive invariant: calls, locks and nodes.                         *)

Holds(c) == pc[c] \notin {"idle", "load", "lock", "done"}

\* Only SaveSettings saves and stops a node, Retry installs no manager.
CallersApart ==
  \A c \in Caller :
    /\ pc[c] \in {"save", "closing", "restart", "stopping"} => c \in Saver
    /\ pc[c] = "install" => c \in Manager

\* A call past its check holds lifeMu.
LifeLock == \A c \in Caller : Holds(c) => lifeMu = c

\* Who waits for a node has hidden it, who starts one has none, and both hold
\* App's mutex.
AppLock ==
  /\ \A c \in Caller :
       /\ pc[c] = "stopping" => appMu = c /\ cur = None /\ run # None
       /\ pc[c] = "publish" => appMu = c /\ run = None
  /\ stopper = "waits" => appMu = Stopper /\ cur = None /\ run # None
  /\ state = "running" <=> run # None

\* A node that has not ended is the one App knows, or about to be.
NodesKnown ==
  \A n \in Caller :
    /\ node[n] # "none" => pc[n] \in {"publish", "check", "install", "done"}
    /\ node[n] \in {"up", "ending"} => run = n \/ pc[n] = "publish"
    /\ node[n] = "closed" => n \in greeted
    /\ n \in greeted => node[n] # "none"
    /\ pc[n] = "publish" => node[n] # "none"
    /\ run = n => waiter[n] \in {"waits", "signalled"}
    /\ waiter[n] # "none" =>
         node[n] # "none" /\ pc[n] \in {"check", "install", "done"}
    /\ waiter[n] \in {"signalled", "over"} => node[n] = "closed"

\* There is one manager or none while it is replaced, and nobody calls before
\* startup is over.
OneManager ==
  /\ open = IF mgr = None THEN {} ELSE {mgr}
  /\ \A c \in Manager : Holds(c) /\ pc[c] # "save" => mgr = None
  /\ pc[Startup] # "done" =>
       mgr = None /\ \A c \in Caller \ {Startup} : pc[c] = "idle"

\* Nothing has happened when the history is loaded.
LoadFirst ==
  pc[Startup] = "load" =>
    /\ shown = <<>> /\ queue = <<>> /\ page.done = {}
    /\ \A c \in Caller : node[c] = "none"
    /\ \A e \in Entry : stage[e] = IF e \in file THEN "over" ELSE "none"
    /\ file \subseteq Received /\ IsFiniteSet(file)

----------------------------------------------------------------------------
(* The inductive invariant: what the queue carries.                         *)

\* The last that was or will be told of a kind is x.
LastIs(q, kind, was, x) ==
  /\ (\A i \in DOMAIN q : q[i].kind # kind) => was = x
  /\ \A i \in DOMAIN q :
       q[i].kind = kind /\ (\A k \in DOMAIN q : k > i => q[k].kind # kind)
         => q[i].of = x

\* The page hears of every state, and the node that runs, or is about to, was
\* the last to report its peers.
LastTold ==
  ~qclosed =>
    /\ LastIs(queue, "state", page.state, state)
    /\ \A n \in greeted :
         run = n \/ pc[n] = "publish" => LastIs(queue, "peers", peers, n)

\* Where a queue has work of a kind, and what it is about.
At(q, kind) == {i \in DOMAIN q : q[i].kind = kind}
Of(q, kind) == {q[i].of : i \in At(q, kind)}

\* An entry is on its way to the chats or in them once, and only after its
\* outcome was reported.
ShownOnce ==
  /\ IsInjective(shown) /\ ToSet(shown) \cap Of(queue, "entry") = {}
  /\ \A i, k \in At(queue, "entry") : queue[i].of = queue[k].of => i = k
  /\ \A e \in ToSet(shown) \cup Of(queue, "entry") : stage[e] \in {"noted", "over"}

Lost(e) == via[e] # None /\ node[via[e]] = "closed"

\* Of what was reported nothing is missing, and a send is done behind its entry.
NoneMissing ==
  /\ \A e \in Entry :
       /\ stage[e] = "kept" => via[e] # None
       /\ stage[e] \in {"noted", "over"} /\ pc[Startup] # "load" /\ ~qclosed
            => Lost(e) \/ e \in ToSet(shown) \cup Of(queue, "entry")
  /\ \A e \in page.done :
       stage[e] = "over" /\ (Lost(e) \/ e \in ToSet(shown))
  /\ \A i \in At(queue, "done"), e \in Entry :
       e = queue[i].of =>
         /\ stage[e] = "over"
         /\ \/ Lost(e) \/ e \in ToSet(shown)
            \/ \E k \in At(queue, "entry") : k < i /\ queue[k].of = e

----------------------------------------------------------------------------
(* What the groups of steps leave alone.                                    *)

LEMMA Apart ==
  /\ Startup \in Manager /\ Manager \subseteq Caller /\ Saver \subseteq Manager
  /\ Retrier \subseteq Caller
  /\ \A c \in Retrier : c \notin Manager
  /\ \A c \in Saver : c # Startup
  /\ None \notin Caller /\ Stopper \notin Caller /\ Stopper # None
  /\ Sent \subseteq Entry /\ Received \subseteq Entry /\ Sent \cap Received = {}
  /\ MaxGiveUps \in Nat
BY ThreadsApart, EntriesApart, Bounds DEF Manager, Caller, Entry

LEMMA EntriesLeave ==
  ASSUME \/ \E e \in Sent : SendStep(e)
         \/ \E e \in Received : ReceiveStep(e)
  PROVE  UNCHANGED <<lifeVars, quitVars, appVars, nodeVars, mgrVars, qclosed,
                     pageVars, gaveUp>>
BY DEF SendStep, ReceiveStep, Hold, Accept, Pick, Store, Show, Finish, Arrive,
       Report, EntryStep

LEMMA DrainLeaves ==
  ASSUME Handle \/ DrainEnds
  PROVE  UNCHANGED <<lifeVars, quitVars, appVars, nodeVars, mgrVars, entryVars,
                     qclosed, gaveUp>>
BY DEF Handle, DrainEnds, queueVars

LEMMA NodesLeave ==
  ASSUME NEW n \in Caller, NodeStep(n)
  PROVE  UNCHANGED <<lifeVars, quitVars, appMu, mgrVars, entryVars, qclosed,
                     pageVars, gaveUp>>
BY DEF NodeStep, Greet, Fail, Close, Signal, Forget, appVars, queueVars

LEMMA QuitLeaves ==
  ASSUME QuitStep
  PROVE  UNCHANGED <<pc, old, lifeMu, waiter, greeted, entryVars, pageVars>>
BY DEF QuitStep, Quit, SetClosed, QuitWaits, QuitGivesUp, QuitGoesOn,
       StopBegins, StopEnds, lifeVars, nodeVars

LEMMA CallsLeave ==
  ASSUME Load \/ \E c \in Caller : CallStep(c)
  PROVE  UNCHANGED <<closed, quitVars, greeted, entryVars, qclosed, drain,
                     peers, page>>
BY DEF Load, CallStep, Call, Lock, Unchanged, Replace, CloseOld, GiveUpOld,
       Restart, StopOld, Start, Publish, Check, Install, nodeVars, pageVars,
       queueVars

\* The steps, by who takes them.
LEMMA Steps ==
  ASSUME [Next]_vars
  PROVE  \/ Load \/ \E c \in Caller : CallStep(c)
         \/ \E n \in Caller : NodeStep(n)
         \/ QuitStep
         \/ \E e \in Sent : SendStep(e)
         \/ \E e \in Received : ReceiveStep(e)
         \/ Handle \/ DrainEnds
         \/ UNCHANGED vars
BY DEF Next

----------------------------------------------------------------------------
(* Types.                                                                   *)

Places == {"idle", "load", "lock", "save", "closing", "restart", "stopping",
           "start", "publish", "check", "install", "done"}

\* A call goes on to a place it may go to.
LEMMA Goes ==
  ASSUME TypeOK, CallersApart, NEW c \in Caller, NEW p \in Places,
         p \in {"save", "closing", "restart", "stopping"} => c \in Saver,
         p = "install" => c \in Manager, Go(c, p)
  PROVE  /\ pc' \in [Caller -> Places] /\ CallersApart'
         /\ pc'[c] = p /\ \A d \in Caller \ {c} : pc'[d] = pc[d]
BY DEF TypeOK, CallersApart, Go, Places

LEMMA TypeCalls ==
  ASSUME TypeOK, CallersApart, AppLock, LoadFirst,
         Load \/ \E c \in Caller : CallStep(c)
  PROVE  TypeOK' /\ CallersApart'
<1> DEFINE Fine == /\ lifeMu' \in Caller \cup {None}
                   /\ old' \in [Saver -> Manager \cup {None}]
                   /\ appMu' \in Caller \cup {Stopper, None}
                   /\ run' \in Caller \cup {None} /\ cur' \in {run', None}
                   /\ state' \in {"starting", "running", "stopped", "failed"}
                   /\ node' \in [Caller -> {"none", "up", "ending", "closed"}]
                   /\ waiter' \in [Caller -> {"none", "waits", "signalled", "over"}]
                   /\ mgr' \in Manager \cup {None} /\ open' \in SUBSET Manager
                   /\ queue' \in Seq(WorkItem) /\ shown' \in Seq(Entry)
                   /\ gaveUp' \in 0 .. MaxGiveUps
                   /\ pc' \in [Caller -> Places] /\ CallersApart'
<1>1. UNCHANGED <<closed, quitVars, greeted, entryVars, qclosed, drain,
                  peers, page>>
      BY CallsLeave
<1>2. ASSUME Fine PROVE TypeOK' /\ CallersApart'
      BY <1>1, <1>2 DEF TypeOK, Places, quitVars, entryVars
<1> HIDE DEF Fine
<1>3. Fine
  <2> USE Apart, WorkTypes, Goes DEF Fine, lifeVars, appVars, nodeVars, mgrVars,
          queueVars, pageVars, Places
  <2>0. /\ lifeMu \in Caller \cup {None} /\ old \in [Saver -> Manager \cup {None}]
        /\ appMu \in Caller \cup {Stopper, None}
        /\ run \in Caller \cup {None} /\ cur \in {run, None}
        /\ state \in {"starting", "running", "stopped", "failed"}
        /\ node \in [Caller -> {"none", "up", "ending", "closed"}]
        /\ waiter \in [Caller -> {"none", "waits", "signalled", "over"}]
        /\ mgr \in Manager \cup {None} /\ open \in SUBSET Manager
        /\ queue \in Seq(WorkItem) /\ shown \in Seq(Entry)
        /\ gaveUp \in 0 .. MaxGiveUps /\ file \in SUBSET Entry
        BY DEF TypeOK
  <2>1. CASE Load
    <3>1. pc' \in [Caller -> Places] /\ CallersApart'
          BY <2>1 DEF Load
    <3>2. IsFiniteSet(file) /\ file \subseteq Entry
          BY <2>0, <2>1 DEF Load, LoadFirst
    <3>3. shown' \in Seq(Entry)
          BY <2>1, <3>2, LoadedOnce, SeqMonotonic DEF Load
    <3> QED BY <2>0, <2>1, <3>1, <3>3 DEF Load
  <2>2. ASSUME NEW c \in Caller, Call(c) PROVE Fine
        BY <2>0, <2>2 DEF Call
  <2>3. ASSUME NEW c \in Caller, Lock(c) PROVE Fine
    <3>1. \/ /\ lifeMu' = c /\ Go(c, IF c \in Saver THEN "save" ELSE "start")
          \/ /\ lifeMu' = lifeMu /\ Go(c, "done")
          BY <2>3 DEF Lock
    <3>2. pc' \in [Caller -> Places] /\ CallersApart'
          BY <3>1
    <3> QED BY <2>0, <2>3, <3>1, <3>2 DEF Lock
  <2>4. ASSUME NEW c \in Caller, Unchanged(c) PROVE Fine
        BY <2>0, <2>4 DEF Unchanged
  <2>5. ASSUME NEW c \in Caller, Replace(c) PROVE Fine
    <3>1. c \in Saver
          BY <2>5 DEF Replace, CallersApart
    <3>2. pc' \in [Caller -> Places] /\ CallersApart'
          BY <2>5, <3>1 DEF Replace
    <3> QED BY <2>0, <2>5, <3>2 DEF Replace
  <2>6. ASSUME NEW c \in Caller, CloseOld(c) \/ GiveUpOld(c) PROVE Fine
    <3>1. c \in Saver
          BY <2>6 DEF CloseOld, GiveUpOld, CallersApart
    <3>2. pc' \in [Caller -> Places] /\ CallersApart'
          BY <2>6, <3>1 DEF CloseOld, GiveUpOld
    <3> QED BY <2>0, <2>6, <3>2 DEF CloseOld, GiveUpOld, GivesUp
  <2>7. ASSUME NEW c \in Caller, Restart(c) PROVE Fine
    <3>1. c \in Saver
          BY <2>7 DEF Restart, CallersApart
    <3>2. pc' \in [Caller -> Places] /\ CallersApart'
          BY <2>7, <3>1 DEF Restart
    <3> QED BY <2>0, <2>7, <3>2 DEF Restart, Cancel
  <2>8. ASSUME NEW c \in Caller, StopOld(c) PROVE Fine
    <3>1. cur = None
          BY <2>8 DEF StopOld, AppLock
    <3>2. queue' \in Seq(WorkItem)
          BY <2>0, <2>8, Pushed DEF StopOld
    <3>3. pc' \in [Caller -> Places] /\ CallersApart'
          BY <2>8 DEF StopOld
    <3> QED BY <2>0, <2>8, <3>1, <3>2, <3>3 DEF StopOld
  <2>9. ASSUME NEW c \in Caller, Start(c) PROVE Fine
    <3>1. queue' \in Seq(WorkItem)
          BY <2>0, <2>9, Pushed DEF Start
    <3>2. pc' \in [Caller -> Places] /\ CallersApart'
          BY <2>9 DEF Start
    <3> QED BY <2>0, <2>9, <3>1, <3>2 DEF Start
  <2>10. ASSUME NEW c \in Caller, Publish(c) PROVE Fine
    <3>1. queue' \in Seq(WorkItem)
          BY <2>0, <2>10, Pushed DEF Publish
    <3>2. pc' \in [Caller -> Places] /\ CallersApart'
          BY <2>10 DEF Publish
    <3> QED BY <2>0, <2>10, <3>1, <3>2 DEF Publish
  <2>11. ASSUME NEW c \in Caller, Check(c) PROVE Fine
    <3>1. queue' \in Seq(WorkItem)
          BY <2>0, <2>11, Pushed DEF Check
    <3>2. pc' \in [Caller -> Places] /\ CallersApart'
          BY <2>11 DEF Check, Installs
    <3> QED BY <2>0, <2>11, <3>1, <3>2 DEF Check, Installs
  <2>12. ASSUME NEW c \in Caller, Install(c) PROVE Fine
    <3>1. c \in Manager
          BY <2>12 DEF Install, CallersApart
    <3> QED BY <2>0, <2>12, <3>1 DEF Install
  <2> QED BY <2>1, <2>2, <2>3, <2>4, <2>5, <2>6, <2>7, <2>8, <2>9, <2>10,
             <2>11, <2>12 DEF CallStep
<1> QED BY <1>2, <1>3

LEMMA TypeNodes ==
  ASSUME TypeOK, NEW n \in Caller, NodeStep(n)
  PROVE  TypeOK'
<1>1. UNCHANGED <<lifeVars, quitVars, appMu, mgrVars, entryVars, qclosed,
                  pageVars, gaveUp>>
      BY NodesLeave
<1>2. /\ run' \in Caller \cup {None} /\ cur' \in {run', None}
      /\ state' \in {"starting", "running", "stopped", "failed"}
      /\ node' \in [Caller -> {"none", "up", "ending", "closed"}]
      /\ waiter' \in [Caller -> {"none", "waits", "signalled", "over"}]
      /\ greeted' \in SUBSET Caller
      BY DEF TypeOK, NodeStep, Greet, Fail, Close, Signal, Forget, Forgets,
             appVars, nodeVars
<1>3. queue' \in Seq(WorkItem)
  <2> USE WorkTypes DEF TypeOK
  <2>1. CASE Greet(n)
        BY <2>1, Pushed DEF Greet
  <2>2. CASE Forget(n)
        BY <2>2, Pushed DEF Forget, Forgets
  <2>3. CASE Fail(n) \/ Close(n) \/ Signal(n)
        BY <2>3 DEF Fail, Close, Signal, queueVars
  <2> QED BY <2>1, <2>2, <2>3 DEF NodeStep
<1> QED BY <1>1, <1>2, <1>3
        DEF TypeOK, lifeVars, quitVars, mgrVars, entryVars, pageVars

LEMMA TypeQuit ==
  ASSUME TypeOK, AppLock, QuitStep
  PROVE  TypeOK'
<1>1. UNCHANGED <<pc, old, lifeMu, waiter, greeted, entryVars, pageVars>>
      BY QuitLeaves
<1>2. ASSUME /\ closed' \in BOOLEAN /\ quitting' \in BOOLEAN
             /\ quit' \in {"idle", "locking", "closing", "stopping", "flushing", "done"}
             /\ locker' \in {"none", "asks", "done"}
             /\ stopper' \in {"none", "asks", "waits", "done"}
             /\ appMu' \in Caller \cup {Stopper, None}
             /\ run' \in Caller \cup {None} /\ cur' \in {run', None}
             /\ state' \in {"starting", "running", "stopped", "failed"}
             /\ node' \in [Caller -> {"none", "up", "ending", "closed"}]
             /\ mgr' \in Manager \cup {None} /\ last' \in Manager \cup {None}
             /\ open' \in SUBSET Manager
             /\ queue' \in Seq(WorkItem) /\ qclosed' \in BOOLEAN
             /\ gaveUp' \in 0 .. MaxGiveUps
      PROVE  TypeOK'
      BY <1>1, <1>2 DEF TypeOK, entryVars, pageVars
<1> USE Apart, WorkTypes DEF TypeOK, lifeVars, appVars, nodeVars, mgrVars, queueVars
<1>3. CASE Quit
      BY <1>2, <1>3 DEF Quit
<1>4. CASE SetClosed
      BY <1>2, <1>4 DEF SetClosed
<1>5. CASE QuitWaits \/ QuitGivesUp
  <2>1. gaveUp' \in 0 .. MaxGiveUps
        BY <1>5 DEF QuitWaits, QuitGivesUp, GivesUp
  <2>2. QuitGoesOn
        BY <1>5 DEF QuitWaits, QuitGivesUp
  <2>3. /\ UNCHANGED <<closed, appVars, nodeVars, queue, quitting, locker>>
        /\ TakeManager \/ StopReceiver \/ CloseQueue \/ EndQuit
        BY <2>2 DEF QuitGoesOn, TakeManager, StopReceiver, CloseQueue, EndQuit
  <2>4. /\ quit' \in {"idle", "locking", "closing", "stopping", "flushing", "done"}
        /\ stopper' \in {"none", "asks", "waits", "done"}
        /\ mgr' \in Manager \cup {None} /\ last' \in Manager \cup {None}
        /\ open' \in SUBSET Manager /\ qclosed' \in BOOLEAN
        BY <2>3 DEF TakeManager, StopReceiver, CloseQueue, EndQuit
  <2> QED BY <1>2, <2>1, <2>3, <2>4
<1>6. CASE StopBegins
  <2>1. /\ stopper' \in {"none", "asks", "waits", "done"}
        /\ appMu' \in Caller \cup {Stopper, None}
        /\ cur' \in {run, None} /\ run' = run
        /\ node' \in [Caller -> {"none", "up", "ending", "closed"}]
    <3>1. CASE run = None
          BY <1>6, <3>1 DEF StopBegins
    <3>2. CASE run # None
      <4>1. Cancel(run) /\ stopper' = "waits" /\ appMu' = Stopper /\ run' = run
            BY <1>6, <3>2 DEF StopBegins
      <4>2. node' \in [Caller -> {"none", "up", "ending", "closed"}]
            BY <4>1 DEF Cancel
      <4> QED BY <4>1, <4>2 DEF Cancel
    <3> QED BY <3>1, <3>2
  <2> QED BY <1>2, <1>6, <2>1 DEF StopBegins
<1>7. CASE StopEnds
  <2>1. queue' \in Seq(WorkItem) /\ cur = None
        BY <1>7, Pushed DEF StopEnds, AppLock
  <2> QED BY <1>2, <1>7, <2>1 DEF StopEnds
<1> QED BY <1>3, <1>4, <1>5, <1>6, <1>7 DEF QuitStep

LEMMA TypeEntries ==
  ASSUME TypeOK, \/ \E e \in Sent : SendStep(e)
                 \/ \E e \in Received : ReceiveStep(e)
  PROVE  TypeOK'
<1>1. UNCHANGED <<lifeVars, quitVars, appVars, nodeVars, mgrVars, qclosed,
                  pageVars, gaveUp>>
      BY EntriesLeave
<1>2. /\ stage' \in [Entry -> Busy \cup {"none", "held", "refused", "kept", "over"}]
      /\ owner' \in [Sent -> Manager \cup {None}]
      /\ via' \in [Entry -> Caller \cup {None}]
      /\ file' \in SUBSET Entry
  <2> DEFINE Stage == Busy \cup {"none", "held", "refused", "kept", "over"}
             Fine == /\ owner' \in [Sent -> Manager \cup {None}]
                     /\ via' \in [Entry -> Caller \cup {None}]
                     /\ file' \in SUBSET Entry
  <2>1. ASSUME NEW e \in Entry, NEW where \in Stage, EntryStep(e, where)
        PROVE  stage' \in [Entry -> Stage]
        BY <2>1 DEF EntryStep, TypeOK
  <2>2. /\ owner \in [Sent -> Manager \cup {None}]
        /\ via \in [Entry -> Caller \cup {None}] /\ file \in SUBSET Entry
        /\ mgr \in Manager \cup {None} /\ cur \in Caller \cup {None}
        BY DEF TypeOK
  <2>3. ASSUME NEW e \in Sent, SendStep(e) PROVE stage' \in [Entry -> Stage] /\ Fine
    <3>1. \E where \in Stage : EntryStep(e, where)
          BY <2>3 DEF SendStep, Hold, Accept, Pick, Store, Show, Finish, Busy
    <3>2. stage' \in [Entry -> Stage]
          BY <2>1, <3>1, Apart
    <3>3. CASE Hold(e)
          BY <2>2, <3>2, <3>3 DEF Hold
    <3>4. CASE Accept(e) \/ Show(e) \/ Finish(e)
          BY <2>2, <3>2, <3>4 DEF Accept, Show, Finish
    <3>5. CASE Pick(e) \/ Store(e)
          BY <2>2, <3>2, <3>5, Apart DEF Pick, Store
    <3> QED BY <2>3, <3>3, <3>4, <3>5 DEF SendStep
  <2>4. ASSUME NEW e \in Received, ReceiveStep(e)
        PROVE  stage' \in [Entry -> Stage] /\ Fine
    <3>1. \E where \in Stage : EntryStep(e, where)
          BY <2>4 DEF ReceiveStep, Arrive, Report, Busy
    <3>2. stage' \in [Entry -> Stage]
          BY <2>1, <3>1, Apart
    <3> QED BY <2>2, <2>4, <3>2, Apart DEF ReceiveStep, Arrive, Report
  <2> QED BY <2>3, <2>4
<1>3. queue' \in Seq(WorkItem)
  <2> USE Apart, WorkTypes DEF TypeOK
  <2>1. ASSUME NEW e \in Sent, SendStep(e) PROVE queue' \in Seq(WorkItem)
    <3>1. CASE Show(e)
          BY <3>1, ShowPushes
    <3>2. CASE Finish(e)
          BY <3>2, Pushed DEF Finish
    <3>3. CASE Hold(e) \/ Accept(e) \/ Pick(e) \/ Store(e)
          BY <3>3 DEF Hold, Accept, Pick, Store
    <3> QED BY <2>1, <3>1, <3>2, <3>3 DEF SendStep
  <2>2. ASSUME NEW e \in Received, ReceiveStep(e) PROVE queue' \in Seq(WorkItem)
        BY <2>2, Pushed DEF ReceiveStep, Arrive, Report
  <2> QED BY <2>1, <2>2
<1> QED BY <1>1, <1>2, <1>3 DEF TypeOK, lifeVars, quitVars, appVars, nodeVars,
             mgrVars, pageVars

LEMMA TypeDrain ==
  ASSUME TypeOK, Handle \/ DrainEnds
  PROVE  TypeOK'
<1>1. UNCHANGED <<lifeVars, quitVars, appVars, nodeVars, mgrVars, entryVars,
                  qclosed, gaveUp>>
      BY DrainLeaves
<1>2. CASE Handle
  <2> DEFINE w == Head(queue)
  <2>1. w \in WorkItem /\ queue' \in Seq(WorkItem)
        BY <1>2, HeadTailProperties DEF Handle, TypeOK
  <2>2. shown' \in Seq(Entry)
        BY <1>2, <2>1, AppendProperties DEF Handle, TypeOK, WorkItem
  <2>3. peers' \in Caller \cup {"saved", None}
        BY <1>2, <2>1 DEF Handle, TypeOK, WorkItem
  <2>4. page' \in [state : {"starting", "running", "stopped", "failed"},
                   done : SUBSET Sent]
        BY <1>2, <2>1 DEF Handle, TypeOK, WorkItem
  <2>5. drain' = drain
        BY <1>2 DEF Handle
  <2> QED BY <1>1, <2>1, <2>2, <2>3, <2>4, <2>5
          DEF TypeOK, lifeVars, quitVars, appVars, nodeVars, mgrVars, entryVars
<1>3. CASE DrainEnds
      BY <1>3 DEF DrainEnds, TypeOK, lifeVars, quitVars, appVars, nodeVars,
                  mgrVars, entryVars, queueVars
<1> QED BY <1>2, <1>3

LEMMA TypeStep ==
  ASSUME TypeOK, CallersApart, AppLock, LoadFirst, [Next]_vars
  PROVE  TypeOK' /\ CallersApart'
<1>1. TypeOK'
  <2>1. CASE UNCHANGED vars
        BY <2>1 DEF vars, TypeOK
  <2> QED BY <2>1, Steps, TypeCalls, TypeNodes, TypeQuit, TypeEntries, TypeDrain
<1>2. CASE UNCHANGED pc
      BY <1>1, <1>2 DEF CallersApart
<1> QED BY <1>1, <1>2, Steps, TypeCalls, NodesLeave, QuitLeaves, EntriesLeave,
           DrainLeaves DEF lifeVars, vars

----------------------------------------------------------------------------
(* Locks.                                                                   *)

\* What a call does to the places of the calls: its own changes.
LEMMA CallGoes ==
  ASSUME TypeOK, CallersApart, NEW c \in Caller, CallStep(c)
  PROVE  \E p \in Places : pc' = [pc EXCEPT ![c] = p]
<1>1. CASE Call(c) \/ Lock(c) \/ Unchanged(c) \/ Replace(c)
      BY <1>1 DEF Call, Lock, Unchanged, Replace, Go, Places
<1>2. CASE CloseOld(c) \/ GiveUpOld(c) \/ Restart(c) \/ StopOld(c)
      BY <1>2 DEF CloseOld, GiveUpOld, Restart, StopOld, Go, Places
<1>3. CASE Start(c) \/ Publish(c) \/ Check(c) \/ Install(c)
      BY <1>3 DEF Start, Publish, Check, Install, Go, Places
<1> QED BY <1>1, <1>2, <1>3 DEF CallStep

LEMMA LifeLockStep ==
  ASSUME TypeOK, CallersApart, LifeLock, [Next]_vars PROVE LifeLock'
<1> USE Apart DEF LifeLock, Holds
<1>1. CASE UNCHANGED <<pc, lifeMu>>
      BY <1>1
<1>2. CASE Load
      BY <1>2 DEF Load, Go, TypeOK, lifeVars
<1>3. ASSUME NEW c \in Caller, CallStep(c) PROVE LifeLock'
  <2>1. PICK p \in Places : pc' = [pc EXCEPT ![c] = p]
        BY <1>3, CallGoes
  <2>2. /\ pc'[c] = p /\ \A d \in Caller \ {c} : pc'[d] = pc[d]
        BY <2>1 DEF TypeOK
  <2>3. CASE Lock(c)
    <3>1. \/ lifeMu = None /\ lifeMu' = c
          \/ lifeMu' = lifeMu /\ p = "done"
          BY <2>2, <2>3 DEF Lock, Go, TypeOK
    <3> QED BY <2>2, <3>1
  <2>4. CASE lifeMu' = lifeMu /\ (Holds(c) \/ Call(c))
        BY <2>2, <2>4 DEF Call, Go, TypeOK
  <2>5. CASE lifeMu' = None /\ p = "done" /\ Holds(c)
        BY <2>2, <2>5
  <2>6. \/ Lock(c) \/ (lifeMu' = lifeMu /\ (Holds(c) \/ Call(c)))
        \/ lifeMu' = None /\ p = "done" /\ Holds(c)
    <3> USE <2>2 DEF Go, TypeOK, lifeVars
    <3>1. CASE Call(c)
          BY <3>1 DEF Call
    <3>2. CASE Unchanged(c) \/ Install(c)
          BY <3>2 DEF Unchanged, Install
    <3>3. CASE Replace(c) \/ CloseOld(c) \/ GiveUpOld(c) \/ Restart(c)
          BY <3>3 DEF Replace, CloseOld, GiveUpOld, Restart
    <3>4. CASE StopOld(c) \/ Start(c) \/ Publish(c)
          BY <3>4 DEF StopOld, Start, Publish
    <3>5. CASE Check(c)
          BY <3>5 DEF Check
    <3> QED BY <1>3, <3>1, <3>2, <3>3, <3>4, <3>5 DEF CallStep
  <2> QED BY <2>3, <2>4, <2>5, <2>6
<1>4. CASE \E n \in Caller : NodeStep(n)
      BY <1>1, <1>4, NodesLeave DEF lifeVars
<1>5. CASE QuitStep
      BY <1>1, <1>5, QuitLeaves
<1>6. CASE \/ \E e \in Sent : SendStep(e)
           \/ \E e \in Received : ReceiveStep(e)
      BY <1>1, <1>6, EntriesLeave DEF lifeVars
<1>7. CASE Handle \/ DrainEnds
      BY <1>1, <1>7, DrainLeaves DEF lifeVars
<1>8. CASE UNCHANGED vars
      BY <1>1, <1>8 DEF vars
<1> QED BY <1>2, <1>3, <1>4, <1>5, <1>6, <1>7, <1>8, Steps

LEMMA AppLockStep ==
  ASSUME TypeOK, CallersApart, AppLock, [Next]_vars PROVE AppLock'
<1> USE Apart DEF AppLock
<1>1. CASE UNCHANGED <<pc, appMu, run, cur, state, stopper>>
      BY <1>1
<1>2. CASE Load
      BY <1>2 DEF Load, Go, TypeOK, appVars, quitVars
<1>3. ASSUME NEW c \in Caller, CallStep(c) PROVE AppLock'
  <2>1. PICK p \in Places : pc' = [pc EXCEPT ![c] = p]
        BY <1>3, CallGoes
  <2>2. /\ pc'[c] = p /\ \A d \in Caller \ {c} : pc'[d] = pc[d]
        BY <2>1 DEF TypeOK
  <2>3. stopper' = stopper
        BY <1>3, CallsLeave DEF quitVars
  <2> USE <2>2, <2>3 DEF Go, TypeOK, appVars
  <2>4. CASE p \notin {"stopping", "publish"} /\ UNCHANGED appVars
        BY <2>4
  <2>5. CASE Restart(c)
    <3>1. CASE run = None
          BY <2>5, <3>1 DEF Restart
    <3>2. CASE run # None
          BY <2>5, <3>2 DEF Restart, Cancel
    <3> QED BY <3>1, <3>2
  <2>6. CASE StopOld(c)
        BY <2>6 DEF StopOld
  <2>7. CASE Start(c)
    <3>1. /\ appMu \in {None, c} /\ pc[c] = "start" /\ UNCHANGED <<run, cur>>
          /\ \/ appMu' = None /\ p = "check" /\ state' = state
             \/ run = None /\ appMu' = c /\ p = "publish" /\ state' = state
             \/ run = None /\ appMu' = None /\ p = "check" /\ state' = "failed"
          BY <2>7 DEF Start
    <3>2. \A d \in Caller : pc[d] \notin {"stopping", "publish"} \/ d = c
          BY <3>1
    <3> QED BY <3>1, <3>2
  <2>8. CASE Publish(c)
        BY <2>8 DEF Publish
  <2>9. CASE Call(c) \/ Lock(c) \/ Unchanged(c) \/ Replace(c)
        BY <2>4, <2>9 DEF Call, Lock, Unchanged, Replace
  <2>10. CASE CloseOld(c) \/ GiveUpOld(c) \/ Check(c) \/ Install(c)
        BY <2>4, <2>10 DEF CloseOld, GiveUpOld, Check, Install
  <2> QED BY <1>3, <2>5, <2>6, <2>7, <2>8, <2>9, <2>10 DEF CallStep
<1>4. ASSUME NEW n \in Caller, NodeStep(n) PROVE AppLock'
  <2>1. UNCHANGED <<pc, appMu, stopper>>
        BY <1>4, NodesLeave DEF lifeVars, quitVars
  <2>2. CASE Forget(n)
        BY <2>1, <2>2 DEF Forget, Forgets
  <2>3. CASE ~Forget(n)
        BY <1>1, <1>4, <2>1, <2>3 DEF NodeStep, Greet, Fail, Close, Signal, appVars
  <2> QED BY <2>2, <2>3
<1>5. CASE QuitStep
  <2>1. pc' = pc
        BY <1>5, QuitLeaves
  <2>2. CASE StopBegins
    <3>1. CASE run = None
          BY <2>1, <2>2, <3>1 DEF StopBegins
    <3>2. CASE run # None
          BY <2>1, <2>2, <3>2 DEF StopBegins, Cancel
    <3> QED BY <3>1, <3>2
  <2>3. CASE StopEnds
        BY <2>1, <2>3 DEF StopEnds, TypeOK
  <2>4. CASE Quit \/ SetClosed
        BY <2>1, <2>4 DEF Quit, SetClosed, appVars
  <2>5. CASE QuitWaits \/ QuitGivesUp
        BY <2>1, <2>5 DEF QuitWaits, QuitGivesUp, QuitGoesOn, TakeManager,
             StopReceiver, CloseQueue, EndQuit, appVars
  <2> QED BY <1>5, <2>2, <2>3, <2>4, <2>5 DEF QuitStep
<1>6. CASE \/ \E e \in Sent : SendStep(e)
           \/ \E e \in Received : ReceiveStep(e)
      BY <1>1, <1>6, EntriesLeave DEF lifeVars, appVars, quitVars
<1>7. CASE Handle \/ DrainEnds
      BY <1>1, <1>7, DrainLeaves DEF lifeVars, appVars, quitVars
<1>8. CASE UNCHANGED vars
      BY <1>1, <1>8 DEF vars
<1> QED BY <1>2, <1>3, <1>4, <1>5, <1>6, <1>7, <1>8, Steps

----------------------------------------------------------------------------
(* Nodes.                                                                   *)

LEMMA NodesKnownStep ==
  ASSUME TypeOK, CallersApart, AppLock, NodesKnown, [Next]_vars
  PROVE  NodesKnown'
<1> USE Apart DEF NodesKnown
<1>1. CASE UNCHANGED <<pc, run, node, waiter, greeted>>
      BY <1>1
<1>2. CASE Load
      BY <1>2 DEF Load, Go, TypeOK, appVars, nodeVars
<1>3. ASSUME NEW c \in Caller, CallStep(c) PROVE NodesKnown'
  <2>1. PICK p \in Places : pc' = [pc EXCEPT ![c] = p]
        BY <1>3, CallGoes
  <2>2. /\ pc'[c] = p /\ \A d \in Caller \ {c} : pc'[d] = pc[d]
        BY <2>1 DEF TypeOK
  <2>3. greeted' = greeted
        BY <1>3, CallsLeave
  <2> USE <2>2, <2>3 DEF Go, TypeOK, appVars, nodeVars
  <2>4. CASE /\ pc[c] \in {"check", "install"} => p \in {"install", "done"}
             /\ pc[c] # "publish" /\ p # "publish" /\ pc[c] # "done"
             /\ UNCHANGED <<run, node, waiter>>
        BY <2>4
  <2>5. CASE Restart(c)
    <3>1. CASE run = None
          BY <2>4, <2>5, <3>1 DEF Restart
    <3>2. CASE run # None
      <4>1. /\ run \in Caller /\ run' = run /\ waiter' = waiter
            /\ node' = [node EXCEPT ![run] = IF @ = "up" THEN "ending" ELSE @]
            /\ pc[c] = "restart" /\ p = "stopping"
            BY <2>5, <3>2 DEF Restart, Cancel
      <4>2. /\ \A n \in Caller \ {run} : node'[n] = node[n]
            /\ node'[run] = IF node[run] = "up" THEN "ending" ELSE node[run]
            BY <4>1
      <4> QED BY <4>1, <4>2
    <3> QED BY <3>1, <3>2
  <2>6. CASE StopOld(c)
        BY <2>6 DEF StopOld, Stopped, AppLock
  <2>7. CASE Start(c)
    <3>1. CASE UNCHANGED node
          BY <2>4, <2>7, <3>1 DEF Start
    <3>2. CASE node' = [node EXCEPT ![c] = "up"] /\ p = "publish"
      <4>1. run = None /\ run' = run /\ waiter' = waiter /\ pc[c] = "start"
            BY <2>7, <3>2 DEF Start
      <4>2. node'[c] = "up" /\ \A n \in Caller \ {c} : node'[n] = node[n]
            BY <3>2
      <4> QED BY <3>2, <4>1, <4>2
    <3> QED BY <2>7, <3>1, <3>2 DEF Start
  <2>8. CASE Publish(c)
    <3>1. /\ pc[c] = "publish" /\ p = "check" /\ run' = c /\ node' = node
          /\ run = None
          BY <2>8 DEF Publish, AppLock
    <3>2. waiter'[c] = "waits" /\ \A n \in Caller \ {c} : waiter'[n] = waiter[n]
          BY <2>8 DEF Publish
    <3> QED BY <3>1, <3>2
  <2>9. CASE Call(c) \/ Lock(c) \/ Unchanged(c) \/ Replace(c)
        BY <2>4, <2>9 DEF Call, Lock, Unchanged, Replace
  <2>10. CASE CloseOld(c) \/ GiveUpOld(c) \/ Install(c)
        BY <2>4, <2>10 DEF CloseOld, GiveUpOld, Install
  <2>11. CASE Check(c)
        BY <2>4, <2>11 DEF Check
  <2> QED BY <1>3, <2>5, <2>6, <2>7, <2>8, <2>9, <2>10, <2>11 DEF CallStep
<1>4. ASSUME NEW n \in Caller, NodeStep(n) PROVE NodesKnown'
  <2>1. UNCHANGED pc
        BY <1>4, NodesLeave DEF lifeVars
  <2> USE <2>1 DEF TypeOK, appVars
  <2>2. CASE Greet(n)
        BY <2>2 DEF Greet
  <2>3. CASE Fail(n)
        BY <2>3 DEF Fail
  <2>4. CASE Close(n)
        BY <2>4 DEF Close
  <2>5. CASE Signal(n)
        BY <2>5 DEF Signal
  <2>6. CASE Forget(n)
        BY <2>6 DEF Forget, Forgets
  <2> QED BY <1>4, <2>2, <2>3, <2>4, <2>5, <2>6 DEF NodeStep
<1>5. CASE QuitStep
  <2>1. UNCHANGED <<pc, waiter, greeted>>
        BY <1>5, QuitLeaves
  <2>2. CASE StopBegins
    <3>1. CASE run = None
          BY <1>1, <2>1, <2>2, <3>1 DEF StopBegins
    <3>2. CASE run # None
      <4>1. /\ run \in Caller /\ run' = run
            /\ node' = [node EXCEPT ![run] = IF @ = "up" THEN "ending" ELSE @]
            BY <2>2, <3>2 DEF StopBegins, Cancel, TypeOK
      <4>2. /\ \A n \in Caller \ {run} : node'[n] = node[n]
            /\ node'[run] = IF node[run] = "up" THEN "ending" ELSE node[run]
            BY <4>1 DEF TypeOK
      <4> QED BY <2>1, <4>1, <4>2
    <3> QED BY <3>1, <3>2
  <2>3. CASE StopEnds
        BY <2>1, <2>3 DEF StopEnds, Stopped, AppLock, nodeVars, TypeOK
  <2>4. CASE Quit \/ SetClosed
        BY <1>1, <2>1, <2>4 DEF Quit, SetClosed, appVars, nodeVars
  <2>5. CASE QuitWaits \/ QuitGivesUp
        BY <1>1, <2>1, <2>5 DEF QuitWaits, QuitGivesUp, QuitGoesOn, appVars, nodeVars
  <2> QED BY <1>5, <2>2, <2>3, <2>4, <2>5 DEF QuitStep
<1>6. CASE \/ \E e \in Sent : SendStep(e)
           \/ \E e \in Received : ReceiveStep(e)
      BY <1>1, <1>6, EntriesLeave DEF lifeVars, appVars, nodeVars
<1>7. CASE Handle \/ DrainEnds
      BY <1>1, <1>7, DrainLeaves DEF lifeVars, appVars, nodeVars
<1>8. CASE UNCHANGED vars
      BY <1>1, <1>8 DEF vars
<1> QED BY <1>2, <1>3, <1>4, <1>5, <1>6, <1>7, <1>8, Steps

----------------------------------------------------------------------------
(* The manager.                                                             *)

LEMMA OneManagerStep ==
  ASSUME TypeOK, CallersApart, LifeLock, OneManager, [Next]_vars
  PROVE  OneManager'
<1> USE Apart DEF OneManager, Holds
<1>1. CASE UNCHANGED <<pc, mgr, open>>
      BY <1>1
<1>2. CASE Load
      BY <1>2 DEF Load, Go, TypeOK, mgrVars
<1>3. ASSUME NEW c \in Caller, CallStep(c) PROVE OneManager'
  <2>1. PICK p \in Places : pc' = [pc EXCEPT ![c] = p]
        BY <1>3, CallGoes
  <2>2. /\ pc'[c] = p /\ \A d \in Caller \ {c} : pc'[d] = pc[d]
        BY <2>1 DEF TypeOK
  <2>3. CASE Call(c)
        BY <2>2, <2>3 DEF Call, Go, TypeOK, mgrVars
  <2>4. CASE Lock(c)
    <3>1. /\ UNCHANGED mgrVars
          /\ p \in {"save", "start", "done"} /\ (p = "save" <=> p # "done" /\ c \in Saver)
          /\ pc[c] = "lock"
          BY <2>2, <2>4 DEF Lock, Go, TypeOK
    <3>2. c \in Manager /\ p = "start" => c = Startup
          BY <3>1 DEF Manager
    <3> QED BY <2>2, <3>1, <3>2 DEF mgrVars
  <2>5. CASE Replace(c)
    <3>1. /\ pc[c] = "save" /\ mgr' = None /\ open' = open \ {mgr}
          BY <2>5 DEF Replace
    <3> QED BY <2>2, <3>1
  <2>6. CASE Install(c)
    <3>1. /\ pc[c] = "install" /\ mgr' = c /\ open' = open \cup {c} /\ p = "done"
          /\ c \in Manager
          BY <2>2, <2>6 DEF Install, Go, TypeOK, CallersApart
    <3>2. \A d \in Caller \ {c} : ~Holds(d)
          BY <3>1 DEF LifeLock
    <3> QED BY <2>2, <3>1, <3>2
  <2>7. CASE /\ Holds(c) /\ UNCHANGED mgrVars
             /\ p # "save" /\ (pc[c] = "save" => p = "done")
        BY <2>2, <2>7 DEF mgrVars
  <2>8. CASE Unchanged(c) \/ CloseOld(c) \/ GiveUpOld(c)
        BY <2>2, <2>7, <2>8 DEF Unchanged, CloseOld, GiveUpOld, Go, TypeOK
  <2>9. CASE Restart(c) \/ StopOld(c) \/ Start(c)
        BY <2>2, <2>7, <2>9 DEF Restart, StopOld, Start, Go, TypeOK
  <2>10. CASE Publish(c) \/ Check(c)
        BY <2>2, <2>7, <2>10 DEF Publish, Check, Go, TypeOK
  <2> QED BY <1>3, <2>3, <2>4, <2>5, <2>6, <2>8, <2>9, <2>10 DEF CallStep
<1>4. CASE \E n \in Caller : NodeStep(n)
      BY <1>1, <1>4, NodesLeave DEF lifeVars, mgrVars
<1>5. CASE QuitStep
  <2>1. pc' = pc
        BY <1>5, QuitLeaves
  <2>2. CASE TakeManager
        BY <2>1, <2>2 DEF TakeManager
  <2>3. CASE UNCHANGED mgrVars
        BY <1>1, <2>1, <2>3 DEF mgrVars
  <2> QED BY <1>5, <2>2, <2>3 DEF QuitStep, Quit, SetClosed, QuitWaits,
             QuitGivesUp, QuitGoesOn, StopReceiver, CloseQueue, EndQuit,
             StopBegins, StopEnds
<1>6. CASE \/ \E e \in Sent : SendStep(e)
           \/ \E e \in Received : ReceiveStep(e)
      BY <1>1, <1>6, EntriesLeave DEF lifeVars, mgrVars
<1>7. CASE Handle \/ DrainEnds
      BY <1>1, <1>7, DrainLeaves DEF lifeVars, mgrVars
<1>8. CASE UNCHANGED vars
      BY <1>1, <1>8 DEF vars
<1> QED BY <1>2, <1>3, <1>4, <1>5, <1>6, <1>7, <1>8, Steps

\* Before the history is loaded only quit goes on.
LEMMA NothingBeforeLoad ==
  ASSUME TypeOK, NodesKnown, OneManager, LoadFirst, pc[Startup] = "load"
  PROVE  /\ \A c \in Caller : ~CallStep(c) /\ ~NodeStep(c)
         /\ \A e \in Sent : ~SendStep(e)
         /\ \A e \in Received : ~ReceiveStep(e)
         /\ ~Handle /\ run = None
<1> USE Apart DEF LoadFirst
<1>1. /\ \A c \in Caller : node[c] = "none" /\ (c # Startup => pc[c] = "idle")
      /\ mgr = None /\ queue = <<>>
      /\ \A e \in Entry : stage[e] \in {"none", "over"}
      BY DEF OneManager
<1>2. run = None
      BY <1>1 DEF NodesKnown, TypeOK
<1>3. ASSUME NEW c \in Caller, CallStep(c) PROVE FALSE
  <2>1. pc[c] \in {"load", "idle"}
        BY <1>1
  <2>2. ~Call(c)
        BY DEF Call
  <2> QED BY <1>3, <2>1, <2>2 DEF CallStep, Lock, Unchanged, Replace, CloseOld,
          GiveUpOld, Restart, StopOld, Start, Publish, Check, Install
<1>4. \A n \in Caller : ~NodeStep(n)
      BY <1>1 DEF NodeStep, Greet, Fail, Close, Signal, Forget, NodesKnown
<1>5. /\ \A e \in Sent : ~SendStep(e)
      /\ \A e \in Received : ~ReceiveStep(e)
      BY <1>1 DEF SendStep, Hold, Accept, Pick, Store, Show, Finish, ReceiveStep,
                  Arrive, Report
<1>6. ~Handle
      BY <1>1 DEF Handle
<1> QED BY <1>2, <1>3, <1>4, <1>5, <1>6

LEMMA LoadFirstStep ==
  ASSUME TypeOK, CallersApart, AppLock, NodesKnown, OneManager, LoadFirst,
         [Next]_vars
  PROVE  LoadFirst'
<1> USE Apart DEF LoadFirst
<1>1. CASE UNCHANGED <<pc, shown, queue, page, node, stage, file>>
      BY <1>1
<1>2. CASE pc'[Startup] # "load"
      BY <1>2
<1>3. ASSUME pc'[Startup] = "load", [Next]_vars, ~UNCHANGED vars
      PROVE  UNCHANGED <<pc, shown, queue, page, node, stage, file>>
  <2>1. pc[Startup] = "load"
    <3>1. ~Load /\ \A c \in Caller : CallStep(c) => UNCHANGED pc \/ pc'[Startup] = pc[Startup]
      <4>1. ~Load
            BY <1>3 DEF Load, Go, TypeOK
      <4>2. ASSUME NEW c \in Caller, CallStep(c)
            PROVE  pc'[Startup] = pc[Startup]
        <5>1. pc'[c] # "load"
              BY <4>2 DEF CallStep, Call, Lock, Unchanged, Replace, CloseOld,
                 GiveUpOld, Restart, StopOld, Start, Publish, Check, Install,
                 Go, TypeOK
        <5>2. PICK p \in Places : pc' = [pc EXCEPT ![c] = p]
              BY <4>2, CallGoes
        <5> QED BY <1>3, <5>1, <5>2 DEF TypeOK
      <4> QED BY <4>1, <4>2
    <3> QED BY <1>3, <3>1, Steps, NodesLeave, QuitLeaves, EntriesLeave, DrainLeaves
            DEF lifeVars
  <2>2. /\ \A c \in Caller : ~CallStep(c) /\ ~NodeStep(c)
        /\ \A e \in Sent : ~SendStep(e)
        /\ \A e \in Received : ~ReceiveStep(e)
        /\ ~Handle /\ run = None
        BY <2>1, NothingBeforeLoad
  <2>6. ~Load
        BY <1>3 DEF Load, Go, TypeOK
  <2>7. CASE DrainEnds
        BY <2>7 DEF DrainEnds, lifeVars, nodeVars, entryVars, queueVars
  <2>8. CASE QuitStep
    <3>1. UNCHANGED <<pc, entryVars, pageVars>>
          BY <2>8, QuitLeaves
    <3>2. node' = node /\ queue' = queue
      <4>1. ~StopEnds
            BY <2>2 DEF StopEnds, AppLock
      <4>2. CASE StopBegins
            BY <2>2, <4>2 DEF StopBegins, queueVars
      <4>3. CASE Quit \/ SetClosed
            BY <4>3 DEF Quit, SetClosed, nodeVars, queueVars
      <4>4. CASE QuitWaits \/ QuitGivesUp
            BY <4>4 DEF QuitWaits, QuitGivesUp, QuitGoesOn, TakeManager,
               StopReceiver, CloseQueue, EndQuit, nodeVars, queueVars
      <4> QED BY <2>8, <4>1, <4>2, <4>3, <4>4 DEF QuitStep
    <3> QED BY <3>1, <3>2 DEF entryVars, pageVars
  <2> QED BY <1>3, <2>2, <2>6, <2>7, <2>8, Steps
<1> QED BY <1>1, <1>2, <1>3 DEF vars

----------------------------------------------------------------------------
(* What the page is told.                                                   *)

LEMMA LastPush ==
  ASSUME NEW q \in Seq(WorkItem), NEW w \in WorkItem, NEW kind, NEW was, NEW x
  PROVE  /\ w.kind # kind /\ LastIs(q, kind, was, x)
              => LastIs(Append(q, w), kind, was, x)
         /\ w.kind = kind /\ w.of = x => LastIs(Append(q, w), kind, was, x)
<1> DEFINE r == Append(q, w)
<1>1. /\ Len(q) \in Nat /\ DOMAIN q = 1..Len(q) /\ DOMAIN r = 1..(Len(q) + 1)
      /\ r[Len(q) + 1] = w /\ \A i \in 1..Len(q) : r[i] = q[i]
      BY AppendProperties, LenProperties
<1> HIDE DEF r
<1>2. ASSUME w.kind # kind, LastIs(q, kind, was, x)
      PROVE  LastIs(r, kind, was, x)
      BY <1>1, <1>2 DEF LastIs
<1>3. ASSUME w.kind = kind, w.of = x PROVE LastIs(r, kind, was, x)
      BY <1>1, <1>3 DEF LastIs
<1> QED BY <1>2, <1>3 DEF r

LEMMA LastTake ==
  ASSUME NEW q \in Seq(WorkItem), q # <<>>, NEW kind, NEW was, NEW x,
         LastIs(q, kind, was, x)
  PROVE  /\ Head(q).kind = kind => LastIs(Tail(q), kind, Head(q).of, x)
         /\ Head(q).kind # kind => LastIs(Tail(q), kind, was, x)
<1>1. /\ Len(q) \in Nat \ {0} /\ DOMAIN q = 1..Len(q)
      /\ DOMAIN Tail(q) = 1..(Len(q) - 1)
      /\ Head(q) = q[1]
      /\ \A i \in 1..(Len(q) - 1) : Tail(q)[i] = q[i + 1]
      BY HeadTailProperties, LenProperties, EmptySeq
<1> DEFINE t == Tail(q)
           h == Head(q)
<1>2. /\ \A i \in DOMAIN q : i = 1 \/ (i - 1 \in DOMAIN t /\ t[i - 1] = q[i])
      /\ \A i \in DOMAIN t : i + 1 \in DOMAIN q /\ t[i] = q[i + 1]
      /\ \A i \in DOMAIN q : i \in Nat /\ i >= 1
      /\ \A i \in DOMAIN t : i \in Nat /\ i >= 1
      /\ 1 \in DOMAIN q /\ h = q[1]
      BY <1>1
<1> HIDE DEF t, h
<1>3. ASSUME NEW i \in DOMAIN t, t[i].kind = kind,
             \A k \in DOMAIN t : k > i => t[k].kind # kind
      PROVE  t[i].of = x
  <2>1. ASSUME NEW k \in DOMAIN q, k > i + 1 PROVE q[k].kind # kind
    <3>1. k # 1 /\ k - 1 > i
          BY <1>2, <2>1
    <3>2. k - 1 \in DOMAIN t /\ t[k - 1] = q[k]
          BY <1>2, <3>1
    <3> QED BY <1>3, <3>1, <3>2
  <2> QED BY <1>2, <1>3, <2>1 DEF LastIs
<1>4. ASSUME \A i \in DOMAIN t : t[i].kind # kind
      PROVE  /\ h.kind = kind => h.of = x
             /\ h.kind # kind => was = x
  <2>1. \A i \in DOMAIN q : i # 1 => q[i].kind # kind
        BY <1>2, <1>4
  <2> QED BY <1>2, <2>1 DEF LastIs
<1> QED BY <1>3, <1>4 DEF LastIs, t, h

\* A push keeps the page up to date.
LEMMA ToldPush ==
  ASSUME TypeOK, NEW kind, NEW of, Work(kind, of) \in WorkItem, Push(kind, of),
         NEW what, NEW was, NEW x, ~qclosed,
         \/ kind # what /\ LastIs(queue, what, was, x)
         \/ kind = what /\ of = x
  PROVE  \A q : q = queue' => LastIs(q, what, was, x)
<1>1. queue \in Seq(WorkItem)
      BY DEF TypeOK
<1>2. queue' = Append(queue, Work(kind, of))
      BY <1>1, Pushed
<1>3. Work(kind, of).kind = kind /\ Work(kind, of).of = of
      BY DEF Work
<1> QED BY <1>1, <1>2, <1>3, LastPush

LEMMA LastToldStep ==
  ASSUME TypeOK, CallersApart, LifeLock, AppLock, NodesKnown, LastTold,
         [Next]_vars
  PROVE  LastTold'
<1> USE Apart DEF LastTold
<1>0. ASSUME ~qclosed',
        /\ \A q : q = queue' => LastIs(q, "state", page.state', state')
        /\ \A n \in greeted' :
             run' = n \/ pc'[n] = "publish" =>
               \A q : q = queue' => LastIs(q, "peers", peers', n)
      PROVE  LastTold'
      BY <1>0
<1>1. CASE UNCHANGED <<queue, qclosed, page, state, greeted, run, pc, peers>>
      BY <1>1
<1>2. CASE Load
      BY <1>2 DEF Load, Go, TypeOK, appVars, nodeVars, queueVars
<1>3. ASSUME NEW c \in Caller, CallStep(c) PROVE LastTold'
  <2>1. PICK p \in Places : pc' = [pc EXCEPT ![c] = p]
        BY <1>3, CallGoes
  <2>2. /\ pc'[c] = p /\ \A d \in Caller \ {c} : pc'[d] = pc[d]
        /\ UNCHANGED <<greeted, qclosed, peers, page>>
        BY <1>3, <2>1, CallsLeave DEF TypeOK
  <2>3. \A n \in greeted : n \in Caller
        BY DEF TypeOK
  <2>4. CASE UNCHANGED <<queue, state, run>> /\ p # "publish"
        BY <2>2, <2>3, <2>4
  <2>5. CASE Call(c) \/ Lock(c) \/ Unchanged(c) \/ Replace(c)
        BY <2>2, <2>4, <2>5 DEF Call, Lock, Unchanged, Replace, Go, TypeOK, appVars,
           queueVars
  <2>6. CASE CloseOld(c) \/ GiveUpOld(c) \/ Restart(c) \/ Install(c)
        BY <2>2, <2>4, <2>6 DEF CloseOld, GiveUpOld, Restart, Install, Go, TypeOK,
           appVars, queueVars
  <2>7. CASE StopOld(c)
    <3>1. /\ run' = None /\ state' = "stopped" /\ Push("state", "stopped")
          /\ p = "start"
          BY <2>2, <2>7 DEF StopOld, Go, TypeOK
    <3>2. \A n \in greeted : run' = n \/ pc'[n] = "publish" => pc[n] = "publish"
          BY <2>2, <2>3, <3>1
    <3> QED BY <1>0, <2>2, <3>1, <3>2, WorkTypes, ToldPush
  <2>8. CASE Start(c)
    <3>1. CASE run # None \/ p = "publish"
      <4>1. UNCHANGED <<queue, state, run>> /\ pc[c] = "start"
            BY <2>2, <2>8, <3>1 DEF Start, Go, TypeOK
      <4>2. c \notin greeted
            BY <4>1 DEF NodesKnown
      <4> QED BY <2>2, <2>3, <4>1, <4>2
    <3>2. CASE run = None /\ p # "publish"
      <4>1. /\ run' = run /\ state' = "failed" /\ Push("state", "failed")
            BY <2>2, <2>8, <3>2 DEF Start, Go, TypeOK
      <4>2. \A n \in greeted : run' = n \/ pc'[n] = "publish" =>
              run = n \/ pc[n] = "publish"
            BY <2>2, <2>3, <3>2, <4>1
      <4> QED BY <1>0, <2>2, <4>1, <4>2, WorkTypes, ToldPush
    <3> QED BY <3>1, <3>2
  <2>9. CASE Publish(c)
    <3>1. /\ run' = c /\ state' = "running" /\ Push("state", "running")
          /\ pc[c] = "publish" /\ p = "check"
          BY <2>2, <2>9 DEF Publish, Go, TypeOK
    <3>2. \A n \in greeted : run' = n \/ pc'[n] = "publish" => pc[n] = "publish"
          BY <2>2, <2>3, <3>1
    <3> QED BY <1>0, <2>2, <3>1, <3>2, WorkTypes, ToldPush
  <2>10. CASE Check(c)
    <3>1. /\ UNCHANGED appVars /\ pc[c] = "check" /\ p \in {"install", "done"}
          /\ (state # "running" /\ Push("peers", "saved")) \/ queue' = queue
          BY <2>2, <2>10 DEF Check, Go, TypeOK
    <3>2. CASE queue' = queue
          BY <2>4, <3>1, <3>2 DEF appVars
    <3>3. CASE state # "running" /\ Push("peers", "saved")
      <4>1. run = None /\ \A n \in Caller : pc[n] # "publish"
            BY <3>1, <3>3 DEF AppLock, LifeLock, Holds
      <4>2. \A n \in greeted : ~(run' = n \/ pc'[n] = "publish")
            BY <2>2, <2>3, <3>1, <4>1 DEF appVars
      <4> QED BY <1>0, <2>2, <3>1, <3>3, <4>2, WorkTypes, ToldPush DEF appVars
    <3> QED BY <3>1, <3>2, <3>3
  <2> QED BY <1>3, <2>5, <2>6, <2>7, <2>8, <2>9, <2>10 DEF CallStep
<1>4. ASSUME NEW n \in Caller, NodeStep(n) PROVE LastTold'
  <2>1. UNCHANGED <<pc, qclosed, peers, page>>
        BY <1>4, NodesLeave DEF lifeVars, pageVars
  <2>2. CASE Greet(n)
    <3>1. /\ node[n] \in {"up", "ending"} /\ greeted' = greeted \cup {n}
          /\ Push("peers", n) /\ UNCHANGED appVars
          BY <2>2 DEF Greet
    <3>2. \A m \in greeted' : run = m \/ pc[m] = "publish" => m = n
      <4>1. run = n \/ pc[n] = "publish"
            BY <3>1 DEF NodesKnown
      <4>2. \A m \in Caller : pc[m] = "publish" => run = None /\ appMu = m
            BY DEF AppLock
      <4>3. greeted' \subseteq Caller
            BY <3>1 DEF TypeOK
      <4> QED BY <4>1, <4>2, <4>3
    <3> QED BY <1>0, <2>1, <3>1, <3>2, WorkTypes, ToldPush DEF appVars
  <2>3. CASE Forget(n) /\ run = n
    <3>1. /\ run' = None /\ state' = "failed" /\ Push("state", "failed")
          /\ greeted' = greeted
          BY <2>3 DEF Forget, Forgets
    <3>2. \A m \in greeted : run' = m \/ pc'[m] = "publish" => pc[m] = "publish"
          BY <2>1, <3>1 DEF TypeOK
    <3> QED BY <1>0, <2>1, <3>1, <3>2, WorkTypes, ToldPush
  <2>4. CASE Forget(n) /\ run # n
        BY <1>1, <2>1, <2>4 DEF Forget, Forgets
  <2>5. CASE Fail(n) \/ Close(n) \/ Signal(n)
        BY <1>1, <2>1, <2>5 DEF Fail, Close, Signal, appVars, queueVars
  <2> QED BY <1>4, <2>2, <2>3, <2>4, <2>5 DEF NodeStep
<1>5. CASE QuitStep
  <2>1. UNCHANGED <<pc, greeted, pageVars>>
        BY <1>5, QuitLeaves
  <2>2. CASE StopEnds
    <3>1. run' = None /\ state' = "stopped" /\ Push("state", "stopped")
          /\ qclosed' = qclosed
          BY <2>2 DEF StopEnds
    <3>2. \A m \in greeted : run' = m \/ pc'[m] = "publish" => pc[m] = "publish"
          BY <2>1, <3>1 DEF TypeOK
    <3> QED BY <1>0, <2>1, <3>1, <3>2, WorkTypes, ToldPush DEF pageVars
  <2>3. CASE StopBegins \/ Quit \/ SetClosed
        BY <1>1, <2>1, <2>3 DEF StopBegins, Quit, SetClosed, appVars, queueVars,
           pageVars
  <2>4. CASE QuitWaits \/ QuitGivesUp
    <3>1. QuitGoesOn
          BY <2>4 DEF QuitWaits, QuitGivesUp
    <3>2. CASE CloseQueue
          BY <3>2 DEF CloseQueue
    <3>3. CASE ~CloseQueue
          BY <1>1, <2>1, <3>1, <3>3 DEF QuitGoesOn, TakeManager, StopReceiver,
             EndQuit, appVars, queueVars, pageVars
    <3> QED BY <3>2, <3>3
  <2> QED BY <1>5, <2>2, <2>3, <2>4 DEF QuitStep
<1>6. ASSUME NEW e \in Sent, SendStep(e) PROVE LastTold'
  <2>1. UNCHANGED <<pc, run, state, greeted, qclosed, peers, page>>
        BY <1>6, EntriesLeave DEF lifeVars, appVars, nodeVars, pageVars
  <2>2. CASE Finish(e)
        BY <1>0, <2>1, <2>2, WorkTypes, ToldPush DEF Finish
  <2>3. CASE Show(e)
    <3>1. \/ queue' = queue
          \/ ~qclosed /\ queue' = Append(queue, Work("entry", e))
          BY <2>3, ShowPushes DEF TypeOK
    <3>2. CASE queue' = queue
          BY <1>1, <2>1, <3>2
    <3>3. CASE ~qclosed /\ queue' = Append(queue, Work("entry", e))
      <4>1. Work("entry", e) \in WorkItem /\ Work("entry", e).kind = "entry"
            BY WorkTypes DEF Work
      <4> QED BY <1>0, <2>1, <3>3, <4>1, LastPush DEF TypeOK
    <3> QED BY <3>1, <3>2, <3>3
  <2>4. CASE Hold(e) \/ Accept(e) \/ Pick(e) \/ Store(e)
        BY <1>1, <2>1, <2>4 DEF Hold, Accept, Pick, Store
  <2> QED BY <1>6, <2>2, <2>3, <2>4 DEF SendStep
<1>7. ASSUME NEW e \in Received, ReceiveStep(e) PROVE LastTold'
  <2>1. UNCHANGED <<pc, run, state, greeted, qclosed, peers, page>>
        BY <1>7, EntriesLeave DEF lifeVars, appVars, nodeVars, pageVars
  <2>2. queue' = queue \/ Push("entry", e)
        BY <1>7 DEF ReceiveStep, Arrive, Report
  <2> QED BY <1>0, <1>1, <2>1, <2>2, WorkTypes, ToldPush
<1>8. CASE Handle
  <2>1. UNCHANGED <<pc, run, state, greeted, qclosed>>
        BY <1>8, DrainLeaves DEF lifeVars, appVars, nodeVars
  <2>2. /\ queue \in Seq(WorkItem) /\ queue # <<>> /\ queue' = Tail(queue)
        BY <1>8 DEF Handle, TypeOK
  <2>3. /\ page'.state = IF Head(queue).kind = "state" THEN Head(queue).of
                         ELSE page.state
        /\ peers' = IF Head(queue).kind = "peers" THEN Head(queue).of ELSE peers
        BY <1>8 DEF Handle, TypeOK
  <2>4. CASE ~qclosed
    <3>1. \A q : q = queue' => LastIs(q, "state", page.state', state)
          BY <2>2, <2>3, <2>4, LastTake
    <3>2. \A n \in greeted : run = n \/ pc[n] = "publish" =>
            \A q : q = queue' => LastIs(q, "peers", peers', n)
          BY <2>2, <2>3, <2>4, LastTake
    <3> QED BY <1>0, <2>1, <3>1, <3>2
  <2> QED BY <2>1, <2>4
<1>9. CASE DrainEnds
      BY <1>1, <1>9 DEF DrainEnds, lifeVars, appVars, nodeVars, queueVars
<1>10. CASE UNCHANGED vars
      BY <1>1, <1>10 DEF vars
<1> QED BY <1>2, <1>3, <1>4, <1>5, <1>6, <1>7, <1>8, <1>9, <1>10, Steps

----------------------------------------------------------------------------
(* The entries.                                                             *)

\* r has no more work of this kind than q, or one more at its end.
SameAt(q, r, kind) ==
  /\ At(r, kind) = At(q, kind) /\ Of(r, kind) = Of(q, kind)
  /\ \A i \in At(q, kind) : r[i] = q[i]

MoreAt(q, r, kind, of) ==
  \E n \in Nat :
    /\ At(r, kind) = At(q, kind) \cup {n} /\ n \notin At(q, kind)
    /\ Of(r, kind) = Of(q, kind) \cup {of} /\ r[n].of = of
    /\ \A i \in DOMAIN q : i \in Nat /\ i < n /\ r[i] = q[i]

LEMMA AtPush ==
  ASSUME NEW q \in Seq(WorkItem), NEW w \in WorkItem, NEW kind,
         NEW r, r = Append(q, w)
  PROVE  /\ w.kind # kind => SameAt(q, r, kind)
         /\ w.kind = kind => MoreAt(q, r, kind, w.of)
<1> DEFINE n == Len(q) + 1
<1>1. /\ Len(q) \in Nat /\ DOMAIN q = 1..Len(q)
      /\ DOMAIN r = DOMAIN q \cup {n} /\ n \notin DOMAIN q
      /\ r[n] = w /\ \A i \in DOMAIN q : r[i] = q[i]
      BY AppendProperties, LenProperties
<1>2. n \in Nat /\ \A i \in DOMAIN q : i \in Nat /\ i < n
      BY <1>1
<1> HIDE DEF n
<1>3. \A i \in At(q, kind) : r[i] = q[i] /\ i \in DOMAIN q
      BY <1>1 DEF At
<1>4. w.kind = kind => At(r, kind) = At(q, kind) \cup {n}
      BY <1>1 DEF At
<1>5. w.kind # kind => At(r, kind) = At(q, kind)
      BY <1>1 DEF At
<1>6. w.kind = kind => Of(r, kind) = Of(q, kind) \cup {w.of}
      BY <1>1, <1>3, <1>4 DEF Of
<1>7. w.kind # kind => Of(r, kind) = Of(q, kind)
      BY <1>3, <1>5 DEF Of
<1>8. w.kind # kind => SameAt(q, r, kind)
      BY <1>3, <1>5, <1>7 DEF SameAt
<1>9. w.kind = kind => MoreAt(q, r, kind, w.of)
      BY <1>1, <1>2, <1>3, <1>4, <1>6 DEF MoreAt
<1> QED BY <1>8, <1>9

\* t is q without its first work item.
TakenAt(q, t, kind) ==
  /\ \A i \in At(q, kind) : i \in Nat /\ i >= 1
  /\ \A i \in At(t, kind) : i \in Nat /\ i >= 1
  /\ \A i \in At(q, kind) :
       i = 1 \/ (i - 1 \in At(t, kind) /\ t[i - 1] = q[i])
  /\ \A i \in At(t, kind) : i + 1 \in At(q, kind) /\ t[i] = q[i + 1]

LEMMA AtTake ==
  ASSUME NEW q \in Seq(WorkItem), q # <<>>, NEW kind, NEW t, t = Tail(q)
  PROVE  /\ Head(q) \in WorkItem /\ Head(q) = q[1]
         /\ Head(q).kind = kind => 1 \in At(q, kind)
         /\ Head(q).kind # kind => 1 \notin At(q, kind)
         /\ TakenAt(q, t, kind)
<1>1. /\ Len(q) \in Nat \ {0} /\ DOMAIN q = 1..Len(q)
      /\ DOMAIN t = 1..(Len(q) - 1)
      /\ Head(q) = q[1] /\ Head(q) \in WorkItem
      /\ \A i \in 1..(Len(q) - 1) : t[i] = q[i + 1]
      BY HeadTailProperties, LenProperties, EmptySeq
<1>2. TakenAt(q, t, kind)
      BY <1>1 DEF TakenAt, At
<1> QED BY <1>1, <1>2 DEF At

\* A node that has ended stays so.
LEMMA ClosedStays ==
  ASSUME TypeOK, CallersApart, AppLock, NodesKnown, [Next]_vars,
         NEW n \in Caller, node[n] = "closed"
  PROVE  node'[n] = "closed"
<1>1. CASE UNCHANGED node
      BY <1>1
<1>2. ASSUME NEW m \in Caller, node' = [node EXCEPT ![m] = IF @ = "up" THEN "ending" ELSE @]
      PROVE  node'[n] = "closed"
      BY <1>2 DEF TypeOK
<1>3. ASSUME NEW c \in Caller, CallStep(c) PROVE node'[n] = "closed"
  <2>1. CASE Start(c)
        BY <2>1 DEF Start, NodesKnown, TypeOK
  <2>2. CASE Restart(c)
    <3>1. CASE run = None
          BY <2>2, <3>1 DEF Restart
    <3>2. CASE run # None
          BY <1>2, <2>2, <3>2 DEF Restart, Cancel, TypeOK
    <3> QED BY <3>1, <3>2
  <2> QED BY <1>1, <1>3, <2>1, <2>2 DEF CallStep, Call, Lock, Unchanged, Replace,
          CloseOld, GiveUpOld, StopOld, Publish, Check, Install, nodeVars
<1>4. CASE Load
      BY <1>1, <1>4 DEF Load, nodeVars
<1>5. ASSUME NEW m \in Caller, NodeStep(m) PROVE node'[n] = "closed"
      BY <1>5 DEF NodeStep, Greet, Fail, Close, Signal, Forget, TypeOK
<1>6. CASE QuitStep
  <2>1. CASE StopBegins
    <3>1. CASE run = None
          BY <2>1, <3>1 DEF StopBegins
    <3>2. CASE run # None
          BY <1>2, <2>1, <3>2 DEF StopBegins, Cancel, TypeOK
    <3> QED BY <3>1, <3>2
  <2> QED BY <1>1, <1>6, <2>1 DEF QuitStep, Quit, SetClosed, QuitWaits, QuitGivesUp,
          QuitGoesOn, StopEnds, nodeVars
<1>7. CASE \/ \E e \in Sent : SendStep(e)
           \/ \E e \in Received : ReceiveStep(e)
      BY <1>1, <1>7, EntriesLeave DEF nodeVars
<1>8. CASE Handle \/ DrainEnds
      BY <1>1, <1>8, DrainLeaves DEF nodeVars
<1>9. CASE UNCHANGED vars
      BY <1>1, <1>9 DEF vars
<1> QED BY <1>3, <1>4, <1>5, <1>6, <1>7, <1>8, <1>9, Steps

\* A step of one entry, or none, and only before its outcome was reported or
\* from then to its end.
LEMMA EntryGoes ==
  ASSUME TypeOK, [Next]_vars, NEW e \in Entry, stage[e] \in {"noted", "over"}
  PROVE  /\ via'[e] = via[e] /\ stage'[e] \in {"noted", "over"}
         /\ stage[e] = "over" => stage'[e] = "over"
<1>1. CASE UNCHANGED <<via, stage>>
      BY <1>1
<1>2. ASSUME NEW f \in Sent, SendStep(f)
      PROVE  /\ via'[e] = via[e] /\ stage'[e] \in {"noted", "over"}
             /\ stage[e] = "over" => stage'[e] = "over"
  <2> USE Apart DEF EntryStep, TypeOK, Busy
  <2>1. CASE Hold(f) \/ Accept(f) \/ Store(f)
        BY <2>1 DEF Hold, Accept, Store
  <2>2. CASE Pick(f)
        BY <2>2 DEF Pick
  <2>3. CASE Show(f) \/ Finish(f)
        BY <2>3 DEF Show, Finish
  <2> QED BY <1>2, <2>1, <2>2, <2>3 DEF SendStep
<1>3. ASSUME NEW f \in Received, ReceiveStep(f)
      PROVE  /\ via'[e] = via[e] /\ stage'[e] \in {"noted", "over"}
             /\ stage[e] = "over" => stage'[e] = "over"
  <2> USE Apart DEF EntryStep, TypeOK
  <2>1. ASSUME NEW n \in Caller, Arrive(f, n) PROVE e # f
        BY <2>1 DEF Arrive
  <2>2. CASE Report(f)
        BY <2>2 DEF Report
  <2> QED BY <1>3, <2>1, <2>2 DEF ReceiveStep, Arrive
<1>4. CASE Load \/ \E c \in Caller : CallStep(c)
      BY <1>1, <1>4, CallsLeave DEF entryVars
<1>5. CASE \E n \in Caller : NodeStep(n)
      BY <1>1, <1>5, NodesLeave DEF entryVars
<1>6. CASE QuitStep
      BY <1>1, <1>6, QuitLeaves DEF entryVars
<1>7. CASE Handle \/ DrainEnds
      BY <1>1, <1>7, DrainLeaves DEF entryVars
<1>8. CASE UNCHANGED vars
      BY <1>1, <1>8 DEF vars
<1> QED BY <1>2, <1>3, <1>4, <1>5, <1>6, <1>7, <1>8, Steps

LEMMA LostStays ==
  ASSUME TypeOK, CallersApart, AppLock, NodesKnown, [Next]_vars,
         NEW e \in Entry, via'[e] = via[e], Lost(e)
  PROVE  Lost(e)'
BY ClosedStays DEF Lost, TypeOK

\* Steps that leave the entries alone.
LEMMA QuietEntries ==
  ASSUME TypeOK, CallersApart, AppLock, NodesKnown, ShownOnce, NoneMissing,
         [Next]_vars, UNCHANGED <<stage, via, shown, page>>,
         qclosed => qclosed',
         pc'[Startup] # "load" => pc[Startup] # "load",
         \/ queue' = queue
         \/ \E w \in WorkItem : /\ w.kind \notin {"entry", "done"}
                                /\ queue' = Append(queue, w)
  PROVE  ShownOnce' /\ NoneMissing'
<1>1. SameAt(queue, queue', "entry") /\ SameAt(queue, queue', "done")
  <2>1. CASE queue' = queue
        BY <2>1 DEF SameAt
  <2>2. CASE queue' # queue
    <3>1. PICK w \in WorkItem : /\ w.kind \notin {"entry", "done"}
                                /\ queue' = Append(queue, w)
          BY <2>2
    <3>2. queue \in Seq(WorkItem) /\ w.kind # "entry" /\ w.kind # "done"
          BY <3>1 DEF TypeOK
    <3> QED BY <3>1, <3>2, AtPush
  <2> QED BY <2>1, <2>2
<1>2. ShownOnce'
      BY <1>1 DEF ShownOnce, SameAt
<1>3. \A e \in Entry : Lost(e) => Lost(e)'
      BY LostStays
<1>4. page.done \subseteq Entry
      BY Apart DEF TypeOK
<1>5. \A e \in Entry :
        /\ stage'[e] = "kept" => via'[e] # None
        /\ stage'[e] \in {"noted", "over"} /\ pc'[Startup] # "load" /\ ~qclosed'
             => Lost(e)' \/ e \in ToSet(shown') \cup Of(queue', "entry")
      BY <1>1, <1>3 DEF NoneMissing, SameAt
<1>6. \A e \in page'.done :
        stage'[e] = "over" /\ (Lost(e)' \/ e \in ToSet(shown'))
      BY <1>3, <1>4 DEF NoneMissing
<1>7. \A i \in At(queue', "done"), e \in Entry :
        e = queue'[i].of =>
          /\ stage'[e] = "over"
          /\ \/ Lost(e)' \/ e \in ToSet(shown')
             \/ \E k \in At(queue', "entry") : k < i /\ queue'[k].of = e
      BY <1>1, <1>3 DEF NoneMissing, SameAt
<1> QED BY <1>2, <1>5, <1>6, <1>7 DEF NoneMissing

\* An entry whose outcome was not reported yet goes on, and its outcome is
\* queued, lost with the node that recorded it, or still open.
LEMMA EntryStepShows ==
  ASSUME TypeOK, CallersApart, AppLock, NodesKnown, ShownOnce, NoneMissing,
         [Next]_vars, pc[Startup] # "load",
         UNCHANGED <<pc, shown, page, qclosed>>,
         NEW e \in Entry, stage[e] \notin {"noted", "over"}, NEW where,
         stage' = [stage EXCEPT ![e] = where],
         \A d \in Entry \ {e} : via'[d] = via[d],
         where = "kept" => via'[e] # None,
         \/ where \notin {"noted", "over"} /\ queue' = queue
         \/ /\ where \in {"noted", "over"}
            /\ \/ queue' = queue /\ (Lost(e)' \/ qclosed)
               \/ queue' = Append(queue, Work("entry", e))
  PROVE  ShownOnce' /\ NoneMissing'
<1>1. /\ stage'[e] = where /\ \A d \in Entry \ {e} : stage'[d] = stage[d]
      /\ page.done \subseteq Entry /\ queue \in Seq(WorkItem)
      BY Apart DEF TypeOK
<1>2. \A d \in Entry \ {e} : Lost(d) => Lost(d)'
      BY LostStays
<1>3. e \notin ToSet(shown) \cup Of(queue, "entry") /\ e \notin page.done
      BY DEF ShownOnce, NoneMissing
<1>4. \A i \in At(queue, "done") : queue[i].of # e
      BY DEF NoneMissing
<1>5. ToSet(shown) \cup Of(queue, "entry") \subseteq Entry
  <2>1. ToSet(shown) \subseteq Entry
        BY DEF TypeOK, ToSet
  <2>2. \A i \in DOMAIN queue : queue[i] \in WorkItem
        BY <1>1, ElementOfSeq, LenProperties
  <2>3. Of(queue, "entry") \subseteq Entry
        BY <2>2 DEF Of, At, WorkItem
  <2> QED BY <2>1, <2>3
<1>6. CASE queue' = queue
  <2>1. ShownOnce'
        BY <1>1, <1>3, <1>5, <1>6 DEF ShownOnce
  <2>2. /\ stage'[e] = "kept" => via'[e] # None
        /\ stage'[e] \in {"noted", "over"} /\ ~qclosed' => Lost(e)'
        BY <1>1, <1>6 DEF Work
  <2>3. \A d \in Entry \ {e} :
          /\ stage'[d] = "kept" => via'[d] # None
          /\ stage'[d] \in {"noted", "over"} /\ pc'[Startup] # "load" /\ ~qclosed'
               => Lost(d)' \/ d \in ToSet(shown') \cup Of(queue', "entry")
        BY <1>1, <1>2, <1>6 DEF NoneMissing
  <2>4. \A d \in page'.done :
          stage'[d] = "over" /\ (Lost(d)' \/ d \in ToSet(shown'))
        BY <1>1, <1>2, <1>3 DEF NoneMissing
  <2>5. \A i \in At(queue', "done"), d \in Entry :
          d = queue'[i].of =>
            /\ stage'[d] = "over"
            /\ \/ Lost(d)' \/ d \in ToSet(shown')
               \/ \E k \in At(queue', "entry") : k < i /\ queue'[k].of = d
        BY <1>1, <1>2, <1>4, <1>6 DEF NoneMissing
  <2> QED BY <2>1, <2>2, <2>3, <2>4, <2>5 DEF NoneMissing
<1>7. CASE queue' # queue
  <2>1. where \in {"noted", "over"} /\ queue' = Append(queue, Work("entry", e))
        BY <1>7
  <2>2. MoreAt(queue, queue', "entry", e) /\ SameAt(queue, queue', "done")
    <3>1. /\ Work("entry", e) \in WorkItem /\ Work("entry", e).kind = "entry"
          /\ Work("entry", e).kind # "done" /\ Work("entry", e).of = e
          BY WorkTypes DEF Work
    <3> QED BY <1>1, <2>1, <3>1, AtPush
  <2>3. PICK n \in Nat :
          /\ At(queue', "entry") = At(queue, "entry") \cup {n}
          /\ n \notin At(queue, "entry")
          /\ Of(queue', "entry") = Of(queue, "entry") \cup {e} /\ queue'[n].of = e
          /\ \A i \in DOMAIN queue : i \in Nat /\ i < n /\ queue'[i] = queue[i]
        BY <2>2 DEF MoreAt
  <2>4. \A i \in At(queue, "entry") : queue'[i] = queue[i] /\ queue[i].of # e
        BY <1>3, <2>3 DEF At, Of
  <2>5. ShownOnce'
    <3>1. ToSet(shown') \cap Of(queue', "entry") = {}
          BY <1>3, <2>3 DEF ShownOnce
    <3>2. \A i, k \in At(queue', "entry") : queue'[i].of = queue'[k].of => i = k
          BY <2>3, <2>4 DEF ShownOnce
    <3>3. \A d \in ToSet(shown') \cup Of(queue', "entry") :
            stage'[d] \in {"noted", "over"}
          BY <1>1, <1>5, <2>1, <2>3 DEF ShownOnce
    <3> QED BY <3>1, <3>2, <3>3 DEF ShownOnce
  <2>6. \A d \in Entry :
          /\ stage'[d] = "kept" => via'[d] # None
          /\ stage'[d] \in {"noted", "over"} /\ pc'[Startup] # "load" /\ ~qclosed'
               => Lost(d)' \/ d \in ToSet(shown') \cup Of(queue', "entry")
        BY <1>1, <1>2, <2>3 DEF NoneMissing
  <2>7. \A d \in page'.done :
          stage'[d] = "over" /\ (Lost(d)' \/ d \in ToSet(shown'))
        BY <1>1, <1>2, <1>3 DEF NoneMissing
  <2>8. \A i \in At(queue', "done"), d \in Entry :
          d = queue'[i].of =>
            /\ stage'[d] = "over"
            /\ \/ Lost(d)' \/ d \in ToSet(shown')
               \/ \E k \in At(queue', "entry") : k < i /\ queue'[k].of = d
        BY <1>1, <1>2, <1>4, <2>2, <2>3, <2>4 DEF NoneMissing, SameAt
  <2> QED BY <2>5, <2>6, <2>7, <2>8 DEF NoneMissing
<1> QED BY <1>6, <1>7

\* A finished send is reported done behind its entry.
LEMMA FinishShows ==
  ASSUME TypeOK, CallersApart, AppLock, NodesKnown, ShownOnce, NoneMissing,
         [Next]_vars, pc[Startup] # "load",
         NEW e \in Sent, Finish(e)
  PROVE  ShownOnce' /\ NoneMissing'
<1>1. /\ stage'[e] = "over" /\ \A d \in Entry \ {e} : stage'[d] = stage[d]
      /\ page.done \subseteq Entry /\ queue \in Seq(WorkItem) /\ e \in Entry
      /\ UNCHANGED <<pc, shown, page, qclosed, via>> /\ stage[e] = "noted"
      /\ Push("done", e)
      BY Apart DEF TypeOK, Finish, EntryStep, lifeVars, pageVars
<1>2. \A d \in Entry : Lost(d) => Lost(d)'
      BY <1>1, LostStays
<1>3. /\ SameAt(queue, queue', "entry")
      /\ \/ SameAt(queue, queue', "done")
         \/ /\ ~qclosed
            /\ MoreAt(queue, queue', "done", e)
  <2>1. CASE qclosed
        BY <1>1, <2>1 DEF SameAt, Push, PushAll
  <2>2. CASE ~qclosed
    <3>1. /\ Work("done", e) \in WorkItem /\ Work("done", e).kind = "done"
          /\ Work("done", e).kind # "entry" /\ Work("done", e).of = e
          BY WorkTypes DEF Work
    <3>2. queue' = Append(queue, Work("done", e))
          BY <1>1, <2>2, <3>1, Pushed
    <3> QED BY <1>1, <2>2, <3>1, <3>2, AtPush
  <2> QED BY <2>1, <2>2
<1>4. ToSet(shown) \cup Of(queue, "entry") \subseteq Entry
  <2>1. ToSet(shown) \subseteq Entry
        BY DEF TypeOK, ToSet
  <2>2. \A i \in DOMAIN queue : queue[i] \in WorkItem
        BY <1>1, ElementOfSeq, LenProperties
  <2>3. Of(queue, "entry") \subseteq Entry
        BY <2>2 DEF Of, At, WorkItem
  <2> QED BY <2>1, <2>3
<1>5. ShownOnce'
      BY <1>1, <1>3, <1>4 DEF ShownOnce, SameAt
<1>6. \A d \in Entry :
        /\ stage'[d] = "kept" => via'[d] # None
        /\ stage'[d] \in {"noted", "over"} /\ pc'[Startup] # "load" /\ ~qclosed'
             => Lost(d)' \/ d \in ToSet(shown') \cup Of(queue', "entry")
      BY <1>1, <1>2, <1>3 DEF NoneMissing, SameAt
<1>7. \A d \in page'.done :
        stage'[d] = "over" /\ (Lost(d)' \/ d \in ToSet(shown'))
      BY <1>1, <1>2 DEF NoneMissing
<1>8. ASSUME NEW i \in At(queue, "done"), queue'[i] = queue[i]
      PROVE  \A d \in Entry :
               d = queue'[i].of =>
                 /\ stage'[d] = "over"
                 /\ \/ Lost(d)' \/ d \in ToSet(shown')
                    \/ \E k \in At(queue', "entry") : k < i /\ queue'[k].of = d
      BY <1>1, <1>2, <1>3, <1>8 DEF NoneMissing, SameAt
<1>9. CASE SameAt(queue, queue', "done")
      BY <1>5, <1>6, <1>7, <1>8, <1>9 DEF NoneMissing, SameAt
<1>10. CASE ~qclosed /\ MoreAt(queue, queue', "done", e)
  <2>1. PICK n \in Nat :
          /\ At(queue', "done") = At(queue, "done") \cup {n}
          /\ queue'[n].of = e
          /\ \A i \in DOMAIN queue : i \in Nat /\ i < n /\ queue'[i] = queue[i]
        BY <1>10 DEF MoreAt
  <2>2. Lost(e) \/ e \in ToSet(shown) \/ \E k \in At(queue, "entry") : queue[k].of = e
        BY <1>1, <1>10 DEF NoneMissing, Of
  <2>3. \A k \in At(queue, "entry") :
          k \in At(queue', "entry") /\ k < n /\ queue'[k] = queue[k]
        BY <1>3, <2>1 DEF SameAt, At
  <2>4. /\ stage'[e] = "over"
        /\ \/ Lost(e)' \/ e \in ToSet(shown')
           \/ \E k \in At(queue', "entry") : k < n /\ queue'[k].of = e
        BY <1>1, <1>2, <2>2, <2>3
  <2>5. \A i \in At(queue, "done") : queue'[i] = queue[i]
        BY <2>1 DEF At
  <2>6. \A i \in At(queue', "done"), d \in Entry :
          d = queue'[i].of =>
            /\ stage'[d] = "over"
            /\ \/ Lost(d)' \/ d \in ToSet(shown')
               \/ \E k \in At(queue', "entry") : k < i /\ queue'[k].of = d
        BY <1>8, <2>1, <2>4, <2>5
  <2> QED BY <1>5, <1>6, <1>7, <2>6 DEF NoneMissing
<1> QED BY <1>3, <1>9, <1>10

LEMMA Added ==
  ASSUME NEW s \in Seq(Entry), NEW e \in Entry
  PROVE  ToSet(Append(s, e)) = ToSet(s) \cup {e}
<1> DEFINE r == Append(s, e)
<1>1. /\ Len(s) \in Nat /\ DOMAIN s = 1..Len(s)
      /\ DOMAIN r = 1..(Len(s) + 1) /\ r[Len(s) + 1] = e
      /\ \A i \in 1..Len(s) : r[i] = s[i]
      BY AppendProperties, LenProperties
<1> HIDE DEF r
<1>2. DOMAIN r = DOMAIN s \cup {Len(s) + 1}
      BY <1>1
<1>3. ToSet(r) = ToSet(s) \cup {e}
      BY <1>1, <1>2 DEF ToSet
<1> QED BY <1>3 DEF r

\* The drain takes the first work item: an entry is added to the chats, and a
\* send that is done has been.
LEMMA HandleShows ==
  ASSUME TypeOK, CallersApart, AppLock, NodesKnown, ShownOnce, NoneMissing,
         [Next]_vars, pc[Startup] # "load", Handle
  PROVE  ShownOnce' /\ NoneMissing'
<1> DEFINE w == Head(queue)
<1>1. /\ UNCHANGED <<pc, stage, via, qclosed>> /\ queue' = Tail(queue)
      /\ queue \in Seq(WorkItem) /\ queue # <<>>
      /\ page.done \subseteq Entry
      BY DrainLeaves, Apart DEF Handle, TypeOK, lifeVars, entryVars
<1>2. /\ w \in WorkItem /\ w = queue[1]
      /\ w.kind = "entry" => 1 \in At(queue, "entry")
      /\ w.kind # "entry" => 1 \notin At(queue, "entry")
      /\ w.kind = "done" => 1 \in At(queue, "done")
      /\ TakenAt(queue, queue', "entry") /\ TakenAt(queue, queue', "done")
      BY <1>1, AtTake
<1>3. /\ w.kind = "entry" => ToSet(shown') = ToSet(shown) \cup {w.of}
      /\ w.kind # "entry" => shown' = shown
      BY <1>2, Added DEF Handle, TypeOK, WorkItem
<1>4. page'.done = IF w.kind = "done" THEN page.done \cup {w.of} ELSE page.done
      BY DEF Handle, TypeOK
<1>5. /\ w.kind = "entry" => w.of \in Entry /\ w.of \in Of(queue, "entry")
      /\ w.kind = "done" => w.of \in Entry
      BY <1>2, Apart DEF WorkItem, Of
<1> HIDE DEF w
<1>6. Of(queue', "entry") =
        IF w.kind = "entry" THEN Of(queue, "entry") \ {w.of} ELSE Of(queue, "entry")
  <2>1. ASSUME NEW e \in Of(queue', "entry")
        PROVE  e \in Of(queue, "entry") /\ (w.kind = "entry" => e # w.of)
    <3>1. PICK i \in At(queue', "entry") : e = queue'[i].of
          BY DEF Of
    <3>2. i + 1 \in At(queue, "entry") /\ e = queue[i + 1].of /\ i + 1 # 1
          BY <1>2, <3>1 DEF TakenAt
    <3> QED BY <1>2, <3>2 DEF ShownOnce, Of
  <2>2. ASSUME NEW e \in Of(queue, "entry"), w.kind = "entry" => e # w.of
        PROVE  e \in Of(queue', "entry")
    <3>1. PICK i \in At(queue, "entry") : e = queue[i].of
          BY DEF Of
    <3>2. i # 1
          BY <1>2, <2>2, <3>1
    <3>3. i - 1 \in At(queue', "entry") /\ queue'[i - 1] = queue[i]
          BY <1>2, <3>2 DEF TakenAt
    <3> QED BY <3>1, <3>3 DEF Of
  <2> QED BY <2>1, <2>2
<1>7. ToSet(shown') \cup Of(queue', "entry") = ToSet(shown) \cup Of(queue, "entry")
      BY <1>3, <1>5, <1>6
<1>8. ShownOnce'
  <2>1. IsInjective(shown')
    <3>1. CASE w.kind = "entry"
      <4>1. w.of \notin ToSet(shown) /\ shown \in Seq(Entry) /\ w.of \in Entry
            BY <1>5, <3>1 DEF ShownOnce, TypeOK
      <4>2. shown' = Append(shown, w.of)
            BY <3>1 DEF Handle, w
      <4>3. /\ Len(shown) \in Nat /\ DOMAIN shown = 1..Len(shown)
            /\ DOMAIN shown' = 1..(Len(shown) + 1)
            /\ shown'[Len(shown) + 1] = w.of
            /\ \A i \in 1..Len(shown) : shown'[i] = shown[i]
            BY <4>1, <4>2, AppendProperties, LenProperties
      <4>4. \A i, k \in DOMAIN shown : shown[i] = shown[k] => i = k
            BY DEF ShownOnce, IsInjective
      <4>5. \A i \in DOMAIN shown : shown[i] # w.of
            BY <4>1 DEF ToSet
      <4> QED BY <4>3, <4>4, <4>5 DEF IsInjective
    <3>2. CASE w.kind # "entry"
          BY <1>3, <3>2 DEF ShownOnce
    <3> QED BY <3>1, <3>2
  <2>2. ToSet(shown') \cap Of(queue', "entry") = {}
        BY <1>3, <1>6 DEF ShownOnce
  <2>3. ASSUME NEW i \in At(queue', "entry"), NEW k \in At(queue', "entry"),
               queue'[i].of = queue'[k].of
        PROVE  i = k
    <3>1. /\ i + 1 \in At(queue, "entry") /\ queue'[i] = queue[i + 1] /\ i \in Nat
          /\ k + 1 \in At(queue, "entry") /\ queue'[k] = queue[k + 1] /\ k \in Nat
          BY <1>2 DEF TakenAt
    <3>2. i + 1 = k + 1
          BY <2>3, <3>1 DEF ShownOnce
    <3> QED BY <3>1, <3>2
  <2> QED BY <1>1, <1>7, <2>1, <2>2, <2>3 DEF ShownOnce
<1>9. \A e \in Entry : Lost(e) => Lost(e)'
      BY <1>1, LostStays
<1>10. \A e \in Entry :
         /\ stage'[e] = "kept" => via'[e] # None
         /\ stage'[e] \in {"noted", "over"} /\ pc'[Startup] # "load" /\ ~qclosed'
              => Lost(e)' \/ e \in ToSet(shown') \cup Of(queue', "entry")
       BY <1>1, <1>7, <1>9 DEF NoneMissing
<1>11. ToSet(shown) \subseteq ToSet(shown')
       BY <1>3
<1>12. ASSUME NEW e \in page'.done
       PROVE  stage'[e] = "over" /\ (Lost(e)' \/ e \in ToSet(shown'))
  <2>1. CASE e \in page.done
        BY <1>1, <1>9, <1>11, <2>1 DEF NoneMissing
  <2>2. CASE w.kind = "done" /\ e = w.of
    <3>1. /\ 1 \in At(queue, "done") /\ e = queue[1].of /\ e \in Entry
          /\ ~\E k \in At(queue, "entry") : k < 1
          BY <1>2, <1>5, <2>2 DEF TakenAt
    <3>2. stage[e] = "over" /\ (Lost(e) \/ e \in ToSet(shown))
          BY <3>1 DEF NoneMissing
    <3> QED BY <1>1, <1>9, <1>11, <3>1, <3>2
  <2> QED BY <1>4, <2>1, <2>2
<1>13. ASSUME NEW i \in At(queue', "done"), NEW e \in Entry, e = queue'[i].of
       PROVE  /\ stage'[e] = "over"
              /\ \/ Lost(e)' \/ e \in ToSet(shown')
                 \/ \E k \in At(queue', "entry") : k < i /\ queue'[k].of = e
  <2>1. i + 1 \in At(queue, "done") /\ e = queue[i + 1].of /\ i \in Nat
        BY <1>2, <1>13 DEF TakenAt
  <2>2. /\ stage[e] = "over"
        /\ \/ Lost(e) \/ e \in ToSet(shown)
           \/ \E k \in At(queue, "entry") : k < i + 1 /\ queue[k].of = e
        BY <2>1 DEF NoneMissing
  <2>3. ASSUME NEW k \in At(queue, "entry"), k < i + 1, queue[k].of = e
        PROVE  \/ e \in ToSet(shown')
               \/ \E j \in At(queue', "entry") : j < i /\ queue'[j].of = e
    <3>1. CASE k = 1
          BY <1>2, <1>3, <2>3, <3>1
    <3>2. CASE k # 1
      <4>1. /\ k - 1 \in At(queue', "entry") /\ queue'[k - 1] = queue[k]
            /\ k \in Nat
            BY <1>2, <3>2 DEF TakenAt
      <4>2. k - 1 < i
            BY <2>1, <2>3, <4>1
      <4> QED BY <2>3, <4>1, <4>2
    <3> QED BY <3>1, <3>2
  <2> QED BY <1>1, <1>9, <1>11, <2>2, <2>3
<1> QED BY <1>8, <1>10, <1>12, <1>13 DEF NoneMissing

\* The load adds what the history file holds, which no event will report.
LEMMA LoadShows ==
  ASSUME TypeOK, LoadFirst, Load
  PROVE  ShownOnce' /\ NoneMissing'
<1>1. /\ UNCHANGED <<stage, via, page, queue>> /\ shown' = SetToSeq(file)
      /\ queue = <<>> /\ page.done = {} /\ IsFiniteSet(file)
      /\ \A e \in Entry : stage[e] = IF e \in file THEN "over" ELSE "none"
      BY DEF Load, LoadFirst, entryVars, queueVars
<1>2. IsInjective(shown') /\ ToSet(shown') = file
      BY <1>1, LoadedOnce
<1>3. \A kind \in {"entry", "done"} : At(queue', kind) = {} /\ Of(queue', kind) = {}
      BY <1>1 DEF At, Of
<1>4. file \subseteq Entry
      BY DEF TypeOK
<1>5. ShownOnce'
      BY <1>1, <1>2, <1>3, <1>4 DEF ShownOnce
<1> QED BY <1>1, <1>2, <1>3, <1>5 DEF NoneMissing

LEMMA EntriesStep ==
  ASSUME TypeOK, CallersApart, AppLock, NodesKnown, OneManager, LoadFirst,
         ShownOnce, NoneMissing, [Next]_vars
  PROVE  ShownOnce' /\ NoneMissing'
<1>1. CASE Load
      BY <1>1, LoadShows
<1>2. ASSUME NEW c \in Caller, CallStep(c) PROVE ShownOnce' /\ NoneMissing'
  <2>1. /\ UNCHANGED <<stage, via, page, qclosed>> /\ pc[Startup] # "load"
        /\ queue \in Seq(WorkItem)
        BY <1>2, CallsLeave, NothingBeforeLoad DEF entryVars, TypeOK
  <2>2. /\ UNCHANGED shown
        /\ \/ UNCHANGED queue
           \/ \E s \in {"running", "stopped", "failed"} : Push("state", s)
           \/ Push("peers", "saved")
        BY <1>2 DEF CallStep, Call, Lock, Unchanged, Replace, CloseOld, GiveUpOld,
           Restart, StopOld, Start, Publish, Check, Install, pageVars, queueVars
  <2>3. CASE UNCHANGED queue
        BY <2>1, <2>2, <2>3, QuietEntries
  <2>4. ASSUME NEW s \in {"running", "stopped", "failed"}, Push("state", s)
        PROVE  ShownOnce' /\ NoneMissing'
    <3>1. Work("state", s) \in WorkItem /\ Work("state", s).kind = "state"
          BY WorkTypes DEF Work
    <3>2. queue' = queue \/ queue' = Append(queue, Work("state", s))
          BY <2>1, <2>4, <3>1, Pushed
    <3> QED BY <2>1, <2>2, <3>1, <3>2, QuietEntries
  <2>5. CASE Push("peers", "saved")
    <3>1. Work("peers", "saved") \in WorkItem /\ Work("peers", "saved").kind = "peers"
          BY WorkTypes DEF Work
    <3>2. queue' = queue \/ queue' = Append(queue, Work("peers", "saved"))
          BY <2>1, <2>5, <3>1, Pushed
    <3> QED BY <2>1, <2>2, <3>1, <3>2, QuietEntries
  <2> QED BY <2>2, <2>3, <2>4, <2>5
<1>3. ASSUME NEW n \in Caller, NodeStep(n) PROVE ShownOnce' /\ NoneMissing'
  <2>1. /\ UNCHANGED <<stage, via, page, qclosed, shown>> /\ pc[Startup] # "load"
        /\ queue \in Seq(WorkItem)
        BY <1>3, NodesLeave, NothingBeforeLoad DEF entryVars, pageVars, TypeOK
  <2>2. UNCHANGED queue \/ Push("peers", n) \/ Push("state", "failed")
        BY <1>3 DEF NodeStep, Greet, Fail, Close, Signal, Forget, Forgets, queueVars
  <2>3. CASE UNCHANGED queue
        BY <2>1, <2>3, QuietEntries
  <2>4. CASE Push("peers", n)
    <3>1. Work("peers", n) \in WorkItem /\ Work("peers", n).kind = "peers"
          BY WorkTypes DEF Work
    <3>2. queue' = queue \/ queue' = Append(queue, Work("peers", n))
          BY <2>1, <2>4, <3>1, Pushed
    <3> QED BY <2>1, <3>1, <3>2, QuietEntries
  <2>5. CASE Push("state", "failed")
    <3>1. Work("state", "failed") \in WorkItem /\ Work("state", "failed").kind = "state"
          BY WorkTypes DEF Work
    <3>2. queue' = queue \/ queue' = Append(queue, Work("state", "failed"))
          BY <2>1, <2>5, <3>1, Pushed
    <3> QED BY <2>1, <3>1, <3>2, QuietEntries
  <2> QED BY <2>2, <2>3, <2>4, <2>5
<1>4. CASE QuitStep
  <2>1. UNCHANGED <<pc, stage, via, page, shown>> /\ queue \in Seq(WorkItem)
        BY <1>4, QuitLeaves DEF entryVars, pageVars, TypeOK
  <2>2. /\ qclosed => qclosed'
        /\ UNCHANGED queue \/ Push("state", "stopped")
        BY <1>4 DEF QuitStep, Quit, SetClosed, QuitWaits, QuitGivesUp, QuitGoesOn,
           TakeManager, StopReceiver, CloseQueue, EndQuit, StopBegins, StopEnds,
           queueVars
  <2>3. CASE UNCHANGED queue
        BY <2>1, <2>2, <2>3, QuietEntries
  <2>4. CASE Push("state", "stopped")
    <3>1. Work("state", "stopped") \in WorkItem /\ Work("state", "stopped").kind = "state"
          BY WorkTypes DEF Work
    <3>2. queue' = queue \/ queue' = Append(queue, Work("state", "stopped"))
          BY <2>1, <2>4, <3>1, Pushed
    <3> QED BY <2>1, <2>2, <3>1, <3>2, QuietEntries
  <2> QED BY <2>2, <2>3, <2>4
<1>5. ASSUME NEW e \in Sent, SendStep(e) PROVE ShownOnce' /\ NoneMissing'
  <2>1. /\ UNCHANGED <<pc, page, shown, qclosed, node>> /\ pc[Startup] # "load"
        /\ e \in Entry
        BY <1>5, EntriesLeave, NothingBeforeLoad, Apart
           DEF lifeVars, pageVars, nodeVars
  <2>2. CASE Finish(e)
        BY <2>1, <2>2, FinishShows
  <2>3. CASE Show(e)
    <3>1. /\ stage[e] \in {"stored", "unstored"} /\ via' = via
          /\ stage' = [stage EXCEPT ![e] = "noted"]
          BY <2>3 DEF Show, EntryStep
    <3>2. \/ queue' = queue /\ (Lost(e)' \/ qclosed)
          \/ queue' = Append(queue, Work("entry", e))
      <4>1. \/ via[e] # None /\ ~Reports(e) /\ queue' = queue
            \/ queue' = IF qclosed THEN queue ELSE Append(queue, Work("entry", e))
            BY <2>3, ShowPushes DEF TypeOK
      <4> QED BY <2>1, <3>1, <4>1 DEF Reports, Lost
    <3> QED BY <2>1, <3>1, <3>2, EntryStepShows
  <2>4. CASE Hold(e) \/ Accept(e) \/ Pick(e) \/ Store(e)
    <3>1. PICK where \in {"held", "sending", "refused", "picked", "stored", "unstored"} :
            EntryStep(e, where)
          BY <2>4 DEF Hold, Accept, Pick, Store
    <3>2. /\ stage[e] \notin {"noted", "over"} /\ UNCHANGED queue
          /\ \A d \in Entry \ {e} : via'[d] = via[d]
          BY <2>1, <2>4 DEF Hold, Accept, Pick, Store, TypeOK
    <3> QED BY <2>1, <3>1, <3>2, EntryStepShows DEF EntryStep
  <2> QED BY <1>5, <2>2, <2>3, <2>4 DEF SendStep
<1>6. ASSUME NEW e \in Received, ReceiveStep(e) PROVE ShownOnce' /\ NoneMissing'
  <2>1. /\ UNCHANGED <<pc, page, shown, qclosed, node>> /\ pc[Startup] # "load"
        /\ e \in Entry
        BY <1>6, EntriesLeave, NothingBeforeLoad, Apart
           DEF lifeVars, pageVars, nodeVars
  <2>2. ASSUME NEW n \in Caller, Arrive(e, n) PROVE ShownOnce' /\ NoneMissing'
    <3>1. /\ stage[e] = "none" /\ UNCHANGED queue /\ via'[e] # None
          /\ \A d \in Entry \ {e} : via'[d] = via[d]
          /\ stage' = [stage EXCEPT ![e] = "kept"]
          BY <2>1, <2>2, Apart DEF Arrive, EntryStep, TypeOK
    <3> QED BY <2>1, <3>1, EntryStepShows
  <2>3. CASE Report(e)
    <3>1. /\ stage[e] = "kept" /\ via' = via /\ via[e] # None
          /\ stage' = [stage EXCEPT ![e] = "over"]
          BY <2>1, <2>3 DEF Report, EntryStep, NoneMissing
    <3>2. \/ queue' = queue /\ (Lost(e)' \/ qclosed)
          \/ queue' = Append(queue, Work("entry", e))
      <4>1. CASE Reports(e)
            BY <2>1, <2>3, <4>1, Pushed, WorkTypes DEF Report, TypeOK
      <4>2. CASE ~Reports(e)
            BY <2>1, <2>3, <3>1, <4>2 DEF Report, Reports, Lost
      <4> QED BY <4>1, <4>2
    <3> QED BY <2>1, <3>1, <3>2, EntryStepShows
  <2> QED BY <1>6, <2>2, <2>3 DEF ReceiveStep
<1>7. CASE Handle
      BY <1>7, HandleShows, NothingBeforeLoad
<1>8. CASE DrainEnds
      BY <1>8, QuietEntries DEF DrainEnds, lifeVars, entryVars, queueVars
<1>9. CASE UNCHANGED vars
      BY <1>9, QuietEntries DEF vars
<1> QED BY <1>1, <1>2, <1>3, <1>4, <1>5, <1>6, <1>7, <1>8, <1>9, Steps

----------------------------------------------------------------------------
(* The inductive invariant: quit.                                           *)

\* Once quit has the lock no call goes on, and the drain ends with the queue.
ClosedStill ==
  /\ locker = "done" => closed
  /\ closed => \A c \in Caller : ~Holds(c)
  /\ drain = "ended" => queue = <<>> /\ qclosed

\* What each wait of quit has seen to, unless one was given up.
InOrder ==
  gaveUp = 0 =>
    /\ quit \in {"closing", "stopping", "flushing", "done"}
         => closed /\ mgr = None /\ open = {}
    /\ stopper # "none" => quit \in {"stopping", "flushing", "done"}
    /\ quit \in {"flushing", "done"} => stopper = "done"
    /\ stopper = "done" => run = None
    /\ quit = "done" => drain = "ended"

\* A manager with sends is the current one, or its end is waited for.
Waited(m) ==
  \/ m = mgr
  \/ \E c \in Saver : pc[c] = "closing" /\ old[c] = m
  \/ quit = "closing" /\ last = m

SendsOwned ==
  \A e \in Sent :
    /\ stage[e] = "held" => owner[e] # None
    /\ gaveUp = 0 /\ stage[e] \in Busy => owner[e] # None /\ Waited(owner[e])

LEMMA GaveUpGrows ==
  ASSUME TypeOK, [Next]_vars, gaveUp' = 0
  PROVE  gaveUp = 0 /\ ~QuitGivesUp /\ \A c \in Caller : ~GiveUpOld(c)
<1>1. gaveUp \in Nat
      BY Apart DEF TypeOK
<1>2. ~QuitGivesUp /\ \A c \in Caller : ~GiveUpOld(c)
      BY <1>1 DEF QuitGivesUp, GiveUpOld, GivesUp
<1>3. ASSUME NEW c \in Caller, CallStep(c) PROVE gaveUp' = gaveUp
      BY <1>2, <1>3 DEF CallStep, Call, Lock, Unchanged, Replace, CloseOld, Restart,
         StopOld, Start, Publish, Check, Install
<1>4. CASE QuitStep
      BY <1>2, <1>4 DEF QuitStep, Quit, SetClosed, QuitWaits, StopBegins, StopEnds
<1>5. Load \/ UNCHANGED vars => gaveUp' = gaveUp
      BY DEF Load, vars
<1> QED BY <1>2, <1>3, <1>4, <1>5, Steps, NodesLeave, EntriesLeave, DrainLeaves

LEMMA DrainStaysOver ==
  ASSUME [Next]_vars, drain = "ended", queue = <<>>, qclosed
  PROVE  drain' = "ended" /\ queue' = <<>> /\ qclosed'
<1> USE DEF Push, PushAll, queueVars, pageVars
<1>1. CASE Load
      BY <1>1 DEF Load
<1>2. ASSUME NEW c \in Caller, CallStep(c)
      PROVE  drain' = "ended" /\ queue' = <<>> /\ qclosed'
      BY <1>2, CallsLeave DEF CallStep, Call, Lock, Unchanged, Replace, CloseOld,
         GiveUpOld, Restart, StopOld, Start, Publish, Check, Install
<1>3. ASSUME NEW n \in Caller, NodeStep(n)
      PROVE  drain' = "ended" /\ queue' = <<>> /\ qclosed'
      BY <1>3, NodesLeave DEF NodeStep, Greet, Fail, Close, Signal, Forget, Forgets
<1>4. CASE QuitStep
      BY <1>4, QuitLeaves DEF QuitStep, Quit, SetClosed, QuitWaits, QuitGivesUp,
         QuitGoesOn, TakeManager, StopReceiver, CloseQueue, EndQuit, StopBegins,
         StopEnds
<1>5. ASSUME NEW e \in Sent, SendStep(e)
      PROVE  drain' = "ended" /\ queue' = <<>> /\ qclosed'
      BY <1>5, EntriesLeave DEF SendStep, Hold, Accept, Pick, Store, Show, Finish
<1>6. ASSUME NEW e \in Received, ReceiveStep(e)
      PROVE  drain' = "ended" /\ queue' = <<>> /\ qclosed'
      BY <1>6, EntriesLeave DEF ReceiveStep, Arrive, Report
<1>7. CASE Handle \/ DrainEnds
      BY <1>7 DEF Handle, DrainEnds
<1>8. CASE UNCHANGED vars
      BY <1>8 DEF vars
<1> QED BY <1>1, <1>2, <1>3, <1>4, <1>5, <1>6, <1>7, <1>8, Steps

LEMMA ClosedStillStep ==
  ASSUME TypeOK, CallersApart, LifeLock, ClosedStill, [Next]_vars
  PROVE  ClosedStill'
<1>1. drain' = "ended" => queue' = <<>> /\ qclosed'
  <2>1. CASE drain = "ended"
        BY <2>1, DrainStaysOver DEF ClosedStill
  <2>2. CASE drain # "ended" /\ drain' = "ended"
    <3>1. ~Handle /\ ~Load /\ ~UNCHANGED vars
          BY <2>2 DEF Handle, Load, vars
    <3>2. DrainEnds
          BY <2>2, <3>1, Steps, CallsLeave, NodesLeave, QuitLeaves, EntriesLeave
             DEF pageVars
    <3> QED BY <3>2 DEF DrainEnds, queueVars
  <2> QED BY <2>1, <2>2
<1>2. locker' = "done" => closed'
  <2>1. CASE UNCHANGED <<locker, closed>>
        BY <2>1 DEF ClosedStill
  <2>2. CASE QuitStep
        BY <2>2 DEF ClosedStill, QuitStep, Quit, SetClosed, QuitWaits, QuitGivesUp,
           QuitGoesOn, TakeManager, StopReceiver, CloseQueue, EndQuit, StopBegins,
           StopEnds, lifeVars
  <2> QED BY <2>1, <2>2, Steps, CallsLeave, NodesLeave, EntriesLeave, DrainLeaves
          DEF lifeVars, quitVars, vars
<1>3. closed' => \A c \in Caller : ~Holds(c)'
  <2> USE DEF Holds
  <2>1. CASE UNCHANGED <<pc, closed>>
        BY <2>1 DEF ClosedStill
  <2>2. CASE QuitStep
    <3>1. pc' = pc
          BY <2>2, QuitLeaves
    <3>2. closed' => closed \/ lifeMu = None
          BY <2>2 DEF QuitStep, Quit, SetClosed, QuitWaits, QuitGivesUp, QuitGoesOn,
             StopBegins, StopEnds, lifeVars
    <3>3. lifeMu = None => \A c \in Caller : ~Holds(c)
          BY Apart DEF LifeLock
    <3> QED BY <3>1, <3>2, <3>3 DEF ClosedStill
  <2>3. CASE Load
        BY <2>3, CallsLeave DEF Load, Go, TypeOK, ClosedStill
  <2>4. ASSUME NEW c \in Caller, CallStep(c), closed, NEW d \in Caller
        PROVE  ~Holds(d)'
    <3>1. ~Holds(c) /\ ~Holds(d)
          BY <2>4 DEF ClosedStill
    <3>2. Call(c) \/ Lock(c)
          BY <2>4, <3>1 DEF CallStep, Unchanged, Replace, CloseOld, GiveUpOld,
             Restart, StopOld, Start, Publish, Check, Install
    <3>3. pc' = [pc EXCEPT ![c] = "lock"] \/ pc' = [pc EXCEPT ![c] = "done"]
          BY <2>4, <3>2 DEF Call, Lock, Go, MayStart
    <3> QED BY <3>1, <3>3 DEF TypeOK
  <2> QED BY <2>1, <2>2, <2>3, <2>4, Steps, CallsLeave, NodesLeave, EntriesLeave,
          DrainLeaves DEF lifeVars, vars
<1> QED BY <1>1, <1>2, <1>3 DEF ClosedStill

LEMMA InOrderStep ==
  ASSUME TypeOK, CallersApart, LifeLock, AppLock, OneManager, ClosedStill, InOrder,
         [Next]_vars
  PROVE  InOrder'
<1> SUFFICES ASSUME gaveUp' = 0 PROVE InOrder'
    BY DEF InOrder
<1>0. /\ gaveUp = 0 /\ ~QuitGivesUp
      /\ quit \in {"closing", "stopping", "flushing", "done"}
           => closed /\ mgr = None /\ open = {}
      /\ stopper # "none" => quit \in {"stopping", "flushing", "done"}
      /\ quit \in {"flushing", "done"} => stopper = "done"
      /\ stopper = "done" => run = None
      /\ quit = "done" => drain = "ended"
      BY GaveUpGrows DEF InOrder
<1>1. drain = "ended" => drain' = "ended"
      BY DrainStaysOver DEF ClosedStill
<1>2. CASE UNCHANGED <<quitVars, closed, mgr, open>> /\ (run' = run \/ run' = None)
      BY <1>0, <1>1, <1>2 DEF InOrder, quitVars
<1>3. CASE Load
      BY <1>2, <1>3, CallsLeave DEF Load, mgrVars, appVars
<1>4. ASSUME NEW c \in Caller, CallStep(c) PROVE InOrder'
  <2>1. UNCHANGED <<quitVars, closed>>
        BY <1>4, CallsLeave
  <2>2. CASE closed
    <3>1. Call(c) \/ Lock(c)
          BY <1>4, <2>2 DEF ClosedStill, Holds, CallStep, Unchanged, Replace,
             CloseOld, GiveUpOld, Restart, StopOld, Start, Publish, Check, Install
    <3> QED BY <1>2, <2>1, <3>1 DEF Call, Lock, mgrVars, appVars
  <2>3. CASE ~closed
        BY <1>0, <2>1, <2>3 DEF InOrder, quitVars
  <2> QED BY <2>2, <2>3
<1>5. ASSUME NEW n \in Caller, NodeStep(n) PROVE InOrder'
  <2>1. run' = run \/ run' = None
        BY <1>5 DEF NodeStep, Greet, Fail, Close, Signal, Forget, Forgets, appVars
  <2> QED BY <1>2, <1>5, <2>1, NodesLeave DEF lifeVars, mgrVars
<1>6. CASE Quit
      BY <1>0, <1>6 DEF Quit, InOrder, lifeVars, mgrVars, appVars
<1>7. CASE SetClosed
      BY <1>0, <1>1, <1>7 DEF SetClosed, InOrder, mgrVars, appVars
<1>8. CASE QuitWaits
  <2>1. /\ Over(quit) /\ UNCHANGED <<closed, run, drain>>
        /\ TakeManager \/ StopReceiver \/ CloseQueue \/ EndQuit
        BY <1>8 DEF QuitWaits, QuitGoesOn, lifeVars, appVars, pageVars
  <2>2. CASE TakeManager
    <3>1. closed /\ stopper = "none" /\ stopper' = stopper /\ quit' = "closing"
          BY <1>0, <2>1, <2>2 DEF TakeManager, Over, ClosedStill
    <3>2. mgr' = None /\ open' = {}
          BY <2>2 DEF TakeManager, OneManager
    <3> QED BY <1>0, <2>1, <3>1, <3>2 DEF InOrder
  <2>3. CASE StopReceiver
        BY <1>0, <2>1, <2>3 DEF StopReceiver, InOrder, mgrVars
  <2>4. CASE CloseQueue
        BY <1>0, <2>1, <2>4 DEF CloseQueue, InOrder, mgrVars, Over
  <2>5. CASE EndQuit
        BY <1>0, <2>1, <2>5 DEF EndQuit, InOrder, mgrVars, Over
  <2> QED BY <2>1, <2>2, <2>3, <2>4, <2>5
<1>9. CASE StopBegins
      BY <1>0, <1>1, <1>9 DEF StopBegins, InOrder, lifeVars, mgrVars
<1>10. CASE StopEnds
       BY <1>0, <1>1, <1>10 DEF StopEnds, InOrder, lifeVars, mgrVars
<1>11. CASE \/ \E e \in Sent : SendStep(e)
            \/ \E e \in Received : ReceiveStep(e)
       BY <1>2, <1>11, EntriesLeave DEF lifeVars, appVars, mgrVars
<1>12. CASE Handle \/ DrainEnds
       BY <1>2, <1>12, DrainLeaves DEF lifeVars, appVars, mgrVars
<1>13. CASE UNCHANGED vars
       BY <1>2, <1>13 DEF vars, quitVars
<1> QED BY <1>0, <1>3, <1>4, <1>5, <1>6, <1>7, <1>8, <1>9, <1>10, <1>11, <1>12,
           <1>13, Steps DEF QuitStep

LEMMA SendsOwnedStep ==
  ASSUME TypeOK, CallersApart, LifeLock, OneManager, SendsOwned, [Next]_vars
  PROVE  SendsOwned'
<1>2. gaveUp' = 0 => gaveUp = 0 /\ ~QuitGivesUp /\ \A c \in Caller : ~GiveUpOld(c)
      BY GaveUpGrows
<1>3. ASSUME UNCHANGED <<stage, owner>>,
             \A e \in Sent : gaveUp' = 0 /\ gaveUp = 0 /\ stage[e] \in Busy
                /\ owner[e] # None /\ Waited(owner[e]) => Waited(owner[e])'
      PROVE  SendsOwned'
      BY <1>2, <1>3 DEF SendsOwned, Waited
<1>1. CASE UNCHANGED <<stage, owner, pc, old, mgr, quit, last>>
      BY <1>1, <1>3 DEF Waited
<1>4. CASE Load
      BY <1>3, <1>4, Apart DEF Load, Go, Waited, TypeOK, entryVars, mgrVars, quitVars
<1>5. ASSUME NEW c \in Caller, CallStep(c) PROVE SendsOwned'
  <2>1. PICK p \in Places : pc' = [pc EXCEPT ![c] = p]
        BY <1>5, CallGoes
  <2>2. /\ pc'[c] = p /\ \A d \in Caller \ {c} : pc'[d] = pc[d]
        /\ UNCHANGED <<stage, owner, quit, last>>
        /\ Saver \subseteq Caller
        BY <1>5, <2>1, CallsLeave, Apart DEF TypeOK, quitVars, entryVars
  <2>3. CASE UNCHANGED <<mgr, old>> /\ pc[c] # "closing"
        BY <1>3, <2>2, <2>3 DEF Waited
  <2>4. CASE Replace(c)
    <3>1. /\ pc[c] = "save" /\ c \in Saver /\ p = "closing" /\ old'[c] = mgr
          /\ \A d \in Saver \ {c} : old'[d] = old[d]
          BY <2>2, <2>4 DEF Replace, Go, TypeOK, CallersApart
    <3> QED BY <1>3, <2>2, <3>1 DEF Waited
  <2>5. CASE CloseOld(c)
    <3>1. Drained(old[c]) /\ UNCHANGED <<mgr, old>>
          BY <2>5 DEF CloseOld, mgrVars
    <3> QED BY <1>3, <2>2, <3>1 DEF Waited, Drained
  <2>6. CASE GiveUpOld(c)
        BY <1>2, <1>3, <2>2, <2>6
  <2>7. CASE Install(c)
    <3>1. mgr = None /\ old' = old /\ pc[c] = "install"
          BY <2>7 DEF Install, OneManager, Holds, CallersApart
    <3> QED BY <1>3, <2>2, <3>1 DEF Waited
  <2>8. CASE Call(c) \/ Lock(c) \/ Unchanged(c)
        BY <2>3, <2>8 DEF Call, Lock, Unchanged, mgrVars
  <2>9. CASE Restart(c) \/ StopOld(c) \/ Start(c) \/ Publish(c) \/ Check(c)
        BY <2>3, <2>9 DEF Restart, StopOld, Start, Publish, Check, mgrVars
  <2> QED BY <1>5, <2>4, <2>5, <2>6, <2>7, <2>8, <2>9 DEF CallStep
<1>6. CASE \E n \in Caller : NodeStep(n)
      BY <1>1, <1>6, NodesLeave DEF lifeVars, quitVars, mgrVars, entryVars
<1>7. CASE QuitStep
  <2>1. UNCHANGED <<pc, old, stage, owner>>
        BY <1>7, QuitLeaves DEF entryVars
  <2>2. CASE Quit
        BY <1>3, <2>1, <2>2 DEF Quit, Waited, mgrVars
  <2>3. CASE SetClosed \/ StopBegins \/ StopEnds
        BY <1>1, <2>1, <2>3 DEF SetClosed, StopBegins, StopEnds, mgrVars
  <2>4. CASE QuitWaits
    <3>1. Over(quit) /\ (TakeManager \/ StopReceiver \/ CloseQueue \/ EndQuit)
          BY <2>4 DEF QuitWaits, QuitGoesOn
    <3>2. CASE TakeManager
          BY <1>3, <2>1, <3>2 DEF TakeManager, Waited
    <3>3. CASE StopReceiver
          BY <1>3, <2>1, <3>1, <3>3 DEF StopReceiver, Waited, Over, Drained, mgrVars
    <3>4. CASE CloseQueue \/ EndQuit
          BY <1>3, <2>1, <3>4 DEF CloseQueue, EndQuit, Waited, mgrVars
    <3> QED BY <3>1, <3>2, <3>3, <3>4
  <2>5. CASE QuitGivesUp
        BY <1>2, <1>3, <2>1, <2>5
  <2> QED BY <1>7, <2>2, <2>3, <2>4, <2>5 DEF QuitStep
<1>8. ASSUME NEW e \in Sent, SendStep(e) PROVE SendsOwned'
  <2>1. /\ UNCHANGED <<pc, old, mgr, quit, last, open, gaveUp>>
        /\ \A m : Waited(m)' <=> Waited(m)
        BY <1>8, EntriesLeave DEF lifeVars, mgrVars, quitVars, Waited
  <2>2. e \in Entry /\ Sent \subseteq Entry
        BY Apart
  <2>3. CASE Hold(e)
    <3>1. /\ owner'[e] = mgr /\ mgr # None /\ stage'[e] = "held"
          /\ \A d \in Sent \ {e} : owner'[d] = owner[d] /\ stage'[d] = stage[d]
          BY <2>2, <2>3 DEF Hold, EntryStep, TypeOK
    <3> QED BY <2>1, <3>1 DEF SendsOwned, Waited, Busy
  <2>4. CASE ~Hold(e)
    <3>1. /\ owner' = owner
          /\ \A d \in Sent \ {e} : stage'[d] = stage[d]
          BY <1>8, <2>2, <2>4 DEF SendStep, Accept, Pick, Store, Show, Finish,
             EntryStep, TypeOK
    <3>2. /\ stage'[e] # "held"
          /\ stage'[e] \in Busy =>
               stage[e] \in Busy \/ (stage[e] = "held" /\ owner[e] \in open)
      <4> USE <2>2 DEF EntryStep, TypeOK, Busy
      <4>1. CASE Accept(e)
            BY <4>1 DEF Accept
      <4>2. CASE Pick(e) \/ Store(e)
            BY <4>2 DEF Pick, Store
      <4>3. CASE Show(e) \/ Finish(e)
            BY <4>3 DEF Show, Finish
      <4> QED BY <1>8, <2>4, <4>1, <4>2, <4>3 DEF SendStep
    <3>3. owner[e] \in open => owner[e] # None /\ owner[e] = mgr
          BY DEF OneManager
    <3> QED BY <2>1, <3>1, <3>2, <3>3 DEF SendsOwned, Waited
  <2> QED BY <2>3, <2>4
<1>9. ASSUME NEW e \in Received, ReceiveStep(e) PROVE SendsOwned'
  <2>1. /\ UNCHANGED <<pc, old, mgr, quit, last, gaveUp, owner>>
        /\ \A d \in Sent : stage'[d] = stage[d]
        BY <1>9, EntriesLeave, Apart DEF lifeVars, mgrVars, quitVars, ReceiveStep,
           Arrive, Report, EntryStep, TypeOK
  <2> QED BY <2>1 DEF SendsOwned, Waited
<1>10. CASE Handle \/ DrainEnds
       BY <1>1, <1>10, DrainLeaves DEF lifeVars, mgrVars, quitVars, entryVars
<1>11. CASE UNCHANGED vars
       BY <1>1, <1>11 DEF vars
<1> QED BY <1>4, <1>5, <1>6, <1>7, <1>8, <1>9, <1>10, <1>11, Steps

----------------------------------------------------------------------------
(* The theorems.                                                            *)

IInv ==
  /\ TypeOK /\ CallersApart /\ LifeLock /\ AppLock /\ NodesKnown
  /\ OneManager /\ LoadFirst /\ LastTold /\ ShownOnce /\ NoneMissing
  /\ ClosedStill /\ InOrder /\ SendsOwned

LEMMA InitIInv == Init => IInv
<1> SUFFICES ASSUME Init PROVE IInv
    OBVIOUS
<1> USE Apart DEF Init
<1>1. TypeOK
  <2>1. queue \in Seq(WorkItem) /\ shown \in Seq(Entry)
        BY EmptySeq
  <2>2. /\ file \in SUBSET Entry /\ gaveUp \in 0 .. MaxGiveUps
        /\ page \in [state : {"starting", "running", "stopped", "failed"},
                     done : SUBSET Sent]
        BY DEF Entry
  <2>3. /\ stage \in [Entry -> Busy \cup {"none", "held", "refused", "kept", "over"}]
        /\ owner \in [Sent -> Manager \cup {None}]
        /\ via \in [Entry -> Caller \cup {None}]
        /\ old \in [Saver -> Manager \cup {None}]
        OBVIOUS
  <2>4. /\ pc \in [Caller -> {"idle", "load", "lock", "save", "closing",
                             "restart", "stopping", "start", "publish", "check",
                             "install", "done"}]
        /\ node \in [Caller -> {"none", "up", "ending", "closed"}]
        /\ waiter \in [Caller -> {"none", "waits", "signalled", "over"}]
        OBVIOUS
  <2> QED BY <2>1, <2>2, <2>3, <2>4 DEF TypeOK
<1>2. CallersApart /\ LifeLock /\ AppLock /\ NodesKnown /\ OneManager
      BY DEF CallersApart, LifeLock, AppLock, NodesKnown, OneManager, Holds
<1>3. LoadFirst
      BY DEF LoadFirst
<1>4. LastTold
      BY DEF LastTold, LastIs
<1>5. \A kind : At(queue, kind) = {} /\ Of(queue, kind) = {}
      BY DEF At, Of
<1>6. ToSet(shown) = {} /\ IsInjective(shown)
      BY DEF ToSet, IsInjective
<1>7. ShownOnce /\ NoneMissing
      BY <1>5, <1>6 DEF ShownOnce, NoneMissing
<1>8. ClosedStill /\ InOrder
      BY DEF ClosedStill, InOrder
<1>9. SendsOwned
      BY DEF SendsOwned, Busy
<1> QED BY <1>1, <1>2, <1>3, <1>4, <1>7, <1>8, <1>9 DEF IInv

\* IInv is inductive.
THEOREM Inductive == IInv /\ [Next]_vars => IInv'
<1> SUFFICES ASSUME IInv, [Next]_vars PROVE IInv'
    OBVIOUS
<1> USE DEF IInv
<1>1. TypeOK' /\ CallersApart'
      BY TypeStep
<1>2. LifeLock' /\ AppLock' /\ NodesKnown'
      BY LifeLockStep, AppLockStep, NodesKnownStep
<1>3. OneManager' /\ LoadFirst' /\ LastTold'
      BY OneManagerStep, LoadFirstStep, LastToldStep
<1>4. ShownOnce' /\ NoneMissing'
      BY EntriesStep
<1>5. ClosedStill' /\ InOrder' /\ SendsOwned'
      BY ClosedStillStep, InOrderStep, SendsOwnedStep
<1> QED BY <1>1, <1>2, <1>3, <1>4, <1>5

LEMMA Invariant == Spec => []IInv
BY InitIInv, Inductive, PTL DEF Spec

\* Every variable has its type; the manager is one of startup or SaveSettings
\* and never one of Retry, and a node that is hidden stays so (App, Service).
THEOREM TypeCorrect == Spec => []TypeOK
<1>1. IInv => TypeOK
      BY DEF IInv
<1> QED BY <1>1, Invariant, PTL

\* Whatever order a node, its waiter, a stop and a start report in, the page
\* that has caught up shows App's state and the running node's peers (App's
\* setStateLocked and onEvent, Service.handle).
THEOREM PageIsToldLast == Spec => []PageKeepsUp
<1>1. IInv => PageKeepsUp
  <2> SUFFICES ASSUME IInv, queue = <<>>, ~qclosed
               PROVE  /\ page.state = state
                      /\ run # None /\ run \in greeted => peers = run
      BY DEF PageKeepsUp
  <2>1. \A kind, was, x : LastIs(queue, kind, was, x) => was = x
        BY DEF LastIs
  <2> QED BY <2>1 DEF IInv, LastTold
<1> QED BY <1>1, Invariant, PTL

\* No entry reaches the chats twice, none that was reported is missing but for
\* a node that had ended, and a send is done only behind its entry (Service's
\* load, record and handle, App.Record).
THEOREM EntriesReachChats == Spec => []EntriesShown
<1>1. IInv => EntriesShown
  <2> SUFFICES ASSUME IInv PROVE EntriesShown
      OBVIOUS
  <2>1. QueuedAt = At(queue, "entry") /\ Queued = Of(queue, "entry")
        BY DEF QueuedAt, Queued, At, Of
  <2> QED BY <2>1 DEF IInv, EntriesShown, ShownOnce, NoneMissing, Lost
<1> QED BY <1>1, Invariant, PTL

\* quit that gave no wait up leaves no node, no manager, no send and no work
\* behind, whatever SaveSettings, Retry or startup were doing (Service.quit).
THEOREM QuitIsClean == Spec => []CleanQuit
<1>1. IInv => CleanQuit
  <2> SUFFICES ASSUME IInv, quit = "done", gaveUp = 0
               PROVE  /\ run = None
                      /\ \A n \in Caller : node[n] \in {"none", "closed"}
                      /\ mgr = None /\ open = {}
                      /\ \A e \in Sent : stage[e] \notin Busy
                      /\ queue = <<>> /\ drain = "ended"
      BY DEF CleanQuit
  <2>1. /\ run = None /\ closed /\ mgr = None /\ open = {} /\ drain = "ended"
        BY DEF IInv, InOrder
  <2>2. queue = <<>> /\ \A c \in Caller : ~Holds(c)
        BY <2>1 DEF IInv, ClosedStill
  <2>3. \A n \in Caller : node[n] \in {"none", "closed"}
        BY <2>1, <2>2, Apart DEF IInv, NodesKnown, TypeOK, Holds
  <2>4. \A e \in Sent : stage[e] \notin Busy
        BY <2>1, <2>2, Apart DEF IInv, SendsOwned, Waited, Holds
  <2> QED BY <2>1, <2>2, <2>3, <2>4
<1> QED BY <1>1, Invariant, PTL
=============================================================================
