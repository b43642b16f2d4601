-------------------------------- MODULE PeerList ------------------------------
(***************************************************************************)
(* internal/node: the goroutines of a running node that share the peer     *)
(* list, and how it stops.  The discovery read loop and the HTTP handlers  *)
(* observe, the periodic loop ages the list, and the saver goroutine saves *)
(* and reports it each time the dirty channel fires.  The supervisor stops *)
(* them, saves once more and closes the emitter.                           *)
(*                                                                         *)
(* An observer reads the clock, takes the registry's lock, and marks the   *)
(* list dirty afterwards: three steps of their own.  Save copies the list  *)
(* under the lock and renames a temporary file to peers.json later.        *)
(***************************************************************************)
EXTENDS Registry

CONSTANTS
  Handler,    \* goroutines of HTTP requests
  Discovery,  \* the goroutine of Responder.Serve
  Ticker,     \* the goroutine of periodic
  Sightings,  \* the sightings that may come, a subset of Sighting
  MaxTime     \* bound of the clock

ASSUME SightingsType == Sightings \subseteq Sighting
ASSUME ThreadsApart ==
  Discovery # Ticker /\ Discovery \notin Handler /\ Ticker \notin Handler
ASSUME MaxTimeType == MaxTime \in Nat

Background == {Discovery, Ticker}
Thread == Handler \cup Background

VARIABLES
  clock,
  reg,       \* the registry of the current node
  file,      \* what peers.json holds; EmptyList when there is none
  at,        \* [Thread -> what it is doing]
  since,     \* [Thread -> the time it read]
  dirty,     \* the channel holds a signal
  saver,     \* what the saver goroutine is doing
  hand,      \* the copy of the list it writes or reports
  reported,  \* the list in the last event
  node,      \* what the supervisor is doing; "off" without a process
  quiet,     \* the emitter is closed
  copy,      \* the copy of the list the supervisor writes
  failed,    \* history variable: the last Save, or the Load, failed
  late       \* history variable: a sighting came after the supervisor's copy

vars == <<clock, reg, file, at, since, dirty, saver, hand, reported, node,
          quiet, copy, failed, late>>
threadVars == <<at, since>>
saverVars  == <<saver, hand, reported>>
nodeVars   == <<node, quiet, copy>>

At == {"idle", "called", "changed", "telling", "ended"}
Saver == {"first", "idle", "took", "writing", "saved", "report", "telling",
          "ended"}
Node == {"off", "up", "stopping", "saving", "saved", "locking",
         "down"}

Init ==
  /\ clock = 0
  /\ reg = EmptyList /\ file = EmptyList
  /\ at = [t \in Thread |-> "idle"]
  /\ since = [t \in Thread |-> 0]
  /\ dirty = FALSE
  /\ saver = "first" /\ hand = EmptyList /\ reported = EmptyList
  /\ node = "off" /\ quiet = FALSE /\ copy = EmptyList
  /\ failed = FALSE /\ late = FALSE

Advance ==
  /\ clock < MaxTime
  /\ clock' = clock + 1
  /\ UNCHANGED <<reg, file, threadVars, dirty, saverVars, nodeVars, failed,
                 late>>

----------------------------------------------------------------------------
(* Observers.  A handler that outlived its node keeps observing.            *)

Go(t, where) == at' = [at EXCEPT ![t] = where]

\* time.Now() is read before Observe or Tick takes the lock.
Call(t) ==
  /\ node # "off"
  /\ at[t] = "idle"
  /\ Go(t, "called")
  /\ since' = [since EXCEPT ![t] = clock]
  /\ UNCHANGED <<clock, reg, file, dirty, saverVars, nodeVars, failed, late>>

\* What Observe or Tick reports decides whether the thread calls markDirty.
Return(t, changed) ==
  /\ Go(t, IF changed THEN "changed" ELSE "idle")
  /\ since' = [since EXCEPT ![t] = 0]

IsLate == node \in {"saving", "saved", "locking", "down"}

Observe(t) ==
  /\ t # Ticker
  /\ at[t] = "called"
  /\ \E s \in Sightings :
       /\ s.port = 0 <=> t \in Handler
       /\ reg' = Observed(reg, s, since[t])
       /\ Return(t, Changes(reg, s))
  /\ late' = (late \/ (IsLate /\ t \in Handler))
  /\ UNCHANGED <<clock, file, dirty, saverVars, nodeVars, failed>>

Tick ==
  /\ at[Ticker] = "called"
  /\ reg' = Ticked(reg, since[Ticker])
  /\ Return(Ticker, TickChanges(reg, since[Ticker]))
  /\ UNCHANGED <<clock, file, dirty, saverVars, nodeVars, failed, late>>

BadMark == dirty' = (dirty \/ saver = "idle")

\* markDirty: the channel holds one signal, and sending never blocks.
Mark == dirty' = TRUE

MarkDirty(t) ==
  /\ at[t] = "changed"
  /\ Mark
  /\ Go(t, "idle")
  /\ UNCHANGED <<clock, reg, file, since, saverVars, nodeVars, failed, late>>

MayEmit == ~quiet

\* A handler, or a caller of Node.Record, reports an entry.  emit holds the
\* read lock while the callback runs, and does nothing once it is closed.
\* A close that waits for the write lock keeps new readers out.
Tell(t) ==
  /\ node \notin {"off", "locking"}
  /\ t \in Handler
  /\ at[t] = "idle"
  /\ MayEmit
  /\ Go(t, "telling")
  /\ UNCHANGED <<clock, reg, file, since, dirty, saverVars, nodeVars, failed,
                 late>>

Told(t) ==
  /\ t \in Handler
  /\ at[t] = "telling"
  /\ Go(t, "idle")
  /\ UNCHANGED <<clock, reg, file, since, dirty, saverVars, nodeVars, failed,
                 late>>

\* The background goroutines end when they see that the context is done;
\* discovery also when its socket fails.
MayEnd(t) == node = "stopping" \/ (t = Discovery /\ node = "up")

End(t) ==
  /\ t \in Background
  /\ at[t] = "idle"
  /\ MayEnd(t)
  /\ Go(t, "ended")
  /\ UNCHANGED <<clock, reg, file, since, dirty, saverVars, nodeVars, failed,
                 late>>

----------------------------------------------------------------------------
(* The saver goroutine.                                                     *)

\* Save's rename succeeds, or Save fails somewhere and peers.json stays.
Write(list) ==
  \/ file' = list /\ failed' = FALSE
  \/ UNCHANGED file /\ failed' = TRUE

Take ==
  /\ node # "off"
  /\ saver = "idle"
  /\ dirty
  /\ dirty' = FALSE
  /\ saver' = "took"
  /\ UNCHANGED <<clock, reg, file, threadVars, hand, reported, nodeVars,
                 failed, late>>

SaverCopies ==
  /\ node # "off"
  /\ saver = "took"
  /\ hand' = reg
  /\ saver' = "writing"
  /\ UNCHANGED <<clock, reg, file, threadVars, dirty, reported, nodeVars,
                 failed, late>>

SaverWrites ==
  /\ node # "off"
  /\ saver = "writing"
  /\ Write(hand)
  /\ saver' = "saved"
  /\ UNCHANGED <<clock, reg, threadVars, dirty, hand, reported, nodeVars,
                 late>>

\* reg.Peers(), read again after the Save; the first event is the list as it
\* was loaded.
SaverReads ==
  /\ node # "off"
  /\ saver \in {"first", "saved"}
  /\ hand' = reg
  /\ saver' = "report"
  /\ UNCHANGED <<clock, reg, file, threadVars, dirty, reported, nodeVars,
                 failed, late>>

SaverTells ==
  /\ node # "off"
  /\ saver = "report"
  /\ saver' = IF MayEmit THEN "telling" ELSE "idle"
  /\ UNCHANGED <<clock, reg, file, threadVars, dirty, hand, reported,
                 nodeVars, failed, late>>

SaverTold ==
  /\ node # "off"
  /\ saver = "telling"
  /\ reported' = hand
  /\ hand' = EmptyList
  /\ saver' = "idle"
  /\ UNCHANGED <<clock, reg, file, threadVars, dirty, nodeVars, failed, late>>

\* select takes either case when the context is done and a signal is there.
SaverEnds ==
  /\ node = "stopping"
  /\ saver = "idle"
  /\ saver' = "ended"
  /\ UNCHANGED <<clock, reg, file, threadVars, dirty, hand, reported,
                 nodeVars, failed, late>>

----------------------------------------------------------------------------
(* The supervisor.                                                          *)

\* Start: a file that cannot be read or parsed gives an empty list.  A handler
\* of an earlier node in the same process has that node's registry and closed
\* emitter, which nobody looks at any more.
Start ==
  /\ node \in {"off", "down"}
  /\ node' = "up" /\ quiet' = FALSE
  /\ \/ reg' = Loaded(file) /\ failed' = FALSE
     \/ reg' = EmptyList /\ failed' = TRUE
  /\ at' = [t \in Thread |-> "idle"]
  /\ since' = [t \in Thread |-> 0]
  /\ dirty' = FALSE
  /\ saver' = "first"
  /\ late' = FALSE
  /\ UNCHANGED <<clock, file, hand, reported, copy>>

\* The context is cancelled or the server failed, the uploads were waited for,
\* and stopBackground cancels the context of the goroutines.
Stop ==
  /\ node = "up"
  /\ node' = "stopping"
  /\ UNCHANGED <<clock, reg, file, threadVars, dirty, saverVars, quiet, copy,
                 failed, late>>

BadBackgroundEnded == saver = "ended"

\* wg.Wait
BackgroundEnded ==
  saver = "ended" /\ \A t \in Background : at[t] = "ended"

FinalCopy ==
  /\ node = "stopping"
  /\ BackgroundEnded
  /\ copy' = reg
  /\ node' = "saving"
  /\ UNCHANGED <<clock, reg, file, threadVars, dirty, saverVars, quiet,
                 failed, late>>

FinalWrite ==
  /\ node = "saving"
  /\ Write(copy)
  /\ copy' = EmptyList
  /\ node' = "saved"
  /\ UNCHANGED <<clock, reg, threadVars, dirty, saverVars, quiet, late>>

\* emitter.close takes the write lock: no callback is in progress.
Silent == saver # "telling" /\ \A t \in Handler : at[t] # "telling"

\* The deferred events.close asks for the write lock, and has it.
LockEvents ==
  /\ node = "saved"
  /\ node' = "locking"
  /\ UNCHANGED <<clock, reg, file, threadVars, dirty, saverVars, quiet, copy,
                 failed, late>>

\* The deferred close(n.done) follows, and Wait returns.
CloseEvents ==
  /\ node = "locking"
  /\ Silent
  /\ quiet' = TRUE
  /\ node' = "down"
  /\ UNCHANGED <<clock, reg, file, threadVars, dirty, saverVars, copy, failed,
                 late>>

\* The process ends at any point, and its memory with it.
Kill ==
  /\ node # "off"
  /\ node' = "off" /\ quiet' = FALSE /\ copy' = EmptyList
  /\ reg' = EmptyList /\ dirty' = FALSE
  /\ at' = [t \in Thread |-> "idle"]
  /\ since' = [t \in Thread |-> 0]
  /\ saver' = "first" /\ hand' = EmptyList /\ reported' = EmptyList
  /\ failed' = FALSE /\ late' = FALSE
  /\ UNCHANGED <<clock, file>>

----------------------------------------------------------------------------

Continue(t) == Observe(t) \/ MarkDirty(t) \/ Told(t)

SaverStep ==
  \/ Take \/ SaverCopies \/ SaverWrites \/ SaverReads \/ SaverTells
  \/ SaverTold

Supervise == FinalCopy \/ FinalWrite \/ LockEvents \/ CloseEvents

Next ==
  \/ Advance
  \/ \E t \in Thread : Call(t) \/ Tell(t) \/ Continue(t) \/ End(t)
  \/ Tick \/ SaverStep \/ SaverEnds
  \/ Start \/ Stop \/ Supervise \/ Kill

\* The goroutines are scheduled and the ticker fires.  A select takes a case
\* that is ready again and again at some point.
Fairness ==
  /\ \A t \in Thread : WF_vars(Continue(t))
  /\ \A t \in Background : SF_vars(node = "stopping" /\ End(t))
  /\ WF_vars(Call(Ticker)) /\ WF_vars(Tick)
  /\ WF_vars(SaverStep) /\ SF_vars(SaverEnds)
  /\ WF_vars(Supervise)

Spec == Init /\ [][Next]_vars /\ Fairness

----------------------------------------------------------------------------
(* Properties.                                                              *)

\* The types of the variables.
TypeOK ==
  /\ clock \in 0..MaxTime
  /\ reg \in List /\ file \in List /\ hand \in List /\ reported \in List
  /\ copy \in List
  /\ at \in [Thread -> At]
  /\ since \in [Thread -> 0..MaxTime]
  /\ dirty \in BOOLEAN /\ quiet \in BOOLEAN /\ failed \in BOOLEAN
  /\ late \in BOOLEAN
  /\ saver \in Saver
  /\ node \in Node

\* Nobody still has a change to announce.
Settled == ~dirty /\ \A t \in Thread : at[t] # "changed"

\* No change of the list goes unreported: when no signal is pending and no
\* observer is about to send one, an idle saver has reported the list as it is
\* now, however observations, saves and reports interleave (markDirty,
\* saveOnChange).
NoMissedChange ==
  node = "up" /\ saver = "idle" /\ Settled => Shown(reported) = Shown(reg)

\* peers.json keeps up in the same way, unless the last Save failed: a restart
\* after a kill finds every peer a settled node knew (saveOnChange, Load).
FileKeepsUp ==
  node = "up" /\ saver = "idle" /\ Settled /\ ~failed =>
    Shown(Loaded(file)) = Shown(Loaded(reg))

\* A node that shut down left its last list in peers.json, the times of the
\* last sightings included, unless that Save failed or a handler the shutdown
\* did not wait for observed after the supervisor's copy (node.Start).
ShutdownSaves ==
  node \in {"saved", "locking", "down"} /\ ~failed /\ ~late => file = reg

\* When Wait has returned, no callback is in progress and none starts, though
\* handlers may still run (emitter.emit, emitter.close).
SilentWhenDown ==
  node = "down" => saver # "telling" /\ \A t \in Handler : at[t] # "telling"

\* A node that is down has left everything in the file and tells nobody any
\* more (node.Start, Wait).
DownIsFinal == ShutdownSaves /\ SilentWhenDown

GoneSilent(k) == node = "up" /\ Overdue(reg[k], clock)
SeenAgain(k) == reg[k] # Nobody /\ reg[k].online /\ ~Overdue(reg[k], clock)
ShownOffline(k) == reported[k] # Nobody /\ ~reported[k].online

\* A peer that has gone silent is reported offline, unless it is seen again,
\* turns out to be the legacy entry of another one, or the node stops
\* (periodic, Tick).
SilentGoesOffline ==
  \A k \in Key :
    GoneSilent(k) ~>
      node # "up" \/ reg[k] = Nobody \/ SeenAgain(k) \/ ShownOffline(k)

\* A node that is told to stop does: every goroutine it waits for ends.
ShutdownEnds == node = "stopping" ~> node \in {"down", "off"}

\* Both: the node's timers and its shutdown get where they lead.
NodeProgresses == SilentGoesOffline /\ ShutdownEnds
=============================================================================
