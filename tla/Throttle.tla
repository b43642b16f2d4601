-------------------------------- MODULE Throttle ------------------------------
(***************************************************************************)
(* gui: the throttle in front of the "chats" event.  The goroutine that    *)
(* drains the queue and the calls of the page change the chats and then    *)
(* trigger; fire, emitChats, reads the chats and emits them.  A trigger    *)
(* decides under the mutex and fires under fireMu afterwards; the trailing *)
(* call is a timer's callback with a goroutine of its own.                 *)
(*                                                                         *)
(* The chats are a version, the number of changes so far.                  *)
(***************************************************************************)
EXTENDS Naturals

CONSTANTS
  Caller,      \* goroutines that trigger
  Timer,       \* callbacks of timers, each a goroutine
  None,
  Interval,    \* throttle.interval, in ticks
  MaxChanges   \* bound: changes of the chats

\* What the constants have to be.
ConstantsOK ==
  /\ Caller \cap Timer = {} /\ None \notin Caller \cup Timer
  /\ Interval \in Nat \ {0} /\ MaxChanges \in Nat

Thread == Caller \cup Timer

VARIABLES
  version,   \* of the chats
  told,      \* version of the last event
  since,     \* time since fire was last let through, at most Interval
  pending,   \* the timer of the trailing call, or None
  left,      \* time until it fires
  stopped,
  at,        \* [Thread -> what it does]
  fireMu,    \* who holds it, or None
  read,      \* [Thread -> the version it has read]
  hurried    \* history variable: fire was let through within an interval

vars == <<version, told, since, pending, left, stopped, at, fireMu, read,
          hurried>>

\* The zero time: the first trigger is never inside an interval.
Init ==
  /\ version = 0 /\ told = 0
  /\ since = Interval
  /\ pending = None /\ left = 0
  /\ stopped = FALSE
  /\ at = [t \in Thread |-> "idle"]
  /\ fireMu = None
  /\ read = [t \in Thread |-> 0]
  /\ hurried = FALSE

Go(t, where) == at' = [at EXCEPT ![t] = where]

\* A change of the chats: Add, SetPeers, Open or Load of the store.
Change(t) ==
  /\ t \in Caller
  /\ at[t] = "idle"
  /\ version < MaxChanges
  /\ version' = version + 1
  /\ Go(t, "changed")
  /\ UNCHANGED <<told, since, pending, left, stopped, fireMu, read, hurried>>

\* t.last = time.Now()
LetThrough(t) ==
  /\ since' = 0
  /\ hurried' = (hurried \/ since < Interval)
  /\ Go(t, "through")

BadCovered == stopped \/ pending # None \/ since < Interval

\* A pending call will report this change as well.
Covered == stopped \/ pending # None

Trigger(t) ==
  /\ at[t] = "changed"
  /\ \/ /\ Covered
        /\ Go(t, "idle")
        /\ UNCHANGED <<since, pending, left, hurried>>
     \/ /\ ~Covered /\ since < Interval
        /\ \E c \in Timer :
             /\ at[c] = "idle"
             /\ pending' = c
        /\ left' = Interval - since
        /\ Go(t, "idle")
        /\ UNCHANGED <<since, hurried>>
     \/ /\ ~Covered /\ since = Interval
        /\ LetThrough(t)
        /\ UNCHANGED <<pending, left>>
  /\ UNCHANGED <<version, told, stopped, fireMu, read>>

Tick ==
  /\ since < Interval \/ left > 0
  /\ since' = IF since < Interval THEN since + 1 ELSE since
  /\ left' = IF left > 0 THEN left - 1 ELSE 0
  /\ UNCHANGED <<version, told, pending, stopped, at, fireMu, read, hurried>>

\* The timer is due, and its callback starts.
TimerFires(c) ==
  /\ pending = c /\ left = 0
  /\ at[c] = "idle"
  /\ Go(c, "flushing")
  /\ UNCHANGED <<version, told, since, pending, left, stopped, fireMu, read,
                 hurried>>

\* flush, under the mutex.
Flush(c) ==
  /\ at[c] = "flushing"
  /\ pending' = None
  /\ IF stopped
     THEN Go(c, "idle") /\ UNCHANGED <<since, hurried>>
     ELSE LetThrough(c)
  /\ UNCHANGED <<version, told, left, stopped, fireMu, read>>

MayFire == fireMu = None

\* run: emitChats reads the chats and emits them, under fireMu.
Fire(t) ==
  /\ at[t] = "through"
  /\ MayFire
  /\ fireMu' = t
  /\ read' = [read EXCEPT ![t] = version]
  /\ Go(t, "firing")
  /\ UNCHANGED <<version, told, since, pending, left, stopped, hurried>>

Emit(t) ==
  /\ at[t] = "firing"
  /\ told' = read[t]
  /\ read' = [read EXCEPT ![t] = 0]
  /\ fireMu' = None
  /\ Go(t, "idle")
  /\ UNCHANGED <<version, since, pending, left, stopped, hurried>>

\* stop: the timer is stopped, unless its callback has started.
Stop ==
  /\ ~stopped
  /\ stopped' = TRUE
  /\ pending' = None /\ left' = 0
  /\ UNCHANGED <<version, told, since, at, fireMu, read, hurried>>

----------------------------------------------------------------------------

Step(t) == Trigger(t) \/ TimerFires(t) \/ Flush(t) \/ Fire(t) \/ Emit(t)

Next == Tick \/ Stop \/ \E t \in Thread : Change(t) \/ Step(t)

\* Time passes, timers that are due fire, and goroutines are scheduled.  A
\* thread that waits for fireMu gets it when it is free again and again.
Fairness ==
  /\ WF_vars(Tick)
  /\ \A t \in Thread : WF_vars(Step(t)) /\ SF_vars(Fire(t))

Spec == Init /\ [][Next]_vars /\ Fairness

----------------------------------------------------------------------------
(* Properties.                                                              *)

\* The types of the variables.
TypeOK ==
  /\ version \in 0..MaxChanges /\ told \in 0..MaxChanges
  /\ since \in 0..Interval /\ left \in 0..Interval
  /\ pending \in Timer \cup {None}
  /\ stopped \in BOOLEAN /\ hurried \in BOOLEAN
  /\ at \in [Thread -> {"idle", "changed", "flushing", "through", "firing"}]
  /\ fireMu \in Thread \cup {None}
  /\ read \in [Thread -> 0..MaxChanges]

\* No trigger is lost: when no call is pending or under way, the last event
\* shows the chats as they are, although triggers are dropped while a trailing
\* call is pending (trigger, flush).
LastTriggerTold ==
  ~stopped /\ pending = None /\ (\A t \in Thread : at[t] = "idle") =>
    told = version

\* Calls are let through at most once per interval, and the events never go
\* back to an older list, whichever goroutine is late (trigger, flush, run).
CallsInOrder == [][told' >= told /\ ~hurried']_vars

\* A change is told in the end, unless the throttle is stopped.
ChangeIsTold == told < version ~> told = version \/ stopped
=============================================================================
