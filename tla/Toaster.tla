-------------------------------- MODULE Toaster -------------------------------
(***************************************************************************)
(* gui: the toaster, which decides when the notification window of the     *)
(* desktop program shows and hides.  Show, pageReady, clicked and Close    *)
(* are called from other goroutines and only change the fields under the   *)
(* mutex; one worker goroutine copies the fields, unlocks, and then calls  *)
(* the window.  A hide timer calls expire on a goroutine of its own.       *)
(*                                                                         *)
(* An arrival is named by its generation, the number of its Show call, and *)
(* a loaded page by the number of its pageReady call.                      *)
(***************************************************************************)
EXTENDS Naturals

CONSTANTS
  Duration,   \* toaster.duration, in ticks
  MaxShows,   \* bound: Show calls
  MaxPages,   \* bound: page loads
  MaxClicks   \* bound: clicks of the user

\* What the constants have to be.
ConstantsOK ==
  /\ Duration \in Nat \ {0}
  /\ {MaxShows, MaxPages, MaxClicks} \subseteq Nat

Gen == 0..MaxShows
Page == 0..MaxPages

\* A click is named by its number.
ClickNo == 1..MaxClicks
Report == [click : ClickNo, by : {"monitor", "page"}]

VARIABLES
  closed, ready, want, gen, pages,
  age,       \* time since the newest Show, at most Duration
  timer,     \* the hide timer: its generation and the time left, or NoTimer
  fired,     \* generations of hide timers whose callback is running
  wake,      \* the channel holds a signal
  worker,    \* what the worker is about to do, or "idle"
  hand,      \* the worker's copy of the fields, its age included
  shown, last,
  screen,    \* the window: whether it is on screen, and what it was given last
  clicks,    \* how often the user has clicked
  reports,   \* reports of a click on their way
  aim,       \* history variable: per click, the toast it was made on
  acted,     \* history variable: clicks of which a report has hidden a toast
  opened     \* history variable: per generation, how often its chat was opened

fields == <<closed, ready, want, gen, pages, age>>
timers == <<timer, fired>>
workerVars == <<worker, hand, shown, last, screen>>
clickVars == <<clicks, reports, aim, acted, opened>>
vars == <<fields, timers, wake, workerVars, clickVars>>

NoTimer == [gen |-> 0, left |-> 0]
NoCopy == [gen |-> 0, pages |-> 0, want |-> FALSE, ready |-> FALSE, age |-> 0]

Init ==
  /\ closed = FALSE /\ ready = FALSE /\ want = FALSE
  /\ gen = 0 /\ pages = 0 /\ age = 0
  /\ timer = NoTimer /\ fired = {}
  /\ wake = FALSE
  /\ worker = "idle" /\ hand = NoCopy
  /\ shown = FALSE /\ last = [gen |-> 0, pages |-> 0]
  /\ screen = [on |-> FALSE, gen |-> 0, pages |-> 0]
  /\ clicks = 0 /\ reports = {} /\ acted = {}
  /\ aim = [k \in ClickNo |-> 0] /\ opened = [g \in Gen |-> 0]

----------------------------------------------------------------------------
(* The callers.                                                             *)

Show ==
  /\ gen < MaxShows
  /\ ~closed
  /\ gen' = gen + 1 /\ age' = 0 /\ want' = TRUE
  /\ wake' = TRUE
  /\ UNCHANGED <<closed, ready, pages, timers, workerVars, clickVars>>

PageReady ==
  /\ pages < MaxPages
  /\ ready' = TRUE /\ pages' = pages + 1
  /\ wake' = TRUE
  /\ UNCHANGED <<closed, want, gen, age, timers, workerVars, clickVars>>

\* A mouse-down on the toast is reported by the native monitor, and by the page
\* as well unless the click does not reach it.
Click ==
  LET k == clicks + 1
      by(who) == [click |-> k, by |-> who]
  IN
  /\ clicks < MaxClicks
  /\ screen.on
  /\ clicks' = k
  /\ \E both \in BOOLEAN :
       reports' = reports \cup {by("monitor")}
                          \cup (IF both THEN {by("page")} ELSE {})
  /\ aim' = [aim EXCEPT ![k] = screen.gen]
  /\ UNCHANGED <<fields, timers, wake, workerVars, acted, opened>>

\* timer.Stop() has no effect on a callback that has started.
Disarmed == timer' = NoTimer

BadClickCounts == ~closed

\* The check that clicked begins with.
ClickCounts == ~closed /\ want

\* clicked, called for either report: openChat is called after the unlock and
\* needs nothing of the state.  It hides the newest toast, which may not be the
\* one that the user saw.
Clicked(r) ==
  /\ r \in reports
  /\ reports' = reports \ {r}
  /\ IF ClickCounts
     THEN /\ want' = FALSE /\ Disarmed /\ wake' = TRUE
          /\ acted' = acted \cup {r.click}
          /\ opened' = [opened EXCEPT ![gen] = @ + 1]
     ELSE UNCHANGED <<want, timer, wake, acted, opened>>
  /\ UNCHANGED <<closed, ready, gen, pages, age, fired, workerVars, clicks, aim>>

Close ==
  /\ ~closed
  /\ closed' = TRUE
  /\ Disarmed
  /\ UNCHANGED <<ready, want, gen, pages, age, fired, wake, workerVars,
                 clickVars>>

----------------------------------------------------------------------------
(* Time.                                                                    *)

Older(a) == IF a < Duration THEN a + 1 ELSE a

Tick ==
  /\ age < Duration \/ timer.left > 0
  /\ age' = Older(age)
  /\ hand' = IF worker = "copied" THEN [hand EXCEPT !.age = Older(@)] ELSE hand
  /\ timer' = [timer EXCEPT !.left = IF @ > 0 THEN @ - 1 ELSE 0]
  /\ UNCHANGED <<closed, ready, want, gen, pages, fired, wake, worker, shown,
                 last, screen, clickVars>>

\* A timer that is due fires, sooner or later.
TimerFires ==
  /\ timer # NoTimer /\ timer.left = 0
  /\ fired' = fired \cup {timer.gen}
  /\ Disarmed
  /\ UNCHANGED <<fields, wake, workerVars, clickVars>>

BadIsCurrent(g) == ~closed /\ want

\* The check that expire and arm begin with.
IsCurrent(g) == ~closed /\ gen = g /\ want

\* expire of generation g.
Expired(g) ==
  IF IsCurrent(g) THEN want' = FALSE /\ wake' = TRUE
                  ELSE UNCHANGED <<want, wake>>

Expire(g) ==
  /\ g \in fired
  /\ fired' = fired \ {g}
  /\ Expired(g)
  /\ UNCHANGED <<closed, ready, gen, pages, age, timer, workerVars, clickVars>>

----------------------------------------------------------------------------
(* The worker.                                                              *)

BadIsNews == hand.gen # last.gen

\* Something to show that the page was not sent yet.
IsNews == hand.gen # last.gen \/ hand.pages # last.pages

\* A wake-up: the fields are copied under the mutex.
Wake ==
  /\ worker = "idle"
  /\ wake /\ ~closed
  /\ wake' = FALSE
  /\ hand' = [gen |-> gen, pages |-> pages, want |-> want, ready |-> ready,
              age |-> age]
  /\ worker' = "copied"
  /\ UNCHANGED <<fields, timers, shown, last, screen, clickVars>>

\* What to do follows from the copy and from the time it is by now.
Judge ==
  /\ worker = "copied"
  /\ worker' =
       CASE hand.want /\ hand.ready /\ hand.age >= Duration -> "expire"
         [] hand.want /\ hand.ready /\ hand.age < Duration /\ IsNews -> "present"
         [] ~hand.want /\ shown -> "dismiss"
         [] OTHER -> "idle"
  /\ UNCHANGED <<fields, timers, wake, hand, shown, last, screen, clickVars>>

\* The select sees done, or the lock is taken after Close.
WorkerEnds ==
  /\ worker = "idle"
  /\ closed
  /\ worker' = "over"
  /\ UNCHANGED <<fields, timers, wake, hand, shown, last, screen, clickVars>>

\* It waited for the page longer than a toast lasts: drop it.
Drop ==
  /\ worker = "expire"
  /\ Expired(hand.gen)
  /\ worker' = "idle"
  /\ UNCHANGED <<closed, ready, gen, pages, age, timers, hand, shown, last,
                 screen, clickVars>>

Present ==
  /\ worker = "present"
  /\ screen' = [on |-> TRUE, gen |-> hand.gen, pages |-> hand.pages]
  /\ shown' = TRUE
  /\ last' = [gen |-> hand.gen, pages |-> hand.pages]
  /\ worker' = "arm"
  /\ UNCHANGED <<fields, timers, wake, hand, clickVars>>

Arm ==
  /\ worker = "arm"
  /\ timer' = IF IsCurrent(hand.gen)
              THEN [gen |-> hand.gen, left |-> Duration]
              ELSE timer
  /\ worker' = "idle"
  /\ UNCHANGED <<fields, fired, wake, hand, shown, last, screen, clickVars>>

Dismiss ==
  /\ worker = "dismiss"
  /\ screen' = [screen EXCEPT !.on = FALSE]
  /\ shown' = FALSE
  /\ worker' = "idle"
  /\ UNCHANGED <<fields, timers, wake, hand, last, clickVars>>

----------------------------------------------------------------------------

WorkerStep ==
  \/ Wake \/ Judge \/ WorkerEnds \/ Drop \/ Present \/ Arm \/ Dismiss

Next ==
  \/ Show \/ PageReady \/ Click \/ Close \/ \E r \in reports : Clicked(r)
  \/ Tick \/ TimerFires \/ \E g \in Gen : Expire(g)
  \/ WorkerStep

\* Time passes, timers that are due fire, and goroutines are scheduled.
Fairness ==
  /\ WF_vars(Tick) /\ WF_vars(TimerFires)
  /\ \A g \in Gen : WF_vars(Expire(g))
  /\ WF_vars(WorkerStep)

Spec == Init /\ [][Next]_vars /\ Fairness

----------------------------------------------------------------------------
(* Properties.                                                              *)

\* The types of the variables.
TypeOK ==
  /\ closed \in BOOLEAN /\ ready \in BOOLEAN /\ want \in BOOLEAN
  /\ gen \in Gen /\ pages \in Page /\ age \in 0..Duration
  /\ timer \in [gen : Gen, left : 0..Duration] /\ fired \subseteq Gen
  /\ wake \in BOOLEAN
  /\ worker \in
       {"idle", "copied", "expire", "present", "arm", "dismiss", "over"}
  /\ hand \in [gen : Gen, pages : Page, want : BOOLEAN, ready : BOOLEAN,
               age : 0..Duration]
  /\ last \in [gen : Gen, pages : Page]
  /\ shown \in BOOLEAN
  /\ screen \in [on : BOOLEAN, gen : Gen, pages : Page]
  /\ clicks \in 0..MaxClicks /\ reports \subseteq Report
  /\ aim \in [ClickNo -> Gen] /\ acted \subseteq ClickNo
  /\ opened \in [Gen -> Nat]

\* A toast that is wanted stops being wanted only when the newest arrival is
\* Duration old, or when a click is reported; and the second report of a click
\* never hides the toast that the click was made on (expire, arm, clicked; "the
\* second finds no toast", toastclick_darwin.go).  It may hide a later toast that
\* arrived between the two reports: the code does not tell the reports of one
\* click from those of another.
OnlyTimeOrAClick ==
  [][want /\ ~want' =>
       \/ age = Duration
       \/ \E r \in reports \ reports' :
            r.click \in acted => aim[r.click] < gen]_vars

\* The chat of an arrival is opened at most once, however many clicks and reports
\* there are of it (clicked).
OpenedOnce == [][\A g \in Gen : opened'[g] <= 1]_vars

\* Both: what timers, reloads and reports that come late can do.
OnlyTimeOrAClickHides == OnlyTimeOrAClick /\ OpenedOnce

Resting == ~wake /\ worker = "idle" /\ fired = {}

\* When the worker has nothing left to do, the window agrees with what is
\* wanted: hidden when nothing is, else showing the newest arrival on the page
\* as it was loaded last, with a timer running that will hide it, however
\* arrivals, clicks, reloads and timers interleaved (run, arm, poke).
ScreenAgrees ==
  ~closed /\ Resting =>
    IF want /\ ready
    THEN /\ screen = [on |-> TRUE, gen |-> gen, pages |-> pages]
         /\ timer # NoTimer /\ timer.gen = gen
    ELSE ~screen.on

\* Every toast goes away, unless the program quits first.
EveryToastHides == screen.on ~> ~screen.on \/ closed
=============================================================================
