-------------------------------- MODULE History -------------------------------
(***************************************************************************)
(* history.jsonl and those who append to it: the handlers of a running     *)
(* receiver, which share one Store, and the command line, which hands its  *)
(* entry to the receiver (POST /local/history) and appends it itself when  *)
(* that does not work.                                                     *)
(*                                                                         *)
(* Append looks at the last byte of the file and then writes, in two       *)
(* steps.  The Store's mutex covers both against other handlers, nothing   *)
(* covers them against another process.  A write may be cut short by a     *)
(* full disk or by the end of the process.                                 *)
(***************************************************************************)
EXTENDS Integers, Sequences

CONSTANTS
  Message,   \* texts that arrive (Inbox)
  Upload,    \* files that arrive (Server.record)
  Command,   \* runs of "lanxfer send" and "lanxfer say"
  None,
  MaxCuts    \* bound: how many writes are cut short

Entry == Message \cup Upload \cup Command

\* A call of Append: by the receiver for any entry, by a command for its own.
Job == [of : Entry, by : {"receiver"}] \cup [of : Command, by : {"command"}]

\* What the constants have to be.
ConstantsOK ==
  /\ Message \cap Upload = {} /\ Command \cap (Message \cup Upload) = {}
  /\ None \notin Job /\ MaxCuts \in Nat

Taken(e) == [of |-> e, by |-> "receiver"]
Own(c) == [of |-> c, by |-> "command"]

\* A write, as it is in the file: whether it began with a newline of its own,
\* and whether it has all its bytes, all but the newline, or fewer.
Chunk(e, nl, cut) == [of |-> e, nl |-> nl, cut |-> cut]

VARIABLES
  log,       \* the file: the writes in their order
  job,       \* [Job -> where the call of Append, or its handler, is]
  fresh,     \* [Job -> the write will begin with a newline]
  storeMu,   \* the job that holds the Store's mutex, or None
  inboxMu,   \* the job that holds the Inbox's mutex, or None
  printed,   \* messages in the order they were printed
  up,        \* the receiver runs
  cmd,       \* [Command -> where recordSent is]
  gaveUp,    \* history variable: commands that gave up waiting for the answer
  glued,     \* history variable: jobs that could not read the last byte, or
             \* had looked at it when the write of another process was cut
             \* short
  cuts

jobVars == <<job, fresh>>
muVars == <<storeMu, inboxMu>>
cmdVars == <<cmd, gaveUp>>
vars == <<log, job, fresh, storeMu, inboxMu, printed, up, cmd, gaveUp,
          glued, cuts>>

Init ==
  /\ log = <<>>
  /\ job = [j \in Job |-> "idle"] /\ fresh = [j \in Job |-> FALSE]
  /\ storeMu = None /\ inboxMu = None
  /\ printed = <<>>
  /\ up = TRUE
  /\ cmd = [c \in Command |-> "idle"] /\ gaveUp = {}
  /\ glued = {} /\ cuts = 0

Go(j, where) == job' = [job EXCEPT ![j] = where]

----------------------------------------------------------------------------
(* Requests to the receiver.                                                *)

\* Deliver and record, called by their handlers.
Arrive(j) ==
  /\ up
  /\ j.by = "receiver" /\ j.of \notin Command
  /\ job[j] = "idle"
  /\ Go(j, IF j.of \in Message THEN "inbox" ELSE "lock")
  /\ UNCHANGED <<log, fresh, muVars, printed, up, cmdVars, glued, cuts>>

BadMayDeliver == TRUE

MayDeliver == inboxMu = None

\* store takes the Inbox's lock.
LockInbox(j) ==
  /\ job[j] = "inbox"
  /\ MayDeliver
  /\ inboxMu' = j
  /\ Go(j, "lock")
  /\ UNCHANGED <<log, fresh, storeMu, printed, up, cmdVars, glued, cuts>>

----------------------------------------------------------------------------
(* Append.                                                                  *)

\* A command has a Store of its own.
MayLock(j) == j.by = "command" \/ storeMu = None

Lock(j) ==
  /\ job[j] = "lock"
  /\ MayLock(j)
  /\ storeMu' = IF j.by = "receiver" THEN j ELSE storeMu
  /\ Go(j, "look")
  /\ UNCHANGED <<log, fresh, inboxMu, printed, up, cmdVars, glued, cuts>>

Unlocked(j) == storeMu' = IF storeMu = j THEN None ELSE storeMu

BadEndsOpen == FALSE

\* The last byte of the file is not a newline.
EndsOpen == log # <<>> /\ log[Len(log)].cut # "no"

\* The file is opened and its last byte is read.  It may not open; when the
\* byte cannot be read, Append goes on without a newline.
Look(j) ==
  /\ job[j] = "look"
  /\ \/ /\ fresh' = [fresh EXCEPT ![j] = EndsOpen]
        /\ Go(j, "write")
        /\ UNCHANGED <<storeMu, glued>>
     \/ /\ EndsOpen
        /\ glued' = glued \cup {j}
        /\ Go(j, "write")
        /\ UNCHANGED <<storeMu, fresh>>
     \/ /\ Go(j, "failed")
        /\ Unlocked(j)
        /\ UNCHANGED <<fresh, glued>>
  /\ UNCHANGED <<log, inboxMu, printed, up, cmdVars, cuts>>

\* What a write of j that is cut short does to those between their look and
\* their write: they are of another process.
Surprised(j) ==
  {k \in Job : job[k] = "write" /\ ~fresh[k]
                 /\ (k.by # j.by \/ j.by = "command")} \ {j}

\* One Write call: all of the line, a part of it, or nothing.  The error of
\* Close comes after a whole line.
Write(j) ==
  /\ job[j] = "write"
  /\ \/ /\ log' = Append(log, Chunk(j.of, fresh[j], "no"))
        /\ \E r \in {"saved", "failed"} : Go(j, r)
        /\ UNCHANGED <<glued, cuts>>
     \/ /\ cuts < MaxCuts
        /\ cuts' = cuts + 1
        /\ \E cut \in {"newline", "part"} :
             log' = Append(log, Chunk(j.of, fresh[j], cut))
        /\ glued' = glued \cup Surprised(j)
        /\ Go(j, "failed")
     \/ Go(j, "failed") /\ UNCHANGED <<log, glued, cuts>>
  /\ Unlocked(j)
  /\ fresh' = [fresh EXCEPT ![j] = FALSE]
  /\ UNCHANGED <<inboxMu, printed, up, cmdVars>>

----------------------------------------------------------------------------
(* What the receiver does with the outcome.                                 *)

\* A message is printed under the Inbox's lock once it is recorded; one that
\* is not is refused.
Settle(j) ==
  /\ j.of \in Message
  /\ \/ /\ job[j] = "saved"
        /\ printed' = Append(printed, j.of)
        /\ Go(j, "tell")
     \/ /\ job[j] = "failed"
        /\ Go(j, "refused")
        /\ UNCHANGED printed
  /\ inboxMu' = None
  /\ UNCHANGED <<log, fresh, storeMu, up, cmdVars, glued, cuts>>

\* A received file is reported even when the history failed (record), the
\* entry of a command only when it is recorded (eventRecorder).
MayTell(j) ==
  \/ job[j] = "tell"
  \/ j.of \in Upload /\ job[j] \in {"saved", "failed"}
  \/ j.of \in Command /\ job[j] = "saved"

\* The report to the caller, and the answer.
Tell(j) ==
  /\ j.by = "receiver"
  /\ MayTell(j)
  /\ Go(j, "answered")
  /\ UNCHANGED <<log, fresh, muVars, printed, up, cmdVars, glued, cuts>>

\* The receiver's process ends, at any point.
Kill ==
  /\ up
  /\ up' = FALSE
  /\ job' = [j \in Job |->
               IF j.by = "receiver" /\ job[j] # "idle" THEN "dead" ELSE job[j]]
  /\ fresh' = [j \in Job |-> fresh[j] /\ j.by = "command"]
  /\ storeMu' = None /\ inboxMu' = None
  /\ UNCHANGED <<log, printed, cmdVars, glued, cuts>>

Restart ==
  /\ ~up
  /\ up' = TRUE
  /\ UNCHANGED <<log, jobVars, muVars, printed, cmdVars, glued, cuts>>

----------------------------------------------------------------------------
(* recordSent.                                                              *)

\* LocalRecord reaches the receiver; or there is none, or it belongs to
\* another user, and the entry is appended directly.
Ask(c) ==
  /\ cmd[c] = "idle"
  /\ \/ /\ up
        /\ cmd' = [cmd EXCEPT ![c] = "asks"]
        /\ Go(Taken(c), "lock")
     \/ /\ cmd' = [cmd EXCEPT ![c] = "appends"]
        /\ Go(Own(c), "lock")
  /\ UNCHANGED <<log, fresh, muVars, printed, up, gaveUp, glued, cuts>>

\* The answer does not come within localRecordTimeout, or the connection
\* breaks: the receiver may still append the entry.
GiveUp(c) ==
  /\ cmd[c] = "asks"
  /\ cmd' = [cmd EXCEPT ![c] = "appends"]
  /\ Go(Own(c), "lock")
  /\ gaveUp' = gaveUp \cup {c}
  /\ UNCHANGED <<log, fresh, muVars, printed, up, glued, cuts>>

\* The answer of the receiver, or the outcome of its own Append, is all the
\* command knows; a failure is a warning.
Known(c, r) ==
  \/ cmd[c] = "asks" /\ r = "ok" /\ job[Taken(c)] = "answered"
  \/ cmd[c] = "asks" /\ r = "warned" /\ job[Taken(c)] = "failed"
  \/ cmd[c] = "appends" /\ r = "ok" /\ job[Own(c)] = "saved"
  \/ cmd[c] = "appends" /\ r = "warned" /\ job[Own(c)] = "failed"

Return(c) ==
  /\ \E r \in {"ok", "warned"} : Known(c, r) /\ cmd' = [cmd EXCEPT ![c] = r]
  /\ UNCHANGED <<log, jobVars, muVars, printed, up, gaveUp, glued, cuts>>

----------------------------------------------------------------------------

Next ==
  \/ \E j \in Job :
       \/ Arrive(j) \/ LockInbox(j) \/ Lock(j) \/ Look(j) \/ Write(j)
       \/ Settle(j) \/ Tell(j)
  \/ \E c \in Command : Ask(c) \/ GiveUp(c) \/ Return(c)
  \/ Kill \/ Restart

Spec == Init /\ [][Next]_vars

----------------------------------------------------------------------------
(* Properties.                                                              *)

Where == {"idle", "inbox", "lock", "look", "write", "saved", "failed", "tell",
          "answered", "refused", "dead"}

\* The types of the variables.
TypeOK ==
  /\ log \in Seq([of : Entry, nl : BOOLEAN, cut : {"no", "newline", "part"}])
  /\ job \in [Job -> Where] /\ fresh \in [Job -> BOOLEAN]
  /\ storeMu \in Job \cup {None} /\ inboxMu \in Job \cup {None}
  /\ printed \in Seq(Message)
  /\ up \in BOOLEAN
  /\ cmd \in [Command -> {"idle", "asks", "appends", "ok", "warned"}]
  /\ gaveUp \subseteq Command /\ glued \subseteq Job
  /\ cuts \in 0..MaxCuts

\* ReadAll finds the entry of a write: the write begins a line, and nothing was
\* put behind it on the same line.
Readable(i) ==
  /\ i = 1 \/ log[i].nl \/ log[i - 1].cut = "no"
  /\ \/ log[i].cut = "no"
     \/ log[i].cut = "newline" /\ (i = Len(log) \/ log[i + 1].nl)

LinesOf(e) == {i \in DOMAIN log : log[i].of = e /\ Readable(i)}

\* Who was told that an entry is saved.
Promised(e) ==
  \/ job[Taken(e)] \in {"tell", "answered"} /\ e \notin Upload
  \/ e \in Command /\ cmd[e] = "ok"

Glued(e) == \E j \in glued : j.of = e

\* An entry that was reported as saved is a line of its own in the file, unless
\* Append could not look at the end of the file, or the write of another
\* process was cut short after it had looked; and it is there once, unless a
\* command gave up waiting for the answer (Append, recordSent).
EntriesSavedOnce ==
  \A e \in Entry :
    /\ Promised(e) /\ ~Glued(e) => LinesOf(e) # {}
    /\ e \notin gaveUp => \A i, k \in LinesOf(e) : i = k

First(e) == CHOOSE i \in LinesOf(e) : \A k \in LinesOf(e) : i <= k

\* Messages are printed in the order of their lines, and never without one
\* (Inbox.store: "recorded and shown whole and in the same order").
PrintedAsSaved ==
  \A i, k \in DOMAIN printed :
    LET e == printed[i]
        f == printed[k]
    IN  /\ LinesOf(e) # {} \/ Glued(e)
        /\ i < k /\ LinesOf(e) # {} /\ LinesOf(f) # {} => First(e) < First(f)
=============================================================================
