------------------------------ MODULE FilesProofs -----------------------------
(***************************************************************************)
(* Theorems about the three files of the config folder: peers.json and the *)
(* goroutines around it, for any peers, threads, sightings and times,      *)
(* history.jsonl, for any messages, files, commands and writes that are    *)
(* cut short, and device-id, for any number of callers.                    *)
(***************************************************************************)
EXTENDS MCFiles, SequenceTheorems, TLAPS

----------------------------------------------------------------------------
(* History.                                                                 *)

\* The writes of the file.
ChunkSet ==
  [of : Hist!Entry, nl : BOOLEAN, cut : {"no", "newline", "part"}]

\* The writes of an entry.
Holds(e) == {i \in DOMAIN log : log[i].of = e}

\* A line that no later write can spoil.
Stays(i) == log[i].cut = "no" /\ (i = 1 \/ log[i].nl \/ log[i - 1].cut = "no")

\* The entry is in the file for good.
Kept(e) == \E i \in Holds(e) : Stays(i)

----------------------------------------------------------------------------
(* The inductive invariant.                                                 *)

\* The Store's mutex is held over the look and the write of a handler, the
\* Inbox's from before the record until the message is printed or refused.
Locks ==
  \A j \in Hist!Job :
    /\ j.by = "receiver" /\ job[j] \in {"look", "write"} => storeMu = j
    /\ job[j] \in {"lock", "look", "write", "saved", "failed"}
         => inboxMu = j \/ j.of \notin Message

\* Who writes without a newline of its own writes behind one, or is glued.
LooksAreFresh ==
  \A j \in Hist!Job :
    job[j] = "write" /\ ~fresh[j] /\ j \notin glued => ~Hist!EndsOpen

\* Of the two ways to record the entry of a command one is taken, and nothing
\* is written before the write.
Once ==
  /\ \A e \in Hist!Entry :
       e \notin gaveUp =>
         /\ \A i, k \in Holds(e) : i = k
         /\ \A j \in Hist!Job :
              j.of = e /\ job[j] \in {"inbox", "lock", "look", "write"}
                => Holds(e) = {}
  /\ \A j \in Hist!Job :
       j.of \notin Command /\ job[j] = "idle" => Holds(j.of) = {}
  /\ \A c \in Command :
       /\ cmd[c] = "idle" =>
            /\ job[Hist!Taken(c)] = "idle" /\ job[Hist!Own(c)] = "idle"
            /\ Holds(c) = {}
       /\ c \notin gaveUp =>
            job[Hist!Taken(c)] = "idle" \/ job[Hist!Own(c)] = "idle"

\* What was reported as saved is a line that stays.
SavedIsKept ==
  /\ \A j \in Hist!Job :
       j.of \notin Upload /\ j \notin glued
         /\ job[j] \in {"saved", "tell", "answered"} => Kept(j.of)
  /\ \A c \in Command : cmd[c] = "ok" /\ ~Hist!Glued(c) => Kept(c)

\* A message is printed once, after its write, and the one that holds the
\* Inbox's mutex comes behind all that were printed.
PrintedBehind ==
  /\ \A n \in DOMAIN printed :
       /\ job[Hist!Taken(printed[n])] \in {"tell", "answered", "dead"}
       /\ ~Hist!Glued(printed[n]) => Kept(printed[n])
  /\ \A i, k \in DOMAIN printed :
       i < k => \A a \in Holds(printed[i]), b \in Holds(printed[k]) : a < b
  /\ \A j \in Hist!Job, n \in DOMAIN printed :
       j.of \in Message /\ job[j] = "saved" =>
         \A a \in Holds(printed[n]), b \in Holds(j.of) : a < b

\* The inductive invariant of the history file.
HistInv ==
  /\ Hist!TypeOK /\ Locks /\ LooksAreFresh
  /\ Once /\ SavedIsKept /\ PrintedBehind

----------------------------------------------------------------------------
(* Jobs and appends.                                                        *)

\* What the constants say of the jobs.
LEMMA Jobs ==
  ASSUME Hist!ConstantsOK
  PROVE  /\ \A e \in Hist!Entry : Hist!Taken(e) \in Hist!Job
         /\ \A c \in Command : Hist!Own(c) \in Hist!Job /\ c \in Hist!Entry
         /\ \A m \in Message :
              m \in Hist!Entry /\ m \notin Command /\ m \notin Upload
         /\ None \notin Hist!Job /\ MaxCuts \in Nat
BY DEF Hist!ConstantsOK, Hist!Job, Hist!Entry, Hist!Taken, Hist!Own

\* A job is that of a receiver or of a command.
LEMMA JobForms ==
  ASSUME NEW j \in Hist!Job
  PROVE  /\ j.of \in Hist!Entry /\ j.by \in {"receiver", "command"}
         /\ j.by = "receiver" => j = Hist!Taken(j.of)
         /\ j.by = "command" => j.of \in Command /\ j = Hist!Own(j.of)
BY DEF Hist!Job, Hist!Entry, Hist!Taken, Hist!Own

\* The two jobs of an entry.
LEMMA JobParts ==
  ASSUME NEW e
  PROVE  /\ Hist!Taken(e).of = e /\ Hist!Taken(e).by = "receiver"
         /\ Hist!Own(e).of = e /\ Hist!Own(e).by = "command"
         /\ Hist!Taken(e) # Hist!Own(e)
BY DEF Hist!Taken, Hist!Own

\* Only a command has two jobs.
LEMMA OneJob ==
  ASSUME Hist!ConstantsOK, NEW j \in Hist!Job, j.of \notin Command
  PROVE  j = Hist!Taken(j.of)
BY JobForms

\* A write goes behind the others (Append).
LEMMA Appended ==
  ASSUME log \in Seq(ChunkSet), NEW ch \in ChunkSet, log' = Append(log, ch)
  PROVE  /\ Len(log') = Len(log) + 1 /\ Len(log) \in Nat
         /\ DOMAIN log' = 1..(Len(log) + 1)
         /\ DOMAIN log = 1..Len(log)
         /\ \A i \in 1..Len(log) : log'[i] = log[i]
         /\ log'[Len(log) + 1] = ch
         /\ log' \in Seq(ChunkSet)
BY AppendProperties

\* A line that stays does.
LEMMA KeptStays ==
  ASSUME log \in Seq(ChunkSet), NEW ch \in ChunkSet, log' = Append(log, ch),
         NEW e
  PROVE  /\ Kept(e) => Kept(e)'
         /\ Holds(e)' = Holds(e) \cup
                          (IF ch.of = e THEN {Len(log) + 1} ELSE {})
         /\ \A i \in Holds(e) : i \in Nat /\ i < Len(log) + 1
<1>1. Holds(e)' = Holds(e) \cup (IF ch.of = e THEN {Len(log) + 1} ELSE {})
      BY Appended DEF Holds
<1>2. \A i \in Holds(e) : Stays(i) => Stays(i)'
      BY Appended DEF Holds, Stays
<1> QED BY <1>1, <1>2, Appended DEF Kept, Holds

\* Every step leaves the file alone or is a write.
LEMMA LogStep ==
  ASSUME [Hist!Next]_(Hist!vars)
  PROVE  log' = log \/ \E j \in Hist!Job : Hist!Write(j)
BY DEF Hist!Next, Hist!vars, Hist!Arrive, Hist!LockInbox, Hist!Lock,
     Hist!Look, Hist!Settle, Hist!Tell, Hist!Ask, Hist!GiveUp, Hist!Return,
     Hist!Kill, Hist!Restart

\* A step that does not write changes nothing that is in the file.
LEMMA Same ==
  ASSUME log' = log
  PROVE  /\ Hist!EndsOpen' = Hist!EndsOpen
         /\ \A e : Holds(e)' = Holds(e) /\ (Kept(e)' <=> Kept(e))
BY DEF Hist!EndsOpen, Holds, Kept, Stays

----------------------------------------------------------------------------
(* Types and locks.                                                         *)

\* A write appends one chunk of its entry, whole if it is then saved, or
\* leaves the file alone.
LEMMA WriteAppends ==
  ASSUME Hist!ConstantsOK, Hist!TypeOK, NEW j \in Hist!Job, Hist!Write(j)
  PROVE  \/ log' = log /\ job' = [job EXCEPT ![j] = "failed"]
         \/ \E ch \in ChunkSet :
              /\ ch.of = j.of /\ ch.nl = fresh[j]
              /\ log' = Append(log, ch) /\ log' \in Seq(ChunkSet)
              /\ \/ /\ ch.cut = "no"
                    /\ glued' = glued
                    /\ \E r \in {"saved", "failed"} :
                         job' = [job EXCEPT ![j] = r]
                 \/ /\ glued' = glued \cup Hist!Surprised(j)
                    /\ job' = [job EXCEPT ![j] = "failed"]
<1>1. \A cut \in {"no", "newline", "part"} :
        LET ch == Hist!Chunk(j.of, fresh[j], cut)
        IN  /\ ch \in ChunkSet
            /\ ch.of = j.of /\ ch.nl = fresh[j] /\ ch.cut = cut
      BY JobForms DEF Hist!TypeOK, Hist!Chunk, ChunkSet
<1>2. \A ch \in ChunkSet : Append(log, ch) \in Seq(ChunkSet)
      BY AppendProperties DEF Hist!TypeOK, ChunkSet
<1> QED BY <1>1, <1>2 DEF Hist!Write, Hist!Go

\* The types of the history file.
LEMMA TypeStep ==
  ASSUME Hist!ConstantsOK, Hist!TypeOK, [Hist!Next]_(Hist!vars)
  PROVE  Hist!TypeOK'
<1> USE Jobs DEF Hist!TypeOK, Hist!Where, Hist!jobVars, Hist!muVars,
        Hist!cmdVars
<1>1. ASSUME NEW j \in Hist!Job, Hist!Arrive(j) PROVE Hist!TypeOK'
      BY <1>1 DEF Hist!Arrive, Hist!Go
<1>2. ASSUME NEW j \in Hist!Job, Hist!LockInbox(j) PROVE Hist!TypeOK'
      BY <1>2 DEF Hist!LockInbox, Hist!MayDeliver, Hist!Go
<1>3. ASSUME NEW j \in Hist!Job, Hist!Lock(j) PROVE Hist!TypeOK'
      BY <1>3 DEF Hist!Lock, Hist!MayLock, Hist!Go
<1>4. ASSUME NEW j \in Hist!Job, Hist!Look(j) PROVE Hist!TypeOK'
  <2>1. job' \in [Hist!Job -> Hist!Where] /\ storeMu' \in Hist!Job \cup {None}
        BY <1>4 DEF Hist!Look, Hist!Unlocked, Hist!Go
  <2>2. Hist!EndsOpen \in BOOLEAN
        BY DEF Hist!EndsOpen
  <2>3. fresh' \in [Hist!Job -> BOOLEAN] /\ glued' \subseteq Hist!Job
        BY <1>4, <2>2 DEF Hist!Look
  <2> QED BY <1>4, <2>1, <2>3 DEF Hist!Look
<1>5. ASSUME NEW j \in Hist!Job, Hist!Write(j) PROVE Hist!TypeOK'
  <2>1. job' \in [Hist!Job -> Hist!Where]
        BY <1>5 DEF Hist!Write, Hist!Go
  <2>2. storeMu' \in Hist!Job \cup {None}
        BY <1>5 DEF Hist!Write, Hist!Unlocked
  <2>3. fresh' \in [Hist!Job -> BOOLEAN]
        BY <1>5 DEF Hist!Write
  <2>4. cuts' \in 0..MaxCuts /\ glued' \subseteq Hist!Job
        BY <1>5 DEF Hist!Write, Hist!Surprised
  <2>5. log' \in Seq(ChunkSet)
        BY <1>5, WriteAppends DEF ChunkSet
  <2> QED BY <1>5, <2>1, <2>2, <2>3, <2>4, <2>5 DEF Hist!Write, ChunkSet
<1>6. ASSUME NEW j \in Hist!Job, Hist!Settle(j) PROVE Hist!TypeOK'
  <2>1. job' \in [Hist!Job -> Hist!Where]
        BY <1>6 DEF Hist!Settle, Hist!Go
  <2>2. printed' \in Seq(Message)
        BY <1>6, AppendProperties DEF Hist!Settle
  <2> QED BY <1>6, <2>1, <2>2 DEF Hist!Settle
<1>7. ASSUME NEW j \in Hist!Job, Hist!Tell(j) PROVE Hist!TypeOK'
      BY <1>7 DEF Hist!Tell, Hist!MayTell, Hist!Go
<1>8. ASSUME NEW c \in Command, Hist!Ask(c) PROVE Hist!TypeOK'
      BY <1>8 DEF Hist!Ask, Hist!Go
<1>9. ASSUME NEW c \in Command, Hist!GiveUp(c) PROVE Hist!TypeOK'
      BY <1>9 DEF Hist!GiveUp, Hist!Go
<1>10. ASSUME NEW c \in Command, Hist!Return(c) PROVE Hist!TypeOK'
      BY <1>10 DEF Hist!Return, Hist!Known
<1>11. CASE Hist!Kill
      BY <1>11 DEF Hist!Kill
<1>12. CASE Hist!Restart
      BY <1>12 DEF Hist!Restart
<1>13. CASE UNCHANGED Hist!vars
      BY <1>13 DEF Hist!vars
<1> QED BY <1>1, <1>2, <1>3, <1>4, <1>5, <1>6, <1>7, <1>8,
           <1>9, <1>10, <1>11, <1>12, <1>13 DEF Hist!Next

\* The two mutexes are held by the jobs that say so (Append, store).
LEMMA LocksStep ==
  ASSUME Hist!ConstantsOK, Hist!TypeOK, Locks, [Hist!Next]_(Hist!vars)
  PROVE  Locks'
<1> USE Jobs DEF Hist!TypeOK, Hist!Where, Locks, Hist!jobVars, Hist!muVars,
        Hist!cmdVars
<1>1. ASSUME NEW j \in Hist!Job, Hist!Arrive(j) PROVE Locks'
      BY <1>1 DEF Hist!Arrive, Hist!Go
<1>2. ASSUME NEW j \in Hist!Job, Hist!LockInbox(j) PROVE Locks'
      BY <1>2 DEF Hist!LockInbox, Hist!MayDeliver, Hist!Go
<1>3. ASSUME NEW j \in Hist!Job, Hist!Lock(j) PROVE Locks'
      BY <1>3 DEF Hist!Lock, Hist!MayLock, Hist!Go
<1>4. ASSUME NEW j \in Hist!Job, Hist!Look(j) PROVE Locks'
      BY <1>4 DEF Hist!Look, Hist!Unlocked, Hist!Go
<1>5. ASSUME NEW j \in Hist!Job, Hist!Write(j) PROVE Locks'
      BY <1>5 DEF Hist!Write, Hist!Unlocked, Hist!Go
<1>6. ASSUME NEW j \in Hist!Job, Hist!Settle(j) PROVE Locks'
      BY <1>6 DEF Hist!Settle, Hist!Go
<1>7. ASSUME NEW j \in Hist!Job, Hist!Tell(j) PROVE Locks'
      BY <1>7 DEF Hist!Tell, Hist!MayTell, Hist!Go
<1>8. ASSUME NEW c \in Command, Hist!Ask(c) PROVE Locks'
      BY <1>8, JobParts DEF Hist!Ask, Hist!Go
<1>9. ASSUME NEW c \in Command, Hist!GiveUp(c) PROVE Locks'
      BY <1>9, JobParts DEF Hist!GiveUp, Hist!Go
<1>10. ASSUME NEW c \in Command, Hist!Return(c) PROVE Locks'
      BY <1>10 DEF Hist!Return, Hist!Known
<1>11. CASE Hist!Kill
      BY <1>11, JobForms DEF Hist!Kill
<1>12. CASE Hist!Restart
      BY <1>12 DEF Hist!Restart
<1>13. CASE UNCHANGED Hist!vars
      BY <1>13 DEF Hist!vars
<1> QED BY <1>1, <1>2, <1>3, <1>4, <1>5, <1>6, <1>7, <1>8,
           <1>9, <1>10, <1>11, <1>12, <1>13 DEF Hist!Next

\* What a writer saw of the last line stays true until it writes (Append).
LEMMA FreshStep ==
  ASSUME Hist!ConstantsOK, Hist!TypeOK, Locks, LooksAreFresh,
         [Hist!Next]_(Hist!vars)
  PROVE  LooksAreFresh'
<1> USE Jobs DEF Hist!TypeOK, Hist!Where, LooksAreFresh, Hist!EndsOpen,
        Hist!jobVars, Hist!muVars, Hist!cmdVars
<1>1. ASSUME NEW j \in Hist!Job, Hist!Arrive(j) PROVE LooksAreFresh'
      BY <1>1 DEF Hist!Arrive, Hist!Go
<1>2. ASSUME NEW j \in Hist!Job, Hist!LockInbox(j) PROVE LooksAreFresh'
      BY <1>2 DEF Hist!LockInbox, Hist!MayDeliver, Hist!Go
<1>3. ASSUME NEW j \in Hist!Job, Hist!Lock(j) PROVE LooksAreFresh'
      BY <1>3 DEF Hist!Lock, Hist!MayLock, Hist!Go
<1>4. ASSUME NEW j \in Hist!Job, Hist!Look(j) PROVE LooksAreFresh'
      BY <1>4 DEF Hist!Look, Hist!Unlocked, Hist!Go
<1>5. ASSUME NEW j \in Hist!Job, Hist!Write(j) PROVE LooksAreFresh'
  <2> SUFFICES ASSUME NEW k \in Hist!Job, job'[k] = "write", ~fresh'[k],
                      k \notin glued'
               PROVE  ~Hist!EndsOpen'
      OBVIOUS
  <2>1. k # j /\ job[k] = "write" /\ ~fresh[k]
        BY <1>5 DEF Hist!Write, Hist!Go
  <2>2. CASE log' = log
        BY <1>5, <2>1, <2>2 DEF Hist!Write
  <2>3. ASSUME NEW ch \in ChunkSet, log' = Append(log, ch), ch.cut = "no"
        PROVE  ~Hist!EndsOpen'
        BY <2>3, Appended DEF ChunkSet
  <2>4. k \in Hist!Surprised(j)
        BY <1>5, <2>1, JobForms DEF Hist!Surprised, Hist!Write, Locks
  <2> QED BY <1>5, <2>2, <2>3, <2>4, WriteAppends
<1>6. ASSUME NEW j \in Hist!Job, Hist!Settle(j) PROVE LooksAreFresh'
      BY <1>6 DEF Hist!Settle, Hist!Go
<1>7. ASSUME NEW j \in Hist!Job, Hist!Tell(j) PROVE LooksAreFresh'
      BY <1>7 DEF Hist!Tell, Hist!MayTell, Hist!Go
<1>8. ASSUME NEW c \in Command, Hist!Ask(c) PROVE LooksAreFresh'
      BY <1>8 DEF Hist!Ask, Hist!Go
<1>9. ASSUME NEW c \in Command, Hist!GiveUp(c) PROVE LooksAreFresh'
      BY <1>9 DEF Hist!GiveUp, Hist!Go
<1>10. ASSUME NEW c \in Command, Hist!Return(c) PROVE LooksAreFresh'
      BY <1>10 DEF Hist!Return, Hist!Known
<1>11. CASE Hist!Kill
      BY <1>11, JobForms DEF Hist!Kill
<1>12. CASE Hist!Restart
      BY <1>12 DEF Hist!Restart
<1>13. CASE UNCHANGED Hist!vars
      BY <1>13 DEF Hist!vars
<1> QED BY <1>1, <1>2, <1>3, <1>4, <1>5, <1>6, <1>7, <1>8,
           <1>9, <1>10, <1>11, <1>12, <1>13 DEF Hist!Next

----------------------------------------------------------------------------
(* Writes.                                                                  *)

\* A job that writes does it for the first time.
LEMMA OnceStep ==
  ASSUME Hist!ConstantsOK, Hist!TypeOK, Once, [Hist!Next]_(Hist!vars)
  PROVE  Once'
<1> USE Jobs DEF Hist!TypeOK, Hist!Where, Hist!jobVars, Hist!muVars,
        Hist!cmdVars, Once, Holds
<1>1. ASSUME NEW j \in Hist!Job, Hist!Arrive(j) PROVE Once'
      BY <1>1, JobParts DEF Hist!Arrive, Hist!Go
<1>2. ASSUME NEW j \in Hist!Job, Hist!LockInbox(j) PROVE Once'
      BY <1>2 DEF Hist!LockInbox, Hist!MayDeliver, Hist!Go
<1>3. ASSUME NEW j \in Hist!Job, Hist!Lock(j) PROVE Once'
      BY <1>3 DEF Hist!Lock, Hist!MayLock, Hist!Go
<1>4. ASSUME NEW j \in Hist!Job, Hist!Look(j) PROVE Once'
  <2>1. /\ UNCHANGED <<log, cmd, gaveUp>> /\ job[j] = "look"
        /\ \E w \in {"write", "failed"} : job' = [job EXCEPT ![j] = w]
        BY <1>4 DEF Hist!Look, Hist!Go
  <2> QED BY <2>1
<1>5. ASSUME NEW j \in Hist!Job, Hist!Write(j) PROVE Once'
  <2>0. /\ job[j] = "write" /\ UNCHANGED <<cmd, gaveUp>>
        /\ job' \in [Hist!Job -> Hist!Where] /\ job'[j] \in {"saved", "failed"}
        /\ \A k \in Hist!Job \ {j} : job'[k] = job[k]
        BY <1>5 DEF Hist!Write, Hist!Go
  <2>1. CASE log' = log
        BY <2>0, <2>1
  <2>2. ASSUME NEW ch \in ChunkSet, ch.of = j.of, log' = Append(log, ch)
        PROVE  Once'
    <3>1. \A e : Holds(e)' = Holds(e) \cup
                   (IF j.of = e THEN {Len(log) + 1} ELSE {})
          BY <2>2, KeptStays DEF ChunkSet
    <3>3. ASSUME NEW k \in Hist!Job \ {j}, k.of = j.of, j.of \notin gaveUp
          PROVE  job[k] = "idle" /\ j.of \in Command
      <4>1. j.of \in Command /\ {j, k} = {Hist!Taken(j.of), Hist!Own(j.of)}
            BY <3>3, JobForms, OneJob
      <4>2. job[Hist!Taken(j.of)] = "idle" \/ job[Hist!Own(j.of)] = "idle"
            BY <3>3, <4>1
      <4> QED BY <2>0, <3>3, <4>1, <4>2
    <3>4. cmd[j.of] # "idle" \/ j.of \notin Command
          BY <2>0, JobForms
    <3>5. \A e \in Hist!Entry : e \notin gaveUp =>
            /\ \A i, k \in Holds(e)' : i = k
            /\ \A k \in Hist!Job :
                 k.of = e /\ job'[k] \in {"inbox", "lock", "look", "write"}
                   => Holds(e)' = {}
      <4> HIDE DEF Holds
      <4> QED BY <3>1, <2>0, <3>3, JobForms
    <3>6. \A k \in Hist!Job :
            k.of \notin Command /\ job'[k] = "idle" => Holds(k.of)' = {}
      <4> HIDE DEF Holds
      <4> QED BY <3>1, <2>0, OneJob
    <3>7. \A c \in Command :
            /\ cmd'[c] = "idle" =>
                 job'[Hist!Taken(c)] = "idle" /\ job'[Hist!Own(c)] = "idle"
                   /\ Holds(c)' = {}
            /\ c \notin gaveUp =>
                 job'[Hist!Taken(c)] = "idle" \/ job'[Hist!Own(c)] = "idle"
      <4> HIDE DEF Holds
      <4> QED BY <3>1, <2>0, <3>4, JobParts
    <3> QED
      <4> HIDE DEF Holds
      <4> QED BY <2>0, <3>5, <3>6, <3>7
  <2> QED BY <1>5, <2>1, <2>2, WriteAppends
<1>6. ASSUME NEW j \in Hist!Job, Hist!Settle(j) PROVE Once'
  <2>1. /\ UNCHANGED <<log, cmd, gaveUp>> /\ job[j] \in {"saved", "failed"}
        /\ \E w \in {"tell", "refused"} : job' = [job EXCEPT ![j] = w]
        BY <1>6 DEF Hist!Settle, Hist!Go
  <2> QED BY <2>1
<1>7. ASSUME NEW j \in Hist!Job, Hist!Tell(j) PROVE Once'
      BY <1>7 DEF Hist!Tell, Hist!MayTell, Hist!Go
<1>8. ASSUME NEW c \in Command, Hist!Ask(c) PROVE Once'
  <2>1. /\ UNCHANGED <<log, gaveUp>>
        /\ cmd[c] = "idle" /\ cmd'[c] # "idle"
        /\ \A d \in Command \ {c} : cmd'[d] = cmd[d]
        /\ \E k \in {Hist!Taken(c), Hist!Own(c)} :
             job' = [job EXCEPT ![k] = "lock"]
        BY <1>8 DEF Hist!Ask, Hist!Go
  <2>2. \A k \in Hist!Job :
          k \notin {Hist!Taken(c), Hist!Own(c)} => job'[k] = job[k]
        BY <2>1
  <2>3. \A k \in Hist!Job : k.of = c <=> k \in {Hist!Taken(c), Hist!Own(c)}
        BY JobForms, JobParts
  <2>4. /\ Holds(c) = {}
        /\ job[Hist!Taken(c)] = "idle" /\ job[Hist!Own(c)] = "idle"
        BY <2>1
  <2>5. \A e \in Hist!Entry : e \notin gaveUp =>
          \A k \in Hist!Job :
            k.of = e /\ job'[k] \in {"inbox", "lock", "look", "write"}
              => Holds(e) = {}
        BY <2>2, <2>3, <2>4
  <2>6. \A k \in Hist!Job :
          k.of \notin Command /\ job'[k] = "idle" => Holds(k.of) = {}
        BY <2>2, <2>3
  <2>7. \A d \in Command :
          /\ cmd'[d] = "idle" =>
               /\ job'[Hist!Taken(d)] = "idle" /\ job'[Hist!Own(d)] = "idle"
               /\ Holds(d) = {}
          /\ d \notin gaveUp =>
               job'[Hist!Taken(d)] = "idle" \/ job'[Hist!Own(d)] = "idle"
    <3> TAKE d \in Command
    <3>1. CASE d = c
          BY <2>1, <2>4, <3>1, JobParts
    <3>2. CASE d # c
          BY <2>1, <2>2, <2>3, <3>2, JobParts
    <3> QED BY <3>1, <3>2
  <2> QED BY <2>1, <2>5, <2>6, <2>7
<1>9. ASSUME NEW c \in Command, Hist!GiveUp(c) PROVE Once'
      BY <1>9, JobParts, JobForms DEF Hist!GiveUp, Hist!Go
<1>10. ASSUME NEW c \in Command, Hist!Return(c) PROVE Once'
      BY <1>10 DEF Hist!Return, Hist!Known
<1>11. CASE Hist!Kill
      BY <1>11, JobParts, JobForms DEF Hist!Kill
<1>12. CASE Hist!Restart
      BY <1>12 DEF Hist!Restart
<1>13. CASE UNCHANGED Hist!vars
      BY <1>13 DEF Hist!vars
<1> QED BY <1>1, <1>2, <1>3, <1>4, <1>5, <1>6, <1>7, <1>8,
           <1>9, <1>10, <1>11, <1>12, <1>13 DEF Hist!Next

\* What stays, stays: lines, marks, and jobs that are over.
LEMMA KeptStep ==
  ASSUME Hist!ConstantsOK, Hist!TypeOK, [Hist!Next]_(Hist!vars), NEW e,
         Kept(e)
  PROVE  Kept(e)'
<1>1. CASE log' = log
      BY <1>1, Same
<1>2. ASSUME NEW j \in Hist!Job, Hist!Write(j) PROVE Kept(e)'
      BY <1>2, WriteAppends, KeptStays, Same DEF Hist!TypeOK, ChunkSet
<1> QED BY <1>1, <1>2, LogStep

\* Only its own job writes a message.
LEMMA HoldsStep ==
  ASSUME Hist!ConstantsOK, Hist!TypeOK, [Hist!Next]_(Hist!vars),
         NEW m \in Message, job[Hist!Taken(m)] # "write"
  PROVE  Holds(m)' = Holds(m)
<1>1. CASE log' = log
      BY <1>1, Same
<1>2. ASSUME NEW j \in Hist!Job, Hist!Write(j) PROVE Holds(m)' = Holds(m)
  <2>1. j.of # m
        BY <1>2, OneJob, Jobs DEF Hist!Write
  <2>2. ASSUME NEW ch \in ChunkSet, ch.of = j.of, log' = Append(log, ch)
        PROVE  Holds(m)' = Holds(m)
    <3>1. log \in Seq(ChunkSet)
          BY DEF Hist!TypeOK, ChunkSet
    <3>2. Holds(m)' = Holds(m) \cup (IF ch.of = m THEN {Len(log) + 1} ELSE {})
          BY <2>2, <3>1, KeptStays
    <3> QED BY <2>1, <2>2, <3>2
  <2> QED BY <1>2, <2>2, WriteAppends, Same
<1> QED BY <1>1, <1>2, LogStep

\* A job whose write was glued to a broken line stays marked.
LEMMA MarksStay ==
  ASSUME [Hist!Next]_(Hist!vars) PROVE glued \subseteq glued'
BY DEF Hist!Next, Hist!vars, Hist!Arrive, Hist!LockInbox, Hist!Lock,
     Hist!Look, Hist!Write, Hist!Settle, Hist!Tell, Hist!Ask, Hist!GiveUp,
     Hist!Return, Hist!Kill, Hist!Restart

\* A job is saved by its write only, and one that is over stays so.
LEMMA JobStep ==
  ASSUME Hist!ConstantsOK, Hist!TypeOK, [Hist!Next]_(Hist!vars),
         NEW j \in Hist!Job
  PROVE  /\ job'[j] = "saved" => job[j] = "saved" \/ Hist!Write(j)
         /\ job'[j] = "tell" =>
              job[j] = "tell" \/ (job[j] = "saved" /\ Hist!Settle(j))
         /\ job'[j] = "answered" /\ j.of \notin Upload
              => job[j] \in {"answered", "tell", "saved"}
         /\ job[j] \in {"tell", "answered", "dead"} /\ j.of \in Message
              => job'[j] \in {"tell", "answered", "dead"}
<1> USE Jobs DEF Hist!TypeOK, Hist!Where, Hist!jobVars, Hist!muVars,
        Hist!cmdVars
<1> DEFINE Goal == 
         /\ job'[j] = "saved" => job[j] = "saved" \/ Hist!Write(j)
         /\ job'[j] = "tell" =>
              job[j] = "tell" \/ (job[j] = "saved" /\ Hist!Settle(j))
         /\ job'[j] = "answered" /\ j.of \notin Upload
              => job[j] \in {"answered", "tell", "saved"}
         /\ job[j] \in {"tell", "answered", "dead"} /\ j.of \in Message
              => job'[j] \in {"tell", "answered", "dead"}
<1>1. ASSUME NEW k \in Hist!Job, Hist!Arrive(k) PROVE Goal
      BY <1>1, JobParts DEF Hist!Arrive, Hist!Go
<1>2. ASSUME NEW k \in Hist!Job, Hist!LockInbox(k) PROVE Goal
      BY <1>2, JobParts DEF Hist!LockInbox, Hist!MayDeliver, Hist!Go
<1>3. ASSUME NEW k \in Hist!Job, Hist!Lock(k) PROVE Goal
      BY <1>3, JobParts DEF Hist!Lock, Hist!MayLock, Hist!Go
<1>4. ASSUME NEW k \in Hist!Job, Hist!Look(k) PROVE Goal
      BY <1>4, JobParts DEF Hist!Look, Hist!Unlocked, Hist!Go
<1>5. ASSUME NEW k \in Hist!Job, Hist!Write(k) PROVE Goal
  <2>1. /\ job[k] = "write" /\ job'[k] \in {"saved", "failed"}
        /\ \A l \in Hist!Job \ {k} : job'[l] = job[l]
        BY <1>5 DEF Hist!Write, Hist!Go
  <2> QED BY <1>5, <2>1
<1>6. ASSUME NEW k \in Hist!Job, Hist!Settle(k) PROVE Goal
      BY <1>6, JobParts DEF Hist!Settle, Hist!Go
<1>7. ASSUME NEW k \in Hist!Job, Hist!Tell(k) PROVE Goal
      BY <1>7, JobParts DEF Hist!Tell, Hist!MayTell, Hist!Go
<1>8. ASSUME NEW c \in Command, Hist!Ask(c) PROVE Goal
      BY <1>8, JobParts DEF Hist!Ask, Hist!Go
<1>9. ASSUME NEW c \in Command, Hist!GiveUp(c) PROVE Goal
      BY <1>9, JobParts DEF Hist!GiveUp, Hist!Go
<1>10. ASSUME NEW c \in Command, Hist!Return(c) PROVE Goal
      BY <1>10, JobParts DEF Hist!Return, Hist!Known
<1>11. CASE Hist!Kill
      BY <1>11 DEF Hist!Kill
<1>12. CASE Hist!Restart
      BY <1>12 DEF Hist!Restart
<1>13. CASE UNCHANGED Hist!vars
      BY <1>13 DEF Hist!vars
<1> QED BY <1>1, <1>2, <1>3, <1>4, <1>5, <1>6, <1>7, <1>8,
           <1>9, <1>10, <1>11, <1>12, <1>13 DEF Hist!Next

----------------------------------------------------------------------------
(* What was reported, and what is printed.                                  *)

\* The line of a write that is saved stays, unless the job is glued.
LEMMA WriteKeeps ==
  ASSUME Hist!ConstantsOK, Hist!TypeOK, LooksAreFresh,
         NEW j \in Hist!Job, Hist!Write(j), job'[j] = "saved", j \notin glued'
  PROVE  Kept(j.of)'
<1>1. /\ job[j] = "write" /\ glued \subseteq glued'
      /\ job \in [Hist!Job -> Hist!Where]
      BY DEF Hist!Write, Hist!TypeOK
<1>2. fresh[j] \/ ~Hist!EndsOpen
      BY <1>1 DEF LooksAreFresh
<1>3. PICK ch \in ChunkSet :
        /\ ch.of = j.of /\ ch.nl = fresh[j] /\ ch.cut = "no"
        /\ log' = Append(log, ch)
      BY <1>1, WriteAppends
<1>4. log \in Seq(ChunkSet)
      BY DEF Hist!TypeOK, ChunkSet
<1> DEFINE here == Len(log) + 1
<1>5. PICK n : n = here
      OBVIOUS
<1>6. n \in Holds(j.of)'
      BY <1>3, <1>4, <1>5, KeptStays
<1>7. Stays(n)'
  <2>1. /\ Len(log) \in Nat /\ n = Len(log) + 1 /\ log'[n] = ch
        /\ \A i \in 1..Len(log) : log'[i] = log[i]
        BY <1>3, <1>4, <1>5, Appended
  <2>2. CASE fresh[j]
        BY <1>3, <2>1, <2>2 DEF Stays
  <2>3. CASE ~Hist!EndsOpen
    <3>1. Len(log) = 0 \/ log[Len(log)].cut = "no"
          BY <1>4, <2>3 DEF Hist!EndsOpen
    <3> QED BY <1>3, <2>1, <3>1 DEF Stays
  <2> QED BY <1>2, <2>2, <2>3
<1> QED BY <1>6, <1>7 DEF Kept

\* What was saved stays in the file, whatever is written later.
LEMMA SavedStep ==
  ASSUME Hist!ConstantsOK, Hist!TypeOK, LooksAreFresh, SavedIsKept,
         [Hist!Next]_(Hist!vars)
  PROVE  SavedIsKept'
<1>1. ASSUME NEW j \in Hist!Job, j.of \notin Upload, j \notin glued',
             job'[j] \in {"saved", "tell", "answered"}
      PROVE  Kept(j.of)'
  <2>1. CASE job[j] \in {"saved", "tell", "answered"}
    <3>1. Kept(j.of)
          BY <1>1, <2>1, MarksStay DEF SavedIsKept
    <3> QED BY <3>1, KeptStep
  <2>2. CASE job'[j] = "saved" /\ Hist!Write(j)
        BY <1>1, <2>2, WriteKeeps
  <2> QED BY <1>1, <2>1, <2>2, JobStep
<1>2. ASSUME NEW c \in Command, cmd'[c] = "ok", ~Hist!Glued(c)' PROVE Kept(c)'
  <2>1. ~Hist!Glued(c)
        BY <1>2, MarksStay DEF Hist!Glued
  <2>2. CASE cmd[c] = "ok"
        BY <2>1, <2>2, KeptStep DEF SavedIsKept
  <2>3. CASE Hist!Return(c) /\ cmd[c] # "ok"
    <3>1. job[Hist!Taken(c)] = "answered" \/ job[Hist!Own(c)] = "saved"
          BY <1>2, <2>3 DEF Hist!Return, Hist!Known, Hist!TypeOK
    <3>2. c \notin Upload
          BY DEF Hist!ConstantsOK
    <3>3. Kept(c)
          BY <2>1, <3>1, <3>2, Jobs, JobParts DEF SavedIsKept, Hist!Glued
    <3> QED BY <3>3, KeptStep
  <2>4. cmd[c] = "ok" \/ Hist!Return(c)
        BY <1>2 DEF Hist!Next, Hist!vars, Hist!cmdVars, Hist!TypeOK,
             Hist!Arrive, Hist!LockInbox, Hist!Lock, Hist!Look, Hist!Write,
             Hist!Settle, Hist!Tell, Hist!Ask, Hist!GiveUp, Hist!Return,
             Hist!Kill, Hist!Restart
  <2> QED BY <2>2, <2>3, <2>4
<1> QED BY <1>1, <1>2 DEF SavedIsKept

\* Printing is the only step that changes what is printed.
LEMMA PrintStep ==
  ASSUME [Hist!Next]_(Hist!vars)
  PROVE  \/ printed' = printed
         \/ \E j \in Hist!Job : /\ Hist!Settle(j) /\ job[j] = "saved"
                           /\ printed' = Append(printed, j.of)
BY DEF Hist!Next, Hist!vars, Hist!Arrive, Hist!LockInbox, Hist!Lock,
     Hist!Look, Hist!Write, Hist!Settle, Hist!Tell, Hist!Ask, Hist!GiveUp,
     Hist!Return, Hist!Kill, Hist!Restart

\* Messages are printed in the order of their writes.
LEMMA PrintedStep ==
  ASSUME Hist!ConstantsOK, HistInv, [Hist!Next]_(Hist!vars)
  PROVE  PrintedBehind'
<1> USE DEF HistInv
<1>0. printed \in Seq(Message) /\ Len(printed) \in Nat
      BY DEF Hist!TypeOK
\* What holds of the messages that were printed before.
<1>1. ASSUME NEW n \in DOMAIN printed, NEW m, m = printed[n]
      PROVE  /\ m \in Message
             /\ job'[Hist!Taken(m)] \in {"tell", "answered", "dead"}
             /\ ~Hist!Glued(m)' => Kept(m)'
             /\ Holds(m)' = Holds(m)
  <2>1. m \in Message /\ Hist!Taken(m) \in Hist!Job /\ Hist!Taken(m).of = m
        BY <1>0, <1>1, Jobs, JobParts
  <2>2. job[Hist!Taken(m)] \in {"tell", "answered", "dead"}
        BY <1>1 DEF PrintedBehind
  <2>3. job'[Hist!Taken(m)] \in {"tell", "answered", "dead"}
        BY <2>1, <2>2, JobStep
  <2>4. ~Hist!Glued(m)' => Kept(m)'
    <3>1. ~Hist!Glued(m)' => ~Hist!Glued(m)
          BY MarksStay DEF Hist!Glued
    <3>2. ~Hist!Glued(m) => Kept(m)
          BY <1>1 DEF PrintedBehind
    <3> QED BY <3>1, <3>2, KeptStep
  <2>5. Holds(m)' = Holds(m)
        BY <2>1, <2>2, HoldsStep
  <2> QED BY <2>1, <2>3, <2>4, <2>5
\* A message that was written comes behind them.
<1>2. ASSUME NEW j \in Hist!Job, j.of \in Message, job'[j] = "saved",
             NEW n \in DOMAIN printed, NEW m, m = printed[n]
      PROVE  \A a \in Holds(m), b \in Holds(j.of)' : a < b
  <2>1. j = Hist!Taken(j.of) /\ j.of \notin Command /\ j.of \in Hist!Entry
        BY <1>2, OneJob, Jobs
  <2>2. CASE job[j] = "saved"
    <3>1. Holds(j.of)' = Holds(j.of)
          BY <1>2, <2>1, <2>2, HoldsStep
    <3> QED BY <1>2, <2>2, <3>1 DEF PrintedBehind
  <2>3. CASE Hist!Write(j)
    <3>1. Holds(j.of) = {}
          BY <2>1, <2>3 DEF Once, Hist!Write, Hist!TypeOK
    <3>2. CASE log' = log
          BY <3>1, <3>2, Same
    <3>3. ASSUME NEW ch \in ChunkSet, ch.of = j.of, log' = Append(log, ch)
          PROVE  \A a \in Holds(m), b \in Holds(j.of)' : a < b
      <4>1. log \in Seq(ChunkSet)
            BY DEF Hist!TypeOK, ChunkSet
      <4>2. Holds(j.of)' = {Len(log) + 1}
            BY <3>1, <3>3, <4>1, KeptStays
      <4>3. \A a \in Holds(m) : a < Len(log) + 1
            BY <3>3, <4>1, KeptStays
      <4> QED BY <4>2, <4>3
    <3> QED BY <2>3, <3>2, <3>3, WriteAppends
  <2> QED BY <1>2, <2>2, <2>3, JobStep
\* The order among them.
<1>3. ASSUME NEW i \in DOMAIN printed, NEW k \in DOMAIN printed, i < k,
             NEW m, m = printed[i], NEW o, o = printed[k]
      PROVE  \A a \in Holds(m)', b \in Holds(o)' : a < b
      BY <1>1, <1>3 DEF PrintedBehind
<1>4. CASE printed' = printed
      BY <1>1, <1>2, <1>3, <1>4 DEF PrintedBehind
<1>5. ASSUME NEW j \in Hist!Job, Hist!Settle(j), job[j] = "saved",
             printed' = Append(printed, j.of)
      PROVE  PrintedBehind'
  <2>1. /\ j.of \in Message /\ j = Hist!Taken(j.of)
        /\ job' = [job EXCEPT ![j] = "tell"]
        /\ UNCHANGED <<log, glued>> /\ inboxMu = j
        BY <1>5, OneJob, Jobs DEF Hist!Settle, Hist!Go, Locks
  <2>2. /\ DOMAIN printed' = 1..(Len(printed) + 1)
        /\ DOMAIN printed = 1..Len(printed)
        /\ printed'[Len(printed) + 1] = j.of
        /\ \A n \in DOMAIN printed : printed'[n] = printed[n]
        BY <1>0, <1>5, <2>1, AppendProperties
  <2>3. ~Hist!Glued(j.of)' => Kept(j.of)'
    <3>1. ~Hist!Glued(j.of) => Kept(j.of)
          BY <1>5, <2>1, Jobs DEF SavedIsKept, Hist!Glued
    <3>2. ~Hist!Glued(j.of)' => ~Hist!Glued(j.of)
          BY MarksStay DEF Hist!Glued
    <3> QED BY <3>1, <3>2, KeptStep
  <2>4. Holds(j.of)' = Holds(j.of)
        BY <2>1, Same
  <2>5. \A k \in Hist!Job : k.of \in Message => job'[k] # "saved"
        BY <2>1 DEF Locks, Hist!TypeOK
  <2>6. \A n \in DOMAIN printed' :
          /\ job'[Hist!Taken(printed'[n])] \in {"tell", "answered", "dead"}
          /\ ~Hist!Glued(printed[n])' => Kept(printed[n])'
    <3> TAKE n \in DOMAIN printed'
    <3>1. CASE n \in DOMAIN printed
          BY <1>1, <2>2, <3>1
    <3>2. CASE n = Len(printed) + 1
          BY <2>1, <2>2, <2>3, <3>2 DEF Hist!TypeOK
    <3> QED BY <1>0, <2>2, <3>1, <3>2
  <2>7. \A i, k \in DOMAIN printed' :
          i < k =>
            \A a \in Holds(printed[i])', b \in Holds(printed[k])' : a < b
    <3> TAKE i, k \in DOMAIN printed'
    <3>1. CASE i \in DOMAIN printed /\ k \in DOMAIN printed
          BY <1>3, <2>2, <3>1
    <3>2. CASE i \in DOMAIN printed /\ k = Len(printed) + 1
          BY <1>1, <1>5, <2>1, <2>2, <2>4, <3>2 DEF PrintedBehind
    <3> QED BY <1>0, <2>2, <3>1, <3>2
  <2> QED BY <2>5, <2>6, <2>7 DEF PrintedBehind
<1> QED BY <1>4, <1>5, PrintStep

----------------------------------------------------------------------------
(* Theorems.                                                                *)

\* The invariant holds of an empty file.
LEMMA HistStart == ASSUME Hist!ConstantsOK PROVE Hist!Init => HistInv
<1> SUFFICES ASSUME Hist!Init PROVE HistInv
    OBVIOUS
<1>1. Hist!TypeOK
  <2>1. up \in BOOLEAN /\ fresh \in [Hist!Job -> BOOLEAN]
        BY DEF Hist!Init
  <2>2. log \in Seq(ChunkSet) /\ printed \in Seq(Message)
        BY DEF Hist!Init
  <2>3. job \in [Hist!Job -> Hist!Where]
        BY DEF Hist!Init, Hist!Where
  <2>4. /\ storeMu \in Hist!Job \cup {None} /\ inboxMu \in Hist!Job \cup {None}
        /\ cmd \in [Command -> {"idle", "asks", "appends", "ok", "warned"}]
        /\ gaveUp \subseteq Command /\ glued \subseteq Hist!Job
        /\ cuts \in 0..MaxCuts
        BY Jobs DEF Hist!Init
  <2> QED BY <2>1, <2>2, <2>3, <2>4 DEF Hist!TypeOK, ChunkSet
<1>2. Locks /\ LooksAreFresh
      BY DEF Hist!Init, Locks, LooksAreFresh
<1>3. \A e : Holds(e) = {}
      BY DEF Hist!Init, Holds
<1>4. Once
      BY <1>3, Jobs DEF Hist!Init, Once
<1>5. SavedIsKept
  <2>1. /\ \A j \in Hist!Job : job[j] \notin {"saved", "tell", "answered"}
        /\ \A c \in Command : cmd[c] # "ok"
        BY DEF Hist!Init
  <2> QED BY <2>1 DEF SavedIsKept
<1>6. PrintedBehind
      BY DEF Hist!Init, PrintedBehind
<1> QED BY <1>1, <1>2, <1>4, <1>5, <1>6 DEF HistInv

\* Every step of the writers keeps the invariant.
LEMMA HistStep ==
  ASSUME Hist!ConstantsOK, HistInv, [Hist!Next]_(Hist!vars) PROVE HistInv'
BY TypeStep, LocksStep, FreshStep, OnceStep, SavedStep, PrintedStep
   DEF HistInv

\* In every reachable state of the file, its writers and what is printed
\* (Append, recordSent, Inbox.store).
THEOREM HistoryHolds == FilesSpec => []HistInv
<1>1. FilesInit => HistInv
      BY PartsConstants, HistStart DEF FilesInit
<1>2. HistInv /\ [FilesNext]_filesVars => HistInv'
  <2>1. [FilesNext]_filesVars => [Hist!Next]_(Hist!vars)
        BY DEF FilesNext, Picks, Peers, History, Identity, filesVars,
               historyVars, Hist!vars
  <2> QED BY <2>1, PartsConstants, HistStep
<1> QED BY <1>1, <1>2, PTL DEF FilesSpec

\* Chunks that stay are lines, and lines are chunks.
LEMMA LinesAreHolds ==
  ASSUME NEW e
  PROVE  /\ Hist!LinesOf(e) \subseteq Holds(e)
         /\ Kept(e) => Hist!LinesOf(e) # {}
BY DEF Hist!LinesOf, Holds, Kept, Stays, Hist!Readable

\* What was reported as saved can be read, and once, with the exceptions the
\* property names, for any number of writers (Append, recordSent).
THEOREM SavedOnce == FilesSpec => []EntriesSavedOnce
<1>1. HistInv => EntriesSavedOnce
  <2> SUFFICES ASSUME HistInv, NEW e \in Hist!Entry
               PROVE  /\ Hist!Promised(e) /\ ~Hist!Glued(e) =>
                           Hist!LinesOf(e) # {}
                      /\ e \notin gaveUp => \A i, k \in Hist!LinesOf(e) : i = k
      BY DEF EntriesSavedOnce, Hist!EntriesSavedOnce
  <2>1. ASSUME Hist!Promised(e), ~Hist!Glued(e) PROVE Kept(e)
    <3>1. CASE job[Hist!Taken(e)] \in {"tell", "answered"} /\ e \notin Upload
          BY <2>1, <3>1, PartsConstants, Jobs, JobParts
             DEF HistInv, SavedIsKept, Hist!Glued
    <3>2. CASE e \in Command /\ cmd[e] = "ok"
          BY <2>1, <3>2 DEF HistInv, SavedIsKept
    <3> QED BY <2>1, <3>1, <3>2 DEF Hist!Promised
  <2>2. e \notin gaveUp => \A i, k \in Hist!LinesOf(e) : i = k
        BY LinesAreHolds DEF HistInv, Once
  <2> QED BY <2>1, <2>2, LinesAreHolds
<1>2. FilesSpec => []HistInv
      BY HistoryHolds
<1> QED BY <1>1, <1>2, PTL

\* Messages are printed in the order of their lines, and never without one that
\* was to be there (Inbox.store).
THEOREM PrintOrder == FilesSpec => []PrintedAsSaved
<1>1. HistInv => PrintedAsSaved
  <2> SUFFICES ASSUME HistInv,
                      NEW i \in DOMAIN printed, NEW k \in DOMAIN printed,
                      NEW e, e = printed[i], NEW f, f = printed[k]
               PROVE  /\ Hist!LinesOf(e) # {} \/ Hist!Glued(e)
                      /\ i < k /\ Hist!LinesOf(e) # {} /\ Hist!LinesOf(f) # {}
                           => Hist!First(e) < Hist!First(f)
      BY DEF PrintedAsSaved, Hist!PrintedAsSaved
  <2>1. Hist!LinesOf(e) # {} \/ Hist!Glued(e)
        BY LinesAreHolds DEF HistInv, PrintedBehind
  <2>2. ASSUME NEW m \in Message, Hist!LinesOf(m) # {}
        PROVE  Hist!First(m) \in Holds(m)
    <3>1. m \in Hist!Entry /\ m \notin gaveUp
          BY PartsConstants, Jobs DEF HistInv, Hist!TypeOK
    <3>2. \A a, b \in Hist!LinesOf(m) : a = b
          BY <3>1, LinesAreHolds DEF HistInv, Once
    <3>3. \A a \in Hist!LinesOf(m) : a \in Nat
          BY DEF Hist!LinesOf, HistInv, Hist!TypeOK
    <3>4. \E a \in Hist!LinesOf(m) : \A b \in Hist!LinesOf(m) : a <= b
          BY <2>2, <3>2, <3>3
    <3>5. Hist!First(m) \in Hist!LinesOf(m)
          BY <3>4 DEF Hist!First
    <3> QED BY <3>5, LinesAreHolds
  <2>3. e \in Message /\ f \in Message
        BY DEF HistInv, Hist!TypeOK
  <2> QED BY <2>1, <2>2, <2>3 DEF HistInv, PrintedBehind
<1>2. FilesSpec => []HistInv
      BY HistoryHolds
<1> QED BY <1>1, <1>2, PTL

----------------------------------------------------------------------------
(* Identity.                                                                *)

\* A file system with hard links, and a file that was never corrupt.
Sound == links /\ ~spoiled

\* What a call can rely on: without a corrupt file and with hard links nobody
\* renames, a link that failed has found an ID, and every ID returned is the
\* one in the file.
OneWriter ==
  Sound =>
    /\ idFile # Corrupt
    /\ \A p \in Process :
         /\ where[p] # "rename"
         /\ where[p] = "lost" => Ids!Valid(idFile)
         /\ where[p] \in {"clean", "done"} =>
              Ids!Valid(idFile) /\ got[p] = idFile

\* A temporary file belongs to a call between writeTemp and the deferred
\* Remove, or to one that was killed.
TempOwned ==
  \A p \in temp :
    where[p] \in {"link", "lost", "rename", "clean", "giveUp", "dead"}

\* The inductive invariant of the ID file.
IdsInv == Ids!TypeOK /\ OneWriter /\ TempOwned

\* It holds before the first process looks.
LEMMA IdsStart == ASSUME Ids!ConstantsOK PROVE Ids!Init => IdsInv
BY DEF Ids!ConstantsOK, Ids!Init, IdsInv, Ids!TypeOK, OneWriter, TempOwned,
     Sound, Ids!Valid

\* Every step of a process keeps it.
LEMMA IdsStep ==
  ASSUME Ids!ConstantsOK PROVE IdsInv /\ [Ids!Next]_(Ids!vars) => IdsInv'
<1> SUFFICES ASSUME IdsInv, [Ids!Next]_(Ids!vars) PROVE IdsInv'
    OBVIOUS
<1> USE DEF IdsInv
<1>1. ASSUME NEW p \in Process, Ids!Read(p) PROVE IdsInv'
  <2>1. Ids!TypeOK'
        BY <1>1 DEF Ids!Read, Ids!TypeOK, Ids!Go, Ids!Valid
  <2>2. OneWriter'
        BY <1>1 DEF Ids!Read, Ids!TypeOK, OneWriter, Sound, Ids!Go, Ids!Valid,
             Ids!ConstantsOK
  <2>3. TempOwned'
        BY <1>1 DEF Ids!Read, Ids!TypeOK, TempOwned, Ids!Go
  <2> QED BY <2>1, <2>2, <2>3
<1>2. ASSUME NEW p \in Process, Ids!ReadFails(p) PROVE IdsInv'
      BY <1>2 DEF Ids!ReadFails, Ids!TypeOK, OneWriter, TempOwned, Sound,
           Ids!Go, Ids!Valid
<1>3. ASSUME NEW p \in Process, Ids!WriteTemp(p) PROVE IdsInv'
      BY <1>3 DEF Ids!WriteTemp, Ids!TypeOK, OneWriter, TempOwned, Sound,
           Ids!Go, Ids!Valid
<1>4. ASSUME NEW p \in Process, Ids!Link(p) PROVE IdsInv'
  <2>1. Ids!TypeOK'
        BY <1>4 DEF Ids!Link, Ids!MayLink, Ids!TypeOK, Ids!Go
  <2>2. OneWriter'
        BY <1>4 DEF Ids!Link, Ids!MayLink, Ids!TypeOK, OneWriter, Sound,
             Ids!Go, Ids!Valid, Ids!ConstantsOK
  <2>3. TempOwned'
        BY <1>4 DEF Ids!Link, Ids!MayLink, Ids!TypeOK, TempOwned, Ids!Go
  <2> QED BY <2>1, <2>2, <2>3
<1>5. ASSUME NEW p \in Process, Ids!Rename(p) PROVE IdsInv'
  <2>1. Ids!TypeOK'
        BY <1>5 DEF Ids!Rename, Ids!TypeOK, Ids!Go
  <2>2. OneWriter'
        BY <1>5 DEF Ids!Rename, Ids!TypeOK, OneWriter, Sound, Ids!Go, Ids!Valid
  <2>3. TempOwned'
        BY <1>5 DEF Ids!Rename, Ids!TypeOK, TempOwned, Ids!Go
  <2> QED BY <2>1, <2>2, <2>3
<1>6. ASSUME NEW p \in Process, Ids!CleanUp(p) PROVE IdsInv'
      BY <1>6 DEF Ids!CleanUp, Ids!TypeOK, OneWriter, TempOwned, Sound,
           Ids!Go, Ids!Valid
<1>7. ASSUME NEW p \in Process, Ids!Kill(p) PROVE IdsInv'
      BY <1>7 DEF Ids!Kill, Ids!TypeOK, OneWriter, TempOwned, Sound, Ids!Go,
           Ids!Valid
<1>8. CASE UNCHANGED Ids!vars
      BY <1>8 DEF Ids!vars, Ids!TypeOK, OneWriter, TempOwned, Sound, Ids!Valid
<1> QED BY <1>1, <1>2, <1>3, <1>4, <1>5, <1>6, <1>7, <1>8 DEF Ids!Next

\* In every reachable state the calls are where IdsInv says (LoadOrCreate).
THEOREM CallsHold == FilesSpec => []IdsInv
<1>1. FilesInit => IdsInv
      BY PartsConstants, IdsStart DEF FilesInit
<1>2. IdsInv /\ [FilesNext]_filesVars => IdsInv'
  <2>1. [FilesNext]_filesVars => [Ids!Next]_(Ids!vars)
        BY DEF FilesNext, Picks, Peers, History, Identity, filesVars, idVars,
               Ids!vars
  <2> QED BY <2>1, PartsConstants, IdsStep
<1> QED BY <1>1, <1>2, PTL DEF FilesSpec

\* On a file system with hard links the callers share the ID in the file unless
\* it was corrupt, and a call that returned left no temporary file, for any
\* number of callers (LoadOrCreate).
THEOREM OneIdForAll == FilesSpec => []CallersShareOneId
<1>1. IdsInv => CallersShareOneId
      BY DEF IdsInv, OneWriter, TempOwned, Sound, CallersShareOneId,
             Ids!CallersShareOneId, Ids!Returned
<1>2. FilesSpec => []IdsInv
      BY CallsHold
<1> QED BY <1>1, <1>2, PTL

----------------------------------------------------------------------------
(* Registry.                                                                *)

\* A sighting keeps the list a list (Observe).
LEMMA ObservedType ==
  ASSUME NEW r \in List, NEW s \in Sighting, NEW now \in Int
  PROVE  Observed(r, s, now) \in List
<1>1. CASE s.port = 0
  <2>1. CASE s.id = NoId \/ r[s.id] = Nobody
    BY <1>1, <2>1 DEF Observed, Refreshed
  <2>2. CASE ~(s.id = NoId \/ r[s.id] = Nobody)
    <3>1. s.id \in Key
      BY <2>2 DEF Sighting, Key
    <3>2. r[s.id] \in Peer
      BY <2>2, <3>1 DEF List
    <3>3. [name |-> r[s.id].name, ip |-> s.ip, port |-> r[s.id].port,
           seen |-> now, online |-> TRUE] \in Peer
      BY <3>2 DEF Peer, Sighting
    <3> QED BY <1>1, <2>2, <3>1, <3>3 DEF Observed, Refreshed, List
  <2> QED BY <2>1, <2>2
<1>2. CASE s.port # 0
  <2>1. KeyOf(s) \in Key /\ Fold[s.name] \in Key
    BY FoldType DEF KeyOf, Sighting, Key
  <2>2. WithoutLegacy(r, s) \in List
    BY <2>1 DEF WithoutLegacy, List
  <2>3. [name |-> s.name, ip |-> s.ip, port |-> s.port,
         seen |-> now, online |-> TRUE] \in Peer
    BY <1>2 DEF Peer, Sighting
  <2> QED BY <1>2, <2>1, <2>2, <2>3 DEF Observed, Announced, List
<1> QED BY <1>1, <1>2

\* Going offline keeps a peer a peer.
LEMMA OfflineType ==
  ASSUME NEW p \in Peer
  PROVE  Offline(p) \in Peer
BY DEF Offline, Peer

\* What is shown of a peer is somebody.
LEMMA ViewIsSomebody ==
  ASSUME NEW r \in List, NEW k \in Key, r[k] # Nobody
  PROVE  View(r[k]) # Nobody
<1>1. r[k] \in Peer
  BY DEF List
<1>2. View(r[k]) \in Peer
  BY <1>1 DEF View, Peer
<1> QED BY <1>2, NobodyIsNoPeer

\* Tick keeps the list a list.
LEMMA TickedType ==
  ASSUME NEW r \in List, NEW now \in Int
  PROVE  Ticked(r, now) \in List
<1>1. ASSUME NEW k \in Key
      PROVE (IF Overdue(r[k], now) THEN Offline(r[k]) ELSE r[k])
              \in Peer \cup {Nobody}
  <2>1. CASE Overdue(r[k], now)
    <3>1. r[k] \in Peer
      BY <2>1 DEF Overdue, List
    <3> QED BY <2>1, <3>1, OfflineType
  <2>2. CASE ~Overdue(r[k], now)
    BY <2>2 DEF List
  <2> QED BY <2>1, <2>2
<1> QED BY <1>1 DEF Ticked, List

\* Load gives a list.
LEMMA LoadedType ==
  ASSUME NEW f \in List
  PROVE  Loaded(f) \in List
<1>1. ASSUME NEW k \in Key
      PROVE (IF f[k] = Nobody THEN Nobody ELSE Offline(f[k]))
              \in Peer \cup {Nobody}
  <2>1. CASE f[k] = Nobody
    BY <2>1
  <2>2. CASE f[k] # Nobody
    <3>1. f[k] \in Peer
      BY <2>2 DEF List
    <3> QED BY <2>2, <3>1, OfflineType
  <2> QED BY <2>1, <2>2
<1> QED BY <1>1 DEF Loaded, List

LEMMA EmptyListType == EmptyList \in List
BY DEF EmptyList, List

\* A peer that is replaced by one that looks the same.
LEMMA ShownUpdate ==
  ASSUME NEW r \in List, NEW k \in Key, NEW q,
         r[k] # Nobody, q # Nobody, View(q) = View(r[k])
  PROVE  Shown([r EXCEPT ![k] = q]) = Shown(r)
<1> DEFINE n == [r EXCEPT ![k] = q]
<1>1. n[k] = q /\ \A j \in Key : j # k => n[j] = r[j]
  BY DEF List
<1> HIDE DEF n
<1>2. \A j \in Key : (IF n[j] = Nobody THEN Nobody ELSE View(n[j]))
                     = (IF r[j] = Nobody THEN Nobody ELSE View(r[j]))
  BY <1>1
<1>3. Shown(n) = Shown(r)
  BY <1>2 DEF Shown
<1> QED BY <1>3 DEF n

\* What Observe reports is right: a sighting that it says changed nothing
\* leaves everything but the time of the last sighting as it was.
LEMMA QuietSighting ==
  ASSUME NEW r \in List, NEW s \in Sighting, NEW now \in Int, ~Changes(r, s)
  PROVE  Shown(Observed(r, s, now)) = Shown(r)
<1>1. CASE s.port = 0
  <2>1. CASE s.id = NoId \/ r[s.id] = Nobody
    BY <1>1, <2>1 DEF Observed, Refreshed
  <2>2. CASE ~(s.id = NoId \/ r[s.id] = Nobody)
    <3>1. s.id \in Key
      BY <2>2 DEF Sighting, Key
    <3>2. r[s.id] \in Peer
      BY <2>2, <3>1 DEF List
    <3>3. r[s.id].ip = s.ip /\ r[s.id].online
      BY <1>1, <2>2 DEF Changes, RefreshChanges
    <3> DEFINE q == [name |-> r[s.id].name, ip |-> s.ip,
                     port |-> r[s.id].port, seen |-> now, online |-> TRUE]
    <3>4. Observed(r, s, now) = [r EXCEPT ![s.id] = q]
      BY <1>1, <2>2, <3>1 DEF Observed, Refreshed, List
    <3>a. q \in Peer
      BY <3>2 DEF Peer, Sighting
    <3>5. q # Nobody
      BY <3>a, NobodyIsNoPeer
    <3>6. q.name = r[s.id].name /\ q.ip = r[s.id].ip
          /\ q.port = r[s.id].port /\ q.online = r[s.id].online
      BY <3>2, <3>3 DEF Peer
    <3>7. View(q) = View(r[s.id])
      BY <3>6 DEF View
    <3> HIDE DEF q
    <3>8. Shown([r EXCEPT ![s.id] = q]) = Shown(r)
      BY <2>2, <3>1, <3>5, <3>7, ShownUpdate
    <3> QED BY <3>4, <3>8
  <2> QED BY <2>1, <2>2
<1>2. CASE s.port # 0
  <2>1. KeyOf(s) \in Key /\ Fold[s.name] \in Key
    BY FoldType DEF KeyOf, Sighting, Key
  <2>2. ~AnnounceChanges(r, s)
    BY <1>2 DEF Changes
  <2>3. WithoutLegacy(r, s) = r
    BY <2>1, <2>2 DEF AnnounceChanges, WithoutLegacy, List
  <2> DEFINE q == [name |-> s.name, ip |-> s.ip, port |-> s.port,
                   seen |-> now, online |-> TRUE]
  <2>4. Observed(r, s, now) = [r EXCEPT ![KeyOf(s)] = q]
    BY <1>2, <2>3 DEF Observed, Announced
  <2>5. r[KeyOf(s)] # Nobody
    BY <2>2 DEF AnnounceChanges
  <2>6. r[KeyOf(s)] \in Peer
    BY <2>1, <2>5 DEF List
  <2>a. q \in Peer
    BY <1>2 DEF Peer, Sighting
  <2>7. q # Nobody
    BY <2>a, NobodyIsNoPeer
  <2>8. q.name = r[KeyOf(s)].name /\ q.ip = r[KeyOf(s)].ip
        /\ q.port = r[KeyOf(s)].port /\ q.online = r[KeyOf(s)].online
    BY <2>2, <2>6 DEF AnnounceChanges, Peer
  <2>9. View(q) = View(r[KeyOf(s)])
    BY <2>8 DEF View
  <2> HIDE DEF q
  <2>b. Shown([r EXCEPT ![KeyOf(s)] = q]) = Shown(r)
    BY <2>1, <2>5, <2>7, <2>9, ShownUpdate
  <2> QED BY <2>4, <2>b
<1> QED BY <1>1, <1>2

\* So is what Tick reports.
LEMMA QuietTick ==
  ASSUME NEW r \in List, NEW now \in Int, ~TickChanges(r, now)
  PROVE  Ticked(r, now) = r
BY DEF TickChanges, Ticked, List

\* Two lists that look the same look the same after a Load.
LEMMA ShownAfterLoad ==
  ASSUME NEW a \in List, NEW b \in List, Shown(a) = Shown(b)
  PROVE  Shown(Loaded(a)) = Shown(Loaded(b))
<1>1. ASSUME NEW k \in Key
      PROVE Shown(Loaded(a))[k] = Shown(Loaded(b))[k]
  <2>1. Shown(a)[k] = Shown(b)[k]
    OBVIOUS
  <2>2. CASE a[k] = Nobody
    <3>1. b[k] = Nobody
      BY <2>1, <2>2, ViewIsSomebody DEF Shown
    <3> QED BY <2>2, <3>1 DEF Shown, Loaded
  <2>3. CASE a[k] # Nobody
    <3>1. b[k] # Nobody
      BY <2>1, <2>3, ViewIsSomebody DEF Shown
    <3>2. a[k] \in Peer /\ b[k] \in Peer
      BY <2>3, <3>1 DEF List
    <3>3. View(a[k]) = View(b[k])
      BY <2>1, <2>3, <3>1 DEF Shown
    <3>4. View(Offline(a[k])) = View(Offline(b[k]))
      BY <3>3, <3>2 DEF View, Offline, Peer
    <3>5. Offline(a[k]) # Nobody /\ Offline(b[k]) # Nobody
      BY <3>2, OfflineType, NobodyIsNoPeer
    <3>6. Loaded(a)[k] = Offline(a[k]) /\ Loaded(b)[k] = Offline(b[k])
      BY <2>3, <3>1 DEF Loaded
    <3> QED BY <3>4, <3>5, <3>6 DEF Shown
  <2> QED BY <2>2, <2>3
<1> QED BY <1>1 DEF Shown

\* A list that was loaded looks the same when it is loaded again.
LEMMA LoadedTwice ==
  ASSUME NEW f \in List
  PROVE  Loaded(Loaded(f)) = Loaded(f)
<1>1. ASSUME NEW k \in Key
      PROVE Loaded(Loaded(f))[k] = Loaded(f)[k]
  <2>1. CASE f[k] = Nobody
    BY <2>1 DEF Loaded
  <2>2. CASE f[k] # Nobody
    <3>1. f[k] \in Peer
      BY <2>2 DEF List
    <3>2. Offline(f[k]) # Nobody
      BY <3>1, OfflineType, NobodyIsNoPeer
    <3>3. Offline(Offline(f[k])) = Offline(f[k])
      BY DEF Offline
    <3> QED BY <2>2, <3>2, <3>3 DEF Loaded
  <2> QED BY <2>1, <2>2
<1> QED BY <1>1 DEF Loaded

----------------------------------------------------------------------------
(* Type correctness.                                                        *)

LEMMA AtRest ==
  /\ [t \in Thread |-> "idle"] \in [Thread -> At]
  /\ [t \in Thread |-> 0] \in [Thread -> 0..MaxTime]
  /\ 0 \in 0..MaxTime
<1>1. 0 \in 0..MaxTime
  BY MaxTimeType
<1> QED BY <1>1 DEF At

\* The variables keep their types (TypeOK).
THEOREM TypeCorrect == Spec => []TypeOK
<1>1. Init => TypeOK
  <2> SUFFICES ASSUME Init PROVE TypeOK
    OBVIOUS
  <2> QED BY EmptyListType, AtRest DEF Init, TypeOK, Saver, Node
<1>2. TypeOK /\ [Next]_vars => TypeOK'
  <2> SUFFICES ASSUME TypeOK, [Next]_vars PROVE TypeOK'
    OBVIOUS
  <2> USE DEF TypeOK, threadVars, saverVars, nodeVars
  <2>1. CASE Advance
    BY <2>1, MaxTimeType DEF Advance
  <2>2. ASSUME NEW t \in Thread, Call(t) PROVE TypeOK'
    BY <2>2 DEF Call, Go, At
  <2>3. ASSUME NEW t \in Thread, Tell(t) PROVE TypeOK'
    BY <2>3 DEF Tell, Go, At
  <2>4. ASSUME NEW t \in Thread, Observe(t) PROVE TypeOK'
    <3>1. PICK s \in Sightings : /\ reg' = Observed(reg, s, since[t])
                                 /\ Return(t, Changes(reg, s))
      BY <2>4 DEF Observe
    <3>2. reg' \in List
      BY <3>1, ObservedType, SightingsType
    <3>3. at' \in [Thread -> At] /\ since' \in [Thread -> 0..MaxTime]
      BY <3>1, AtRest DEF Return, Go, At
    <3> QED BY <2>4, <3>2, <3>3 DEF Observe, IsLate
  <2>5. CASE Tick
    <3>1. Ticker \in Thread
      BY DEF Thread, Background
    <3>2. reg' \in List
      BY <2>5, <3>1, TickedType DEF Tick
    <3>3. at' \in [Thread -> At] /\ since' \in [Thread -> 0..MaxTime]
      BY <2>5, <3>1, AtRest DEF Tick, Return, Go, At
    <3> QED BY <2>5, <3>2, <3>3 DEF Tick
  <2>6. ASSUME NEW t \in Thread, MarkDirty(t) PROVE TypeOK'
    BY <2>6 DEF MarkDirty, Mark, Go, At
  <2>7. ASSUME NEW t \in Thread, Told(t) PROVE TypeOK'
    BY <2>7 DEF Told, Go, At
  <2>8. ASSUME NEW t \in Thread, End(t) PROVE TypeOK'
    BY <2>8 DEF End, Go, At
  <2>9. CASE SaverStep
    <3>1. CASE Take
      BY <3>1 DEF Take, Saver
    <3>2. CASE SaverCopies
      BY <3>2 DEF SaverCopies, Saver
    <3>3. CASE SaverWrites
      BY <3>3 DEF SaverWrites, Write, Saver
    <3>4. CASE SaverReads
      BY <3>4 DEF SaverReads, Saver
    <3>5. CASE SaverTells
      BY <3>5 DEF SaverTells, Saver
    <3>6. CASE SaverTold
      BY <3>6, EmptyListType DEF SaverTold, Saver
    <3> QED BY <2>9, <3>1, <3>2, <3>3, <3>4, <3>5, <3>6 DEF SaverStep
  <2>10. CASE SaverEnds
    BY <2>10 DEF SaverEnds, Saver
  <2>11. CASE Start
    <3>1. reg' \in List
      BY <2>11, EmptyListType, LoadedType DEF Start
    <3> QED BY <2>11, <3>1, AtRest DEF Start, Saver, Node
  <2>12. CASE Stop
    BY <2>12 DEF Stop, Node
  <2>13. CASE Supervise
    <3>1. CASE FinalCopy
      BY <3>1 DEF FinalCopy, Node
    <3>2. CASE FinalWrite
      BY <3>2, EmptyListType DEF FinalWrite, Write, Node
    <3>3. CASE LockEvents
      BY <3>3 DEF LockEvents, Node
    <3>4. CASE CloseEvents
      BY <3>4 DEF CloseEvents, Node
    <3> QED BY <2>13, <3>1, <3>2, <3>3, <3>4 DEF Supervise
  <2>14. CASE Kill
    BY <2>14, EmptyListType, AtRest DEF Kill, Saver, Node
  <2>15. CASE UNCHANGED vars
    BY <2>15 DEF vars
  <2> QED
    BY <2>1, <2>2, <2>3, <2>4, <2>5, <2>6, <2>7, <2>8, <2>9, <2>10, <2>11,
       <2>12, <2>13, <2>14, <2>15 DEF Next, Continue
<1> QED BY <1>1, <1>2, PTL DEF Spec

----------------------------------------------------------------------------
(* The inductive invariant.                                                 *)

\* What the list gives after a restart.
Restored(r) == Shown(Loaded(r))

\* Until a change is signalled, what the saver holds is what the list shows.
ReportInv ==
  node = "up" /\ Settled =>
    /\ saver = "idle" => Shown(reported) = Shown(reg)
    /\ saver \in {"report", "telling"} => Shown(hand) = Shown(reg)

\* The same for the copy it writes and, once written, for the file.
FileInv ==
  node = "up" /\ Settled =>
    /\ saver = "writing" => Restored(hand) = Restored(reg)
    /\ saver \notin {"took", "writing"} /\ ~failed =>
         Restored(file) = Restored(reg)

OpenInv == quiet => node = "down"

\* From the supervisor's copy on, only a late handler changes the list.
StopInv ==
  /\ node \in {"saving", "saved", "locking", "down"} =>
       saver = "ended" /\ \A t \in Background : at[t] = "ended"
  /\ node = "saving" /\ ~late => copy = reg
  /\ node \in {"saved", "locking", "down"} /\ ~late /\ ~failed => file = reg

\* Once the emitter is closed no handler is in the callback.
SilentInv ==
  node = "down" => quiet /\ \A t \in Handler : at[t] # "telling"

ListInv == ReportInv /\ FileInv /\ OpenInv
IInv == ListInv /\ StopInv /\ SilentInv

\* A step that leaves the list, the file, the saver and the node alone, and
\* does not settle anything, keeps the list's part of the invariant.
LEMMA QuietStep ==
  ASSUME ListInv, Settled' => Settled,
         UNCHANGED <<reg, file, saver, hand, reported, node, quiet, failed>>
  PROVE  ListInv'
BY DEF ListInv, ReportInv, FileInv, OpenInv, Restored

\* Outside a running node it says nothing of the list.
LEMMA NotUp ==
  ASSUME OpenInv', node' # "up"
  PROVE  ListInv'
BY DEF ListInv, ReportInv, FileInv

\* An observer of the list: either it will mark the list dirty, or nobody can
\* tell the new list from the old one.
LEMMA ObserverStep ==
  ASSUME TypeOK, ListInv, NEW t \in Thread, NEW changed \in BOOLEAN,
         Return(t, changed), at[t] = "called",
         reg' \in List, ~changed => Shown(reg') = Shown(reg),
         UNCHANGED <<file, dirty, saver, hand, reported, node, quiet, failed>>
  PROVE  ListInv'
<1>1. CASE changed
  <2>1. at'[t] = "changed"
    BY <1>1 DEF Return, Go, TypeOK
  <2>2. ~Settled'
    BY <2>1 DEF Settled
  <2> QED BY <2>2 DEF ListInv, ReportInv, FileInv, OpenInv
<1>2. CASE ~changed
  <2>1. Shown(reg') = Shown(reg)
    BY <1>2
  <2>2. Restored(reg') = Restored(reg)
    BY <2>1, ShownAfterLoad DEF TypeOK, Restored
  <2>3. Settled' => Settled
    BY <1>2 DEF Settled, Return, Go, TypeOK
  <2>4. Restored(hand)' = Restored(hand) /\ Restored(file)' = Restored(file)
        /\ Shown(hand)' = Shown(hand) /\ Shown(reported)' = Shown(reported)
    BY DEF Restored
  <2>5. Restored(reg)' = Restored(reg) /\ Shown(reg)' = Shown(reg)
    BY <2>1, <2>2 DEF Restored
  <2>6. UNCHANGED <<saver, node, quiet, failed>>
    OBVIOUS
  <2>7. ReportInv'
    BY <2>1, <2>3, <2>4, <2>5, <2>6 DEF ListInv, ReportInv
  <2>8. FileInv'
    BY <2>2, <2>3, <2>4, <2>5, <2>6 DEF ListInv, FileInv
  <2>9. OpenInv'
    BY <2>6 DEF ListInv, OpenInv
  <2> QED BY <2>7, <2>8, <2>9 DEF ListInv
<1> QED BY <1>1, <1>2

\* Every step keeps the list's part of the invariant.
LEMMA ListStep ==
  ASSUME TypeOK, TypeOK', ListInv, [Next]_vars
  PROVE  ListInv'
<1> USE DEF threadVars, saverVars, nodeVars
<1>1. CASE Advance
  BY <1>1, QuietStep DEF Advance, Settled
<1>2. ASSUME NEW t \in Thread, Call(t) PROVE ListInv'
  <2>1. Settled' => Settled
    BY <1>2 DEF Call, Go, Settled, TypeOK
  <2> QED BY <1>2, <2>1, QuietStep DEF Call
<1>3. ASSUME NEW t \in Thread, Tell(t) PROVE ListInv'
  <2>1. Settled' => Settled
    BY <1>3 DEF Tell, Go, Settled, TypeOK
  <2> QED BY <1>3, <2>1, QuietStep DEF Tell
<1>4. ASSUME NEW t \in Thread, Observe(t) PROVE ListInv'
  <2>1. PICK s \in Sightings : /\ reg' = Observed(reg, s, since[t])
                               /\ Return(t, Changes(reg, s))
    BY <1>4 DEF Observe
  <2>2. since[t] \in Int /\ s \in Sighting /\ reg \in List
    BY SightingsType, MaxTimeType DEF TypeOK
  <2>3. ~Changes(reg, s) => Shown(reg') = Shown(reg)
    BY <2>1, <2>2, QuietSighting
  <2>4. Changes(reg, s) \in BOOLEAN
    BY DEF Changes, RefreshChanges, AnnounceChanges
  <2>5. /\ at[t] = "called" /\ reg' \in List
        /\ UNCHANGED <<file, dirty, saver, hand, reported, node, quiet, failed>>
    BY <1>4 DEF Observe, TypeOK
  <2> QED BY <2>1, <2>3, <2>4, <2>5, ObserverStep
<1>5. CASE Tick
  <2>1. Ticker \in Thread
    BY DEF Thread, Background
  <2>2. since[Ticker] \in Int /\ reg \in List
    BY <2>1, MaxTimeType DEF TypeOK
  <2>3. ~TickChanges(reg, since[Ticker]) => Shown(reg') = Shown(reg)
    BY <1>5, <2>2, QuietTick DEF Tick
  <2>4. TickChanges(reg, since[Ticker]) \in BOOLEAN
    BY DEF TickChanges
  <2>5. /\ at[Ticker] = "called" /\ reg' \in List
        /\ Return(Ticker, TickChanges(reg, since[Ticker]))
        /\ UNCHANGED <<file, dirty, saver, hand, reported, node, quiet, failed>>
    BY <1>5 DEF Tick, TypeOK
  <2> QED BY <2>1, <2>3, <2>4, <2>5, ObserverStep
<1>6. ASSUME NEW t \in Thread, MarkDirty(t) PROVE ListInv'
  <2>1. ~Settled'
    BY <1>6 DEF MarkDirty, Mark, Settled
  <2> QED BY <1>6, <2>1, QuietStep DEF MarkDirty
<1>7. ASSUME NEW t \in Thread, Told(t) PROVE ListInv'
  <2>1. Settled' => Settled
    BY <1>7 DEF Told, Go, Settled, TypeOK
  <2> QED BY <1>7, <2>1, QuietStep DEF Told
<1>8. ASSUME NEW t \in Thread, End(t) PROVE ListInv'
  <2>1. Settled' => Settled
    BY <1>8 DEF End, Go, Settled, TypeOK
  <2> QED BY <1>8, <2>1, QuietStep DEF End
<1>9. CASE Take
  BY <1>9 DEF Take, ListInv, ReportInv, FileInv, OpenInv
<1>10. CASE SaverCopies
  <2>1. OpenInv'
    BY <1>10 DEF SaverCopies, ListInv, OpenInv
  <2>2. saver' = "writing" /\ hand' = reg'
    BY <1>10 DEF SaverCopies
  <2> QED BY <2>1, <2>2 DEF ListInv, ReportInv, FileInv, Restored
<1>11. CASE SaverWrites
  <2>1. Settled' <=> Settled
    BY <1>11 DEF SaverWrites, Settled
  <2>2. /\ saver = "writing" /\ saver' = "saved"
        /\ UNCHANGED <<reg, node, quiet>>
        /\ ~failed' => file' = hand
    BY <1>11 DEF SaverWrites, Write
  <2> QED BY <2>1, <2>2 DEF ListInv, ReportInv, FileInv, OpenInv, Restored
<1>12. CASE SaverReads
  <2>1. Settled' <=> Settled
    BY <1>12 DEF SaverReads, Settled
  <2>2. /\ saver \in {"first", "saved"} /\ saver' = "report"
        /\ hand' = reg
        /\ UNCHANGED <<reg, file, failed, node, quiet>>
    BY <1>12 DEF SaverReads
  <2> QED BY <2>1, <2>2 DEF ListInv, ReportInv, FileInv, OpenInv, Restored
<1>13. CASE SaverTells
  <2>1. Settled' <=> Settled
    BY <1>13 DEF SaverTells, Settled
  <2>2. /\ saver = "report"
        /\ saver' = IF quiet THEN "idle" ELSE "telling"
        /\ UNCHANGED <<reg, file, failed, hand, node, quiet>>
    BY <1>13 DEF SaverTells, MayEmit
  <2> QED BY <2>1, <2>2 DEF ListInv, ReportInv, FileInv, OpenInv, Restored
<1>14. CASE SaverTold
  <2>1. Settled' <=> Settled
    BY <1>14 DEF SaverTold, Settled
  <2>2. /\ saver = "telling" /\ saver' = "idle"
        /\ reported' = hand
        /\ UNCHANGED <<reg, file, failed, node, quiet>>
    BY <1>14 DEF SaverTold
  <2> QED BY <2>1, <2>2 DEF ListInv, ReportInv, FileInv, OpenInv, Restored
<1>15. CASE SaverEnds
  <2>1. OpenInv' /\ node' # "up"
    BY <1>15 DEF SaverEnds, ListInv, OpenInv
  <2> QED BY <2>1, NotUp
<1>16. CASE Start
  <2>1. saver' = "first" /\ ~quiet' /\ file' = file
        /\ (~failed' => reg' = Loaded(file))
    BY <1>16 DEF Start
  <2>2. ~failed' => Restored(file') = Restored(reg')
    BY <2>1, LoadedTwice DEF Restored, TypeOK
  <2>3. Restored(file)' = Restored(file') /\ Restored(reg)' = Restored(reg')
    BY DEF Restored
  <2> QED BY <2>1, <2>2, <2>3 DEF ListInv, ReportInv, FileInv, OpenInv
<1>17. CASE Stop \/ FinalCopy \/ FinalWrite \/ LockEvents
  <2>1. OpenInv' /\ node' # "up"
    BY <1>17 DEF Stop, FinalCopy, FinalWrite, LockEvents, ListInv, OpenInv
  <2> QED BY <2>1, NotUp
<1>18. CASE CloseEvents \/ Kill
  <2>1. OpenInv' /\ node' # "up"
    BY <1>18 DEF CloseEvents, Kill, OpenInv
  <2> QED BY <2>1, NotUp
<1>19. CASE UNCHANGED vars
  BY <1>19, QuietStep DEF vars, Settled
<1> QED
  BY <1>1, <1>2, <1>3, <1>4, <1>5, <1>6, <1>7, <1>8, <1>9, <1>10, <1>11,
     <1>12, <1>13, <1>14, <1>15, <1>16, <1>17, <1>18, <1>19
  DEF Next, Continue, SaverStep, Supervise

\* Every step keeps what holds of a shutdown.
LEMMA StopStep ==
  ASSUME TypeOK, ListInv, StopInv, SilentInv, [Next]_vars
  PROVE  StopInv'
<1> USE DEF threadVars, saverVars, nodeVars
<1> DEFINE Past == {"saving", "saved", "locking", "down"}
<1>1. CASE Advance
  BY <1>1 DEF Advance, StopInv
<1>2. ASSUME NEW t \in Thread, Call(t) PROVE StopInv'
  BY <1>2 DEF Call, Go, StopInv, TypeOK
<1>3. ASSUME NEW t \in Thread, Tell(t) PROVE StopInv'
  BY <1>3 DEF Tell, Go, StopInv, TypeOK
<1>4. ASSUME NEW t \in Thread, Observe(t) PROVE StopInv'
  <2>1. PICK s \in Sightings : Return(t, Changes(reg, s))
    BY <1>4 DEF Observe
  <2>2. \A b \in Background : at[b] = "ended" => at'[b] = "ended"
    BY <1>4, <2>1 DEF Observe, Return, Go, TypeOK, Thread
  <2>3. node \in Past => late'
    <3>1. CASE t \in Handler
      BY <1>4, <3>1 DEF Observe, IsLate
    <3>2. CASE t \in Background
      BY <1>4, <3>2 DEF Observe, StopInv
    <3> QED BY <3>1, <3>2 DEF Thread
  <2>4. UNCHANGED <<saver, node>>
    BY <1>4 DEF Observe
  <2> QED BY <2>2, <2>3, <2>4 DEF StopInv
<1>5. CASE Tick
  <2>1. Ticker \in Background /\ at[Ticker] # "ended"
    BY <1>5 DEF Tick, Background
  <2>2. node \notin Past
    BY <2>1 DEF StopInv
  <2> QED BY <1>5, <2>2 DEF Tick, StopInv
<1>6. ASSUME NEW t \in Thread, MarkDirty(t) PROVE StopInv'
  BY <1>6 DEF MarkDirty, Go, StopInv, TypeOK
<1>7. ASSUME NEW t \in Thread, Told(t) PROVE StopInv'
  BY <1>7 DEF Told, Go, StopInv, TypeOK
<1>8. ASSUME NEW t \in Thread, End(t) PROVE StopInv'
  BY <1>8 DEF End, Go, StopInv, TypeOK
<1>9. CASE SaverStep
  <2>1. saver # "ended" /\ node' = node
    BY <1>9 DEF SaverStep, Take, SaverCopies, SaverWrites, SaverReads,
                SaverTells, SaverTold
  <2>2. node \notin Past
    BY <2>1 DEF StopInv
  <2> QED BY <2>1, <2>2 DEF StopInv
<1>10. CASE SaverEnds
  BY <1>10 DEF SaverEnds, StopInv
<1>11. CASE Start
  BY <1>11 DEF Start, StopInv
<1>12. CASE Stop
  BY <1>12 DEF Stop, StopInv
<1>13. CASE FinalCopy
  BY <1>13 DEF FinalCopy, BackgroundEnded, StopInv
<1>14. CASE FinalWrite
  BY <1>14 DEF FinalWrite, Write, StopInv
<1>15. CASE LockEvents
  BY <1>15 DEF LockEvents, StopInv
<1>16. CASE CloseEvents
  BY <1>16 DEF CloseEvents, StopInv
<1>17. CASE Kill
  BY <1>17 DEF Kill, StopInv
<1>18. CASE UNCHANGED vars
  BY <1>18 DEF vars, StopInv
<1> QED
  BY <1>1, <1>2, <1>3, <1>4, <1>5, <1>6, <1>7, <1>8, <1>9, <1>10, <1>11,
     <1>12, <1>13, <1>14, <1>15, <1>16, <1>17, <1>18
  DEF Next, Continue, Supervise

\* Every step keeps a closed emitter silent.
LEMMA SilentStep ==
  ASSUME TypeOK, SilentInv, [Next]_vars
  PROVE  SilentInv'
<1> USE DEF threadVars, saverVars, nodeVars
<1>1. ASSUME NEW t \in Thread, Tell(t) PROVE SilentInv'
  BY <1>1 DEF Tell, MayEmit, SilentInv
<1>2. ASSUME NEW t \in Thread,
             Call(t) \/ Observe(t) \/ MarkDirty(t) \/ Told(t) \/ End(t)
      PROVE  SilentInv'
  <2>1. UNCHANGED <<node, quiet>>
    BY <1>2 DEF Call, Observe, MarkDirty, Told, End
  <2>2. PICK there \in {"called", "changed", "idle", "ended"} :
          at' = [at EXCEPT ![t] = there]
    BY <1>2 DEF Call, Observe, MarkDirty, Told, End, Go, Return
  <2>3. \A h \in Handler : at'[h] = "telling" => at[h] = "telling"
    BY <2>2 DEF TypeOK, Thread
  <2> QED BY <2>1, <2>3 DEF SilentInv
<1>3. CASE Tick
  <2>1. UNCHANGED <<node, quiet>>
    BY <1>3 DEF Tick
  <2>2. PICK there \in {"changed", "idle"} :
          at' = [at EXCEPT ![Ticker] = there]
    BY <1>3 DEF Tick, Go, Return
  <2>3. \A h \in Handler : at'[h] = "telling" => at[h] = "telling"
    BY <2>2 DEF TypeOK, Thread
  <2> QED BY <2>1, <2>3 DEF SilentInv
<1>4. CASE Advance \/ SaverStep \/ SaverEnds
  BY <1>4 DEF Advance, SaverStep, Take, SaverCopies, SaverWrites, SaverReads,
              SaverTells, SaverTold, SaverEnds, SilentInv
<1>5. CASE Start \/ Stop \/ FinalCopy \/ FinalWrite \/ LockEvents \/ Kill
  BY <1>5 DEF Start, Stop, FinalCopy, FinalWrite, LockEvents, Kill, SilentInv
<1>6. CASE CloseEvents
  BY <1>6 DEF CloseEvents, Silent, SilentInv
<1>7. CASE UNCHANGED vars
  BY <1>7 DEF vars, SilentInv
<1> QED
  BY <1>1, <1>2, <1>3, <1>4, <1>5, <1>6, <1>7 DEF Next, Continue, Supervise

----------------------------------------------------------------------------
(* The theorems.                                                            *)

\* The strengthening of the four invariants below is inductive.
THEOREM Inductive == Spec => []IInv
<1>1. Init => IInv
  BY DEF Init, IInv, ListInv, ReportInv, FileInv, OpenInv, StopInv, SilentInv
<1>2. TypeOK /\ TypeOK' /\ IInv /\ [Next]_vars => IInv'
  BY ListStep, StopStep, SilentStep DEF IInv
<1> QED BY <1>1, <1>2, TypeCorrect, PTL DEF Spec

\* No change of the peer list goes unreported (NoMissedChange).
THEOREM ChangesReachTheCaller == Spec => []NoMissedChange
<1>1. IInv => NoMissedChange
  BY DEF IInv, ListInv, ReportInv, NoMissedChange
<1> QED BY <1>1, Inductive, PTL

\* A settled node's peers survive a kill (FileKeepsUp).
THEOREM FileIsCurrent == Spec => []FileKeepsUp
<1>1. IInv => FileKeepsUp
  BY DEF IInv, ListInv, FileInv, FileKeepsUp, Restored
<1> QED BY <1>1, Inductive, PTL

\* A shutdown leaves the last list in the file (ShutdownSaves).
THEOREM LastSaveIsComplete == Spec => []ShutdownSaves
<1>1. IInv => ShutdownSaves
  BY DEF IInv, StopInv, ShutdownSaves
<1> QED BY <1>1, Inductive, PTL

\* No event is in progress once Wait has returned (SilentWhenDown).
THEOREM WaitMeansSilence == Spec => []SilentWhenDown
<1>1. IInv => SilentWhenDown
  BY DEF IInv, StopInv, SilentInv, SilentWhenDown
<1> QED BY <1>1, Inductive, PTL

\* A node that is down has saved its list and tells nobody (DownIsFinal).
THEOREM DownMeansDone == Spec => []DownIsFinal
BY LastSaveIsComplete, WaitMeansSilence, PTL DEF DownIsFinal
=============================================================================
