------------------------------- MODULE Storage ------------------------------
(***************************************************************************)
(* internal/server: the receive directory, the upload handlers that fill   *)
(* it, the count of uploads in flight, and the part of the node's start    *)
(* and shutdown that touches them.                                         *)
(*                                                                         *)
(* Every handler runs in a goroutine of its own, so two uploads meet in    *)
(* the directory between any two of their file system calls: a step is one *)
(* call.  A process may be killed between two steps; the directory stays.  *)
(* The file system is the one of a Unix build: os.Rename replaces a file,  *)
(* and refuses to replace a folder or to put a folder in place of a file.  *)
(***************************************************************************)
EXTENDS Integers, Sequences

CONSTANTS
  Upload,   \* PUT requests
  Folder,   \* those of them that send a folder (PUT /dirs)
  Hollow,   \* those of them whose folder is empty
  Want,     \* [Upload -> the name the sender asks for]
  Stored,   \* names the directory holds before the first upload
  MaxTry    \* the last number tried for a name that is in use (9999)

ASSUME FolderType == Folder \subseteq Upload /\ Hollow \subseteq Folder
ASSUME MaxTryType == MaxTry \in Nat

VARIABLES
  disk,     \* [Path -> what the receive directory holds under that name]
  part,     \* [Upload -> its .part entry: "none", "fresh", or "old" when
            \* nothing was written to it for staleAfter]
  stage,    \* [Upload -> where its handler is]
  try,      \* [Upload -> the number commit is at]
  node,     \* "off" (no process), "up", "closing", "waiting", "down"
  flying,   \* uploads counted by the inflight counter of the current server
  idle,     \* its idle channel, named by the add() that made it, or First
  shut,     \* the channels made by add() that are closed
  waitOn,   \* the channel WaitUploads waits on
  awaited,  \* history variable: what was in flight when it took the channel
  doomed,   \* [Sweeper -> the upload whose .part its sweep found stale and
            \* is about to remove, or NoUpload]
  raced,    \* history variable: names reserved while another upload, which
            \* had reserved them too, was between its Remove and its Rename
  litter,   \* history variable: uploads whose placeholder could not be closed,
            \* or could not be removed before the rename
  leftover, \* history variable: uploads whose .part could not be discarded
  stalled,  \* history variable: uploads whose .part was ever "old"
  torn      \* history variable: folders of whose .part a sweep took a piece

dirVars  == <<disk, part>>
sweepVars == <<doomed, stalled, torn>>
waitVars == <<flying, idle, shut, waitOn, awaited>>
vars == <<disk, part, stage, try, node, flying, idle, shut, waitOn,
          awaited, doomed, raced, litter, leftover, stalled, torn>>

\* The receivers that sweep the directory when they start: this one, and
\* another one that has the same directory.
Sweeper == {"own", "other"}

NoUpload == "no upload"
First == "first"  \* the channel newInflight makes, closed from the start

ASSUME NamesAreNoUploads == First \notin Upload /\ NoUpload \notin Upload

\* numberedName: a number goes before the extension of a file and after the
\* whole name of a folder.  A name is its stem and its extension, each with the
\* numbers put after it.
NumberedName(n, k, folder) ==
  IF k = 0 THEN n
  ELSE IF folder /\ n.ext # "" THEN [n EXCEPT !.extNo = Append(@, k)]
  ELSE [n EXCEPT !.stemNo = Append(@, k)]

Candidate(u, k) == NumberedName(Want[u], k, u \in Folder)
Path == Stored \cup {Candidate(u, k) : u \in Upload, k \in 0..MaxTry}

\* The name commit is trying for u, and in the end the name u is saved as.
Final(u) == Candidate(u, try[u])

Absent == <<"absent">>
Before == <<"stored">>
Placeholder(u) == <<"placeholder", u>>
Content(u) == <<"content", u>>
Held == {Absent, Before} \cup {Placeholder(u) : u \in Upload}
                         \cup {Content(u) : u \in Upload}

\* What a handler does, in order: the handler has called uploads.add, Save or
\* SaveDir copies into the .part, commit reserves the name, clears it, renames
\* the .part to it, and the handler records the receipt and answers.
Busy == {"counted", "copying", "copied", "reserved", "cleared", "failing",
         "saved", "failed", "noted"}
Stage == {"idle", "answered", "refused", "dead"} \cup Busy
Kept == {"saved", "noted", "answered"}

Init ==
  /\ disk = [p \in Path |-> IF p \in Stored THEN Before ELSE Absent]
  /\ part = [u \in Upload |-> "none"]
  /\ stage = [u \in Upload |-> "idle"]
  /\ try = [u \in Upload |-> 0]
  /\ node = "off"
  /\ flying = {} /\ idle = First /\ shut = {} /\ waitOn = First
  /\ awaited = {}
  /\ doomed = [s \in Sweeper |-> NoUpload]
  /\ raced = {} /\ litter = {} /\ leftover = {} /\ stalled = {} /\ torn = {}

----------------------------------------------------------------------------
(* inflight.                                                                *)

IsClosed(c) == c = First \/ c \in shut

BadAdd(u) ==
  /\ idle' = u
  /\ flying' = flying \cup {u}
  /\ UNCHANGED shut

\* add: the first upload in flight makes a new channel.
Add(u) ==
  /\ idle' = IF flying = {} THEN u ELSE idle
  /\ flying' = flying \cup {u}
  /\ UNCHANGED shut

\* done: the last upload in flight closes the channel.  A handler that outlived
\* its node counts down that node's counter, which nobody waits on any more.
Done(u) ==
  /\ flying' = flying \ {u}
  /\ shut' = IF flying = {u} THEN shut \cup {idle} ELSE shut
  /\ UNCHANGED idle

----------------------------------------------------------------------------
(* handlePut and handlePutDir with Save and SaveDir.                        *)

Go(u, s) == stage' = [stage EXCEPT ![u] = s]

\* A request that passed the checks of its header.  Closing the server does not
\* stop a handler that was about to start: add may race with wait.
Accept(u) ==
  /\ node # "off"
  /\ stage[u] = "idle"
  /\ Go(u, "counted")
  /\ Add(u)
  /\ UNCHANGED <<dirVars, try, node, waitOn, awaited, sweepVars, raced,
                 litter, leftover>>

\* os.CreateTemp or os.MkdirTemp.
CreateTemp(u) ==
  /\ stage[u] = "counted"
  /\ \/ part' = [part EXCEPT ![u] = "fresh"] /\ Go(u, "copying")
     \/ Go(u, "failing") /\ UNCHANGED part
  /\ UNCHANGED <<disk, try, node, waitVars, sweepVars, raced, litter,
                 leftover>>

\* The body ends: all of it was read, or it is short, too long, invalid, or the
\* connection is closed.
Copy(u) ==
  /\ stage[u] = "copying"
  /\ \E s \in {"copied", "failing"} : Go(u, s)
  /\ UNCHANGED <<dirVars, try, node, waitVars, sweepVars, raced, litter,
                 leftover>>

BadFreePlaceholder(e) == e[1] \in {"absent", "placeholder"}

\* reserve fails with fs.ErrExist when anything is there.
Free(e) == e = Absent

\* commit's loop goes on up to the last number.
MoreTries(u) == try[u] < MaxTry

\* Names whose reservation another upload has behind it and relies on.
InWindow(p) == \E v \in Upload : stage[v] = "cleared" /\ Final(v) = p

\* One turn of commit's loop up to its reservation.  A file's placeholder is
\* there before its Close can fail.
Reserve(u) ==
  LET p == Final(u) IN
  /\ stage[u] = "copied"
  /\ \/ /\ Free(disk[p])
        /\ disk' = [disk EXCEPT ![p] = Placeholder(u)]
        /\ raced' = IF InWindow(p) THEN raced \cup {p} ELSE raced
        /\ \/ Go(u, "reserved") /\ UNCHANGED litter
           \/ u \notin Folder /\ Go(u, "failing") /\ litter' = litter \cup {u}
        /\ UNCHANGED try
     \/ /\ ~Free(disk[p])
        /\ MoreTries(u)
        /\ try' = [try EXCEPT ![u] = @ + 1]
        /\ UNCHANGED <<disk, stage, raced, litter>>
     \/ \* another error, or too many collisions
        /\ Go(u, "failing")
        /\ UNCHANGED <<disk, try, raced, litter>>
  /\ UNCHANGED <<part, node, waitVars, sweepVars, leftover>>

\* os.Remove removes a file or an empty folder.
AfterRemove(e) ==
  IF e[1] = "content" /\ e[2] \in Folder \ Hollow THEN e ELSE Absent

\* The error of os.Remove is not looked at.
Clear(u) ==
  /\ stage[u] = "reserved"
  /\ \/ disk' = [disk EXCEPT ![Final(u)] = AfterRemove(@)] /\ UNCHANGED litter
     \/ litter' = litter \cup {u} /\ UNCHANGED disk
  /\ Go(u, "cleared")
  /\ UNCHANGED <<part, try, node, waitVars, sweepVars, raced,
                 leftover>>

\* os.Rename: a file may take the place of a file.
MayReplace(u, e) ==
  IF e \in {Absent, Before} THEN e = Absent \/ u \notin Folder
  ELSE {u, e[2]} \cap Folder = {}

Rename(u) ==
  /\ stage[u] = "cleared"
  /\ \/ /\ part[u] # "none"
        /\ MayReplace(u, disk[Final(u)])
        /\ disk' = [disk EXCEPT ![Final(u)] = Content(u)]
        /\ part' = [part EXCEPT ![u] = "none"]
        /\ Go(u, "saved")
     \/ Go(u, "failing") /\ UNCHANGED dirVars
  /\ UNCHANGED <<try, node, waitVars, sweepVars, raced, litter,
                 leftover>>

BadDiscard(u) == UNCHANGED part

\* The deferred os.Remove or os.RemoveAll of a transfer that was not committed.
Discard(u) == part' = [part EXCEPT ![u] = "none"]

\* Its error is not looked at either.
CleanUp(u) ==
  /\ stage[u] = "failing"
  /\ \/ Discard(u) /\ UNCHANGED leftover
     \/ leftover' = leftover \cup {u} /\ UNCHANGED part
  /\ Go(u, "failed")
  /\ UNCHANGED <<disk, try, node, waitVars, sweepVars, raced, litter>>

\* record: a history that cannot be written does not fail the upload.
Record(u) ==
  /\ stage[u] = "saved"
  /\ Go(u, "noted")
  /\ UNCHANGED <<dirVars, try, node, waitVars, sweepVars, raced, litter,
                 leftover>>

BadFinished(s) == s \in {"noted", "failed", "failing"}

\* What the handler has behind it when its deferred uploads.done runs.
Finished(s) == s \in {"noted", "failed"}

\* The answer, then the deferred uploads.done.
Return(u) ==
  /\ Finished(stage[u])
  /\ Go(u, IF stage[u] = "noted" THEN "answered" ELSE "refused")
  /\ Done(u)
  /\ UNCHANGED <<dirVars, try, node, waitOn, awaited, sweepVars, raced,
                 litter, leftover>>

\* Nothing was written to the .part of u for staleAfter: its process died, or
\* its sender stalled.
Age(u) ==
  /\ part[u] = "fresh"
  /\ part' = [part EXCEPT ![u] = "old"]
  /\ stalled' = stalled \cup {u}
  /\ UNCHANGED <<disk, stage, try, node, waitVars, doomed, raced,
                 litter, leftover, torn>>

\* A stalled sender goes on.
Touch(u) ==
  /\ part[u] = "old"
  /\ stage[u] = "copying"
  /\ part' = [part EXCEPT ![u] = "fresh"]
  /\ UNCHANGED <<disk, stage, try, node, waitVars, sweepVars, raced,
                 litter, leftover>>

----------------------------------------------------------------------------
(* RemoveStaleParts, which takes one entry after the other.                 *)

BadStale(u) == part[u] # "none"

\* The sweep looks at the time of the last write only.
Stale(u) == part[u] = "old"

\* node.Start sweeps before it has a server.
Judge(s, u) ==
  /\ s = "own" => node \in {"off", "down"}
  /\ doomed[s] = NoUpload /\ Stale(u)
  /\ doomed' = [doomed EXCEPT ![s] = u]
  /\ UNCHANGED <<dirVars, stage, try, node, waitVars, raced, litter,
                 leftover, stalled, torn>>

\* The entry may have been written to, renamed or removed since.  Of one that
\* cannot be removed all stays, or of a folder a part.
Remove(s) ==
  LET u == doomed[s] IN
  /\ u # NoUpload
  /\ \/ part' = [part EXCEPT ![u] = "none"] /\ UNCHANGED torn
     \/ /\ u \in Folder \ Hollow /\ part[u] # "none"
        /\ torn' = torn \cup {u} /\ UNCHANGED part
     \/ UNCHANGED <<part, torn>>
  /\ doomed' = [doomed EXCEPT ![s] = NoUpload]
  /\ UNCHANGED <<disk, stage, try, node, waitVars, raced, litter,
                 leftover, stalled>>

----------------------------------------------------------------------------
(* The node.                                                                *)

\* node.Start: when its sweep has ended, a new Server with a counter of its own.
\* In the GUI the process may still run handlers of the node it stopped.
Start ==
  /\ node \in {"off", "down"} /\ doomed["own"] = NoUpload
  /\ node' = "up"
  /\ flying' = {} /\ idle' = First /\ waitOn' = First /\ awaited' = {}
  /\ UNCHANGED <<dirVars, stage, try, shut, sweepVars, raced, litter,
                 leftover>>

\* The supervisor: srv.Close, which ends the connections.
CloseServer ==
  /\ node = "up"
  /\ node' = "closing"
  /\ UNCHANGED <<dirVars, stage, try, waitVars, sweepVars, raced,
                 litter, leftover>>

\* WaitUploads takes the channel under the lock ...
WaitUploads ==
  /\ node = "closing"
  /\ node' = "waiting"
  /\ waitOn' = idle
  /\ awaited' = flying
  /\ UNCHANGED <<dirVars, stage, try, flying, idle, shut, sweepVars,
                 raced, litter, leftover>>

\* ... and returns once it is closed,
WaitIdle ==
  /\ node = "waiting"
  /\ IsClosed(waitOn)
  /\ node' = "down"
  /\ UNCHANGED <<dirVars, stage, try, waitVars, sweepVars, raced,
                 litter, leftover>>

\* or after shutdownWait.
WaitTimeout ==
  /\ node = "waiting"
  /\ node' = "down"
  /\ UNCHANGED <<dirVars, stage, try, waitVars, sweepVars, raced,
                 litter, leftover>>

\* The process ends, at any point: its handlers and its sweep end where they are.
Kill ==
  /\ node # "off"
  /\ node' = "off"
  /\ stage' = [u \in Upload |-> IF stage[u] \in Busy THEN "dead" ELSE stage[u]]
  /\ doomed' = [doomed EXCEPT !["own"] = NoUpload]
  /\ UNCHANGED <<dirVars, try, waitVars, raced, litter, leftover,
                 stalled, torn>>

----------------------------------------------------------------------------

Handle(u) ==
  \/ CreateTemp(u) \/ Reserve(u) \/ Clear(u) \/ Rename(u) \/ CleanUp(u)
  \/ Record(u) \/ Return(u)

Next ==
  \/ \E u \in Upload : Accept(u) \/ Copy(u) \/ Handle(u) \/ Age(u) \/ Touch(u)
  \/ \E s \in Sweeper : Remove(s) \/ \E u \in Upload : Judge(s, u)
  \/ Start \/ CloseServer
  \/ WaitUploads \/ WaitIdle \/ WaitTimeout \/ Kill

\* What a handler does without its sender: it goes on, or its connection is
\* closed with the server.
GoesOn(u) == Handle(u) \/ (node # "up" /\ Copy(u))

\* Handlers and the supervisor are scheduled.  A sender may stall while the
\* server is open; once the server is closed its connection is, and the read
\* returns.  The timeout of WaitUploads is not relied on.
Fairness ==
  /\ \A u \in Upload : WF_vars(GoesOn(u))
  /\ WF_vars(WaitUploads) /\ WF_vars(WaitIdle)

Spec == Init /\ [][Next]_vars /\ Fairness

----------------------------------------------------------------------------
(* Properties.                                                              *)

\* The types of the variables.
TypeOK ==
  /\ disk \in [Path -> Held]
  /\ part \in [Upload -> {"none", "fresh", "old"}]
  /\ stage \in [Upload -> Stage]
  /\ try \in [Upload -> 0..MaxTry]
  /\ node \in {"off", "up", "closing", "waiting", "down"}
  /\ flying \subseteq Upload
  /\ idle \in Upload \cup {First}
  /\ shut \subseteq Upload \cup {First}
  /\ waitOn \in Upload \cup {First}
  /\ awaited \subseteq Upload
  /\ doomed \in [Sweeper -> Upload \cup {NoUpload}]
  /\ raced \subseteq Path
  /\ litter \subseteq Upload
  /\ leftover \subseteq Upload
  /\ stalled \subseteq Upload
  /\ torn \subseteq Upload

\* What the directory held before the first upload is never overwritten or
\* removed, whatever uploads, crashes and sweeps come (Storage.Save, commit).
StoredStays == \A p \in Stored : disk[p] = Before

\* A saved upload stays under the name it was answered with, unless another
\* upload reserved that name inside the window between Remove and Rename: no
\* other interleaving, failure or crash loses a received file (commit).
OnlyTheWindowLoses ==
  \A u \in Upload :
    stage[u] \in Kept /\ Final(u) \notin raced => disk[Final(u)] = Content(u)

\* Both: no file is lost, stored before or received, but through that window.
FilesStay == StoredStays /\ OnlyTheWindowLoses

\* A handler that has returned left no .part entry and no placeholder behind,
\* unless the very call that removes it failed, or the Close of the placeholder
\* did; of an upload that was answered as saved there is neither in any case
\* (Save and SaveDir: "nothing is left behind").
NothingLeftBehind ==
  \A u \in Upload :
    LET lies == \E p \in Path : disk[p] = Placeholder(u) IN
    /\ stage[u] = "answered" => part[u] = "none" /\ ~lies
    /\ stage[u] = "refused" => /\ part[u] # "none" => u \in leftover
                               /\ lies => u \in litter

\* A transfer that never paused for staleAfter is safe from every sweep, whenever
\* that looks and whenever it removes: as long as its handler works its .part is
\* there, and no piece of it is ever missing (RemoveStaleParts).  One that did
\* pause may lose its .part, or pieces of a folder, although it goes on.
FreshPartsStay ==
  \A u \in Upload \ stalled :
    /\ stage[u] \in {"copying", "copied", "reserved", "cleared"}
         => part[u] # "none"
    /\ u \notin torn

\* When WaitUploads returns nil, every upload that was in flight when it was
\* called has cleaned up, as far as it could, or saved and noted what it received
\* (inflight).
WaitCoversUploads ==
  node = "waiting" /\ IsClosed(waitOn) =>
    \A u \in awaited : /\ stage[u] \in {"answered", "refused"}
                       /\ part[u] = "none" \/ u \in leftover

\* A closed server always gets past WaitUploads without its timeout: the
\* uploads in flight fail, and the channel the supervisor took is closed even
\* when further uploads are added while it waits (inflight.add races wait).
ShutdownDrains == node = "waiting" ~> node # "waiting"

\* The documented promise of the directory: "Existing files are never
\* overwritten" (storage.go).  An answered upload is there under its name.
ExistingNeverOverwritten ==
  \A u \in Upload : stage[u] = "answered" => disk[Final(u)] = Content(u)
=============================================================================
