------------------------------ MODULE FolderSend ------------------------------
(***************************************************************************)
(* SendDir: a folder that is sent as one tar stream while it is read       *)
(* (src/internal/client/senddir.go).                                       *)
(*                                                                         *)
(* The writer goroutine puts the stream into a pipe (io.Pipe), the HTTP    *)
(* transport takes it out, and the caller waits for the transport first    *)
(* and for the writer next.  A write blocks until the transport has taken  *)
(* it or the pipe was closed at the reading end.                           *)
(*                                                                         *)
(* The receiver may answer before it has the whole stream or not at all,   *)
(* the connection may break, the files may change, and the caller's        *)
(* context may be cancelled, at any time.  Local calls (open, stat, read)  *)
(* end, but may fail for any file.  Bytes are left out: an entry is two    *)
(* units of the stream, its header and its content, and the header of a    *)
(* folder is both.                                                         *)
(***************************************************************************)
EXTENDS Integers

CONSTANTS
  Planned,    \* number of entries of the plan that ScanDir made
  Dirs,       \* the entries that are folders
  None        \* no error or result yet

ConstantsOK ==
  /\ Planned \in Nat
  /\ Dirs \subseteq 1..Planned
  /\ None \notin {"nil", "changed", "unread", "closed"}
  /\ None \notin {"sent", "unsupported", "refused", "changed", "unread",
                  "network"}

VARIABLES
  files,       \* the files since the plan: "same", "shrunk", or "other" than
               \* planned (gone, larger, not a regular file)
  writer, cur, \* what the writer does, and with which entry
  offered,     \* the writer is in Write
  werr,        \* how the writer ended: "nil", a file that "changed" or could
               \* not be read ("unread"), or "closed" (ErrClosedPipe)
  piped,       \* how much of the stream the transport took
  sending,     \* the transport writes to the connection, and may be blocked
  shut,        \* the pipe is closed at the reading end
  exchange,    \* what hc.Do returns: "going", an error or an answer
  cancelled,   \* ctx is done
  saved,       \* the receiver has the folder under its final name
  caller,      \* where SendDir is
  result       \* what it returned

writerVars == <<writer, cur, offered, werr>>
vars == <<files, writerVars, piped, sending, shut, exchange, cancelled, saved,
          caller, result>>

Files == (1..Planned) \ Dirs
Writing == {"header", "copy", "trailer"}
Answers == {"created", "notFound", "refused"}
Own == {"changed", "unread"}    \* what only a file can do to the writer

TypeOK ==
  /\ files \in [1..Planned -> {"same", "shrunk", "other"}]
  /\ writer \in Writing \cup {"open", "closing", "done"}
  /\ cur \in 1..(Planned + 1)
  /\ offered \in BOOLEAN
  /\ werr \in Own \cup {None, "nil", "closed"}
  /\ piped \in 0..(2 * Planned + 1)
  /\ sending \in BOOLEAN
  /\ shut \in BOOLEAN
  /\ exchange \in Answers \cup {"going", "invalid", "failed"}
  /\ cancelled \in BOOLEAN
  /\ saved \in BOOLEAN
  /\ caller \in {"request", "do", "close", "wait", "read", "returned"}
  /\ result \in Own \cup {None, "sent", "unsupported", "refused", "network"}

\* The writer in which the writer begins entry k, or ends the archive.
Begins(k) == IF k <= Planned THEN "header" ELSE "trailer"

\* Bug: the end-of-archive marker is not counted.
BadTarSize == 2 * Planned

\* The length of the stream, which is sent as its Content-Length.
TarSize == 2 * Planned + 1

Init ==
  /\ files = [i \in 1..Planned |-> "same"]
  /\ writer = Begins(1) /\ cur = 1 /\ offered = FALSE /\ werr = None
  /\ piped = 0 /\ sending = FALSE /\ shut = FALSE
  /\ exchange = "going" /\ cancelled = FALSE /\ saved = FALSE
  /\ caller = "request" /\ result = None

----------------------------------------------------------------------------
(* The writer goroutine.                                                    *)

\* writeTar returns e: the pipe is closed with it, and the caller can have it.
End(e) ==
  /\ writer' = "done" /\ offered' = FALSE /\ werr' = e
  /\ UNCHANGED cur

WriterOnly == UNCHANGED <<files, piped, sending, shut, exchange, cancelled,
                          saved, caller, result>>

\* Bug: a file that cannot be opened is said to have changed.
BadOpen ==
  /\ writer = "open"
  /\ \/ /\ files[cur] = "same"
        /\ writer' = "copy" /\ UNCHANGED <<cur, offered, werr>>
     \/ End("changed")
  /\ WriterOnly

\* copyFile opens the file and compares it with the plan.  os.Open and Stat may
\* fail for a file that is as it was.
Open ==
  /\ writer = "open"
  /\ \/ /\ files[cur] = "same"
        /\ writer' = "copy" /\ UNCHANGED <<cur, offered, werr>>
     \/ files[cur] # "same" /\ End("changed")
     \/ End("unread")
  /\ WriterOnly

\* A header, a content or the end-of-archive marker goes into the pipe.
Write ==
  /\ writer \in Writing /\ ~offered /\ ~shut
  /\ writer = "copy" => files[cur] # "shrunk"
  /\ offered' = TRUE
  /\ UNCHANGED <<writer, cur, werr>> /\ WriterOnly

\* CopyN finds less than the planned size, or a read of any file fails.
ReadShort ==
  /\ writer = "copy" /\ ~offered
  /\ \/ files[cur] = "shrunk" /\ End("changed")
     \/ End("unread")
  /\ WriterOnly

\* The pipe was closed before the write, or while it was under way.
WriteFails == writer \in Writing /\ shut /\ End("closed") /\ WriterOnly

WriterEnds == writer = "closing" /\ End("nil") /\ WriterOnly

----------------------------------------------------------------------------
(* The transport, the receiver and the world.                               *)

\* Where the stream and the writer are once the write under way was taken.
\* The transport writes what it took before it reads on; it reads on after an
\* early answer, until the pipe is closed.
Take ==
  /\ offered /\ ~shut /\ ~sending
  /\ caller # "request" /\ exchange # "failed"
  /\ offered' = FALSE /\ sending' = TRUE
  /\ \/ /\ writer = "header" /\ cur \notin Dirs
        /\ writer' = "open" /\ piped' = piped + 1 /\ UNCHANGED cur
     \/ /\ writer = "header" /\ cur \in Dirs
        /\ writer' = Begins(cur + 1) /\ piped' = piped + 2 /\ cur' = cur + 1
     \/ /\ writer = "copy"
        /\ writer' = Begins(cur + 1) /\ piped' = piped + 1 /\ cur' = cur + 1
     \/ /\ writer = "trailer"
        /\ writer' = "closing" /\ piped' = piped + 1 /\ UNCHANGED cur
  /\ UNCHANGED <<werr, files, shut, exchange, cancelled, saved, caller,
                 result>>

\* The connection took what the transport had, in its own time.
Sent ==
  /\ sending /\ sending' = FALSE
  /\ UNCHANGED <<files, writerVars, piped, shut, exchange, cancelled, saved,
                 caller, result>>

DoEnds(how) ==
  /\ caller = "do" /\ exchange = "going"
  /\ exchange' = how
  /\ UNCHANGED <<files, writerVars, piped, sending, shut, cancelled, saved,
                 caller, result>>

\* The transport reads the writer's error instead of the stream, once it is not
\* in a write that the receiver holds up.
BodyFails == werr \in Own /\ ~sending /\ DoEnds("failed")

Aborts == cancelled /\ DoEnds("failed")

Breaks == DoEnds("failed")

\* The receiver answers a folder it saved, does not know folders, or refuses.
Answer ==
  \/ saved /\ DoEnds("created")
  \/ ~saved /\ (DoEnds("notFound") \/ DoEnds("refused"))

\* extractInto has as many bytes as were announced, and the folder is committed.
Saves ==
  /\ piped >= TarSize /\ ~saved /\ exchange \in {"going", "failed"}
  /\ saved' = TRUE
  /\ UNCHANGED <<files, writerVars, piped, sending, shut, exchange, cancelled,
                 caller, result>>

Changes ==
  /\ \E i \in Files : /\ files[i] = "same"
                      /\ \E c \in {"shrunk", "other"} :
                           files' = [files EXCEPT ![i] = c]
  /\ UNCHANGED <<writerVars, piped, sending, shut, exchange, cancelled, saved,
                 caller, result>>

Cancel ==
  /\ ~cancelled /\ caller # "returned"
  /\ cancelled' = TRUE
  /\ UNCHANGED <<files, writerVars, piped, sending, shut, exchange, saved,
                 caller, result>>

----------------------------------------------------------------------------
(* SendDir.                                                                 *)

\* Bug: the caller waits for the writer without closing the pipe.
BadCloses == UNCHANGED shut

Closes == shut' = TRUE

\* Bug: an error the closed pipe made is taken for a local one.
BadLocal(e) == e # "nil"

\* A problem of the writer's own, not of the pipe that was closed on it.
Local(e) == e \notin {"nil", "closed"}

\* What SendDir returns, if the writer ended with e.
Outcome(e) ==
  CASE exchange = "created" -> "sent"
    [] exchange = "notFound" -> "unsupported"
    [] exchange = "refused" -> "refused"
    [] exchange = "failed" /\ Local(e) -> e
    [] OTHER -> "network"

\* http.NewRequestWithContext, which may refuse the address.
MakeRequest ==
  /\ caller = "request"
  /\ \/ caller' = "do" /\ UNCHANGED exchange
     \/ caller' = "close" /\ exchange' = "invalid"
  /\ UNCHANGED <<files, writerVars, piped, sending, shut, cancelled, saved,
                 result>>

DoReturns ==
  /\ caller = "do" /\ exchange # "going"
  /\ caller' = "close"
  /\ UNCHANGED <<files, writerVars, piped, sending, shut, exchange, cancelled,
                 saved, result>>

ClosePipe ==
  /\ caller = "close"
  /\ Closes /\ caller' = "wait"
  /\ UNCHANGED <<files, writerVars, piped, sending, exchange, cancelled, saved,
                 result>>

\* The answers that come with a text, which SendDir reads (the name that the
\* receiver chose, responseError).
Texted == exchange \in {"created", "refused"}

Finish ==
  /\ result' = Outcome(werr) /\ caller' = "returned"
  /\ UNCHANGED <<files, writerVars, piped, sending, shut, exchange, cancelled,
                 saved>>

Return ==
  /\ caller = "wait" /\ werr # None
  /\ \/ ~Texted /\ Finish
     \/ /\ Texted /\ caller' = "read"
        /\ UNCHANGED <<files, writerVars, piped, sending, shut, exchange,
                       cancelled, saved, result>>

\* The text of the answer was read, or not: an error of ReadAll is ignored.
TextRead == caller = "read" /\ Finish

WriterStep == Open \/ Write \/ ReadShort \/ WriteFails \/ WriterEnds
CallerStep == MakeRequest \/ DoReturns \/ ClosePipe \/ Return
GivesUp == cancelled /\ TextRead

Next ==
  \/ WriterStep \/ CallerStep \/ TextRead
  \/ Take \/ Sent \/ BodyFails \/ Aborts \/ Breaks \/ Answer \/ Saves
  \/ Changes \/ Cancel

\* Goroutines go on, and the transport sees an error of the body while it reads
\* it, and a cancelled context always.  Nobody is obliged to take the stream
\* from the transport, to answer, or to send the whole answer: no time limit is
\* set for that (newHTTPClient).
Fairness ==
  /\ WF_vars(WriterStep) /\ WF_vars(CallerStep) /\ WF_vars(GivesUp)
  /\ WF_vars(BodyFails) /\ WF_vars(Aborts)

Spec == Init /\ [][Next]_vars /\ Fairness

----------------------------------------------------------------------------
(* What it promises.                                                        *)

\* A folder is saved only if its whole stream, up to the writer's last write,
\* went out, and SendDir reports it as sent only then (extractInto, SendDir).
OnlyWholeIsSaved ==
  /\ saved => writer = "closing" \/ werr = "nil"
  /\ result = "sent" => saved

\* SendDir leaves no goroutine behind.  What it says of the files is true: one
\* did change if it says so, and whenever it blames them, with an error of its
\* own or of the reading, the receiver has not saved and will not save the folder
\* without it.  It blames the network only if no file stopped the writer (the
\* comments on errors.Is and on writeTar).
CausesAreTrue ==
  /\ result # None => writer = "done"
  /\ result = "changed" => \E i \in Files : files[i] # "same"
  /\ result \in Own => ~saved
  /\ result = "network" /\ exchange = "failed" => werr \notin Own

SendDirHonest == OnlyWholeIsSaved /\ CausesAreTrue

\* SendDir returns once it was cancelled, the exchange failed, or a file stopped
\* the writer while the transport reads from it; after an answer, however early,
\* it gets to the text of that answer at least (SendDir).  A receiver that takes
\* nothing more, or that holds back its text, is left only by cancelling.
SendDirReturns ==
  /\ cancelled \/ exchange \in {"invalid", "failed", "notFound"}
       ~> caller = "returned"
  /\ (werr \in Own /\ ~sending) \/ exchange # "going"
       ~> caller \in {"read", "returned"}
=============================================================================
