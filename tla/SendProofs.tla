------------------------------ MODULE SendProofs ------------------------------
(***************************************************************************)
(* Theorems about the parts of MCSend that are not the transfer manager:   *)
(* SendDir, for any plan of a folder, and the lookup, for any machines,    *)
(* names, addresses and IDs.                                               *)
(***************************************************************************)
EXTENDS MCSend, TLAPS

----------------------------------------------------------------------------
(* FolderSend.                                                              *)

\* How far the stream is, in each thing the writer does.  Only the write that
\* ends the archive brings the transport to TarSize.
StreamFollowsWriter ==
  /\ offered => writer \in Folder!Writing
  /\ writer = "header" => cur <= Planned /\ piped = 2 * (cur - 1)
  /\ writer \in {"open", "copy"} => cur \in Folder!Files /\ piped = 2 * cur - 1
  /\ writer = "trailer" => cur = Planned + 1 /\ piped = 2 * Planned
  /\ writer = "closing" => piped = Folder!TarSize
  /\ writer = "done" <=> werr # None
  /\ werr = "nil" => piped = Folder!TarSize
  /\ werr \in Folder!Own \cup {"closed"} => piped < Folder!TarSize

\* What an error of the writer says of the files.
ErrorsAreTrue == werr = "changed" => \E i \in Folder!Files : files[i] # "same"

\* The answer of the receiver, and what the caller made of it.
ResultFollows ==
  /\ saved => piped = Folder!TarSize
  /\ exchange = "created" => saved
  /\ result # None => caller = "returned" /\ writer = "done"
  /\ result = "sent" => exchange = "created"
  /\ caller = "read" => writer = "done"
  /\ result \in Folder!Own => werr = result
  /\ result = "network" /\ exchange = "failed" => werr \notin Folder!Own

\* The inductive invariant of a folder upload.
FolderInv ==
  Folder!TypeOK /\ StreamFollowsWriter /\ ErrorsAreTrue /\ ResultFollows

\* The first entry is a header, or there is none.
LEMMA FolderStart == ASSUME Folder!ConstantsOK PROVE Folder!Init => FolderInv
<1> SUFFICES ASSUME Folder!Init PROVE FolderInv
  OBVIOUS
<1> USE DEF Folder!ConstantsOK, Folder!Init, Folder!Begins, Folder!Own
<1>1. Folder!TypeOK
  <2>1. files \in [1..Planned -> {"same", "shrunk", "other"}]
    OBVIOUS
  <2>2. cur \in 1..(Planned + 1) /\ piped \in 0..(2 * Planned + 1)
    OBVIOUS
  <2>3. writer \in Folder!Writing
    BY DEF Folder!Writing
  <2> QED
    BY <2>1, <2>2, <2>3 DEF Folder!TypeOK
<1>2. StreamFollowsWriter
  BY DEF StreamFollowsWriter, Folder!Writing, Folder!TarSize
<1>3. ErrorsAreTrue /\ ResultFollows
  BY DEF ErrorsAreTrue, ResultFollows
<1> QED
  BY <1>1, <1>2, <1>3 DEF FolderInv

\* The writer's own steps leave the stream where it is; an error of a file is
\* one of the entry at hand.
LEMMA WriterKeeps ==
  ASSUME Folder!ConstantsOK, FolderInv, Folder!WriterStep PROVE FolderInv'
<1> USE DEF Folder!ConstantsOK, FolderInv, Folder!WriterOnly, Folder!End,
        Folder!Writing, Folder!Answers, Folder!Own
<1>1. Folder!TypeOK'
  <2>1. /\ writer' \in Folder!Writing \cup {"open", "closing", "done"}
        /\ offered' \in BOOLEAN
        /\ werr' \in Folder!Own \cup {None, "nil", "closed"}
        /\ cur' = cur
    BY DEF Folder!TypeOK, Folder!WriterStep, Folder!Open, Folder!Write,
         Folder!ReadShort, Folder!WriteFails, Folder!WriterEnds
  <2>2. UNCHANGED <<files, piped, sending, shut, exchange, cancelled, saved,
                    caller, result>>
    BY DEF Folder!WriterStep, Folder!Open, Folder!Write, Folder!ReadShort,
         Folder!WriteFails, Folder!WriterEnds
  <2> QED
    BY <2>1, <2>2 DEF Folder!TypeOK
<1>2. StreamFollowsWriter'
  <2> USE DEF Folder!TypeOK, StreamFollowsWriter, Folder!TarSize, Folder!Files
  <2>1. CASE Folder!Open
    BY <2>1 DEF Folder!Open
  <2>2. CASE Folder!Write
    BY <2>2 DEF Folder!Write
  <2>3. CASE Folder!ReadShort
    BY <2>3 DEF Folder!ReadShort
  <2>4. CASE Folder!WriteFails
    BY <2>4 DEF Folder!WriteFails
  <2>5. CASE Folder!WriterEnds
    BY <2>5 DEF Folder!WriterEnds
  <2> QED
    BY <2>1, <2>2, <2>3, <2>4, <2>5 DEF Folder!WriterStep
<1>3. ErrorsAreTrue'
  BY DEF Folder!TypeOK, StreamFollowsWriter, ErrorsAreTrue, Folder!WriterStep,
       Folder!Open, Folder!Write, Folder!ReadShort, Folder!WriteFails,
       Folder!WriterEnds
<1>4. ResultFollows'
  BY DEF ResultFollows, StreamFollowsWriter, Folder!WriterStep, Folder!Open,
       Folder!Write, Folder!ReadShort, Folder!WriteFails, Folder!WriterEnds,
       Folder!TarSize
<1> QED
  BY <1>1, <1>2, <1>3, <1>4

\* A piece that is taken moves the stream and the writer together.
LEMMA TakeKeeps ==
  ASSUME Folder!ConstantsOK, FolderInv, Folder!Take PROVE FolderInv'
<1> USE DEF Folder!ConstantsOK, FolderInv, Folder!TypeOK, Folder!Take,
        Folder!Writing, Folder!Answers, Folder!Own
<1>1. writer # "trailer" => cur \in 1..Planned
  BY DEF StreamFollowsWriter, Folder!Files
<1>2. Folder!TypeOK'
  <2>1. /\ writer' \in Folder!Writing \cup {"open", "closing", "done"}
        /\ cur' \in 1..(Planned + 1)
        /\ piped' \in 0..(2 * Planned + 1)
    BY <1>1 DEF StreamFollowsWriter, Folder!Begins, Folder!Files
  <2> QED
    BY <2>1
<1>3. StreamFollowsWriter'
  BY <1>1 DEF StreamFollowsWriter, Folder!Begins, Folder!TarSize, Folder!Files
<1>4. ErrorsAreTrue' /\ ResultFollows'
  BY DEF StreamFollowsWriter, ErrorsAreTrue, ResultFollows, Folder!TarSize,
       Folder!Files
<1> QED
  BY <1>2, <1>3, <1>4

\* The exchange ends while SendDir waits for it: no result depends on it yet.
\* What the connection took changes nothing else.
LEMMA ExchangeKeeps ==
  ASSUME Folder!ConstantsOK, FolderInv,
         \/ Folder!BodyFails \/ Folder!Aborts \/ Folder!Breaks
         \/ Folder!Answer \/ Folder!Sent
  PROVE FolderInv'
<1> USE DEF Folder!ConstantsOK, FolderInv, Folder!TypeOK, StreamFollowsWriter,
        ErrorsAreTrue, ResultFollows, Folder!Writing, Folder!Answers, Folder!Own,
        Folder!TarSize, Folder!Files, Folder!writerVars, Folder!DoEnds
<1>1. CASE Folder!BodyFails
  BY <1>1 DEF Folder!BodyFails
<1>2. CASE Folder!Aborts \/ Folder!Breaks
  BY <1>2 DEF Folder!Aborts, Folder!Breaks
<1>3. CASE Folder!Answer
  BY <1>3 DEF Folder!Answer
<1>4. CASE Folder!Sent
  <2>1. /\ sending' \in BOOLEAN
        /\ UNCHANGED <<files, writer, cur, offered, werr, piped, shut, exchange,
                       cancelled, saved, caller, result>>
    BY <1>4 DEF Folder!Sent
  <2> QED
    BY <2>1
<1> QED
  BY <1>1, <1>2, <1>3, <1>4

\* What the world does by itself.
LEMMA WorldKeeps ==
  ASSUME Folder!ConstantsOK, FolderInv,
         Folder!Saves \/ Folder!Changes \/ Folder!Cancel
  PROVE  FolderInv'
<1> USE DEF Folder!ConstantsOK, FolderInv, Folder!TypeOK, StreamFollowsWriter,
        ErrorsAreTrue, ResultFollows, Folder!Writing, Folder!Answers, Folder!Own,
        Folder!TarSize, Folder!Files, Folder!writerVars
<1>1. CASE Folder!Saves
  BY <1>1 DEF Folder!Saves
<1>2. CASE Folder!Changes
  BY <1>2 DEF Folder!Changes
<1>3. CASE Folder!Cancel
  BY <1>3 DEF Folder!Cancel
<1> QED
  BY <1>1, <1>2, <1>3

\* SendDir's own steps; only the last one makes a result.
LEMMA CallerKeeps ==
  ASSUME Folder!ConstantsOK, FolderInv, Folder!CallerStep \/ Folder!TextRead
  PROVE  FolderInv'
<1> USE DEF Folder!ConstantsOK, FolderInv, Folder!TypeOK, StreamFollowsWriter,
        ErrorsAreTrue, ResultFollows, Folder!Writing, Folder!Answers, Folder!Own,
        Folder!TarSize, Folder!Files, Folder!writerVars
<1>1. CASE Folder!MakeRequest
  BY <1>1 DEF Folder!MakeRequest
<1>2. CASE Folder!DoReturns
  BY <1>2 DEF Folder!DoReturns
<1>3. CASE Folder!ClosePipe
  BY <1>3 DEF Folder!ClosePipe, Folder!Closes
<1>4. CASE Folder!Return
  BY <1>4 DEF Folder!Return, Folder!Texted, Folder!Finish, Folder!Outcome,
     Folder!Local
<1>5. CASE Folder!TextRead
  BY <1>5 DEF Folder!TextRead, Folder!Finish, Folder!Outcome, Folder!Local
<1> QED
  BY <1>1, <1>2, <1>3, <1>4, <1>5 DEF Folder!CallerStep

\* Every step of SendDir, the transport or the world keeps the invariant.
LEMMA FolderStep ==
  ASSUME Folder!ConstantsOK, FolderInv, [Folder!Next]_(Folder!vars)
  PROVE  FolderInv'
<1>1. CASE Folder!Next
  BY <1>1, WriterKeeps, TakeKeeps, ExchangeKeeps, WorldKeeps, CallerKeeps
     DEF Folder!Next
<1>2. CASE UNCHANGED Folder!vars
  BY <1>2 DEF Folder!vars, Folder!writerVars, FolderInv, Folder!TypeOK,
     StreamFollowsWriter, ErrorsAreTrue, ResultFollows
<1>3. QED
  BY <1>1, <1>2

\* A folder is saved, and reported as sent, only if its whole stream went out;
\* a file is said to have changed only if one did, a file is blamed only for a
\* folder that the receiver never saves, and the network only if no file stopped
\* the writer (SendDir, writeTar, extractInto).
THEOREM SentIsWhole == SendSpec => []FolderHonest
<1>1. SendInit => FolderInv
  BY PartsConstants, FolderStart DEF SendInit
<1>2. FolderInv /\ [SendNext]_sendVars => FolderInv'
  <2>1. [SendNext]_sendVars => [Folder!Next]_(Folder!vars)
    BY DEF SendNext, Picks, Manager, OnItsWay, Looking, sendVars, folderVars,
       Folder!vars, Folder!writerVars
  <2>2. QED
    BY <2>1, PartsConstants, FolderStep
<1>3. FolderInv => FolderHonest
  <2>1. FolderInv => Folder!OnlyWholeIsSaved
    BY PartsConstants DEF Folder!ConstantsOK, FolderInv, Folder!TypeOK,
       StreamFollowsWriter, ResultFollows, Folder!OnlyWholeIsSaved,
       Folder!Writing, Folder!TarSize, Folder!Files
  <2>2. FolderInv => Folder!CausesAreTrue
    <3> SUFFICES ASSUME FolderInv PROVE Folder!CausesAreTrue
      OBVIOUS
    <3>1. result # None => writer = "done"
      BY DEF FolderInv, ResultFollows
    <3>2. result = "changed" => \E i \in Folder!Files : files[i] # "same"
      BY DEF FolderInv, ErrorsAreTrue, ResultFollows, Folder!Own
    <3>3. result \in Folder!Own => ~saved
      <4>1. piped \in Nat /\ Folder!TarSize \in Nat
        BY PartsConstants DEF FolderInv, Folder!TypeOK, Folder!ConstantsOK,
           Folder!TarSize
      <4>2. result \in Folder!Own => piped < Folder!TarSize
        BY DEF FolderInv, StreamFollowsWriter, ResultFollows, Folder!Own
      <4>3. saved => piped = Folder!TarSize
        BY DEF FolderInv, ResultFollows
      <4> QED
        BY <4>1, <4>2, <4>3
    <3>4. result = "network" /\ exchange = "failed" => werr \notin Folder!Own
      BY DEF FolderInv, ResultFollows
    <3> QED
      BY <3>1, <3>2, <3>3, <3>4 DEF Folder!CausesAreTrue
  <2>3. QED
    BY <2>1, <2>2 DEF FolderInv, FolderHonest, Folder!SendDirHonest
<1>4. QED
  BY <1>1, <1>2, <1>3, PTL DEF SendSpec

----------------------------------------------------------------------------
(* Lookup.                                                                  *)

\* A reply that tells of a machine that listened there while it was looked for.
Genuine(f) ==
  \E m \in Machine : /\ f.id = IdOf[m] /\ f.name = NameOf[m]
                     /\ <<m, f.addr>> \in held

\* The lookup waits for replies.
Searching == stage \in {"query", "search"}

\* Whoever listens was seen to since the lookup began.
Witnessed ==
  stage # "idle" => \A m \in Machine : \A a \in at[m] : <<m, a>> \in held

\* Nothing was sent for a socket that was not opened yet, and what came for the
\* socket in use is genuine: its query was sent by this lookup.
AllGenuine ==
  /\ \A d \in net : d.socket <= socket
  /\ Searching => \A d \in net :
       d.type = "reply" /\ d.socket = socket => Genuine(d.from)
  /\ Searching => \A r \in replies : Genuine(r)

\* What a lookup that ended rests on.
Verdict ==
  /\ stage # "idle" => wanted \in Look!Peer
  /\ stage # "done" => ending = "none"
  /\ stage = "between" => Look!Matches = {}

\* The inductive invariant of a lookup.
LookInv ==
  Look!TypeOK /\ Witnessed /\ AllGenuine /\ Verdict /\ Look!RightMachine

\* Nothing was looked for yet.
LEMMA LookStart == ASSUME Look!ConstantsOK PROVE Look!Init => LookInv
<1> SUFFICES ASSUME Look!Init PROVE LookInv
  OBVIOUS
<1>1. Look!TypeOK
  <2>1. 0 \in 0..MaxMoves /\ 0 \in 0..MaxSockets
    BY DEF Look!ConstantsOK
  <2>2. QED
    BY <2>1 DEF Look!Init, Look!TypeOK, Look!outcome
<1>2. Witnessed /\ AllGenuine /\ Verdict /\ Look!RightMachine
  BY DEF Look!Init, Witnessed, AllGenuine, Searching, Verdict,
     Look!RightMachine
<1>3. QED
  BY <1>1, <1>2 DEF LookInv

\* What the two machines of a network tell of themselves.
LEMMA LookTypes ==
  ASSUME Look!ConstantsOK, NEW m \in Machine, NEW a \in Addr
  PROVE  [addr |-> a, id |-> IdOf[m], name |-> NameOf[m]] \in Look!Found
BY DEF Look!ConstantsOK, Look!Found

\* A machine that moves was there, and stays a witness.
LEMMA MoveKeeps ==
  ASSUME Look!ConstantsOK, LookInv, Look!Move PROVE LookInv'
<1> USE DEF LookInv, Look!outcome
<1>1. /\ at' \in [Machine -> SUBSET Addr]
      /\ held \subseteq held' /\ held' \subseteq Machine \X Addr
      /\ \A m \in Machine : \A a \in at'[m] : <<m, a>> \in held'
      /\ moves' \in 0..MaxMoves
      /\ UNCHANGED <<net, socket, stage, wanted, replies, givenUp, ending,
                     target>>
  <2>1. at' \in [Machine -> SUBSET Addr]
    BY DEF Look!Move, Look!TypeOK
  <2>2. \A m \in Machine : \A a \in at'[m] : <<m, a>> \in Look!Places(at')
    BY <2>1 DEF Look!Places
  <2>3. QED
    BY <2>1, <2>2 DEF Look!Move, Look!TypeOK, Look!Places, Look!ConstantsOK
<1>2. \A f : Genuine(f) => Genuine(f)'
  BY <1>1 DEF Genuine
<1>3. Look!TypeOK'
  BY <1>1 DEF Look!TypeOK
<1>4. Witnessed' /\ AllGenuine' /\ Verdict'
  BY <1>1, <1>2 DEF Witnessed, AllGenuine, Verdict, Searching, Look!Matches,
     Look!Same
<1>5. Look!RightMachine'
  BY <1>1 DEF Look!RightMachine, Look!Is, Look!Matches, Look!Same
<1>6. QED
  BY <1>3, <1>4, <1>5

\* An answer is genuine, whichever socket it is for.
LEMMA AnswerKeeps ==
  ASSUME Look!ConstantsOK, LookInv, Look!Answer PROVE LookInv'
<1> USE DEF LookInv, Look!outcome
<1>1. PICK q \in net, m \in Machine : \E a \in at[m] :
        /\ q.type = "query"
        /\ net' = net \cup
             {[type |-> "reply", socket |-> q.socket,
               from |-> [addr |-> a, id |-> IdOf[m],
                         name |-> NameOf[m]]]}
  BY DEF Look!Answer
<1>2. PICK a \in at[m] :
         net' = net \cup
           {[type |-> "reply", socket |-> q.socket,
             from |-> [addr |-> a, id |-> IdOf[m], name |-> NameOf[m]]]}
  BY <1>1
<1> DEFINE f == [addr |-> a, id |-> IdOf[m], name |-> NameOf[m]]
           d == [type |-> "reply", socket |-> q.socket, from |-> f]
<1>3. UNCHANGED <<at, moves, socket, stage, wanted, replies, givenUp, ending,
                  target, held>>
  BY DEF Look!Answer
<1>4. q.socket \in Nat /\ q.socket <= socket /\ a \in Addr
  <2>1. q \in Look!Query
    BY <1>1 DEF Look!TypeOK, Look!Query, Look!Reply
  <2>2. QED
    BY <2>1 DEF Look!TypeOK, Look!Query, AllGenuine
<1>5. f \in Look!Found
  BY <1>4, LookTypes
<1>6. d \in Look!Reply
  BY <1>4, <1>5 DEF Look!Reply
<1>7. Look!TypeOK'
  BY <1>2, <1>3, <1>6 DEF Look!TypeOK
<1>8. Searching => Genuine(f)
  BY DEF Searching, Witnessed, Genuine
<1>9. AllGenuine'
  <2>1. \A x : Genuine(x)' <=> Genuine(x)
    BY <1>3 DEF Genuine
  <2>2. QED
    BY <1>2, <1>3, <1>4, <1>8, <2>1 DEF AllGenuine, Searching
<1>10. Witnessed' /\ Verdict' /\ Look!RightMachine'
  BY <1>3 DEF Witnessed, Verdict, Look!RightMachine, Look!Is, Look!Matches,
     Look!Same
<1>11. QED
  BY <1>7, <1>9, <1>10

\* The socket in use takes only what came for it.
LEMMA HearKeeps ==
  ASSUME Look!ConstantsOK, LookInv, Look!Hear PROVE LookInv'
<1> USE DEF LookInv, Look!outcome
<1>1. PICK d \in net : /\ d.type = "reply" /\ d.socket = socket
                       /\ replies' = replies \cup {d.from}
  BY DEF Look!Hear, Look!Mine
<1>2. /\ Searching
      /\ UNCHANGED <<at, moves, net, socket, stage, wanted, givenUp, ending,
                     target, held>>
  BY DEF Look!Hear, Searching
<1>3. d.from \in Look!Found /\ Genuine(d.from)
  <2>1. d \in Look!Reply
    BY <1>1 DEF Look!TypeOK, Look!Query, Look!Reply
  <2>2. QED
    BY <1>1, <1>2, <2>1 DEF Look!Reply, AllGenuine
<1>4. Look!TypeOK'
  BY <1>1, <1>2, <1>3 DEF Look!TypeOK
<1>5. Witnessed' /\ Verdict' /\ Look!RightMachine'
  BY <1>2 DEF Witnessed, Verdict, Look!RightMachine, Searching
<1>6. AllGenuine'
  <2>1. \A x : Genuine(x)' <=> Genuine(x)
    BY <1>2 DEF Genuine
  <2>2. QED
    BY <1>1, <1>2, <1>3, <2>1 DEF AllGenuine, Searching
<1>7. QED
  BY <1>4, <1>5, <1>6

\* A new socket has no answers yet.
LEMMA FreshSocket ==
  ASSUME Look!ConstantsOK, LookInv, NEW to \in Addr \cup {All}, Look!Ask(to)
  PROVE  /\ net' \subseteq Look!Query \cup Look!Reply
         /\ socket' \in 0..MaxSockets /\ replies' = {}
         /\ \A d \in net' : d.socket <= socket'
         /\ \A d \in net' : d.type = "reply" => d.socket # socket'
<1> DEFINE q == [type |-> "query", to |-> to, socket |-> socket + 1]
<1>1. socket \in Nat /\ MaxSockets \in Nat
  BY DEF LookInv, Look!TypeOK, Look!ConstantsOK
<1>2. q \in Look!Query
  BY <1>1 DEF Look!Query
<1>3. \A d \in net : d.socket \in Nat /\ d.socket <= socket
  BY DEF LookInv, Look!TypeOK, AllGenuine, Look!Query, Look!Reply
<1>4. QED
  BY <1>1, <1>2, <1>3 DEF Look!Ask, LookInv, Look!TypeOK

\* A lookup begins: with the list's address, a query, or nothing to ask.
LEMMA BeginKeeps ==
  ASSUME Look!ConstantsOK, LookInv, Look!Locate \/ Look!ByName PROVE LookInv'
<1> USE DEF LookInv, Look!outcome
<1>1. /\ UNCHANGED <<at, moves>> /\ givenUp' = FALSE
      /\ held' = Look!Places(at) /\ Look!Places(at) \subseteq Machine \X Addr
      /\ \A m \in Machine : \A a \in at[m] : <<m, a>> \in held'
  BY DEF Look!Locate, Look!ByName, Look!Begins, Look!Places, Look!TypeOK
<1>2. wanted' \in Look!Peer
  <2>1. CASE Look!Locate
    BY <2>1 DEF Look!Locate
  <2>2. CASE Look!ByName
    <3>1. (CHOOSE a \in Addr : TRUE) \in Addr
      BY DEF Look!ConstantsOK
    <3>2. QED
      BY <2>2, <3>1 DEF Look!ByName, Look!Peer
  <2>3. QED
    BY <2>1, <2>2
<1>3. CASE /\ Look!Ask(wanted'.addr) \/ Look!Ask(All)
           /\ Look!Goes("query") \/ Look!Goes("search")
  <2>1. wanted'.addr \in Addr
    BY <1>2 DEF Look!Peer
  <2>2. /\ net' \subseteq Look!Query \cup Look!Reply
        /\ socket' \in 0..MaxSockets /\ replies' = {}
        /\ \A d \in net' : d.socket <= socket'
        /\ \A d \in net' : d.type = "reply" => d.socket # socket'
    BY <1>3, <2>1, FreshSocket
  <2>3. QED
    BY <1>1, <1>2, <1>3, <2>2 DEF Look!TypeOK, Witnessed, AllGenuine, Verdict,
       Look!RightMachine, Look!Goes
<1>4. CASE /\ UNCHANGED <<net, socket>> /\ replies' = {}
           /\ Look!Goes("between") \/ Look!Fails("offline")
  BY <1>1, <1>2, <1>4
     DEF Look!TypeOK, Witnessed, AllGenuine, Verdict, Searching,
     Look!RightMachine, Look!Matches, Look!Goes, Look!Fails
<1>5. CASE /\ UNCHANGED <<net, socket, replies>> /\ wanted'.online
           /\ Look!Finds([addr |-> wanted'.addr, id |-> wanted'.id,
                          name |-> wanted'.name])
  <2>1. [addr |-> wanted'.addr, id |-> wanted'.id, name |-> wanted'.name]
          \in Look!Found
    BY <1>2 DEF Look!Peer, Look!Found
  <2>2. QED
    BY <1>1, <1>2, <1>5, <2>1 DEF Look!TypeOK, Witnessed, AllGenuine, Verdict,
       Searching, Look!RightMachine, Look!Finds
<1>6. QED
  BY <1>3, <1>4, <1>5 DEF Look!Locate, Look!ByName

\* The machine that answered rightly is the one that was chosen.
LEMMA RightOne ==
  ASSUME Look!ConstantsOK, LookInv, NEW r \in Look!Matches, Searching,
         UNCHANGED <<held, wanted>>,
         Look!Finds(r) \/ Look!Finds(Look!Listed(r))
  PROVE  /\ target' \in Look!Found
         /\ \E m \in Machine : Look!Is(m)' /\ <<m, target'.addr>> \in held'
<1>1. /\ r \in replies /\ r \in Look!Found /\ Genuine(r)
      /\ wanted \in Look!Peer
  BY DEF LookInv, Look!TypeOK, Look!Matches, AllGenuine, Verdict, Searching
<1>2. PICK m \in Machine : /\ r.id = IdOf[m] /\ r.name = NameOf[m]
                           /\ <<m, r.addr>> \in held
  BY <1>1 DEF Genuine
<1>3. target'.addr = r.addr /\ target' \in Look!Found
  BY <1>1 DEF Look!Finds, Look!Listed, Look!Found, Look!Peer
<1>4. Look!Is(m)'
  BY <1>2 DEF Look!Matches, Look!Same, Look!Is
<1>5. QED
  BY <1>2, <1>3, <1>4

\* A query, a search, or the pause between them ends.
LEMMA StepKeeps ==
  ASSUME Look!ConstantsOK, LookInv, Look!Step \/ Look!Aborts PROVE LookInv'
<1> USE DEF LookInv, Look!outcome
<1>1. /\ UNCHANGED <<at, moves, wanted, givenUp, held>>
      /\ stage \in {"query", "search", "between"}
  BY DEF Look!Step, Look!Aborts, Look!QueryEnds, Look!Search, Look!SearchEnds,
     Look!Stays
<1>2. wanted \in Look!Peer
  BY <1>1 DEF Verdict
<1>3. CASE /\ Look!Ask(All) /\ Look!Goes("search")
  <2>1. /\ net' \subseteq Look!Query \cup Look!Reply
        /\ socket' \in 0..MaxSockets /\ replies' = {}
        /\ \A d \in net' : d.socket <= socket'
        /\ \A d \in net' : d.type = "reply" => d.socket # socket'
    BY <1>3, FreshSocket
  <2>2. QED
    BY <1>1, <1>2, <1>3, <2>1 DEF Look!TypeOK, Witnessed, AllGenuine, Verdict,
       Look!RightMachine, Look!Goes
<1>4. CASE /\ UNCHANGED <<net, socket>>
           /\ \/ replies' = {}
              \/ UNCHANGED replies /\ Look!Matches = {}
           /\ Look!Goes("between") \/ Look!Fails("offline")
  <2>1. Look!Matches' = {}
    BY <1>1, <1>4 DEF Look!Matches, Look!Same
  <2>2. QED
    BY <1>1, <1>2, <1>4, <2>1 DEF Look!TypeOK, Witnessed, AllGenuine, Verdict,
       Searching, Look!RightMachine, Look!Goes, Look!Fails
<1>5. CASE /\ UNCHANGED <<net, socket, replies>> /\ Searching
           /\ \E r \in Look!Matches :
                Look!Finds(r) \/ Look!Finds(Look!Listed(r))
  <2>1. /\ target' \in Look!Found
        /\ \E m \in Machine : Look!Is(m)' /\ <<m, target'.addr>> \in held'
    BY <1>1, <1>5, RightOne
  <2>2. stage' = "done" /\ ending' = "target"
    BY <1>5 DEF Look!Finds
  <2>3. QED
    BY <1>1, <1>2, <1>5, <2>1, <2>2 DEF Look!TypeOK, Witnessed, AllGenuine,
       Verdict, Searching, Look!RightMachine
<1>6. CASE /\ UNCHANGED <<net, socket, replies>> /\ wanted.id = NoId
           /\ Look!Fails("several")
  BY <1>1, <1>2, <1>6
     DEF Look!TypeOK, Witnessed, AllGenuine, Verdict, Searching,
     Look!RightMachine, Look!Fails
<1>7. QED
  <2>1. stage = "between" => Look!Matches = {}
    BY DEF Verdict
  <2>2. CASE Look!QueryEnds
    BY <1>4, <1>5, <2>2 DEF Look!QueryEnds, Searching
  <2>3. CASE Look!Search
    BY <1>3, <1>4, <2>1, <2>3 DEF Look!Search
  <2>4. CASE Look!SearchEnds
    BY <1>4, <1>5, <1>6, <2>4 DEF Look!SearchEnds, Searching
  <2>5. CASE Look!Aborts
    <3>1. /\ UNCHANGED <<net, socket>> /\ replies' = {}
          /\ Look!Goes("between") \/ Look!Fails("offline")
      BY <2>5 DEF Look!Aborts
    <3>2. QED
      BY <1>4, <3>1
  <2>6. QED
    BY <2>2, <2>3, <2>4, <2>5 DEF Look!Step

\* Cancel only closes the socket in use.
LEMMA CancelKeeps ==
  ASSUME Look!ConstantsOK, LookInv, Look!Cancel PROVE LookInv'
<1>1. /\ givenUp' \in BOOLEAN
      /\ UNCHANGED <<at, moves, net, socket, stage, wanted, replies, ending,
                     target, held>>
  BY DEF Look!Cancel, Look!outcome
<1>2. QED
  BY <1>1 DEF LookInv, Look!TypeOK, Look!RightMachine, Look!Is, Look!Matches,
     Look!Same, Witnessed, AllGenuine, Genuine, Searching, Verdict

\* Every step of a lookup, or of the network, keeps the invariant.
LEMMA LookStep ==
  ASSUME Look!ConstantsOK, LookInv, [Look!Next]_(Look!vars) PROVE LookInv'
<1>1. CASE Look!Next
  BY <1>1, MoveKeeps, AnswerKeeps, HearKeeps, BeginKeeps, StepKeeps,
     CancelKeeps DEF Look!Next
<1>2. CASE UNCHANGED Look!vars
  BY <1>2 DEF Look!vars, Look!outcome, LookInv, Look!TypeOK,
     Look!RightMachine, Look!Is, Look!Matches, Look!Same, Witnessed,
     AllGenuine, Genuine, Searching, Verdict
<1>3. QED
  BY <1>1, <1>2

\* A peer that is not used as listed is the machine that was chosen, at an
\* address where it listened meanwhile; it is called offline only if no reply
\* was its own, whatever is lost, late or doubled (Locate, query, Serve).
THEOREM RightOneFound == SendSpec => []RightMachine
<1>1. SendInit => LookInv
  BY PartsConstants, LookStart DEF SendInit
<1>2. LookInv /\ [SendNext]_sendVars => LookInv'
  <2>1. [SendNext]_sendVars => [Look!Next]_(Look!vars)
    BY DEF SendNext, Picks, Manager, OnItsWay, Looking, sendVars, lookupVars,
       Look!vars, Look!outcome
  <2>2. QED
    BY <2>1, PartsConstants, LookStep
<1>3. LookInv => RightMachine
  BY DEF LookInv, RightMachine
<1>4. QED
  BY <1>1, <1>2, <1>3, PTL DEF SendSpec
=============================================================================
