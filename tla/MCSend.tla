-------------------------------- MODULE MCSend --------------------------------
(***************************************************************************)
(* The sending side in one run: the transfer manager with an item and a    *)
(* text, SendDir with a folder on its way, and the lookup of the machine   *)
(* to send to.  A behaviour is one of the part it has picked; the others   *)
(* stay in an initial state.                                               *)
(***************************************************************************)
EXTENDS MCTransfer

CONSTANTS
  Planned, Dirs, None,                                 \* FolderSend
  Machine, Addr, Name, Id, NoId, All, IdOf, NameOf,    \* Lookup
  MaxSockets, MaxMoves,
  m1, m2    \* the machines of the instance

VARIABLES
  part,     \* the part that runs
  files, writer, cur, offered, werr, piped, sending, shut, exchange, cancelled,
  saved, caller, result,
  at, moves, net, socket, stage, wanted, replies, givenUp, ending, target, held

folderVars == <<files, writer, cur, offered, werr, piped, sending, shut,
                exchange, cancelled, saved, caller, result>>
lookupVars == <<at, moves, net, socket, stage, wanted, replies, givenUp, ending,
                target, held>>
sendVars == <<part, vars, folderVars, lookupVars>>

\* Two machines of one name; the second one sends no ID.
OneHasId == (m1 :> "i1" @@ m2 :> NoId)
SameName == (m1 :> "bob" @@ m2 :> "bob")

Folder == INSTANCE FolderSend
Look == INSTANCE Lookup WITH cancelled <- givenUp, result <- ending

ASSUME PartsConstants == Folder!ConstantsOK /\ Look!ConstantsOK

SendInit ==
  /\ part \in {"manager", "folder", "lookup"}
  /\ Init /\ Folder!Init /\ Look!Init
  /\ part # "lookup" => at = [m \in Machine |-> {}]

Picks(p, others) == part = p /\ UNCHANGED <<part, others>>

Manager == Picks("manager", <<folderVars, lookupVars>>)
OnItsWay == Picks("folder", <<vars, lookupVars>>)
Looking == Picks("lookup", <<vars, folderVars>>)

SendNext ==
  \/ Manager /\ Next
  \/ OnItsWay /\ Folder!Next
  \/ Looking /\ Look!Next

\* The fairness of SendDir and of the lookup, for their steps in a behaviour of
\* that part; of the manager, this run asks nothing that needs any.
SendFairness ==
  /\ WF_sendVars(OnItsWay /\ Folder!WriterStep)
  /\ WF_sendVars(OnItsWay /\ Folder!CallerStep)
  /\ WF_sendVars(OnItsWay /\ Folder!GivesUp)
  /\ WF_sendVars(OnItsWay /\ Folder!BodyFails)
  /\ WF_sendVars(OnItsWay /\ Folder!Aborts)
  /\ WF_sendVars(Looking /\ Look!Step)

SendSpec == SendInit /\ [][SendNext]_sendVars /\ SendFairness

----------------------------------------------------------------------------
(* The properties of the parts.                                             *)

\* FolderSend: a folder is saved and reported as sent only if it went out as
\* planned, and what SendDir blames is what went wrong (SendDir, writeTar,
\* extractInto).
FolderHonest == Folder!TypeOK /\ Folder!SendDirHonest

\* Lookup: what was looked for is never taken for another machine (Locate, query,
\* Serve).
RightMachine == Look!TypeOK /\ Look!RightMachine

\* SendDir returns once it was cancelled or the exchange failed, and gets to the
\* answer's text once it was answered or a file stopped its writer while the
\* transport was reading; a lookup ends by its deadlines, whatever is lost.  The
\* manager's fairness takes the first and the last for granted (SendDir, query).
SendsAndLookupsEnd == Folder!SendDirReturns /\ Look!LocateEnds
=============================================================================
