-------------------------------- MODULE MCFiles ------------------------------
(***************************************************************************)
(* The three files of the config folder in one run: peers.json with the    *)
(* goroutines around it, history.jsonl and device-id.  A behaviour is one  *)
(* of the part it has picked; the others stay in an initial state.         *)
(*                                                                         *)
(* The peer list has two parts: a machine that first announces itself      *)
(* without an ID and then with one from another address, and a machine     *)
(* that falls silent, comes back, and sends requests from another address. *)
(***************************************************************************)
EXTENDS PeerList

CONSTANTS
  i1, i2, bob, a1, a2, h1,                        \* PeerList
  Message, Upload, Command, None, MaxCuts, m2,    \* History
  Process, Missing, Corrupt                       \* Identity

VARIABLES
  part,     \* the part that runs
  log, job, fresh, storeMu, inboxMu, printed, up, cmd, gaveUp, glued,
  cuts,
  idFile, links, spoiled, temp, where, got

historyVars == <<log, job, fresh, storeMu, inboxMu, printed, up, cmd,
                 gaveUp, glued, cuts>>
idVars == <<idFile, links, spoiled, temp, where, got>>

Hist == INSTANCE History
Ids == INSTANCE Identity

ASSUME PartsConstants == Hist!ConstantsOK /\ Ids!ConstantsOK

SameName == [n \in Name |-> n]

Sight(id, ip, port) == [id |-> id, name |-> bob, ip |-> ip, port |-> port]

Upgrades == {Sight(NoId, a1, 1), Sight(i1, a2, 1)}
Returns == {Sight(i2, a1, 1), Sight(i2, a2, 0)}
Both == Upgrades \cup Returns

FilesInit ==
  /\ part \in {"upgrade", "return", "history", "identity"}
  /\ Init /\ Hist!Init /\ Ids!Init
  /\ part # "identity" => idFile = Missing /\ links

Picks(p, others) == part = p /\ UNCHANGED <<part, others>>

Peers(p) == Picks(p, <<historyVars, idVars>>)
History == Picks("history", <<vars, idVars>>)
Identity == Picks("identity", <<vars, historyVars>>)

\* Only one of the machines is ever seen.  In the first part the handler reports
\* an entry, and Save and Load may fail; in the second it observes.  Of a file
\* and a second message, one arrives.
OnlyOneIsSeen ==
  reg[i2] = Nobody /\ clock = 0 /\ at[h1] \in {"idle", "telling"}
OnlyTheOther ==
  reg[i1] = Nobody /\ reg[bob] = Nobody /\ at[h1] # "telling" /\ ~failed
OneOfThem ==
  \/ job[Hist!Taken(m2)] = "idle"
  \/ \A f \in Upload : job[Hist!Taken(f)] = "idle"

FilesNext ==
  \/ Peers("upgrade") /\ Next /\ OnlyOneIsSeen'
  \/ Peers("return") /\ Next /\ OnlyTheOther'
  \/ History /\ Hist!Next /\ OneOfThem'
  \/ Identity /\ Ids!Next

filesVars == <<part, vars, historyVars, idVars>>
FilesSpec == FilesInit /\ [][FilesNext]_filesVars

----------------------------------------------------------------------------
(* The properties of the parts.                                             *)

\* History: what was reported as saved is in the file, and once (Append,
\* recordSent).
EntriesSavedOnce == Hist!EntriesSavedOnce

\* History: messages are printed in the order of their lines (Inbox.store).
PrintedAsSaved == Hist!PrintedAsSaved

\* Identity: the callers share the ID in the file (LoadOrCreate).
CallersShareOneId == Ids!CallersShareOneId
=============================================================================
