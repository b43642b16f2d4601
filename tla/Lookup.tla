-------------------------------- MODULE Lookup --------------------------------
(***************************************************************************)
(* Where a send goes: Locate and Pick (src/internal/target), the search    *)
(* and the answers of other machines (src/internal/discovery), and the     *)
(* search by name of the command line (src/cmd/lanxfer/send.go).           *)
(*                                                                         *)
(* Machines join and leave the network, change addresses and take over     *)
(* those of others.  Datagrams are lost, duplicated and late: one that was *)
(* sent stays in net, and whoever listens may get it at any time, any      *)
(* number of times, or never.  A query that is sent a second time after    *)
(* resendAfter is therefore a duplicate of the first.                      *)
(*                                                                         *)
(* Ports, packet formats and the order of the replies are left out: where  *)
(* the code takes the first of several matches, any may be it.             *)
(***************************************************************************)
EXTENDS Naturals

CONSTANTS
  Machine, Addr, Name, Id,
  NoId,         \* no device ID
  IdOf,         \* [Machine -> Id \cup {NoId}]
  NameOf,       \* [Machine -> Name]
  All,          \* the broadcast addresses
  None,
  MaxSockets,   \* bound on the searches
  MaxMoves      \* bound on the changes of the network

ConstantsOK ==
  /\ IdOf \in [Machine -> Id \cup {NoId}]
  /\ NameOf \in [Machine -> Name]
  /\ NoId \notin Id /\ All \notin Addr /\ Addr # {}
  /\ MaxSockets \in Nat /\ MaxMoves \in Nat

VARIABLES
  at,          \* [Machine -> addresses where its receiver listens]
  moves,
  net,         \* every datagram that was sent
  socket,      \* how many sockets query() has opened; the last is in use
  stage,       \* where the lookup is
  wanted,      \* the peer that was chosen, or None
  replies,     \* what the socket in use has received
  cancelled,   \* ctx is done
  result,      \* how the lookup ended
  target,      \* the machine it returned
  held         \* who listened where since it began (history)

outcome == <<result, target>>
vars == <<at, moves, net, socket, stage, wanted, replies, cancelled, outcome,
          held>>

\* An entry of the receiver's list: presence.Peer.
Peer == [id : Id \cup {NoId}, name : Name, addr : Addr, online : BOOLEAN]

Found == [addr : Addr, id : Id \cup {NoId}, name : Name]
Query == [type : {"query"}, to : Addr \cup {All}, socket : Nat]
Reply == [type : {"reply"}, from : Found, socket : Nat]

TypeOK ==
  /\ at \in [Machine -> SUBSET Addr]
  /\ moves \in 0..MaxMoves
  /\ net \subseteq Query \cup Reply
  /\ socket \in 0..MaxSockets
  /\ stage \in {"idle", "query", "between", "search", "done"}
  /\ wanted \in Peer \cup {None}
  /\ replies \subseteq Found
  /\ cancelled \in BOOLEAN
  /\ result \in {"none", "target", "offline", "several"}
  /\ target \in Found \cup {None}
  /\ held \subseteq Machine \X Addr

Places(where) == {p \in Machine \X Addr : p[2] \in where[p[1]]}

Init ==
  /\ at \in [Machine -> SUBSET Addr]
  /\ \A m, n \in Machine : m # n => at[m] \cap at[n] = {}
  /\ moves = 0 /\ net = {} /\ socket = 0
  /\ stage = "idle" /\ wanted = None /\ replies = {} /\ cancelled = FALSE
  /\ result = "none" /\ target = None /\ held = {}

----------------------------------------------------------------------------
(* The network.                                                             *)

\* A machine comes, goes, or gets other addresses that nobody has.
Move ==
  /\ moves < MaxMoves
  /\ \E m \in Machine :
       \E S \in SUBSET (Addr \ UNION {at[n] : n \in Machine \ {m}}) :
         at' = [at EXCEPT ![m] = S]
  /\ moves' = moves + 1
  /\ held' = held \cup Places(at')
  /\ UNCHANGED <<net, socket, stage, wanted, replies, cancelled, outcome>>

\* Responder.Serve: a query is answered, from the address it reached.
Answer ==
  /\ \E q \in net, m \in Machine : \E a \in at[m] :
       /\ q.type = "query" /\ q.to \in {a, All}
       /\ net' = net \cup
            {[type |-> "reply", socket |-> q.socket,
              from |-> [addr |-> a, id |-> IdOf[m], name |-> NameOf[m]]]}
  /\ UNCHANGED <<at, moves, socket, stage, wanted, replies, cancelled, outcome,
                 held>>

----------------------------------------------------------------------------
(* query: one search, on a socket of its own.                               *)

Ask(to) ==
  /\ socket < MaxSockets
  /\ socket' = socket + 1
  /\ net' = net \cup {[type |-> "query", to |-> to, socket |-> socket + 1]}
  /\ replies' = {}

\* Bug: one socket serves all searches.
BadMine(d) == TRUE

\* A reply reaches only the socket that its query was sent from.
Mine(d) == d.socket = socket

\* The first reply from an address counts.
Hear ==
  /\ stage \in {"query", "search"}
  /\ \E d \in net :
       /\ d.type = "reply" /\ Mine(d)
       /\ \A r \in replies : r.addr # d.from.addr
       /\ replies' = replies \cup {d.from}
  /\ UNCHANGED <<at, moves, net, socket, stage, wanted, cancelled, outcome,
                 held>>

----------------------------------------------------------------------------
(* Locate.                                                                  *)

\* Bug: a machine is recognised by its name alone.
BadSame(r) == r.name = wanted.name

\* The machine that was chosen: by ID, or by name if it has none.
Same(r) ==
  IF wanted.id # NoId THEN r.id = wanted.id ELSE r.name = wanted.name

Matches == {r \in replies : Same(r)}

\* The name and address of a reply with the ID of the list, as Locate does
\* after a query.
Listed(r) == [r EXCEPT !.id = wanted.id]

Goes(where) == stage' = where /\ result' = "none" /\ target' = None
Finds(r) == stage' = "done" /\ result' = "target" /\ target' = r
Fails(how) == stage' = "done" /\ result' = how /\ target' = None

Begins == /\ stage \in {"idle", "done"}
          /\ held' = Places(at) /\ cancelled' = FALSE /\ UNCHANGED <<at, moves>>

\* A peer of the list: an online one is used as listed, the address of another
\* is asked, if that can be sent.
Locate ==
  /\ Begins
  /\ \E p \in Peer :
       /\ wanted' = p
       /\ \/ /\ p.online
             /\ Finds([addr |-> p.addr, id |-> p.id, name |-> p.name])
             /\ UNCHANGED <<net, socket, replies>>
          \/ /\ ~p.online
             /\ Ask(p.addr) /\ Goes("query")
          \/ /\ ~p.online
             /\ Goes("between") /\ replies' = {} /\ UNCHANGED <<net, socket>>

\* resolveByDiscovery: a name that is not in the list.
ByName ==
  /\ Begins
  /\ \E n \in Name :
       wanted' = [id |-> NoId, name |-> n, addr |-> CHOOSE a \in Addr : TRUE,
                  online |-> FALSE]
  /\ \/ Ask(All) /\ Goes("search")
     \/ Fails("offline") /\ replies' = {} /\ UNCHANGED <<net, socket>>

Stays == UNCHANGED <<at, moves, wanted, cancelled, held>>

\* The time for the query is up.
QueryEnds ==
  /\ stage = "query"
  /\ \/ \E r \in Matches : Finds(Listed(r))
     \/ Matches = {} /\ Goes("between")
  /\ Stays /\ UNCHANGED <<net, socket, replies>>

\* A read that fails, as it does once ctx has closed the socket, ends a search
\* without its replies.
Aborts ==
  /\ \/ stage = "query" /\ Goes("between")
     \/ stage = "search" /\ Fails("offline")
  /\ replies' = {}
  /\ Stays /\ UNCHANGED <<net, socket>>

\* The broadcast that follows a query in vain, unless ctx is done, or nothing
\* can be sent.
Search ==
  /\ stage = "between"
  /\ \/ ~cancelled /\ Ask(All) /\ Goes("search")
     \/ Fails("offline") /\ UNCHANGED <<net, socket, replies>>
  /\ Stays

\* The time for the search is up.  Several replies with the ID that was looked
\* for are one machine; several machines with the name are an error (Pick).
SearchEnds ==
  /\ stage = "search"
  /\ \/ Matches = {} /\ Fails("offline")
     \/ \E r \in Matches : (wanted.id # NoId \/ Matches = {r}) /\ Finds(r)
     \/ /\ wanted.id = NoId /\ \E r, s \in Matches : r # s
        /\ Fails("several")
  /\ Stays /\ UNCHANGED <<net, socket, replies>>

Cancel ==
  /\ ~cancelled /\ stage \notin {"idle", "done"}
  /\ cancelled' = TRUE
  /\ UNCHANGED <<at, moves, net, socket, stage, wanted, replies, outcome,
                 held>>

Step == QueryEnds \/ Search \/ SearchEnds

Next == Move \/ Answer \/ Hear \/ Locate \/ ByName \/ Aborts \/ Cancel \/ Step

\* A search has a deadline.
Fairness == WF_vars(Step)

Spec == Init /\ [][Next]_vars /\ Fairness

----------------------------------------------------------------------------
(* What it promises.                                                        *)

Is(m) == IF wanted.id # NoId THEN IdOf[m] = wanted.id
                             ELSE NameOf[m] = wanted.name

\* A peer that is not used as listed is a machine that listened at the address
\* while it was looked for, and the machine that was chosen; another one with
\* its name, or one that took over its address, is never used, and it is
\* reported offline only if no reply was its own (Locate, query, Serve).
RightMachine ==
  /\ result = "target" /\ ~wanted.online =>
       \E m \in Machine : Is(m) /\ <<m, target.addr>> \in held
  /\ result = "offline" => Matches = {}
  /\ result = "several" => wanted.id = NoId

\* Every lookup ends, with or without replies (query, Locate).
LocateEnds == stage \in {"query", "between", "search"} ~> stage = "done"
=============================================================================
