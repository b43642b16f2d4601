-------------------------------- MODULE Registry ------------------------------
(***************************************************************************)
(* internal/presence: the list of peers a receiver has seen, as operators  *)
(* on lists.  A list gives every key its peer, or Nobody.                  *)
(***************************************************************************)
EXTENDS Integers

CONSTANTS
  Id,           \* valid device IDs
  NoId,         \* the ID of a sighting that has none, or an invalid one
  Name,         \* valid peer names
  Folded,       \* the names in lower case
  Fold,         \* strings.ToLower, [Name -> Folded]
  IP,           \* addresses without their port
  Nobody,       \* what a list holds under a key it has no peer for
  OfflineAfter  \* how long a peer may go unseen and stay online

\* The prefixes "id:" and "name:" keep the two kinds of key apart.
ASSUME KeysApart == Id \cap Folded = {} /\ NoId \notin Id
ASSUME FoldType == Fold \in [Name -> Folded]
ASSUME OfflineAfterType == OfflineAfter \in Nat

Key == Id \cup Folded

\* The OS a peer announces behaves like its name and is left out.  A peer has a
\* port it can be reached at.
Peer ==
  [name : Name, ip : IP, port : Nat \ {0}, seen : Int, online : BOOLEAN]
ASSUME NobodyIsNoPeer == Nobody \notin Peer

List == [Key -> Peer \cup {Nobody}]
EmptyList == [k \in Key |-> Nobody]

\* A sighting with port 0 comes from an HTTP request.
Sighting == [id : Id \cup {NoId}, name : Name, ip : IP, port : Nat]

KeyOf(s) == IF s.id = NoId THEN Fold[s.name] ELSE s.id

----------------------------------------------------------------------------
(* Observe: the list after a sighting, and what it reports.                 *)

\* A request only refreshes a peer that is known by its ID.
Refreshed(r, s, now) ==
  IF s.id = NoId \/ r[s.id] = Nobody THEN r
  ELSE [r EXCEPT ![s.id] =
         [name |-> @.name, ip |-> s.ip, port |-> @.port,
          seen |-> now, online |-> TRUE]]

RefreshChanges(r, s) ==
  /\ s.id # NoId
  /\ r[s.id] # Nobody
  /\ r[s.id].ip # s.ip \/ ~r[s.id].online

\* An entry without an ID that has the name of a peer with one is that machine,
\* from before it sent an ID.
WithoutLegacy(r, s) ==
  IF s.id = NoId THEN r ELSE [r EXCEPT ![Fold[s.name]] = Nobody]

Announced(r, s, now) ==
  [WithoutLegacy(r, s) EXCEPT ![KeyOf(s)] =
    [name |-> s.name, ip |-> s.ip, port |-> s.port,
     seen |-> now, online |-> TRUE]]

BadAnnounceChanges(r, s) ==
  LET p == r[KeyOf(s)] IN
  p = Nobody \/ p.name # s.name \/ p.ip # s.ip \/ p.port # s.port \/ ~p.online

AnnounceChanges(r, s) ==
  LET p == r[KeyOf(s)] IN
  \/ s.id # NoId /\ r[Fold[s.name]] # Nobody
  \/ p = Nobody
  \/ p.name # s.name \/ p.ip # s.ip \/ p.port # s.port
  \/ ~p.online

Observed(r, s, now) ==
  IF s.port = 0 THEN Refreshed(r, s, now) ELSE Announced(r, s, now)

Changes(r, s) ==
  IF s.port = 0 THEN RefreshChanges(r, s) ELSE AnnounceChanges(r, s)

----------------------------------------------------------------------------
(* Tick, Load and what others see of a list.                                *)

Overdue(p, now) == p # Nobody /\ p.online /\ now - p.seen > OfflineAfter

Offline(p) ==
  [name |-> p.name, ip |-> p.ip, port |-> p.port,
   seen |-> p.seen, online |-> FALSE]

Ticked(r, now) ==
  [k \in Key |-> IF Overdue(r[k], now) THEN Offline(r[k]) ELSE r[k]]

TickChanges(r, now) == \E k \in Key : Overdue(r[k], now)

\* Everyone is offline after a Load.
Loaded(f) ==
  [k \in Key |-> IF f[k] = Nobody THEN Nobody ELSE Offline(f[k])]

\* What others see of a peer: not the time of its last sighting.
View(p) ==
  [name |-> p.name, ip |-> p.ip, port |-> p.port,
   seen |-> 0, online |-> p.online]

Shown(r) == [k \in Key |-> IF r[k] = Nobody THEN Nobody ELSE View(r[k])]
=============================================================================
