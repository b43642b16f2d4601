-------------------------------- MODULE ChatStore -----------------------------
(***************************************************************************)
(* internal/chat: the history grouped into one chat per peer.  Entries     *)
(* from before device IDs are filed under the peer of the current list     *)
(* whose address or name matches, and regrouped when that list changes.    *)
(*                                                                         *)
(* Every method holds the store's mutex, so a call is one step; what is    *)
(* hard is the order of the calls.  IDs, names (in lower case) and         *)
(* addresses are numbers, 0 for a field that is empty.                     *)
(***************************************************************************)
EXTENDS Integers, Sequences, FiniteSets, Functions

CONSTANTS
  Loadable,  \* entries the history file may hold, in file order
  Arrivals,  \* entries that arrive afterwards, in the order of their times
  PeerLists  \* the peer lists that may be reported

\* An entry: [id, name, addr, time, in]; a peer: [id, name, addr, online, seen].
Entry == Range(Loadable) \cup Range(Arrivals)

IdKey(i)   == <<"id", i>>
NameKey(n) == <<"name", n>>
AddrKey(a) == <<"addr", a>>
NoKey      == <<"none", 0>>

PeerKey(p) == IF p.id # 0 THEN IdKey(p.id) ELSE NameKey(p.name)

IsLegacy(k) == k[1] \in {"name", "addr"}

\* The order of the keys as strings.
Rank(k) == CASE k[1] = "addr" -> 0 [] k[1] = "id" -> 1 [] k[1] = "name" -> 2
KeyLess(a, b) ==
  Rank(a) < Rank(b) \/ (Rank(a) = Rank(b) /\ a[2] < b[2])

People == UNION PeerLists
Key == {PeerKey(p) : p \in People} \cup
       {IdKey(e.id) : e \in {x \in Entry : x.id # 0}} \cup
       {NameKey(e.name) : e \in {x \in Entry : x.name # 0}} \cup
       {AddrKey(e.addr) : e \in Entry}

\* A field is a number, peers of a list differ in their keys, and entries are
\* told apart and come in the order of their times.
ASSUME FieldsAreNumbers ==
  /\ Entry \subseteq
       [id : Nat, name : Nat, addr : Nat, time : Nat, in : BOOLEAN]
  /\ People \subseteq
       [id : Nat, name : Nat, addr : Nat, online : BOOLEAN, seen : Nat]
ASSUME ListsAreFinite ==
  /\ IsFiniteSet(People)
  /\ \A list \in PeerLists : \A p, q \in list : PeerKey(p) = PeerKey(q) => p = q
ASSUME EntriesInOrder ==
  LET all == Loadable \o Arrivals
  IN  /\ Loadable \in Seq(Entry) /\ Arrivals \in Seq(Entry)
      /\ \A i, j \in 1..Len(all) :
           i < j => all[i] # all[j] /\ all[i].time <= all[j].time

VARIABLES
  loaded,   \* Load was called
  coming,   \* the entries of Arrivals that are still to come
  peers,    \* the current peer list
  chats,    \* [Key -> items in arrival order], <<>> for no chat
  unread,   \* [Key -> the unread count kept for the chat]
  alias,    \* [Key -> the chat its entries were regrouped into, or NoKey]
  open      \* the chat being read, or NoKey

vars == <<loaded, coming, peers, chats, unread, alias, open>>

Item(e, u) == [e |-> e, unread |-> u]

Init ==
  /\ loaded = FALSE
  /\ coming = Arrivals
  /\ peers = {}
  /\ chats = [k \in Key |-> <<>>]
  /\ unread = [k \in Key |-> 0]
  /\ alias = [k \in Key |-> NoKey]
  /\ open = NoKey

----------------------------------------------------------------------------
(* Helpers.                                                                 *)

\* better: online first, then most recently seen, then the smaller key.
Better(a, b) ==
  IF a.online # b.online THEN a.online
  ELSE IF a.seen # b.seen THEN a.seen > b.seen
  ELSE KeyLess(PeerKey(a), PeerKey(b))

Best(P) == CHOOSE p \in P : \A q \in P \ {p} : Better(p, q)

\* classify: the chat of an entry under a peer list.
Classify(e, list) ==
  LET here   == {p \in list : p.addr = e.addr}
      called == {p \in list : p.name = e.name}
  IN  IF e.id # 0 THEN IdKey(e.id)
      ELSE IF e.addr # 0 /\ here # {} THEN PeerKey(Best(here))
      ELSE IF e.name = 0 THEN AddrKey(e.addr)
      ELSE IF called # {} THEN PeerKey(Best(called))
      ELSE NameKey(e.name)

\* resolve follows aliases, one more than there are, to a key with a chat.
Resolved(c, a, key) ==
  LET hops == Cardinality({k \in Key : a[k] # NoKey}) + 1
      at[n \in 0..hops] ==
        IF n = 0 THEN key
        ELSE LET k == at[n - 1]
             IN  IF k = NoKey \/ c[k] # <<>> \/ a[k] = NoKey THEN k ELSE a[k]
  IN  at[hops]

Resolve(key) == Resolved(chats, alias, key)

\* The items of a chat whose entries are in a set, in their order.
Those(items, entries) ==
  LET of[n \in 0..Len(items)] ==
        IF n = 0 THEN <<>>
        ELSE IF items[n].e \in entries THEN Append(of[n - 1], items[n])
        ELSE of[n - 1]
  IN  of[Len(items)]

\* mergeByTime: on a tie the items of dst come first.  After n rounds of the
\* loop i items of dst and n - i of add are in out.
MergeByTime(dst, add) ==
  LET TakesDst(i, j) == \/ j = Len(add)
                        \/ /\ i < Len(dst)
                           /\ add[j + 1].e.time >= dst[i + 1].e.time
      Round(i, j, out) ==
        IF TakesDst(i, j) THEN [i |-> i + 1, out |-> Append(out, dst[i + 1])]
                          ELSE [i |-> i, out |-> Append(out, add[j + 1])]
      after[n \in 0..(Len(dst) + Len(add))] ==
        IF n = 0 THEN [i |-> 0, out |-> <<>>]
        ELSE LET s == after[n - 1] IN Round(s.i, n - 1 - s.i, s.out)
  IN  IF \/ dst = <<>> \/ add = <<>>
         \/ add[1].e.time >= dst[Len(dst)].e.time
      THEN dst \o add
      ELSE after[Len(dst) + Len(add)].out

CountUnread(items) == Cardinality({i \in DOMAIN items : items[i].unread})

Read(items) == [i \in DOMAIN items |-> Item(items[i].e, FALSE)]

----------------------------------------------------------------------------
(* Load, Add and Open.                                                      *)

Append1(s, k, it) ==
  [s EXCEPT !.chats[k] = Append(@, it),
            !.unread[k] = @ + (IF it.unread THEN 1 ELSE 0)]

Contents == [chats |-> chats, unread |-> unread]

FiledUnder(k, list) == {e \in Entry : Classify(e, list) = k}

\* Load: any first part of the entries; they are not unread.  The service
\* calls it once, before the queue has an entry or a peer list for the store.
Load ==
  /\ ~loaded
  /\ loaded' = TRUE
  /\ \E n \in 0..Len(Loadable) :
       LET items == [i \in 1..n |-> Item(Loadable[i], FALSE)]
       IN  chats' = [k \in Key |-> Those(items, FiledUnder(k, peers))]
  /\ UNCHANGED <<coming, peers, unread, alias, open>>

\* Add: the next entry arrives.
Add ==
  /\ loaded
  /\ coming # <<>>
  /\ LET e  == Head(coming)
         k  == Classify(e, peers)
         s  == Append1(Contents, k, Item(e, e.in /\ k # open))
     IN  chats' = s.chats /\ unread' = s.unread
  /\ coming' = Tail(coming)
  /\ UNCHANGED <<loaded, peers, alias, open>>

\* The keys the page may know: of chats, of peers, and old ones.
Known == {k \in Key : chats[k] # <<>> \/ alias[k] # NoKey}
           \cup {PeerKey(p) : p \in peers}

\* Open: an empty key closes the chat.
Open(asked) ==
  LET k == Resolve(asked) IN
  /\ asked \in Known \cup {NoKey}
  /\ open' = k
  /\ chats' = [c \in Key |-> IF c = k THEN Read(chats[c]) ELSE chats[c]]
  /\ unread' = [c \in Key |-> IF c = k THEN 0 ELSE unread[c]]
  /\ UNCHANGED <<loaded, coming, peers, alias>>

----------------------------------------------------------------------------
(* SetPeers.                                                                *)

Kept(k, list) == Those(chats[k], FiledUnder(k, list))
Moving(k, list) == Those(chats[k], Entry \ FiledUnder(k, list))
Batch(k, to, list) == Those(chats[k], FiledUnder(to, list))

BadSources(list) == {k \in Key : Moving(k, list) # <<>>}
BadWholeSources(list) ==
  {k \in Key : /\ IsLegacy(k) /\ Moving(k, list) # <<>>
               /\ Kept(k, list) = <<>>}

\* The chats filed under a name or an address that lose entries.
Sources(list) == {k \in Key : IsLegacy(k) /\ Moving(k, list) # <<>>}

\* Where the entries of a source go, and where its last one goes.
Targets(k, list) == {Classify(it.e, list) : it \in Range(Moving(k, list))}
LastTo(k, list) ==
  LET items == Moving(k, list) IN Classify(items[Len(items)].e, list)

\* The sources are taken in the order of their keys.
LastKey(K) == CHOOSE k \in K : \A q \in K \ {k} : KeyLess(q, k)

Whole == [chats |-> chats, unread |-> unread, alias |-> alias, open |-> open]

\* Phase 1: a source shrinks to what it keeps; an emptied one leaves an alias,
\* and the open chat moves on with the last of its entries.
Shrink(s, k, list) ==
  LET kept == Kept(k, list)
      gone == kept = <<>>
  IN  [chats  |-> [s.chats EXCEPT ![k] = kept],
       unread |-> [s.unread EXCEPT ![k] = CountUnread(kept)],
       alias  |-> IF gone THEN [s.alias EXCEPT ![k] = LastTo(k, list)]
                  ELSE s.alias,
       open   |-> IF gone /\ s.open = k THEN LastTo(k, list) ELSE s.open]

BadUnreadAfter(s, to, batch) == s.unread[to]

\* The target counts what it receives, unless it is the open chat.
UnreadAfter(s, to, batch) ==
  IF to = s.open THEN 0 ELSE s.unread[to] + CountUnread(batch)

\* Phase 2: the batches of a source, one for each target, are merged into them;
\* a target that was emptied is a real chat again.
Merge(s, k, list) ==
  LET to == Targets(k, list)
      Merged(c) == MergeByTime(s.chats[c], Batch(k, c, list))
  IN  [chats  |-> [c \in Key |-> IF c \notin to THEN s.chats[c]
                                ELSE IF c = s.open THEN Read(Merged(c))
                                ELSE Merged(c)],
       unread |-> [c \in Key |-> IF c \notin to THEN s.unread[c]
                                ELSE UnreadAfter(s, c, Batch(k, c, list))],
       alias  |-> [c \in Key |-> IF c \notin to THEN s.alias[c] ELSE NoKey],
       open   |-> s.open]

Shrunk(list) ==
  LET s[K \in SUBSET Sources(list)] ==
        IF K = {} THEN Whole
        ELSE Shrink(s[K \ {LastKey(K)}], LastKey(K), list)
  IN  s[Sources(list)]

BadRegrouped(list) ==
  LET s[K \in SUBSET Sources(list)] ==
        IF K = {} THEN Whole
        ELSE LET k == LastKey(K)
             IN  Shrink(Merge(s[K \ {k}], k, list), k, list)
  IN  s[Sources(list)]

\* Every source shrinks before any batch is merged.
Regrouped(list) ==
  LET s[K \in SUBSET Sources(list)] ==
        IF K = {} THEN Shrunk(list)
        ELSE Merge(s[K \ {LastKey(K)}], LastKey(K), list)
  IN  s[Sources(list)]

SetPeers(list) ==
  LET s == Regrouped(list) IN
  /\ loaded
  /\ peers' = list
  /\ chats' = s.chats /\ unread' = s.unread /\ alias' = s.alias
  /\ open' = Resolved(s.chats, s.alias, s.open)
  /\ UNCHANGED <<loaded, coming>>

----------------------------------------------------------------------------

Next ==
  \/ Load \/ Add
  \/ \E k \in Key \cup {NoKey} : Open(k)
  \/ \E list \in PeerLists : SetPeers(list)

Spec == Init /\ [][Next]_vars

----------------------------------------------------------------------------
(* Properties.                                                              *)

Places == UNION {{<<k, i>> : i \in DOMAIN chats[k]} : k \in Key}
At(p) == chats[p[1]][p[2]]
Arrived == Range(Arrivals) \ Range(coming)

\* The types of the variables: an alias never leads to itself, and only a chat
\* filed under a name or an address leaves one.
TypeOK ==
  /\ loaded \in BOOLEAN
  /\ peers \in PeerLists \cup {{}}
  /\ \A p \in Places : At(p).e \in Entry /\ At(p).unread \in BOOLEAN
  /\ unread \in [Key -> Nat]
  /\ alias \in [Key -> Key \cup {NoKey}]
  /\ \A k \in Key : alias[k] # NoKey => IsLegacy(k) /\ alias[k] # k
  /\ open \in Key \cup {NoKey}

\* Regrouping loses no entry and doubles none: every entry that arrived is in
\* exactly one place of one chat (SetPeers: a chat that is both a source and a
\* target is not overwritten).
NothingLost ==
  /\ \A e \in Arrived : \E p \in Places : At(p).e = e
  /\ \A p, q \in Places : At(p).e = At(q).e => p = q

\* The count kept for a chat is the number of its unread entries, so a badge
\* never shows what opening the chat cannot clear (Add, SetPeers, clearUnread).
UnreadAgrees == \A k \in Key : unread[k] = CountUnread(chats[k])

\* An entry that is filed under a name or an address is where classify puts it
\* under the current list, so the next entry of that machine joins it.
Grouped ==
  \A p \in Places :
    IsLegacy(p[1]) => Classify(At(p).e, peers) = p[1]

\* The open chat has nothing unread, whatever is merged into it.
OpenIsRead == open # NoKey => unread[open] = 0

\* A key the page still holds leads to a chat: an alias of an emptied chat never
\* ends at nothing, or in a circle, however often the list changes (resolve).
AliasEndsAtAChat ==
  \A k \in Key :
    chats[k] = <<>> /\ alias[k] # NoKey => chats[Resolve(k)] # <<>>

\* Entries that arrive in the order of their times stay in that order, through
\* every merge of two chats (mergeByTime).
InTimeOrder ==
  \A p, q \in Places :
    p[1] = q[1] /\ p[2] < q[2] => At(p).e.time <= At(q).e.time

\* The open chat follows a regrouping to where the alias of its old key leads:
\* the store and a page that still holds the old key agree on what is open.
OpenFollowsAlias ==
  [][peers' # peers /\ open # NoKey /\ chats[open] # <<>> =>
       open' = Resolved(chats', alias', open)]_vars
=============================================================================
