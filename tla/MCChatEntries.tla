----------------------------- MODULE MCChatEntries ----------------------------
(* The entries and peer lists of the instances of ChatStore.                 *)

\* IDs: 9.  Names: bob 1, al 2.  Addresses: 1 and 2.
Text(id, name, addr, time, in) ==
  [id |-> id, name |-> name, addr |-> addr, time |-> time, in |-> in]
P(id, name, addr, online) ==
  [id |-> id, name |-> name, addr |-> addr, online |-> online, seen |-> 0]

\* Entries with a name, with an address only, and with an ID.
Old == <<Text(0, 1, 1, 1, TRUE), Text(0, 0, 2, 2, FALSE)>>
New == <<Text(0, 1, 2, 3, TRUE), Text(0, 2, 1, 4, TRUE),
         Text(9, 1, 2, 5, TRUE)>>

\* Bob has no ID yet, moves, sends an ID, and Al takes over an address.
Lists == {{}, {P(0, 1, 2, TRUE)}, {P(9, 1, 1, TRUE), P(0, 2, 2, TRUE)},
          {P(0, 2, 1, TRUE), P(9, 1, 2, FALSE)},
          {P(0, 1, 1, TRUE), P(9, 2, 1, TRUE)}}

\* A chain: an ID-less Bob takes the address of one chat, and a machine with an
\* ID takes the address Bob's own entries came from.
ChainOld == <<Text(0, 1, 1, 1, TRUE), Text(0, 0, 2, 2, TRUE)>>
ChainNew == <<>>
ChainLists == {{}, {P(0, 1, 2, TRUE), P(9, 2, 1, TRUE)}}
=============================================================================
