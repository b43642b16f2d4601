------------------------------- MODULE MCChatView -----------------------------
(* ChatView by itself, for TLC.                                              *)
EXTENDS ChatView

\* Five entries in every chat: three pages.
Long == [c \in Chat |-> 5]

TimeOf == [e \in [chat : Chat, n : 1..9] |-> e.n]
=============================================================================
