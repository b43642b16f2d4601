------------------------------ MODULE MCChatStore -----------------------------
(* ChatStore by itself, for TLC.                                             *)
EXTENDS ChatStore, MCChatEntries
=============================================================================
