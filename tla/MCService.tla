------------------------------ MODULE MCService -----------------------------
(***************************************************************************)
(* Service on a small instance: one settings change, one retry, one send   *)
(* and one arrival, which meet with startup, a failing node and quit.      *)
(***************************************************************************)
EXTENDS Service
=============================================================================
