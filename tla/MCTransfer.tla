----------------------------- MODULE MCTransfer -----------------------------
(* Small instances of Transfer for TLC. *)
EXTENDS Transfer, TLC

CONSTANTS b1, t1, c1, c2

\* A batch of two items: the second inherits the lookup of the first.
OneBatchLen == (b1 :> 2)

\* A single item, beside a text.
SingleLen == (b1 :> 1)
=============================================================================
