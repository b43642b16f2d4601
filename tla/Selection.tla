------------------------------- MODULE Selection ------------------------------
(***************************************************************************)
(* gui/frontend: what is left of a list after a filter.                    *)
(***************************************************************************)
EXTENDS Naturals, Sequences

\* The elements of s that are in S, in their order.
Chosen(s, S) ==
  LET of[n \in 0..Len(s)] ==
        IF n = 0 THEN <<>>
        ELSE IF s[n] \in S THEN Append(of[n - 1], s[n])
        ELSE of[n - 1]
  IN  of[Len(s)]
=============================================================================
