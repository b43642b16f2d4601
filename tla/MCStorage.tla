------------------------------ MODULE MCStorage -----------------------------
(* Small instances of Storage for TLC.                                      *)
EXTENDS Storage, FiniteSets, TLC

CONSTANTS u1, u2

Called(nos, ext) == [stem |-> "a", stemNo |-> nos, ext |-> ext, extNo |-> <<>>]

\* Two uploads that meet at "a (1)": one sender asks for that name, the other
\* is given it because "a" is in use.  With one number to try, the first one is
\* out of numbers when it does not get "a (1)".
MeetAtOne == (u1 :> Called(<<>>, "")) @@ (u2 :> Called(<<1>>, ""))
InUse == {Called(<<>>, "")}

\* Two uploads of one name in an empty directory.
SameName == [u \in Upload |-> Called(<<>>, "txt")]
Nothing == {}

\* The bound of an instance: one cleanup fails, or one transfer pauses, and one
\* receiver sweeps at a time.
OneMishap ==
  /\ Cardinality(litter) + Cardinality(leftover) + Cardinality(stalled) <= 1
  /\ \E s \in Sweeper : doomed[s] = NoUpload
=============================================================================
