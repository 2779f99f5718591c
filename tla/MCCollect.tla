----------------------------- MODULE MCCollect -----------------------------
(* Model-checking instance of Collect: bodies with empty frames and with    *)
(* more than one trailers frame, which agree and conflict.                  *)
EXTENDS Collect

CONSTANT MaxResults    \* the longest script

T1 == Trailers([a |-> 1, b |-> 1])
T2 == Trailers([a |-> 2])

MCDataFrame == {Data(0), Data(1), Data(2)}
MCTrailerFrame == {T1, T2}

MCScript ==
  BoundedSeq(MCDataFrame \cup {T1, T2, Pending, Failure}, MaxResults)
=============================================================================
