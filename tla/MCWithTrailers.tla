--------------------------- MODULE MCWithTrailers ---------------------------
(* Model-checking instance of WithTrailers. The trailers of the body and of *)
(* the future conflict in one name and differ in another.                  *)
EXTENDS WithTrailers

CONSTANT MaxResults    \* the longest script

T1 == Trailers([a |-> 1, b |-> 1])
T2 == Trailers([a |-> 2])

MCDataFrame == {Data(0), Data(1), Data(2)}
MCTrailerFrame == {T1, T2}

MCScript ==
  {s \in BoundedSeq(MCDataFrame \cup {T1, Pending, End, Failure}, MaxResults) :
     TrailersLast(s)}

MCFuture ==
  {pending \o <<r>> :
     pending \in {<<>>, <<Pending>>, <<Pending, Pending>>},
     r \in {T2, End, Failure}}
=============================================================================
