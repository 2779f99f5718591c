------------------------------ MODULE MCChain ------------------------------
(* Model-checking instance of Chain. The two bodies use different frames, so *)
(* that an order or an origin is never mistaken, and their trailers conflict *)
(* in one name and differ in another.                                       *)
EXTENDS Chain

CONSTANT MaxResults    \* the longest script

T1 == Trailers([a |-> 1, b |-> 1])
T2 == Trailers([a |-> 2])

MCDataFrame == {Data(1), Data(2)}
MCTrailerFrame == {T1, T2}

MCFirst ==
  {s \in BoundedSeq({Data(1), T1, Pending, End, Failure}, MaxResults) :
     TrailersLast(s)}
MCSecond ==
  {s \in BoundedSeq({Data(2), T2, Pending, End, Failure}, MaxResults) :
     TrailersLast(s)}
=============================================================================
