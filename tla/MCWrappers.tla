----------------------------- MODULE MCWrappers -----------------------------
(* Model-checking instance of Wrappers: bodies that stay below, meet and    *)
(* exceed the limits, with empty frames and trailers on either side, and    *)
(* for Fuse bodies that go on after their end.                              *)
EXTENDS Wrappers

CONSTANT MaxResults    \* the longest script

T1 == Trailers([a |-> 1])

MCDataFrame == {Data(0), Data(1), Data(2)}
MCTrailerFrame == {T1}

MCScript ==
  BoundedSeq(MCDataFrame \cup {T1, Pending, End, Failure}, MaxResults)

\* A closure that changes sizes: the frames grow.
MCMapF ==
  [f \in MCDataFrame \cup MCTrailerFrame |->
     IF f = Data(0) THEN Data(1) ELSE IF f = Data(1) THEN Data(2) ELSE f]
=============================================================================
