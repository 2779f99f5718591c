------------------------------- MODULE Bodies -------------------------------
(***************************************************************************)
(* The vocabulary of http-body: frames, the results of poll_frame, and the *)
(* bodies a combinator is built on. Such a body is the script of the       *)
(* results its next polls will give. A script is arbitrary, it may go on   *)
(* after Ready(None) or after an error: a combinator that promises more    *)
(* than the body it wraps has to keep its promise over every script.       *)
(*                                                                         *)
(* A data buffer is its length. A header map is a function from names to   *)
(* values.                                                                 *)
(***************************************************************************)
EXTENDS SizeHints, SequencesExt

CONSTANTS
  DataFrame,     \* the data frames bodies are made of
  TrailerFrame,  \* the trailers frames bodies are made of
  Name, Value    \* header names and values

HeaderMap == UNION {[names -> Value] : names \in SUBSET Name}

\* Frame::data, Frame::trailers; map_data and the accessors of Frame only take
\* these apart.
Data(n) == [kind |-> "data", size |-> n]
Trailers(map) == [kind |-> "trailers", map |-> map]

\* Poll::Pending, Poll::Ready(None) and Poll::Ready(Some(Err(_))).
Pending == [kind |-> "pending"]
End == [kind |-> "end"]
Failure == [kind |-> "error"]

Result == DataFrame \cup TrailerFrame \cup {Pending, End, Failure}

\* The length of a buffer and the limit of a Limited are both a usize.
ASSUME FrameAssumption ==
  /\ DataFrame \subseteq {Data(n) : n \in U64}
  /\ TrailerFrame \subseteq {Trailers(map) : map \in HeaderMap}

\* Every frame a combinator can make of them.
AnyFrame == DataFrame \cup {Trailers(map) : map \in HeaderMap}

IsFrame(r) == r.kind \in {"data", "trailers"}
IsData(r) == r.kind = "data"

\* Results that carry frames: of the frames of a body, trailers come last, as
\* they "finalize the request/response exchange" (http-body/src/lib.rs:34).
TrailersLast(s) ==
  \A i, j \in DOMAIN s :
    i < j /\ s[i].kind = "trailers" /\ IsFrame(s[j])
      => \E k \in i..j : s[k] \in {End, Failure}

\* Mutant: on a conflict the value that was there first stays.
MergeKeepingFirst(a, b) ==
  [n \in DOMAIN a \cup DOMAIN b |-> IF n \in DOMAIN a THEN a[n] ELSE b[n]]

\* HeaderMap::extend: on a conflict the map that is added wins.
Merge(a, b) ==
  [n \in DOMAIN a \cup DOMAIN b |-> IF n \in DOMAIN b THEN b[n] ELSE a[n]]

\* The trailers of two sources, each a trailers frame or End for none.
Join(a, b) ==
  IF a = End THEN b
  ELSE IF b = End THEN a
  ELSE Trailers(Merge(a.map, b.map))

\* A body that keeps to None after None and is not expected to go on after an
\* error: nothing follows either.
Conforming(s) ==
  /\ TrailersLast(s)
  /\ \A i \in 1..(Len(s) - 1) : s[i] \notin {End, Failure}

\* What the next poll_frame of a body gives, and the body after it.
Poll(s) == IF s = <<>> THEN End ELSE Head(s)
Rest(s) == IF s = <<>> THEN s ELSE Tail(s)

-----------------------------------------------------------------------------
(* What is left of a script, by the contract of poll_frame: a consumer sees *)
(* the frames before the first Ready(None) or error.                       *)

\* The frames of some kinds, collected from the last result to the first.
LeftOf(s, kinds) ==
  LET left[n \in 0..Len(s)] ==    \* those of the last n results
        IF n = 0 THEN <<>>
        ELSE LET r == s[Len(s) - n + 1] IN
             IF r \in {End, Failure} THEN <<>>
             ELSE IF r.kind \in kinds THEN <<r>> \o left[n - 1]
             ELSE left[n - 1]
  IN left[Len(s)]

FramesLeft(s) == LeftOf(s, {"data", "trailers"})
DataLeft(s) == LeftOf(s, {"data"})
FailsLater(s) ==
  \E i \in DOMAIN s : s[i] = Failure /\ \A j \in 1..(i - 1) : s[j] # End

TrailersLeft(s) ==
  LET f == FramesLeft(s)
  IN IF f # <<>> /\ ~IsData(Last(f)) THEN Last(f) ELSE End

\* The trailers that a combinator owes for those of two sources: the headers of
\* both, and where they conflict those of the second.
OwedTrailers(a, b) ==
  CASE a = End -> b
    [] b = End -> a
    [] OTHER -> Trailers([n \in DOMAIN a.map \cup DOMAIN b.map |->
                            IF n \in DOMAIN b.map THEN b.map[n] ELSE a.map[n]])

\* The trailers of a body complete it for a combinator that stops at them: an
\* error that would come after them is not seen.
CutShort(s) == FailsLater(s) /\ TrailersLeft(s) = End

SizeOf(f) == IF IsData(f) THEN f.size ELSE 0

\* The bytes of the data frames of a sequence of frames.
Bytes(frames) ==
  LET total[n \in 0..Len(frames)] ==    \* of the first n
        IF n = 0 THEN 0 ELSE total[n - 1] + SizeOf(frames[n])
  IN total[Len(frames)]

-----------------------------------------------------------------------------
(* The hints of a wrapped body. They are honest, each body giving more or   *)
(* less of them: "none" knows nothing, "exact" its length, "upper" a bound, *)
(* "max" no better bound than the largest number there is, as a new Limited *)
(* with the limit usize::MAX does. One that fails may have announced more   *)
(* bytes than it delivers.                                                 *)

Hinting == {"none", "exact", "upper", "max"}

HintOf(s, hinting) ==
  LET n == Bytes(FramesLeft(s)) + (IF CutShort(s) THEN 1 ELSE 0)
  IN CASE hinting = "none" -> NoHint
       [] hinting = "exact" -> Exactly(n)
       [] hinting = "upper" -> WithUpper(NoHint, n + 1)
       [] hinting = "max" -> [lower |-> n, upper |-> {MaxU64}]

\* is_end_stream of a wrapped body: when it says so poll_frame gives None.
EndOf(s, hinting) == hinting \in {"exact", "upper"} /\ Poll(s) = End

\* A hint is sound for the frames left: what is delivered stays below the upper
\* bound, and reaches the lower one unless an error comes first.
Sound(hint, left, fails) ==
  /\ \A max \in hint.upper : Bytes(left) <= max
  /\ fails \/ hint.lower <= Bytes(left)
=============================================================================
