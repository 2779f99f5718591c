------------------------------ MODULE Adapters ------------------------------
(***************************************************************************)
(* The bodies that keep no state of their own: the adapters of             *)
(* http-body-util (MapFrame, MapErr, InspectFrame, InspectErr, Either and  *)
(* the boxes), those between bodies and streams (StreamBody, BodyStream,   *)
(* BodyDataStream), and the bodies that hold at most one result (Full,     *)
(* Empty, Pending, ErrorBody and String). The error that MapErr changes    *)
(* and the closures that inspect see nothing the model tells apart. Of the *)
(* two bodies an Either may hold only one is ever polled.                  *)
(***************************************************************************)
EXTENDS Wrapped

CONSTANT MapF    \* the closure of MapFrame: it may change sizes and kinds

ASSUME MapFAssumption ==
  MapF \in [DataFrame \cup TrailerFrame -> DataFrame \cup TrailerFrame]

\* They pass on what they are asked, size_hint and is_end_stream included.
Pointing == {"RefMut", "Pin", "Box", "Request", "Response"}
Forwarding ==
  {"MapErr", "InspectFrame", "InspectErr", "Either", "BoxBody"} \cup Pointing

\* They have the default of size_hint, and but for MapFrame of is_end_stream.
Streaming == {"MapFrame", "StreamBody", "BodyStream", "BodyDataStream"}

\* They hold a frame, or nothing.
Leaf == {"Full", "Empty", "String"}

AdapterNew == \E name \in Forwarding \cup Streaming : Wraps(name, Lawful)

\* Full::new and the others: a buffer without bytes is no frame.
LeafNew ==
  \E name \in Leaf :
    Wraps(name, IF name = "Empty" THEN {<<>>}
               ELSE {IF f.size > 0 THEN <<f>> ELSE <<>> : f \in DataFrame})

PendingNew == Wraps("Pending", {<<>>})

ErrorBodyNew == Wraps("ErrorBody", {<<Failure>>})

MapErr == wrapper = "MapErr" /\ PollWrapped(Poll(body))
InspectFrame == wrapper = "InspectFrame" /\ PollWrapped(Poll(body))
InspectErr == wrapper = "InspectErr" /\ PollWrapped(Poll(body))
Either == wrapper = "Either" /\ PollWrapped(Poll(body))
BoxBody == wrapper = "BoxBody" /\ PollWrapped(Poll(body))
Forwarded == wrapper \in Pointing /\ PollWrapped(Poll(body))
StreamBody == wrapper = "StreamBody" /\ PollWrapped(Poll(body))
BodyStream == wrapper = "BodyStream" /\ PollWrapped(Poll(body))

MapFrame ==
  /\ wrapper = "MapFrame"
  /\ PollWrapped(IF IsFrame(Poll(body)) THEN MapF[Poll(body)] ELSE Poll(body))

\* Mutant: the body is polled once.
DataPollsOnce(s) == 1

\* The loop: how often the body is polled, again after every frame that is not
\* data.
DataPolls(s) ==
  LET others == {i \in DOMAIN s : s[i].kind # "trailers"}
  IN IF others = {} THEN Len(s) + 1 ELSE Min(others)

BodyDataStream ==
  LET last == Poll(SubSeq(body, DataPolls(body), Len(body))) IN
  /\ wrapper = "BodyDataStream"
  /\ body' = SubSeq(body, DataPolls(body) + 1, Len(body))
  /\ Answer(IF last.kind = "trailers" THEN Pending ELSE last, last)
  /\ UNCHANGED <<wrapper, hinting>>

\* The buffer of a Full and of a String is taken, Empty has none.
Full == wrapper = "Full" /\ PollWrapped(Poll(body))
Empty == wrapper = "Empty" /\ Answer(End, End) /\ UNCHANGED wrappedVars
String == wrapper = "String" /\ PollWrapped(Poll(body))

\* Pending is pending for ever and keeps no waker.
PendingForEver ==
  wrapper = "Pending" /\ Answer(Pending, End) /\ UNCHANGED wrappedVars

\* ErrorBody gives up its error once and ends; its tests poll it after that.
ErrorBody == wrapper = "ErrorBody" /\ PollWrapped(Poll(body))

AdapterPollFrame ==
  \/ task = "ready" /\ ErrorBody
  \/ /\ MayPoll
     /\ \/ MapErr \/ InspectFrame \/ InspectErr \/ Either \/ BoxBody \/ Forwarded
        \/ MapFrame \/ StreamBody \/ BodyStream \/ BodyDataStream
        \/ Full \/ Empty \/ String \/ PendingForEver

AdapterIsEndStream ==
  \/ wrapper \in Forwarding \cup {"MapFrame"} /\ InnerEnd
  \/ wrapper \in Leaf \cup {"ErrorBody"} /\ body = <<>>

\* Mutant: MapFrame passes the hint on as the others do.
AdapterSizeHintMapped ==
  IF wrapper \in Forwarding \cup {"MapFrame"} THEN InnerHint ELSE NoHint

AdapterSizeHint ==
  CASE wrapper \in Forwarding -> InnerHint
    [] wrapper \in Leaf -> Exactly(Bytes(body))
    [] OTHER -> NoHint

-----------------------------------------------------------------------------
(* The frames owed: those of the body, mapped, or only the data.            *)
AdapterLeft ==
  LET frames == FramesLeft(body)
  IN CASE wrapper = "MapFrame" -> [i \in DOMAIN frames |-> MapF[frames[i]]]
       [] wrapper = "BodyDataStream" -> DataLeft(body)
       [] OTHER -> frames

AdapterFails == FailsLater(body)
=============================================================================
