---------------------------- MODULE FrameStream ----------------------------
(***************************************************************************)
(* What a body promises the task that polls it, from the contract of       *)
(* Body::poll_frame (http-body/src/lib.rs:46-61): the frames of its source *)
(* are returned once each and in order, Ready(None) comes after all of     *)
(* them and only from a source that finished, an error comes after the     *)
(* frames that precede it and only from a source that failed, and both are *)
(* final. The source may produce frames while it is read (the Sender of a  *)
(* Channel) or have them all at the start (the bodies a combinator wraps). *)
(***************************************************************************)
EXTENDS Naturals, Sequences

CONSTANT Frame

VARIABLES
  accepted,   \* the frames the source has produced, in order
  returned,   \* the frames the consumer has been given, in order
  source,     \* "open", "finished" or "aborted"
  outcome     \* "open", "end" (Ready(None)) or "error"

svars == <<accepted, returned, source, outcome>>

Init ==
  /\ accepted \in Seq(Frame) /\ source \in {"open", "finished", "aborted"}
  /\ returned = <<>> /\ outcome = "open"

Accept(f) ==
  /\ source = "open"
  /\ accepted' = Append(accepted, f)
  /\ UNCHANGED <<returned, source, outcome>>

Close ==
  /\ source = "open"
  /\ source' \in {"finished", "aborted"}
  /\ UNCHANGED <<accepted, returned, outcome>>

Return ==
  /\ outcome = "open"
  /\ Len(returned) < Len(accepted)
  /\ returned' = Append(returned, accepted[Len(returned) + 1])
  /\ UNCHANGED <<accepted, source, outcome>>

End ==
  /\ outcome = "open" /\ source = "finished" /\ returned = accepted
  /\ outcome' = "end"
  /\ UNCHANGED <<accepted, returned, source>>

Fail ==
  /\ outcome = "open" /\ source = "aborted" /\ returned = accepted
  /\ outcome' = "error"
  /\ UNCHANGED <<accepted, returned, source>>

Next == Return \/ End \/ Fail \/ Close \/ \E f \in Frame : Accept(f)

Spec == Init /\ [][Next]_svars
=============================================================================
