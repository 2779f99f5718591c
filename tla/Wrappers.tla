------------------------------ MODULE Wrappers ------------------------------
(***************************************************************************)
(* Every body that wraps at most one other, polled by a task.              *)
(***************************************************************************)
EXTENDS Fuse, Limited, TryFutureBody, Adapters

innerVars == <<wrappedVars, fuseInner, limitedVars, futureVars>>
vars == <<innerVars, taskVars>>

TypeOK ==
  /\ TaskTypeOK
  /\ body \in Seq(Result) /\ hinting \in Hints
  /\ fuseInner \in {"Some", "None"}
  /\ remaining \in U64 /\ limit \in U64
  /\ futureInner \in {"Future", "Body", "Failed"}
  /\ pending \in Nat /\ resolves \in BOOLEAN /\ resolved \in BOOLEAN

\* The state of the wrappers that this one is not.
NoFuse == fuseInner = "None"
NoLimited == remaining = 0 /\ limit = 0
NoFuture ==
  /\ futureInner = "Failed" /\ pending = 0
  /\ resolves = FALSE /\ resolved = FALSE

Init ==
  /\ TaskInit
  /\ \/ FuseNew /\ NoLimited /\ NoFuture
     \/ LimitedNew /\ NoFuse /\ NoFuture
     \/ TryFutureBodyNew /\ NoFuse /\ NoLimited
     \/ /\ AdapterNew \/ LeafNew \/ PendingNew \/ ErrorBodyNew
        /\ NoFuse /\ NoLimited /\ NoFuture

PollFrame ==
  \/ /\ wrapper = "Fuse" /\ FusePollFrame
     /\ UNCHANGED <<limitedVars, futureVars>>
  \/ /\ wrapper = "Limited" /\ LimitedPollFrame
     /\ UNCHANGED <<fuseInner, futureVars>>
  \/ /\ wrapper = "TryFutureBody" /\ TryFutureBodyPollFrame
     /\ UNCHANGED <<fuseInner, limitedVars>>
  \/ /\ AdapterPollFrame
     /\ UNCHANGED <<fuseInner, limitedVars, futureVars>>

\* Nobody wakes the task of a Pending.
Hangs == wrapper = "Pending" /\ task = "parked" /\ UNCHANGED vars

Next ==
  \/ PollFrame
  \/ Wake /\ UNCHANGED innerVars
  \/ TaskDone /\ UNCHANGED innerVars
  \/ Hangs

\* The executor runs a ready task, and what was pending becomes ready.
Fairness ==
  /\ WF_vars(outcome = "open" /\ PollFrame)
  /\ WF_vars(Wake /\ UNCHANGED innerVars)

Spec == Init /\ [][Next]_vars /\ Fairness

IsEndStream ==
  CASE wrapper = "Fuse" -> FuseIsEndStream
    [] wrapper = "Limited" -> LimitedIsEndStream
    [] wrapper = "TryFutureBody" -> TryFutureBodyIsEndStream
    [] OTHER -> AdapterIsEndStream

SizeHint ==
  CASE wrapper = "Fuse" -> FuseSizeHint
    [] wrapper = "Limited" -> LimitedSizeHint
    [] wrapper = "TryFutureBody" -> TryFutureBodySizeHint
    [] OTHER -> AdapterSizeHint
-----------------------------------------------------------------------------
(* What each of them still owes its task.                                  *)
Left ==
  IF outcome # "open" THEN <<>>
  ELSE CASE wrapper = "Fuse" -> FuseLeft
         [] wrapper = "Limited" -> LimitedLeft
         [] wrapper = "TryFutureBody" -> TryFutureBodyLeft
         [] OTHER -> AdapterLeft

Fails ==
  IF outcome # "open" THEN outcome = "error"
  ELSE CASE wrapper = "Fuse" -> FuseFails
         [] wrapper = "Limited" -> LimitedFails
         [] wrapper = "TryFutureBody" -> TryFutureBodyFails
         [] OTHER -> AdapterFails

Stream == INSTANCE FrameStream WITH
  Frame <- AnyFrame, accepted <- returned \o Left,
  source <- IF Fails THEN "aborted" ELSE "finished"

\* Each of these bodies is one stream with the frames it owes and no others: a
\* Fuse over any body and for a task that never stops polling, a Limited up to
\* the first frame whose bytes exceed the limit, a TryFutureBody with the error
\* of its future or the frames of its body, the adapters with every frame.
ImplementsStream == Stream!Spec

\* size_hint bounds what is still delivered and is_end_stream is true only when
\* nothing is, no error either, at every moment a caller may ask. A Fuse knows
\* its own end. The bounds never cross, or set_upper of Limited panics
\* (size_hint.rs:62).
HintsAreSound ==
  /\ Sound(SizeHint, Left, Fails)
  /\ IsEndStream => Left = <<>> /\ (Fails => outcome = "error")
  /\ wrapper = "Fuse" /\ outcome # "open" => IsEndStream
  /\ \A max \in SizeHint.upper : SizeHint.lower <= max

\* "avoids polling its underlying body `B` further after the underlying stream
\* as ended" (fuse.rs:14): not after None, not after an error, not after the
\* frame that the body said was its last (nor ever, when it began at its end).
\* After Pending the body is polled whatever it says.
NeverPolledAgain ==
  [][wrapper = "Fuse" /\ (outcome # "open" \/ (InnerEnd /\ ~woken))
       => UNCHANGED body]_vars

\* LengthLimitError (limited.rs:52) comes exactly when it has to, in terms of what
\* the task holds and not of what Limited remembers: a Limited fails in a call in
\* which its body fails, or gives a frame that would take the bytes of the task
\* above the limit, and in no other.
LimitIsExact ==
  [][wrapper = "Limited" /\ PollFrame =>
       (outcome' = "error" <=>
          \/ Poll(body) = Failure
          \/ Bytes(returned) + SizeOf(Poll(body)) > limit)]_vars

\* A future that has resolved is not left in place, where the next poll_frame
\* would poll it again: its body takes its place, or nothing does when it failed
\* ("The future failed to yield a body.", Inner::Failed).
ResolvesOnce ==
  wrapper = "TryFutureBody" /\ resolved =>
    futureInner = IF resolves THEN "Body" ELSE "Failed"

\* No wrapper leaves its task asleep: where it polls something else than what it
\* was asked for, or polls again, it does so in the same call. Pending alone is
\* meant to.
Finishes == wrapper # "Pending" => <>(outcome # "open")
=============================================================================
