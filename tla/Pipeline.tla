------------------------------ MODULE Pipeline ------------------------------
(***************************************************************************)
(* A Channel body as it is used: wrapped by BodyExt::with_trailers and     *)
(* BodyExt::fuse (http-body-util/src/lib.rs) and read with frame().await,  *)
(* whose future may be dropped while it is pending.                        *)
(*                                                                         *)
(* One poll of the whole is many steps: the two polls of the Channel, the  *)
(* drop of the Channel inside that poll (WithTrailers drops the body that  *)
(* is complete, Fuse the body that has ended), the poll of the trailers    *)
(* future. The Sender, and the background task that resolves the future,   *)
(* may run between any two of them. What the Channel itself does is the    *)
(* module Channel; every step of a pipeline is one of its steps or leaves  *)
(* it alone.                                                               *)
(***************************************************************************)
EXTENDS Channel

CONSTANTS
  TrailerFrame,   \* the frames that are trailers
  Late,           \* the trailers that the future may resolve to
  Stacks          \* the combinators around the Channel, as sets of their names

ASSUME TrailerAssumption == TrailerFrame \subseteq Frame /\ Late \notin Frame
ASSUME StacksAssumption == Stacks \subseteq SUBSET {"WithTrailers", "Fuse"}

VARIABLES
  stack,       \* the combinators of this pipeline, Fuse outside WithTrailers
  oneThread,   \* all tasks share a thread: a synchronous call is not interrupted
  call,        \* the poll of the whole: "idle", in the "channel", in the
               \* "trailers" future or the drop before it, "closing" its body,
               \* "parked" after Pending, "panicked"; "dropping", then "gone"
  inner,       \* Fuse::inner: "Some" or "None"
  state,       \* WithTrailers::state: "PollBody", "PollTrailers" or "Done"
  kept,        \* State::PollTrailers::prev_trailers: a set of one frame or none
  late,        \* the trailers future: "pending", then what it resolves to,
               \* "trailers", "none" or "failure"
  taken,       \* the future has been polled to completion
  lateWaker,   \* the task's waker is registered with the future
  lateWoken,   \* that waker has fired since the current poll began
  delivered,   \* history: the frames the reader was given, each as the set of
               \* the frames that were merged in it
  outcome      \* history: "open", "end" or "error", as the reader was told

future == <<late, taken, lateWaker, lateWoken>>
withTrailers == <<state, kept>>
reader == <<delivered, outcome>>
stackVars == <<stack, oneThread, call, inner, withTrailers, future, reader>>
allVars == <<vars, stackVars>>

StackTypeOK ==
  /\ TypeOK
  /\ stack \in Stacks /\ oneThread \in BOOLEAN
  /\ call \in {"idle", "channel", "trailers", "closing", "parked", "panicked",
               "dropping", "gone"}
  /\ inner \in {"Some", "None"}
  /\ state \in {"PollBody", "PollTrailers", "Done"}
  /\ kept \in SUBSET TrailerFrame
  /\ late \in {"pending", "trailers", "none", "failure"}
  /\ taken \in BOOLEAN /\ lateWaker \in BOOLEAN /\ lateWoken \in BOOLEAN
  /\ delivered \in Seq(SUBSET (Frame \cup {Late}))
  /\ outcome \in {"open", "end", "error"}

\* channel.with_trailers(future).fuse(): neither asks whether the end is near,
\* is_end_stream of a Channel and of a WithTrailers is always false.
StackInit ==
  /\ Init
  /\ stack \in Stacks /\ oneThread \in BOOLEAN
  /\ call = "idle" /\ inner = "Some" /\ state = "PollBody" /\ kept = {}
  /\ late = "pending" /\ taken = FALSE /\ lateWaker = FALSE /\ lateWoken = FALSE
  /\ delivered = <<>> /\ outcome = "open"

-----------------------------------------------------------------------------
(* The other tasks.                                                        *)

\* On one thread they run between two polls only.
OthersRun == ~oneThread \/ call \in {"idle", "parked", "panicked", "gone"}

SenderStep ==
  /\ OthersRun
  /\ \/ \E f \in Frame : Send(f) \/ ResumeSend(f) \/ TrySend(f)
     \/ CancelSend \/ Abort \/ DropTxFrame \/ DropTxError
  /\ UNCHANGED stackVars

\* The background task computes the trailers, or ends without.
Resolve ==
  /\ "WithTrailers" \in stack /\ late = "pending" /\ OthersRun
  /\ late' \in {"trailers", "none", "failure"}
  /\ lateWoken' = (lateWoken \/ lateWaker) /\ lateWaker' = FALSE
  /\ UNCHANGED <<vars, stack, oneThread, call, inner, withTrailers, reader, taken>>

-----------------------------------------------------------------------------
(* The reader. It goes on after an error only when a Fuse has taken the     *)
(* body away, and it does not take the end for final.                      *)

ReaderRuns == ~oneThread \/ sender \notin {"aborting", "dropping"}

MayPoll ==
  /\ ReaderRuns /\ call \in {"idle", "parked"}
  /\ outcome # "error" \/ "Fuse" \in stack

\* Mutant: the Fuse returns None for the error that makes it drop its body.
ConcludeEnds(o) ==
  /\ outcome' = IF "Fuse" \in stack THEN "end" ELSE o
  /\ inner' = IF "Fuse" \in stack THEN "None" ELSE inner
  /\ call' = IF "Fuse" \in stack /\ body' # "dropped" THEN "closing" ELSE "idle"
  /\ UNCHANGED delivered

\* Mutant: the Fuse keeps a body that has ended.
ConcludeUnfused(o) ==
  /\ outcome' = o /\ call' = "idle"
  /\ UNCHANGED <<inner, delivered>>

\* Ready(None) or an error. The Fuse drops its body before it returns either.
Conclude(o) ==
  /\ outcome' = o
  /\ inner' = IF "Fuse" \in stack THEN "None" ELSE inner
  /\ call' = IF "Fuse" \in stack /\ body' # "dropped" THEN "closing" ELSE "idle"
  /\ UNCHANGED delivered

Deliver(frames) ==
  /\ delivered' = Append(delivered, frames)
  /\ call' = "idle"
  /\ UNCHANGED <<inner, outcome>>

\* Mutant: the future is left to the next call, which nobody will wake.
SwitchParks(frames) ==
  /\ state' = "PollTrailers" /\ kept' = frames
  /\ call' = "parked"
  /\ UNCHANGED <<inner, reader>>

\* WithTrailers has all of its body: it drops that, then polls the future.
Switch(frames) ==
  /\ state' = "PollTrailers" /\ kept' = frames
  /\ call' = "trailers"
  /\ UNCHANGED <<inner, reader>>

\* WithTrailers takes the trailers of its body for the end of it.
Completes(f) == "WithTrailers" \in stack /\ f \in TrailerFrame

\* frame().await begins a poll: the Channel is asked for a frame ...
PollChannel ==
  /\ MayPoll /\ inner = "Some" /\ state = "PollBody"
  /\ PollRecv
  /\ \/ /\ ~FrameReady
        /\ call' = "channel"
        /\ UNCHANGED <<inner, withTrailers, reader>>
     \/ /\ FrameReady /\ ~Completes(Head(queue))
        /\ Deliver({Head(queue)})
        /\ UNCHANGED withTrailers
     \/ /\ FrameReady /\ Completes(Head(queue))
        /\ Switch({Head(queue)})
  /\ UNCHANGED <<stack, oneThread, future>>

\* ... then for the end or an error. A panic of the Channel unwinds.
PollChannelError ==
  /\ ReaderRuns /\ call = "channel"
  /\ PollError
  /\ \/ /\ body' \in {"parked", "panicked"}
        /\ call' = body'
        /\ UNCHANGED <<inner, withTrailers, reader>>
     \/ /\ body' = "idle" /\ verdict' = "end" /\ "WithTrailers" \in stack
        /\ Switch({})
     \/ /\ body' = "idle"
        /\ verdict' = "error" \/ "WithTrailers" \notin stack
        /\ Conclude(verdict')
        /\ UNCHANGED withTrailers
  /\ UNCHANGED <<stack, oneThread, future>>

\* A poll that finds the body complete goes to the future.
PollFutureAgain ==
  /\ MayPoll /\ inner = "Some" /\ state = "PollTrailers"
  /\ call' = "trailers" /\ lateWoken' = FALSE
  /\ UNCHANGED <<vars, stack, oneThread, inner, withTrailers, reader,
                 late, taken, lateWaker>>

\* Mutant: the trailers of the body are taken before the future is ready.
KeptWhilePending == {}

\* The future is pending: the trailers of the body stay where they are.
KeptMeanwhile == kept

\* Mutant: WithTrailers keeps the body that is complete.
BodyKept == TRUE

\* The new state of WithTrailers has taken the place of the one with the body.
BodyReplaced == body = "dropped"

\* The poll of the future, the Channel being dropped. An async block panics
\* when it is polled after it has resolved.
PollFuture ==
  /\ ReaderRuns /\ call = "trailers" /\ BodyReplaced
  /\ UNCHANGED <<vars, stack, oneThread, late, lateWoken>>
  /\ LET joined == kept \cup (IF late = "trailers" THEN {Late} ELSE {}) IN
     \/ /\ taken
        /\ call' = "panicked"
        /\ UNCHANGED <<withTrailers, taken, lateWaker, inner, reader>>
     \/ /\ late = "pending"
        /\ call' = "parked" /\ lateWaker' = TRUE
        /\ kept' = KeptMeanwhile
        /\ UNCHANGED <<state, taken, inner, reader>>
     \/ /\ ~taken /\ late \in {"trailers", "none"} /\ joined # {}
        /\ state' = "Done" /\ kept' = {} /\ taken' = TRUE
        /\ Deliver(joined)
        /\ UNCHANGED lateWaker
     \/ /\ ~taken /\ late = "none" /\ joined = {}
        /\ taken' = TRUE
        /\ Conclude("end")
        /\ UNCHANGED <<withTrailers, lateWaker>>
     \/ /\ ~taken /\ late = "failure"
        /\ taken' = TRUE
        /\ Conclude("error")
        /\ UNCHANGED <<withTrailers, lateWaker>>

\* WithTrailers has given everything; so has a Fuse without its body.
PollDone ==
  /\ MayPoll
  /\ UNCHANGED <<vars, stack, oneThread, withTrailers, future>>
  /\ \/ /\ inner = "Some" /\ state = "Done"
        /\ Conclude("end")
     \/ /\ inner = "None"
        /\ UNCHANGED <<call, inner, reader>>

\* The frame() future dropped while it is pending (a timeout, a select!): the
\* reader will make another.
CancelFrame ==
  /\ ReaderRuns /\ call = "parked"
  /\ call' = "idle"
  /\ UNCHANGED <<vars, stack, oneThread, inner, withTrailers, future, reader>>

\* The Channel goes when WithTrailers or Fuse lets go of it, or with the whole.
Discarding == {"trailers", "closing", "dropping"}

DropChannelFrames ==
  /\ ReaderRuns /\ call \in Discarding
  /\ DropRxFrame
  /\ UNCHANGED stackVars

DropChannelError ==
  /\ ReaderRuns /\ call \in Discarding
  /\ DropRxError
  /\ call' = CASE call = "closing" -> "idle"
               [] call = "dropping" -> "gone"
               [] OTHER -> call
  /\ UNCHANGED <<stack, oneThread, inner, withTrailers, future, reader>>

\* The reader drops the whole, or a panic does.
DropStack ==
  /\ ReaderRuns /\ call \in {"idle", "parked", "panicked"}
  /\ call' = IF body = "dropped" THEN "gone" ELSE "dropping"
  /\ UNCHANGED <<vars, stack, oneThread, inner, withTrailers, future, reader>>

Over == call = "gone" /\ sender = "gone" /\ UNCHANGED allVars

ReaderStep ==
  \/ PollChannel \/ PollChannelError \/ PollFutureAgain \/ PollFuture
  \/ PollDone \/ CancelFrame
  \/ DropChannelFrames \/ DropChannelError \/ DropStack

StackNext == SenderStep \/ Resolve \/ ReaderStep \/ Over
-----------------------------------------------------------------------------
(* Fairness: calls in progress return, woken tasks run, and the reader reads *)
(* on until it is told the end or an error. Nobody has to send, to resolve  *)
(* the future, to cancel or to drop.                                       *)

Woken == IF state = "PollBody" THEN notified ELSE lateWoken

StackOwedPoll ==
  /\ outcome = "open" /\ (call = "idle" \/ Woken)
  /\ PollChannel \/ PollFutureAgain \/ PollDone

CallGoesOn ==
  \/ PollChannelError \/ PollFuture \/ DropChannelFrames \/ DropChannelError

SenderGoesOn ==
  /\ OthersRun
  /\ \/ \E f \in Frame : ResumeSend(f)
     \/ sender = "aborting" /\ DropTxFrame
     \/ DropTxError
  /\ UNCHANGED stackVars

StackFairness ==
  WF_allVars(StackOwedPoll) /\ WF_allVars(CallGoesOn) /\ WF_allVars(SenderGoesOn)

StackSpec == StackInit /\ [][StackNext]_allVars /\ StackFairness
-----------------------------------------------------------------------------
(* Properties.                                                             *)

\* Every frame the Channel returned has reached the reader once and in order,
\* or waits in the WithTrailers for the future, whatever was cancelled, dropped
\* or refused meanwhile. What the future resolved to is in the last frame, once
\* it has been polled to completion. (Frame::poll, WithTrailers::poll_frame,
\* Fuse::poll_frame)
NothingLostInStack ==
  LET shown == Append(delivered, kept)
      withLate == {i \in DOMAIN delivered : Late \in delivered[i]}
  IN /\ Len(shown) >= Len(yielded)
     /\ \A i \in DOMAIN shown :
          shown[i] \ {Late} = IF i <= Len(yielded) THEN {yielded[i]} ELSE {}
     /\ withLate = IF taken /\ late = "trailers" THEN {Len(delivered)} ELSE {}

\* A pending frame() that no waker has fired for has nothing to return, at
\* whichever layer it waits, and that layer holds its waker: the waker moves
\* from the Channel to the future within one poll.
StackNoLostWakeup ==
  call = "parked" /\ ~Woken =>
    \/ state = "PollBody" /\ body = "parked" /\ NoLostWakeup
    \/ state = "PollTrailers" /\ late = "pending" /\ lateWaker

\* A reader that sleeps until the trailers are there does not keep the Sender
\* waiting for a slot in a body that nobody will read again.
StackNoMutualWait ==
  sender = "waiting" /\ rxFrame = "open" => ~(call = "parked" /\ ~Woken)

\* The last frame the Channel gave is trailers.
GaveTrailers == yielded # <<>> /\ yielded[Len(yielded)] \in TrailerFrame

\* The reader is told the end only when the future has been waited for, and all
\* that was accepted before the last poll of the Channel began, on one thread
\* all that was accepted, has been returned. WithTrailers alone cuts frames
\* off, those that a Sender pushed after trailers.
EndOfStackIsWhole ==
  outcome = "end" =>
    /\ "WithTrailers" \in stack => taken
    /\ \/ "WithTrailers" \in stack /\ GaveTrailers
       \/ Len(yielded) >= IF oneThread THEN Len(pushed) ELSE pollStart

\* A failure is not reported as the end, nor the end as a failure. WithTrailers
\* alone hides an abort(), one that comes after trailers.
FailureOfStackIsNotEnd ==
  /\ outcome = "end" =>
       /\ ~taken \/ late # "failure"
       /\ slot = "error" => "WithTrailers" \in stack /\ GaveTrailers
  /\ outcome = "error" => slot = "error" \/ (taken /\ late = "failure")

\* A body behind a Fuse is never polled after it ended or failed, so it never
\* panics, however often the reader polls.
FuseIsFinal == "Fuse" \in stack => call # "panicked"

\* With the Sender and the background task done, the reader gets to know the
\* end, unless it stops reading.
StackFinishes ==
  sender = "gone" /\ (late # "pending" \/ "WithTrailers" \notin stack)
    ~> outcome # "open" \/ call \in {"dropping", "gone"}
=============================================================================
