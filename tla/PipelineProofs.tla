--------------------------- MODULE PipelineProofs ---------------------------
(***************************************************************************)
(* Safety of a Channel behind its combinators, for every set of frames,    *)
(* every capacity and every length of behaviour. The Channel keeps its own *)
(* invariant, since a pipeline takes no step with it that a Channel does   *)
(* not take; what is left to show is how the layers around it agree.       *)
(***************************************************************************)
EXTENDS Pipeline, ChannelProofs

\* Which layer a poll is in, and which layer still has its body.
Layers ==
  /\ call = "channel" <=> body = "between"
  /\ call = "channel" => inner = "Some" /\ state = "PollBody"
  /\ call = "trailers" => inner = "Some" /\ state = "PollTrailers"
  /\ state # "PollBody" =>
       "WithTrailers" \in stack /\ (call = "trailers" \/ body = "dropped")
  /\ call = "parked" /\ state = "PollBody" => body = "parked"
  /\ call = "parked" => state # "Done"

\* The future keeps its waker while a frame() is pending on it.
FutureWaits ==
  /\ taken => late # "pending" /\ state # "PollBody"
  /\ state = "Done" => taken /\ late # "failure"
  /\ call = "parked" /\ state = "PollTrailers" /\ ~lateWoken =>
       late = "pending" /\ lateWaker

\* What a Fuse still has has not ended.
FuseHolds ==
  "Fuse" \in stack =>
    /\ call # "panicked"
    /\ inner = "Some" /\ state = "PollBody" => verdict = "open"
    /\ inner = "Some" /\ state = "PollTrailers" => ~taken

\* What the reader was told is what the Channel and the future came to.
Outcomes ==
  /\ state # "PollBody" => verdict = "end" \/ GaveTrailers
  /\ outcome = "end" =>
       IF "WithTrailers" \in stack
       THEN state # "PollBody" /\ taken /\ late # "failure"
       ELSE verdict = "end"
  /\ outcome = "error" => verdict = "error" \/ (taken /\ late = "failure")

\* On one thread nothing is pushed while a poll is between its two halves.
Uninterrupted ==
  oneThread =>
    /\ body = "between" => queue = <<>>
    /\ verdict = "end" => yielded = pushed

StackInv ==
  /\ IInv /\ StackTypeOK
  /\ Layers /\ FutureWaits /\ FuseHolds /\ Outcomes /\ Uninterrupted
-----------------------------------------------------------------------------
(* The Channel in a pipeline.                                              *)

\* Every step of a pipeline is a step of its Channel or leaves it alone.
LEMMA StackStep ==
  ASSUME [StackNext]_allVars
  PROVE  [Next]_vars
<1>1. CASE SenderStep
  BY <1>1 DEF SenderStep, Next
<1>2. CASE PollChannel \/ PollChannelError \/ DropChannelFrames
             \/ DropChannelError
  BY <1>2 DEF PollChannel, PollChannelError, DropChannelFrames,
    DropChannelError, Next
<1>3. CASE Resolve \/ PollFutureAgain \/ PollFuture \/ PollDone \/ CancelFrame
             \/ DropStack \/ Over \/ UNCHANGED allVars
  BY <1>3 DEF Resolve, PollFutureAgain, PollFuture, PollDone, CancelFrame,
    DropStack, Over, allVars
<1> QED BY <1>1, <1>2, <1>3 DEF StackNext, ReaderStep

\* The combinators use the Channel as its contract has it: whatever holds of
\* every behaviour of a Channel holds of it in a pipeline.
THEOREM ChannelInStack == StackSpec => Init /\ [][Next]_vars
<1>1. StackInit => Init
  BY DEF StackInit
<1>2. [StackNext]_allVars => [Next]_vars
  BY StackStep
<1> QED BY <1>1, <1>2, PTL DEF StackSpec

-----------------------------------------------------------------------------
(* Each step preserves the invariant of the layers.                        *)

StackRest == Layers /\ FutureWaits /\ FuseHolds /\ Outcomes /\ Uninterrupted

\* What the Sender does to what the layers look at.
LEMMA SenderTouches ==
  ASSUME StackInv, SenderStep
  PROVE  /\ body' = body /\ verdict' = verdict /\ yielded' = yielded
         /\ OthersRun /\ UNCHANGED stackVars
         /\ (oneThread /\ body = "between" /\ queue = <<>> => queue' = <<>>)
         /\ (verdict = "end" => pushed' = pushed)
<1>1. verdict = "end" => sender \in {"aborting", "gone"}
  BY DEF StackInv, IInv, TypeOK, Verdicts, SenderHandles
<1>2. oneThread /\ OthersRun => body # "between"
  BY DEF StackInv, Layers, OthersRun
<1>3. ASSUME NEW f \in Frame, Send(f) \/ ResumeSend(f) \/ TrySend(f)
      PROVE  /\ body' = body /\ verdict' = verdict /\ yielded' = yielded
             /\ (verdict = "end" => pushed' = pushed)
  BY <1>1, <1>3 DEF Send, ResumeSend, TrySend, Push, vars, mpsc, history
<1>4. CASE CancelSend \/ Abort \/ DropTxFrame \/ DropTxError
  BY <1>2, <1>4 DEF SenderStep, CancelSend, Abort, DropTxFrame, DropTxError,
    mpsc, history
<1> QED BY <1>2, <1>3, <1>4 DEF SenderStep

LEMMA SenderKeeps ==
  ASSUME StackInv, SenderStep
  PROVE  StackRest'
<1>1. /\ body' = body /\ verdict' = verdict /\ yielded' = yielded
      /\ (oneThread /\ body = "between" /\ queue = <<>> => queue' = <<>>)
      /\ (verdict = "end" => pushed' = pushed)
  BY SenderTouches
<1>2. /\ stack' = stack /\ oneThread' = oneThread /\ call' = call
      /\ inner' = inner /\ state' = state /\ late' = late /\ taken' = taken
      /\ lateWaker' = lateWaker /\ lateWoken' = lateWoken /\ outcome' = outcome
  BY DEF SenderStep, stackVars, withTrailers, future, reader
<1>3. Layers' /\ FutureWaits' /\ FuseHolds'
  BY <1>1, <1>2 DEF StackInv, Layers, FutureWaits, FuseHolds
<1>4. Outcomes' /\ Uninterrupted'
  BY <1>1, <1>2 DEF StackInv, Outcomes, Uninterrupted, GaveTrailers
<1> QED BY <1>3, <1>4 DEF StackRest

LEMMA ResolveKeeps ==
  ASSUME StackInv, Resolve
  PROVE  StackRest'
<1>1. /\ stack' = stack /\ oneThread' = oneThread /\ call' = call
      /\ inner' = inner /\ state' = state /\ taken' = taken
      /\ outcome' = outcome /\ late = "pending" /\ late' # "pending"
      /\ lateWoken' = (lateWoken \/ lateWaker)
  BY DEF Resolve, withTrailers, reader
<1>2. /\ body' = body /\ verdict' = verdict /\ yielded' = yielded
      /\ queue' = queue /\ pushed' = pushed
  BY DEF Resolve, vars, mpsc, history
<1>3. Layers' /\ FutureWaits' /\ FuseHolds'
  BY <1>1, <1>2 DEF StackInv, Layers, FutureWaits, FuseHolds
<1>4. Outcomes' /\ Uninterrupted'
  BY <1>1, <1>2 DEF StackInv, Outcomes, Uninterrupted, GaveTrailers, FutureWaits
<1> QED BY <1>3, <1>4 DEF StackRest

LEMMA PollChannelKeeps ==
  ASSUME StackInv, PollChannel
  PROVE  StackRest'
<1>1. /\ call \in {"idle", "parked"} /\ inner = "Some" /\ state = "PollBody"
      /\ stack' = stack /\ oneThread' = oneThread /\ inner' = inner
      /\ late' = late /\ taken' = taken /\ lateWoken' = lateWoken
      /\ lateWaker' = lateWaker /\ outcome' = outcome
  BY DEF PollChannel, MayPoll, Deliver, Switch, future, reader
<1>2. /\ PollRecv /\ body \in {"idle", "parked"}
      /\ verdict' = verdict /\ pushed' = pushed
  BY DEF PollChannel, PollRecv
<1>3. CASE queue = <<>>
  <2>1. /\ call' = "channel" /\ state' = state
        /\ body' = "between" /\ queue' = queue /\ yielded' = yielded
    BY <1>2, <1>3 DEF PollChannel, FrameReady, PollRecv, Take, Miss,
      withTrailers
  <2> QED BY <1>1, <1>2, <1>3, <2>1 DEF StackInv, StackRest, Layers,
    FutureWaits, FuseHolds, Outcomes, Uninterrupted, GaveTrailers
<1>4. CASE queue # <<>>
  <2>1. /\ queue \in Seq(Frame) /\ yielded \in Seq(Frame)
        /\ yielded' = Append(yielded, Head(queue)) /\ body' = "idle"
    BY <1>2, <1>4 DEF StackInv, IInv, TypeOK, PollRecv, FrameReady, Take, Miss
  <2>2. ~(oneThread /\ verdict = "end")
    BY <1>2, <1>4, <2>1, ConcatEqualIffEmpty DEF StackInv, IInv,
      FrameConservation, BodyHandles, Uninterrupted
  <2>3. CASE ~Completes(Head(queue))
    <3>1. call' = "idle" /\ state' = state
      BY <1>4, <2>3 DEF PollChannel, FrameReady, Deliver, withTrailers
    <3> QED BY <1>1, <1>2, <2>1, <2>2, <3>1 DEF StackInv, StackRest, Layers,
      FutureWaits, FuseHolds, Outcomes, Uninterrupted, GaveTrailers
  <2>4. CASE Completes(Head(queue))
    <3>1. call' = "trailers" /\ state' = "PollTrailers"
      BY <1>4, <2>4 DEF PollChannel, FrameReady, Switch
    <3>2. "WithTrailers" \in stack /\ Head(queue) \in TrailerFrame
      BY <2>4 DEF Completes
    <3>3. GaveTrailers'
      BY <1>4, <2>1, <3>2, HeadTailProperties, AppendProperties, EmptySeq
         DEF GaveTrailers
    <3> QED BY <1>1, <1>2, <2>1, <2>2, <3>1, <3>2, <3>3 DEF StackInv,
      StackRest, Layers, FutureWaits, FuseHolds, Outcomes, Uninterrupted
  <2> QED BY <2>3, <2>4
<1> QED BY <1>3, <1>4

LEMMA PollChannelErrorKeeps ==
  ASSUME StackInv, PollChannelError
  PROVE  StackRest'
<1>1. /\ call = "channel" /\ inner = "Some" /\ state = "PollBody" /\ ~taken
      /\ stack' = stack /\ oneThread' = oneThread /\ late' = late
      /\ taken' = taken /\ lateWaker' = lateWaker /\ lateWoken' = lateWoken
  BY DEF PollChannelError, StackInv, Layers, FutureWaits, future
<1>2. /\ PollError /\ body = "between" /\ yielded' = yielded
      /\ pushed' = pushed /\ queue' = queue
      /\ body' \in {"parked", "panicked"} => verdict' = verdict
      /\ verdict # "open" => verdict' = verdict
      /\ verdict' \in {"open", "end", "error"}
      /\ body' = "panicked" => rxError = "done"
  BY DEF PollChannelError, PollError, Answer, mpsc, StackInv, IInv, TypeOK,
    BodyHandles
<1>3. "Fuse" \in stack => body' # "panicked"
  BY <1>1, <1>2 DEF StackInv, FuseHolds, IInv, BodyHandles
<1>4. Uninterrupted'
  <2>1. oneThread => yielded = pushed
    BY <1>2, ConcatEmptySeq DEF StackInv, Uninterrupted, IInv, TypeOK,
      FrameConservation, BodyHandles
  <2>2. body' # "between"
    BY DEF PollChannelError
  <2> QED BY <1>1, <1>2, <2>1, <2>2 DEF Uninterrupted
<1>5. CASE /\ body' \in {"parked", "panicked"} /\ call' = body'
           /\ UNCHANGED <<inner, withTrailers, reader>>
  BY <1>1, <1>2, <1>3, <1>4, <1>5 DEF StackInv, StackRest, Layers, FutureWaits,
    FuseHolds, Outcomes, GaveTrailers, withTrailers, reader
<1>6. CASE /\ body' = "idle" /\ verdict' = "end" /\ "WithTrailers" \in stack
           /\ Switch({})
  BY <1>1, <1>2, <1>4, <1>6 DEF StackInv, StackRest, Layers, FutureWaits,
    FuseHolds, Outcomes, GaveTrailers, Switch, reader
<1>7. CASE /\ body' = "idle"
           /\ verdict' = "error" \/ "WithTrailers" \notin stack
           /\ Conclude(verdict') /\ UNCHANGED withTrailers
  <2>1. /\ state' = state /\ outcome' = verdict'
        /\ inner' = IF "Fuse" \in stack THEN "None" ELSE inner
        /\ call' \in {"idle", "closing"}
    BY <1>7 DEF Conclude, withTrailers
  <2> QED BY <1>1, <1>2, <1>4, <1>7, <2>1 DEF StackInv, StackRest, Layers,
    FutureWaits, FuseHolds, Outcomes, GaveTrailers
<1> QED BY <1>5, <1>6, <1>7 DEF PollChannelError

\* The steps that leave the Channel alone.
LEMMA LayersOnlyKeep ==
  ASSUME StackInv, UNCHANGED vars, stack' = stack, oneThread' = oneThread
  PROVE  /\ body' = body /\ verdict' = verdict /\ yielded' = yielded
         /\ Uninterrupted' /\ (GaveTrailers' <=> GaveTrailers)
<1>1. /\ body' = body /\ verdict' = verdict /\ yielded' = yielded
      /\ queue' = queue /\ pushed' = pushed
  BY DEF vars, mpsc, history
<1> QED BY <1>1 DEF StackInv, Uninterrupted, GaveTrailers

LEMMA PollFutureKeeps ==
  ASSUME StackInv, PollFuture
  PROVE  StackRest'
<1>1. /\ UNCHANGED vars /\ stack' = stack /\ oneThread' = oneThread
      /\ late' = late /\ lateWoken' = lateWoken
      /\ call = "trailers" /\ body = "dropped"
      /\ inner = "Some" /\ state = "PollTrailers"
      /\ "WithTrailers" \in stack
  BY DEF PollFuture, BodyReplaced, StackInv, Layers
<1>2. /\ body' = body /\ verdict' = verdict /\ yielded' = yielded
      /\ Uninterrupted' /\ (GaveTrailers' <=> GaveTrailers)
  BY <1>1, LayersOnlyKeep
<1>3. CASE /\ taken /\ call' = "panicked"
           /\ UNCHANGED <<withTrailers, taken, lateWaker, inner, reader>>
  BY <1>1, <1>2, <1>3 DEF StackInv, StackRest, Layers, FutureWaits, FuseHolds,
    Outcomes, withTrailers, reader
<1>4. CASE /\ late = "pending" /\ call' = "parked" /\ lateWaker' = TRUE
           /\ UNCHANGED <<state, taken, inner, reader>>
  BY <1>1, <1>2, <1>4 DEF StackInv, StackRest, Layers, FutureWaits, FuseHolds,
    Outcomes, reader
<1>5. CASE /\ late \in {"trailers", "none"} /\ state' = "Done"
           /\ taken' = TRUE /\ call' = "idle"
           /\ inner' = inner /\ outcome' = outcome
  BY <1>1, <1>2, <1>5 DEF StackInv, StackRest, Layers, FutureWaits, FuseHolds,
    Outcomes
<1>6. ASSUME NEW o \in {"end", "error"}, Conclude(o), taken' = TRUE,
             UNCHANGED withTrailers,
             o = "end" => late = "none", o = "error" => late = "failure"
      PROVE  StackRest'
  <2>1. /\ state' = state /\ outcome' = o /\ call' = "idle"
        /\ inner' = IF "Fuse" \in stack THEN "None" ELSE inner
    BY <1>1, <1>2, <1>6 DEF Conclude, withTrailers
  <2> QED BY <1>1, <1>2, <1>6, <2>1 DEF StackInv, StackRest, Layers,
    FutureWaits, FuseHolds, Outcomes
<1> QED BY <1>3, <1>4, <1>5, <1>6 DEF PollFuture, Deliver

\* The other steps of the reader.
LEMMA ReaderKeeps ==
  ASSUME StackInv,
         PollFutureAgain \/ PollDone \/ CancelFrame \/ DropStack
  PROVE  StackRest'
<1>1. /\ UNCHANGED vars /\ stack' = stack /\ oneThread' = oneThread
      /\ late' = late /\ taken' = taken /\ lateWaker' = lateWaker
      /\ state' = state /\ call \in {"idle", "parked", "panicked"}
  BY DEF PollFutureAgain, PollDone, CancelFrame, DropStack, MayPoll, future,
    withTrailers
<1>2. /\ body' = body /\ verdict' = verdict /\ yielded' = yielded
      /\ Uninterrupted' /\ (GaveTrailers' <=> GaveTrailers)
  BY <1>1, LayersOnlyKeep
<1>3. CASE PollFutureAgain
  BY <1>1, <1>2, <1>3 DEF PollFutureAgain, StackInv, StackRest, Layers,
    FutureWaits, FuseHolds, Outcomes, reader
<1>4. CASE PollDone /\ inner = "Some"
  <2>1. /\ state = "Done" /\ outcome' = "end" /\ lateWoken' = lateWoken
        /\ inner' = IF "Fuse" \in stack THEN "None" ELSE inner
        /\ call' \in {"idle", "closing"}
    BY <1>4 DEF PollDone, Conclude, future
  <2> QED BY <1>1, <1>2, <2>1 DEF StackInv, StackRest, Layers, FutureWaits,
    FuseHolds, Outcomes
<1>5. CASE PollDone /\ inner = "None"
  BY <1>1, <1>2, <1>5 DEF PollDone, StackInv, StackRest, Layers, FutureWaits,
    FuseHolds, Outcomes, reader, future
<1>6. CASE CancelFrame \/ DropStack
  BY <1>1, <1>2, <1>6 DEF CancelFrame, DropStack, StackInv, StackRest, Layers,
    FutureWaits, FuseHolds, Outcomes, reader, future
<1> QED BY <1>3, <1>4, <1>5, <1>6 DEF PollDone

LEMMA DropChannelKeeps ==
  ASSUME StackInv, DropChannelFrames \/ DropChannelError
  PROVE  StackRest'
<1>1. /\ call \in Discarding
      /\ call' = call \/ (call # "trailers" /\ call' \in {"idle", "gone"})
      /\ body \in {"idle", "parked", "panicked", "dropping"}
      /\ body' \in {"dropping", "dropped"}
      /\ verdict' = verdict /\ yielded' = yielded /\ pushed' = pushed
  BY DEF DropChannelFrames, DropChannelError, DropRxFrame, DropRxError,
    stackVars, history, Discarding
<1>2. /\ stack' = stack /\ oneThread' = oneThread /\ inner' = inner
      /\ state' = state /\ late' = late /\ taken' = taken
      /\ lateWaker' = lateWaker /\ lateWoken' = lateWoken
      /\ outcome' = outcome
  BY DEF DropChannelFrames, DropChannelError, stackVars, withTrailers, future,
    reader
<1>3. state # "PollBody" => call = "trailers" \/ body' = "dropped"
  BY <1>1 DEF StackInv, Layers, DropChannelFrames, DropRxFrame,
    DropChannelError, DropRxError
<1>4. Layers' /\ FutureWaits' /\ FuseHolds'
  BY <1>1, <1>2, <1>3 DEF StackInv, Layers, FutureWaits, FuseHolds, Discarding
<1>5. Outcomes' /\ Uninterrupted'
  BY <1>1, <1>2 DEF StackInv, Outcomes, Uninterrupted, GaveTrailers
<1> QED BY <1>4, <1>5 DEF StackRest

LEMMA IdleKeeps ==
  ASSUME StackInv, UNCHANGED allVars
  PROVE  StackRest'
<1>1. /\ UNCHANGED vars /\ stack' = stack /\ oneThread' = oneThread
      /\ call' = call /\ inner' = inner /\ state' = state
      /\ late' = late /\ taken' = taken
      /\ lateWaker' = lateWaker /\ lateWoken' = lateWoken
      /\ outcome' = outcome
  BY DEF allVars, stackVars, withTrailers, future, reader
<1>2. /\ body' = body /\ verdict' = verdict /\ yielded' = yielded
      /\ Uninterrupted' /\ (GaveTrailers' <=> GaveTrailers)
  BY <1>1, LayersOnlyKeep
<1> QED BY <1>1, <1>2 DEF StackInv, StackRest, Layers, FutureWaits, FuseHolds,
  Outcomes

LEMMA RestKept ==
  ASSUME StackInv, [StackNext]_allVars
  PROVE  StackRest'
BY SenderKeeps, ResolveKeeps, PollChannelKeeps, PollChannelErrorKeeps,
   PollFutureKeeps, ReaderKeeps, DropChannelKeeps, IdleKeeps
   DEF StackNext, ReaderStep, Over
-----------------------------------------------------------------------------
(* Types.                                                                  *)

\* A frame that is delivered, alone or merged with what the future gave.
LEMMA DeliveredTyped ==
  ASSUME StackTypeOK,
         \/ delivered' = delivered
         \/ \E s \in SUBSET (Frame \cup {Late}) :
              delivered' = Append(delivered, s)
  PROVE  delivered' \in Seq(SUBSET (Frame \cup {Late}))
BY AppendProperties DEF StackTypeOK

\* The variables of the layers, but for the history of what was delivered.
LayersTypeOK ==
  /\ stack \in Stacks /\ oneThread \in BOOLEAN
  /\ call \in {"idle", "channel", "trailers", "closing", "parked", "panicked",
               "dropping", "gone"}
  /\ inner \in {"Some", "None"}
  /\ state \in {"PollBody", "PollTrailers", "Done"}
  /\ kept \in SUBSET TrailerFrame
  /\ late \in {"pending", "trailers", "none", "failure"}
  /\ taken \in BOOLEAN /\ lateWaker \in BOOLEAN /\ lateWoken \in BOOLEAN
  /\ outcome \in {"open", "end", "error"}

LEMMA ReaderTypes ==
  ASSUME StackInv, ReaderStep
  PROVE  /\ LayersTypeOK'
         /\ delivered' \in Seq(SUBSET (Frame \cup {Late}))
<1>0. LayersTypeOK /\ TypeOK /\ StackTypeOK
  BY DEF StackInv, StackTypeOK, LayersTypeOK
<1>1. CASE PollChannel
  <2>1. /\ stack' = stack /\ oneThread' = oneThread /\ inner' = inner
        /\ late' = late /\ taken' = taken /\ lateWaker' = lateWaker
        /\ lateWoken' = lateWoken /\ outcome' = outcome
        /\ call' \in {"idle", "channel", "trailers"}
    BY <1>1 DEF PollChannel, Deliver, Switch, future, reader
  <2>2. CASE UNCHANGED <<withTrailers, reader>>
    BY <1>0, <2>1, <2>2, DeliveredTyped DEF LayersTypeOK, withTrailers, reader
  <2>3. CASE FrameReady /\ Deliver({Head(queue)}) /\ UNCHANGED withTrailers
    <3>1. Head(queue) \in Frame
      BY <1>0, <2>3, HeadTailProperties DEF TypeOK, FrameReady
    <3>2. delivered' \in Seq(SUBSET (Frame \cup {Late}))
      BY <1>0, <2>3, <3>1, DeliveredTyped DEF Deliver
    <3>3. state' = state /\ kept' = kept
      BY <2>3 DEF withTrailers
    <3> QED BY <1>0, <2>1, <3>2, <3>3 DEF LayersTypeOK
  <2>4. CASE Completes(Head(queue)) /\ Switch({Head(queue)})
    <3>1. /\ state' = "PollTrailers" /\ kept' \in SUBSET TrailerFrame
          /\ delivered' = delivered
      BY <2>4 DEF Completes, Switch, reader
    <3> QED BY <1>0, <2>1, <3>1, DeliveredTyped DEF LayersTypeOK
  <2> QED BY <1>1, <2>2, <2>3, <2>4 DEF PollChannel
<1>2. CASE PollChannelError
  <2>1. /\ stack' = stack /\ oneThread' = oneThread /\ late' = late
        /\ taken' = taken /\ lateWaker' = lateWaker /\ lateWoken' = lateWoken
        /\ delivered' = delivered
    BY <1>2 DEF PollChannelError, Switch, Conclude, future, reader
  <2>2. /\ call' \in {"parked", "panicked", "trailers", "closing", "idle"}
        /\ inner' \in {inner, "None"} /\ state' \in {state, "PollTrailers"}
        /\ kept' \in {kept, {}} /\ outcome' \in {outcome, verdict'}
    BY <1>2 DEF PollChannelError, Switch, Conclude, withTrailers, reader
  <2>3. verdict' \in {"open", "end", "error"}
    BY <1>0, <1>2 DEF PollChannelError, PollError, Answer, TypeOK
  <2> QED BY <1>0, <2>1, <2>2, <2>3, DeliveredTyped DEF LayersTypeOK
<1>3. CASE PollFuture
  <2>1. /\ stack' = stack /\ oneThread' = oneThread /\ late' = late
        /\ lateWoken' = lateWoken
        /\ lateWaker' = lateWaker \/ lateWaker' = TRUE
        /\ taken' = taken \/ taken' = TRUE
        /\ state' = state \/ state' = "Done"
        /\ kept' = kept \/ kept' = {}
        /\ inner' = inner \/ inner' = "None"
        /\ outcome' = outcome \/ outcome' = "end" \/ outcome' = "error"
        /\ call' \in {"parked", "panicked", "closing", "idle"}
    BY <1>3 DEF PollFuture, Deliver, Conclude, KeptMeanwhile, withTrailers,
      reader
  <2>2. \/ delivered' = delivered
        \/ \E s \in SUBSET (Frame \cup {Late}) :
             delivered' = Append(delivered, s)
    <3> DEFINE joined ==
          kept \cup (IF late = "trailers" THEN {Late} ELSE {})
    <3>1. joined \in SUBSET (Frame \cup {Late})
      BY <1>0, TrailerAssumption DEF LayersTypeOK
    <3>2. delivered' = delivered \/ delivered' = Append(delivered, joined)
      BY <1>3 DEF PollFuture, Deliver, Conclude, reader
    <3> QED BY <3>1, <3>2
  <2>3. delivered' \in Seq(SUBSET (Frame \cup {Late}))
    BY <1>0, <2>2, DeliveredTyped
  <2>4. /\ taken' \in BOOLEAN /\ lateWaker' \in BOOLEAN /\ lateWoken' \in BOOLEAN
    BY <1>0, <2>1 DEF LayersTypeOK
  <2>5. kept' \in SUBSET TrailerFrame
    BY <1>0, <2>1 DEF LayersTypeOK
  <2>6. /\ stack' \in Stacks /\ oneThread' \in BOOLEAN
        /\ late' \in {"pending", "trailers", "none", "failure"}
    BY <1>0, <2>1 DEF LayersTypeOK
  <2>7. /\ state' \in {"PollBody", "PollTrailers", "Done"}
        /\ inner' \in {"Some", "None"} /\ outcome' \in {"open", "end", "error"}
    BY <1>0, <2>1 DEF LayersTypeOK
  <2> QED BY <2>1, <2>3, <2>4, <2>5, <2>6, <2>7 DEF LayersTypeOK
<1>4. CASE PollFutureAgain \/ PollDone \/ CancelFrame \/ DropStack
             \/ DropChannelFrames \/ DropChannelError
  <2>1. /\ stack' = stack /\ oneThread' = oneThread /\ late' = late
        /\ taken' = taken /\ lateWaker' = lateWaker
        /\ lateWoken' = lateWoken \/ lateWoken' = FALSE
        /\ state' = state /\ kept' = kept
        /\ inner' = inner \/ inner' = "None"
        /\ outcome' = outcome \/ outcome' = "end"
        /\ delivered' = delivered
    BY <1>4 DEF PollFutureAgain, PollDone, CancelFrame, DropStack,
      DropChannelFrames, DropChannelError, Conclude, stackVars, withTrailers,
      future, reader
  <2>2. call' \in {call, "trailers", "idle", "closing", "gone", "dropping"}
    BY <1>4 DEF PollFutureAgain, PollDone, CancelFrame, DropStack,
      DropChannelFrames, DropChannelError, Conclude, stackVars
  <2>3. delivered' \in Seq(SUBSET (Frame \cup {Late}))
    BY <1>0, <2>1, DeliveredTyped
  <2>4. /\ taken' \in BOOLEAN /\ lateWaker' \in BOOLEAN /\ lateWoken' \in BOOLEAN
    BY <1>0, <2>1 DEF LayersTypeOK
  <2>5. kept' \in SUBSET TrailerFrame
    BY <1>0, <2>1 DEF LayersTypeOK
  <2>6. /\ stack' \in Stacks /\ oneThread' \in BOOLEAN
        /\ late' \in {"pending", "trailers", "none", "failure"}
    BY <1>0, <2>1 DEF LayersTypeOK
  <2>7. /\ state' \in {"PollBody", "PollTrailers", "Done"}
        /\ inner' \in {"Some", "None"} /\ outcome' \in {"open", "end", "error"}
    BY <1>0, <2>1 DEF LayersTypeOK
  <2>8. call' \in {"idle", "channel", "trailers", "closing", "parked",
                  "panicked", "dropping", "gone"}
    BY <1>0, <2>2 DEF LayersTypeOK
  <2> QED BY <2>3, <2>4, <2>5, <2>6, <2>7, <2>8 DEF LayersTypeOK
<1> QED BY <1>1, <1>2, <1>3, <1>4 DEF ReaderStep

LEMMA TypesKept ==
  ASSUME StackInv, [StackNext]_allVars
  PROVE  StackTypeOK'
<1>0. StackTypeOK /\ LayersTypeOK
  BY DEF StackInv, StackTypeOK, LayersTypeOK
<1>1. TypeOK'
  BY StackStep, NextKeeps DEF StackInv, IInv
<1>2. CASE ReaderStep
  BY <1>1, <1>2, ReaderTypes DEF StackTypeOK, LayersTypeOK
<1>3. CASE SenderStep \/ Over \/ UNCHANGED allVars
  <2>1. /\ stack' = stack /\ oneThread' = oneThread /\ call' = call
        /\ inner' = inner /\ state' = state /\ kept' = kept /\ late' = late
        /\ taken' = taken /\ lateWaker' = lateWaker /\ lateWoken' = lateWoken
        /\ delivered' = delivered /\ outcome' = outcome
    BY <1>3 DEF SenderStep, Over, allVars, stackVars, withTrailers, future,
      reader
  <2> QED BY <1>0, <1>1, <2>1 DEF StackTypeOK
<1>4. CASE Resolve
  <2>1. /\ stack' = stack /\ oneThread' = oneThread /\ call' = call
        /\ inner' = inner /\ state' = state /\ kept' = kept
        /\ late' \in {"trailers", "none", "failure"} /\ taken' = taken
        /\ lateWaker' = FALSE /\ lateWoken' \in BOOLEAN
        /\ delivered' = delivered /\ outcome' = outcome
    BY <1>0, <1>4 DEF Resolve, withTrailers, reader, StackTypeOK
  <2> QED BY <1>0, <1>1, <2>1 DEF StackTypeOK
<1> QED BY <1>2, <1>3, <1>4 DEF StackNext

-----------------------------------------------------------------------------
(* The invariant and what follows from it.                                 *)

LEMMA StackInitEstablishes == StackInit => StackInv
<1> SUFFICES ASSUME StackInit PROVE StackInv
  OBVIOUS
<1>1. IInv
  BY InitEstablishes DEF StackInit
<1>2. StackTypeOK
  BY <1>1, EmptySeq DEF IInv, StackInit, StackTypeOK
<1>3. Layers /\ FutureWaits /\ FuseHolds /\ Outcomes /\ Uninterrupted
  BY DEF StackInit, Init, Layers, FutureWaits, FuseHolds, Outcomes,
    Uninterrupted
<1> QED BY <1>1, <1>2, <1>3 DEF StackInv

THEOREM StackInvariance == StackSpec => []StackInv
<1>1. StackInv /\ [StackNext]_allVars => StackInv'
  <2> SUFFICES ASSUME StackInv, [StackNext]_allVars PROVE StackInv'
    OBVIOUS
  <2>1. IInv'
    BY StackStep, NextKeeps DEF StackInv
  <2> QED BY <2>1, RestKept, TypesKept DEF StackInv, StackRest
<1> QED BY <1>1, StackInitEstablishes, PTL DEF StackSpec

\* Every variable of the pipeline keeps its type.
THEOREM StackTypes == StackSpec => []StackTypeOK
<1>1. StackInv => StackTypeOK
  BY DEF StackInv
<1> QED BY <1>1, StackInvariance, PTL

\* A frame() that is pending and not woken waits at the layer that will wake it.
THEOREM StackWakeupsKept == StackSpec => []StackNoLostWakeup
<1>1. StackInv => StackNoLostWakeup
  BY DEF StackInv, IInv, StackTypeOK, Layers, FutureWaits, Woken,
    StackNoLostWakeup
<1> QED BY <1>1, StackInvariance, PTL

\* A Sender waits for a slot only while the reader reads the Channel: a body that
\* is complete has been dropped before the future is waited for.
THEOREM StackNeverMutualWait == StackSpec => []StackNoMutualWait
<1>1. StackInv => StackNoMutualWait
  <2> SUFFICES ASSUME StackInv, sender = "waiting", rxFrame = "open",
                      call = "parked", ~Woken
               PROVE  FALSE
    BY DEF StackNoMutualWait
  <2>1. body # "dropped"
    BY DEF StackInv, IInv, BodyHandles
  <2>2. state = "PollBody" /\ body = "parked" /\ ~notified
    BY <2>1 DEF StackInv, Layers, Woken
  <2> QED BY <2>2, NobodyWaits DEF NoMutualWait, StackInv
<1> QED BY <1>1, StackInvariance, PTL

\* A body behind a Fuse never panics, though the bodies in it may when they are
\* polled once too often.
THEOREM FuseNeverPanics == StackSpec => []FuseIsFinal
<1>1. StackInv => FuseIsFinal
  BY DEF StackInv, FuseHolds, FuseIsFinal
<1> QED BY <1>1, StackInvariance, PTL

\* The end that the reader is told covers the frames it should.
THEOREM StackEndsAreWhole == StackSpec => []EndOfStackIsWhole
<1>1. StackInv => EndOfStackIsWhole
  <2> SUFFICES ASSUME StackInv, outcome = "end",
                      ~("WithTrailers" \in stack /\ GaveTrailers)
               PROVE  /\ "WithTrailers" \in stack => taken
                      /\ Len(yielded) >= IF oneThread THEN Len(pushed)
                                                       ELSE pollStart
    BY DEF EndOfStackIsWhole, StackInv, Outcomes
  <2>1. verdict = "end"
    BY DEF StackInv, Outcomes
  <2>2. Len(yielded) \in Nat /\ Len(yielded) >= pollStart
    BY <2>1, LenProperties DEF StackInv, IInv, TypeOK, EndCoversPoll
  <2>3. oneThread => yielded = pushed
    BY <2>1 DEF StackInv, Uninterrupted
  <2> QED BY <2>2, <2>3 DEF StackInv, Outcomes
<1> QED BY <1>1, StackInvariance, PTL

\* A failure is not told as an end, nor an end as a failure.
THEOREM StackFailuresReported == StackSpec => []FailureOfStackIsNotEnd
<1>1. StackInv => FailureOfStackIsNotEnd
  BY DEF StackInv, IInv, Verdicts, Layers, FutureWaits, Outcomes,
    FailureOfStackIsNotEnd
<1> QED BY <1>1, StackInvariance, PTL
-----------------------------------------------------------------------------
(* Where every frame of the Channel is.                                    *)

\* The future has resolved to trailers, and WithTrailers has them.
GotLate == taken /\ late = "trailers"

\* What the reader has, place by place, and what WithTrailers keeps. Until the
\* end of WithTrailers the two together are what the Channel returned; from then
\* on the reader has it all, and perhaps the trailers of the future after it.
Handed ==
  /\ \A i \in 1..Len(delivered) :
       /\ delivered[i] \ {Late} =
            IF i <= Len(yielded) THEN {yielded[i]} ELSE {}
       /\ Late \in delivered[i] <=> GotLate /\ i = Len(delivered)
  /\ GotLate => state = "Done" /\ Len(delivered) >= 1
  /\ IF state = "Done" THEN Len(delivered) >= Len(yielded)
     ELSE Len(yielded) = Len(delivered) + (IF kept = {} THEN 0 ELSE 1)
  /\ kept # {} => state = "PollTrailers" /\ kept = {yielded[Len(yielded)]}

\* The lengths, and what a frame is not.
LEMMA HandedFacts ==
  ASSUME StackInv
  PROVE  /\ yielded \in Seq(Frame) /\ Len(yielded) \in Nat
         /\ delivered \in Seq(SUBSET (Frame \cup {Late}))
         /\ Len(delivered) \in Nat
         /\ kept \in SUBSET TrailerFrame /\ Late \notin kept
         /\ Late \notin Frame
BY TrailerAssumption, LenProperties DEF StackInv, IInv, TypeOK, StackTypeOK

\* A step that leaves the frames where they are.
LEMMA HandedUnmoved ==
  ASSUME Handed, delivered' = delivered, yielded' = yielded, kept' = kept,
         state' = state, GotLate' <=> GotLate
  PROVE  Handed'
BY DEF Handed

LEMMA SenderMovesNothing ==
  ASSUME StackInv, Handed, SenderStep \/ Resolve \/ Over \/ UNCHANGED allVars
  PROVE  Handed'
<1>1. /\ delivered' = delivered /\ kept' = kept /\ state' = state
      /\ yielded' = yielded /\ taken' = taken
  <2>1. CASE SenderStep
    BY <2>1, SenderTouches DEF stackVars, reader, withTrailers, future
  <2>2. CASE Resolve \/ Over \/ UNCHANGED allVars
    BY <2>2 DEF Resolve, Over, allVars, stackVars, reader, withTrailers, future,
      vars, history
  <2> QED BY <2>1, <2>2
<1>2. late' = late \/ (late = "pending" /\ ~taken)
  BY DEF SenderStep, Resolve, Over, allVars, stackVars, future, StackInv,
    FutureWaits
<1> QED BY <1>1, <1>2, HandedUnmoved DEF GotLate

LEMMA ReaderMovesNothing ==
  ASSUME StackInv, Handed,
         \/ PollFutureAgain \/ PollDone \/ CancelFrame \/ DropStack
         \/ DropChannelFrames \/ DropChannelError
  PROVE  Handed'
<1>1. /\ delivered' = delivered /\ kept' = kept /\ state' = state
      /\ taken' = taken /\ late' = late
  BY DEF PollFutureAgain, PollDone, CancelFrame, DropStack, DropChannelFrames,
    DropChannelError, Conclude, stackVars, reader, withTrailers, future
<1>2. yielded' = yielded
  BY DEF PollFutureAgain, PollDone, CancelFrame, DropStack, DropChannelFrames,
    DropChannelError, DropRxFrame, DropRxError, vars, history
<1> QED BY <1>1, <1>2, HandedUnmoved DEF GotLate

\* A frame of the Channel goes to the reader, or to WithTrailers.
LEMMA PollChannelHands ==
  ASSUME StackInv, Handed, PollChannel
  PROVE  Handed'
<1>1. /\ state = "PollBody" /\ kept = {} /\ ~GotLate /\ ~GotLate'
      /\ Len(yielded) = Len(delivered)
  <2>1. state = "PollBody" /\ taken' = taken /\ late' = late
    BY DEF PollChannel, future
  <2> QED BY <2>1, HandedFacts DEF Handed, GotLate
<1>0. /\ Len(delivered) \in Nat
      /\ \A i \in 1..Len(delivered) :
           delivered[i] \ {Late} = {yielded[i]} /\ Late \notin delivered[i]
  <2>1. Len(delivered) \in Nat
    BY HandedFacts
  <2>2. ASSUME NEW i \in 1..Len(delivered)
        PROVE  delivered[i] \ {Late} = {yielded[i]} /\ Late \notin delivered[i]
    <3>1. i <= Len(yielded)
      BY <1>1, <2>1
    <3> QED BY <1>1, <3>1, Zenon DEF Handed
  <2> QED BY <2>1, <2>2
<1>2. CASE ~FrameReady
  BY <1>1, <1>2, HandedUnmoved DEF PollChannel, PollRecv, Miss, withTrailers,
    reader
<1>3. CASE FrameReady
  <2> DEFINE f == Head(queue)
  <2>1. f \in Frame /\ yielded' = Append(yielded, f)
    BY <1>3, HeadTailProperties DEF StackInv, IInv, TypeOK, PollChannel,
      PollRecv, FrameReady, Take
  <2>2. /\ Len(yielded') = Len(yielded) + 1 /\ yielded'[Len(yielded) + 1] = f
        /\ \A i \in 1..Len(yielded) : yielded'[i] = yielded[i]
    BY <2>1, HandedFacts, AppendProperties
  <2>3. CASE Deliver({f}) /\ UNCHANGED withTrailers
    <3>1. /\ delivered' = Append(delivered, {f})
          /\ kept' = {} /\ state' = "PollBody"
      BY <1>1, <2>3 DEF Deliver, withTrailers
    <3>2. /\ Len(delivered') = Len(delivered) + 1
          /\ delivered'[Len(delivered) + 1] = {f}
          /\ \A i \in 1..Len(delivered) : delivered'[i] = delivered[i]
      BY <2>1, <3>1, HandedFacts, AppendProperties
    <3>3. /\ Len(yielded') = Len(delivered')
          /\ Len(delivered) \in Nat /\ Late \notin {f}
      BY <1>1, <2>1, <2>2, <3>2, HandedFacts
    <3>4. ASSUME NEW i \in 1..Len(delivered')
          PROVE  /\ delivered'[i] \ {Late} =
                      IF i <= Len(yielded') THEN {yielded'[i]} ELSE {}
                 /\ Late \in delivered'[i] <=> GotLate' /\ i = Len(delivered')
      <4>1. CASE i = Len(delivered) + 1
        BY <1>1, <2>2, <3>2, <3>3, <4>1
      <4>2. CASE i \in 1..Len(delivered)
        BY <1>0, <1>1, <2>2, <3>2, <3>3, <4>2
      <4> QED BY <3>2, <3>3, <4>1, <4>2
    <3>5. /\ kept' = {} /\ state' # "Done"
          /\ Len(yielded') = Len(delivered') + (IF kept' = {} THEN 0 ELSE 1)
      BY <3>1, <3>2, <3>3
    <3> QED BY <1>1, <3>3, <3>4, <3>5, Zenon DEF Handed
  <2>4. CASE Switch({f})
    <3>1. /\ delivered' = delivered /\ kept' = {f} /\ state' = "PollTrailers"
      BY <2>4 DEF Switch, reader
    <3>2. ASSUME NEW i \in 1..Len(delivered')
          PROVE  /\ delivered'[i] \ {Late} =
                      IF i <= Len(yielded') THEN {yielded'[i]} ELSE {}
                 /\ Late \in delivered'[i] <=> GotLate' /\ i = Len(delivered')
      BY <1>0, <1>1, <2>2, <3>1
    <3>3. /\ Len(yielded') = Len(delivered') + 1
          /\ kept' # {} /\ kept' = {yielded'[Len(yielded')]}
      BY <1>1, <2>2, <3>1
    <3> QED BY <1>1, <3>1, <3>2, <3>3 DEF Handed
  <2> QED BY <1>3, <2>3, <2>4 DEF PollChannel
<1> QED BY <1>2, <1>3

\* The end of the Channel leaves WithTrailers with nothing to keep.
LEMMA PollChannelErrorHands ==
  ASSUME StackInv, Handed, PollChannelError
  PROVE  Handed'
<1>1. /\ state = "PollBody" /\ kept = {}
      /\ delivered' = delivered /\ yielded' = yielded
      /\ taken' = taken /\ late' = late
  BY DEF PollChannelError, Switch, Conclude, reader, future, PollError,
    StackInv, Layers, Handed
<1>2. kept' = {} /\ state' \in {"PollBody", "PollTrailers"}
  BY <1>1 DEF PollChannelError, Switch, withTrailers
<1> QED BY <1>1, <1>2 DEF Handed, GotLate

\* What was kept goes to the reader with the trailers of the future.
LEMMA PollFutureHands ==
  ASSUME StackInv, Handed, PollFuture
  PROVE  Handed'
<1> DEFINE joined == kept \cup (IF late = "trailers" THEN {Late} ELSE {})
<1>1. state = "PollTrailers" /\ ~GotLate /\ late' = late /\ yielded' = yielded
  BY DEF PollFuture, StackInv, Layers, Handed, vars, history
<1>2. CASE UNCHANGED <<delivered, withTrailers>> /\ ~GotLate'
  BY <1>1, <1>2, HandedUnmoved DEF withTrailers
<1>3. CASE /\ late \in {"trailers", "none"} /\ joined # {}
           /\ state' = "Done" /\ kept' = {} /\ taken' = TRUE
           /\ Deliver(joined)
  <2> DEFINE n == Len(delivered)
  <2>1. joined \in SUBSET (Frame \cup {Late})
    BY HandedFacts, TrailerAssumption
  <2>2. delivered' = Append(delivered, joined)
    BY <1>3 DEF Deliver
  <2>3. /\ Len(delivered') = n + 1 /\ delivered'[n + 1] = joined
        /\ \A i \in 1..n : delivered'[i] = delivered[i]
    BY <2>1, <2>2, HandedFacts, AppendProperties
  <2>4. /\ joined \ {Late} = kept
        /\ Late \in joined <=> GotLate'
        /\ GotLate' <=> late = "trailers"
    BY <1>1, <1>3, HandedFacts DEF GotLate
  <2>5. Len(yielded) = n + (IF kept = {} THEN 0 ELSE 1)
    BY <1>1 DEF Handed
  <2>6. kept = IF n + 1 <= Len(yielded) THEN {yielded[n + 1]} ELSE {}
    BY <1>1, <2>5, HandedFacts DEF Handed
  <2>7. ASSUME NEW i \in 1..Len(delivered')
        PROVE  /\ delivered'[i] \ {Late} =
                    IF i <= Len(yielded') THEN {yielded'[i]} ELSE {}
               /\ Late \in delivered'[i] <=> GotLate' /\ i = Len(delivered')
    <3>1. CASE i = n + 1
      BY <1>1, <2>3, <2>4, <2>6, <3>1
    <3>2. CASE i \in 1..n
      BY <1>1, <2>3, <3>2, HandedFacts DEF Handed
    <3> QED BY <2>3, <3>1, <3>2, HandedFacts
  <2>8. Len(delivered') >= Len(yielded') /\ Len(delivered') >= 1
    BY <1>1, <2>3, <2>5, HandedFacts
  <2> QED BY <1>3, <2>7, <2>8 DEF Handed
<1> QED
  <2>1. \/ UNCHANGED <<delivered, withTrailers>> /\ ~GotLate'
        \/ /\ late \in {"trailers", "none"} /\ joined # {}
           /\ state' = "Done" /\ kept' = {} /\ taken' = TRUE
           /\ Deliver(joined)
    BY <1>1 DEF PollFuture, KeptMeanwhile, Conclude, reader, withTrailers,
      GotLate
  <2> QED BY <1>2, <1>3, <2>1

LEMMA HandedKept ==
  ASSUME StackInv, Handed, [StackNext]_allVars
  PROVE  Handed'
BY SenderMovesNothing, ReaderMovesNothing, PollChannelHands,
   PollChannelErrorHands, PollFutureHands DEF StackNext, ReaderStep

LEMMA HandedShows ==
  ASSUME StackInv, Handed
  PROVE  NothingLostInStack
<1> DEFINE n == Len(delivered)
           shown == Append(delivered, kept)
<1>1. /\ n \in Nat /\ Len(yielded) \in Nat
      /\ kept \in SUBSET (Frame \cup {Late}) /\ Late \notin kept
  BY HandedFacts, TrailerAssumption
<1>2. /\ Len(shown) = n + 1 /\ DOMAIN shown = 1..(n + 1)
      /\ shown[n + 1] = kept /\ \A i \in 1..n : shown[i] = delivered[i]
  BY <1>1, HandedFacts, AppendProperties, LenProperties
<1>3. Len(shown) >= Len(yielded)
  BY <1>1, <1>2 DEF Handed
<1>4. ASSUME NEW i \in DOMAIN shown
      PROVE  shown[i] \ {Late} =
               IF i <= Len(yielded) THEN {yielded[i]} ELSE {}
  <2>1. CASE i \in 1..n
    BY <1>2, <2>1 DEF Handed
  <2>2. CASE i = n + 1
    <3>1. shown[i] \ {Late} = kept
      BY <1>1, <1>2, <2>2
    <3>2. kept = IF n + 1 <= Len(yielded) THEN {yielded[n + 1]} ELSE {}
      BY <1>1 DEF Handed
    <3> QED BY <2>2, <3>1, <3>2
  <2> QED BY <1>1, <1>2, <2>1, <2>2
<1>5. DOMAIN delivered = 1..n
  BY HandedFacts, LenProperties
<1>6. {i \in DOMAIN delivered : Late \in delivered[i]} =
        IF GotLate THEN {n} ELSE {}
  <2>1. CASE ~GotLate
    BY <1>5, <2>1 DEF Handed
  <2>2. CASE GotLate
    <3>1. n \in 1..n /\ Late \in delivered[n]
      BY <1>1, <2>2 DEF Handed
    <3>2. \A i \in 1..n : Late \in delivered[i] => i = n
      BY DEF Handed
    <3> QED BY <1>5, <2>2, <3>1, <3>2
  <2> QED BY <2>1, <2>2
<1> QED BY <1>3, <1>4, <1>6 DEF NothingLostInStack, GotLate

\* No frame that the Channel returned is lost, repeated or put out of order on
\* its way through the layers, and the trailers of the future come last.
THEOREM StackLosesNothing == StackSpec => []NothingLostInStack
<1>1. StackInit => Handed
  <2> SUFFICES ASSUME StackInit PROVE Handed
    OBVIOUS
  <2>1. /\ delivered = <<>> /\ yielded = <<>> /\ state = "PollBody"
        /\ kept = {} /\ taken = FALSE
    BY DEF StackInit, Init
  <2> QED BY <2>1, EmptySeq DEF Handed, GotLate
<1>2. StackInv /\ Handed /\ [StackNext]_allVars => Handed'
  BY HandedKept
<1>3. StackInv /\ Handed => NothingLostInStack
  BY HandedShows
<1> QED BY <1>1, <1>2, <1>3, StackInvariance, PTL DEF StackSpec
=============================================================================
