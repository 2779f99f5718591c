--------------------------- MODULE ChannelProofs ---------------------------
(***************************************************************************)
(* Safety of the channel body for every set of frames, every buffer        *)
(* capacity and every length of behaviour.                                 *)
(***************************************************************************)
EXTENDS Channel, SequenceTheorems, TLAPS

USE DEF Capacity, MaxCapacity

(***************************************************************************)
(* What the four handles say of one another. The states of the two tasks   *)
(* and of their handles are two views of the same progress; without this   *)
(* the properties of Channel are not inductive, since each of them needs   *)
(* to know what a task in the middle of a call has already done.           *)
(***************************************************************************)
SenderHandles ==
  /\ slot = "empty" <=> sender \notin {"aborting", "gone"}
  /\ txFrame = "dropped" <=> sender \in {"dropping", "gone"}
  /\ sender = "waiting" /\ rxFrame = "open" => permits = 0

BodyHandles ==
  /\ rxFrame = "closed" <=> body \in {"dropping", "dropped"}
  /\ rxError = "closed" <=> body = "dropped"
  /\ rxError = "live" => verdict = "open"
  /\ rxError = "done" => verdict # "open"

Verdicts ==
  /\ verdict = "end" => slot = "dropped"
  /\ verdict = "error" => slot = "error"

\* A poll_frame that has asked the mpsc: it saw every frame there was when it
\* began, and it has its waker in the mpsc for what came later.
BetweenPolls ==
  body = "between" =>
    /\ verdict = "open" => Len(yielded) >= pollStart
    /\ ~notified => queue = <<>> /\ (frameWaker \/ txFrame = "dropped")

IInv ==
  /\ TypeOK
  /\ FrameConservation /\ CapacityConserved
  /\ NoLostWakeup /\ EndCoversPoll
  /\ SenderHandles /\ BodyHandles /\ Verdicts /\ BetweenPolls
-----------------------------------------------------------------------------
(* Facts about the buffer: taking its first frame, adding a last one.      *)

LEMMA TakeFirst ==
  ASSUME NEW S, NEW y \in Seq(S), NEW q \in Seq(S), q # <<>>
  PROVE  /\ Append(y, Head(q)) \o Tail(q) = y \o q
         /\ Append(y, Head(q)) \in Seq(S) /\ Tail(q) \in Seq(S)
         /\ Len(q) \in Nat \ {0} /\ Len(Tail(q)) = Len(q) - 1
         /\ Len(y) \in Nat /\ Len(Append(y, Head(q))) = Len(y) + 1
<1>1. Head(q) \in S /\ Tail(q) \in Seq(S) /\ <<Head(q)>> \in Seq(S)
  BY HeadTailProperties
<1>2. Append(y, Head(q)) = y \o <<Head(q)>>
  BY <1>1, AppendIsConcat
<1>3. q = <<Head(q)>> \o Tail(q)
  BY <1>1, SeqEqual
<1>4. (y \o <<Head(q)>>) \o Tail(q) = y \o (<<Head(q)>> \o Tail(q))
  BY <1>1, ConcatAssociative
<1> QED BY <1>1, <1>2, <1>3, <1>4, EmptySeq, AppendProperties,
  HeadTailProperties

LEMMA AddLast ==
  ASSUME NEW S, NEW y \in Seq(S), NEW q \in Seq(S), NEW e \in S
  PROVE  /\ y \o Append(q, e) = Append(y \o q, e)
         /\ Append(q, e) \in Seq(S) /\ Append(y, e) \in Seq(S)
         /\ Len(q) \in Nat /\ Len(Append(q, e)) = Len(q) + 1
         /\ Append(q, e) # <<>>
<1>1. <<e>> \in Seq(S) /\ y \o q \in Seq(S)
  BY ConcatProperties
<1>2. /\ Append(q, e) = q \o <<e>>
      /\ Append(y \o q, e) = (y \o q) \o <<e>>
  BY <1>1, AppendIsConcat
<1>3. (y \o q) \o <<e>> = y \o (q \o <<e>>)
  BY <1>1, ConcatAssociative
<1> QED BY <1>2, <1>3, AppendProperties, EmptySeq

-----------------------------------------------------------------------------
(* Each step preserves the invariant.                                      *)

\* What a push makes of the buffer and of the history: one more, at the end.
Grown ==
  /\ queue' \in Seq(Frame) /\ pushed' \in Seq(Frame)
  /\ Len(queue) \in Nat /\ Len(queue') = Len(queue) + 1 /\ queue' # <<>>
  /\ rxFrame = "open" => pushed' = yielded \o queue'

LEMMA PushGrows ==
  ASSUME IInv, NEW f \in Frame, Push(f)
  PROVE  Grown
<1>1. queue \in Seq(Frame) /\ pushed \in Seq(Frame) /\ yielded \in Seq(Frame)
  BY DEF IInv, TypeOK
<1>2. queue' = Append(queue, f) /\ pushed' = Append(pushed, f)
  BY DEF Push
<1>3. rxFrame = "open" => pushed = yielded \o queue
  BY DEF IInv, FrameConservation
<1>4. yielded \o Append(queue, f) = Append(yielded \o queue, f)
  BY <1>1, AddLast
<1>5. /\ Append(queue, f) \in Seq(Frame) /\ Append(queue, f) # <<>>
      /\ Len(queue) \in Nat /\ Len(Append(queue, f)) = Len(queue) + 1
      /\ Append(pushed, f) \in Seq(Frame)
  BY <1>1, AppendProperties, LenProperties
<1> QED BY <1>2, <1>3, <1>4, <1>5 DEF Grown

LEMMA SendKeeps ==
  ASSUME IInv, NEW f \in Frame, Send(f)
  PROVE  IInv'
<1>1. CASE UNCHANGED vars
  BY <1>1 DEF IInv, TypeOK, FrameConservation, CapacityConserved, NoLostWakeup,
    EndCoversPoll, SenderHandles, BodyHandles, Verdicts, BetweenPolls,
    vars, mpsc, oneshot, wakers, history
<1>2. CASE /\ rxFrame = "open" /\ permits > 0 /\ permits' = permits - 1
           /\ Push(f) /\ UNCHANGED sender
  <2>0. Grown
    BY <1>2, PushGrows
  <2>a. permits' \in 0..Buffer
    BY <1>2, BufferAssumption DEF IInv, TypeOK
  <2>1. TypeOK'
    <3>1. queue' \in Seq(Frame) /\ pushed' \in Seq(Frame)
      BY <2>0 DEF Grown
    <3>2. /\ txFrame' = txFrame /\ rxFrame' = rxFrame
          /\ slot' = slot /\ rxError' = rxError
          /\ sender' = sender /\ body' = body
          /\ yielded' = yielded /\ verdict' = verdict /\ pollStart' = pollStart
      BY <1>2 DEF Push, oneshot
    <3>3. frameWaker' \in BOOLEAN /\ errorWaker' \in BOOLEAN
      BY <1>2 DEF IInv, TypeOK, Push, WakeFrame
    <3>4. notified' \in BOOLEAN
      BY <1>2 DEF Push, WakeFrame
    <3> QED BY <2>a, <3>1, <3>2, <3>3, <3>4 DEF IInv, TypeOK
  <2>2. FrameConservation'
    BY <1>2, <2>0 DEF IInv, FrameConservation, Push, Grown
  <2>3. CapacityConserved'
    <3>1. permits + Len(queue) + (IF sender = "granted" THEN 1 ELSE 0) = Buffer
      BY DEF IInv, CapacityConserved
    <3>2. permits \in Int /\ Buffer \in Int /\ Len(queue) \in Int
      BY <2>0, BufferAssumption DEF IInv, TypeOK, Grown
    <3>3. permits' = permits - 1 /\ Len(queue') = Len(queue) + 1 /\ sender' = sender
      BY <1>2, <2>0 DEF Grown
    <3> QED BY <3>1, <3>2, <3>3 DEF CapacityConserved
  <2>4. EndCoversPoll' /\ BodyHandles' /\ Verdicts'
    BY <1>2 DEF IInv, EndCoversPoll, BodyHandles, Verdicts, Push, oneshot
  <2>5. NoLostWakeup' /\ SenderHandles' /\ BetweenPolls'
    BY <1>2, <2>0 DEF IInv, TypeOK, NoLostWakeup, SenderHandles,
      BetweenPolls, BodyHandles, Push, WakeFrame, oneshot, Send
  <2> QED BY <2>1, <2>2, <2>3, <2>4, <2>5 DEF IInv
<1>3. CASE /\ rxFrame = "open" /\ permits = 0 /\ sender' = "waiting"
           /\ UNCHANGED <<mpsc, oneshot, body, wakers, history>>
  BY <1>3 DEF IInv, TypeOK, FrameConservation, CapacityConserved, NoLostWakeup,
    EndCoversPoll, SenderHandles, BodyHandles, Verdicts, BetweenPolls, Send,
    mpsc, oneshot, wakers, history
<1> QED BY <1>1, <1>2, <1>3 DEF Send

\* A send that gives up returns the slot it owned.
LEMMA GiveBackKeeps ==
  ASSUME IInv, sender \in {"waiting", "granted"}, sender' = "idle",
         ReturnSlot,
         UNCHANGED <<queue, txFrame, rxFrame, oneshot, body, wakers, history>>
  PROVE  IInv'
<1>1. Len(queue) \in Nat /\ permits \in 0..Buffer /\ Buffer \in Nat
  BY BufferAssumption, LenProperties DEF IInv, TypeOK
<1>2. CapacityConserved' /\ permits' \in 0..Buffer
  BY <1>1 DEF IInv, CapacityConserved, ReturnSlot
<1>3. TypeOK' /\ FrameConservation'
  BY <1>2 DEF IInv, TypeOK, FrameConservation, oneshot, wakers, history
<1>4. SenderHandles' /\ BodyHandles' /\ Verdicts'
  BY DEF IInv, TypeOK, SenderHandles, BodyHandles, Verdicts, oneshot, history
<1>5. NoLostWakeup' /\ BetweenPolls' /\ EndCoversPoll'
  BY DEF IInv, NoLostWakeup, BetweenPolls, EndCoversPoll, oneshot, wakers,
    history
<1> QED BY <1>2, <1>3, <1>4, <1>5 DEF IInv

LEMMA ResumeSendKeeps ==
  ASSUME IInv, NEW f \in Frame, ResumeSend(f)
  PROVE  IInv'
<1>1. CASE /\ sender = "granted" /\ rxFrame = "open" /\ Push(f)
           /\ UNCHANGED permits
  <2>0. Grown
    BY <1>1, PushGrows
  <2>1. TypeOK'
    BY <1>1, <2>0
       DEF IInv, TypeOK, ResumeSend, Push, WakeFrame, oneshot, Grown
  <2>2. FrameConservation'
    BY <1>1, <2>0 DEF IInv, FrameConservation, Push, Grown
  <2>3. CapacityConserved'
    <3>1. permits + Len(queue) + 1 = Buffer
      BY <1>1 DEF IInv, CapacityConserved
    <3>2. permits \in Int /\ Buffer \in Int /\ Len(queue) \in Int
      BY <2>0, BufferAssumption DEF IInv, TypeOK, Grown
    <3>3. permits' = permits /\ Len(queue') = Len(queue) + 1 /\ sender' = "idle"
      BY <1>1, <2>0 DEF Grown, ResumeSend
    <3> QED BY <3>1, <3>2, <3>3 DEF CapacityConserved
  <2>4. EndCoversPoll' /\ BodyHandles' /\ Verdicts'
    BY <1>1 DEF IInv, EndCoversPoll, BodyHandles, Verdicts, Push, oneshot
  <2>5. NoLostWakeup' /\ SenderHandles' /\ BetweenPolls'
    BY <1>1, <2>0 DEF IInv, TypeOK, NoLostWakeup, SenderHandles,
      BetweenPolls, BodyHandles, Push, WakeFrame, oneshot, ResumeSend
  <2> QED BY <2>1, <2>2, <2>3, <2>4, <2>5 DEF IInv
<1>2. CASE /\ sender \in {"waiting", "granted"} /\ rxFrame = "closed"
           /\ ReturnSlot
           /\ UNCHANGED <<queue, txFrame, rxFrame, oneshot, body, wakers,
             history>>
  BY <1>2, GiveBackKeeps DEF ResumeSend
<1> QED BY <1>1, <1>2 DEF ResumeSend

LEMMA CancelSendKeeps ==
  ASSUME IInv, CancelSend
  PROVE  IInv'
BY GiveBackKeeps DEF CancelSend

LEMMA TrySendKeeps ==
  ASSUME IInv, NEW f \in Frame, TrySend(f)
  PROVE  IInv'
<1>1. CASE rxFrame = "open" /\ permits > 0
  BY <1>1, SendKeeps DEF TrySend, Send
<1>2. CASE ~(rxFrame = "open" /\ permits > 0)
  BY <1>2 DEF TrySend, IInv, TypeOK, FrameConservation, CapacityConserved,
    NoLostWakeup, EndCoversPoll, SenderHandles, BodyHandles, Verdicts,
    BetweenPolls, vars, mpsc, oneshot, wakers, history
<1> QED BY <1>1, <1>2

LEMMA AbortKeeps ==
  ASSUME IInv, Abort
  PROVE  IInv'
<1>1. TypeOK' /\ FrameConservation' /\ CapacityConserved' /\ EndCoversPoll'
  BY DEF IInv, TypeOK, FrameConservation, CapacityConserved, EndCoversPoll,
    Abort, WakeError, mpsc, history
<1>2. SenderHandles' /\ BodyHandles' /\ Verdicts'
  BY DEF IInv, TypeOK, SenderHandles, BodyHandles, Verdicts, Abort, mpsc,
    history
<1>3. NoLostWakeup' /\ BetweenPolls'
  BY DEF IInv, TypeOK, NoLostWakeup, BetweenPolls, SenderHandles, Abort,
    WakeError, mpsc, history
<1> QED BY <1>1, <1>2, <1>3 DEF IInv

LEMMA DropTxFrameKeeps ==
  ASSUME IInv, DropTxFrame
  PROVE  IInv'
<1>1. TypeOK' /\ FrameConservation' /\ CapacityConserved' /\ EndCoversPoll'
  BY DEF IInv, TypeOK, FrameConservation, CapacityConserved, EndCoversPoll,
    DropTxFrame, WakeFrame, oneshot, history
<1>2. SenderHandles' /\ BodyHandles' /\ Verdicts'
  BY DEF IInv, TypeOK, SenderHandles, BodyHandles, Verdicts, DropTxFrame,
    oneshot, history
<1>3. NoLostWakeup' /\ BetweenPolls'
  BY DEF IInv, TypeOK, NoLostWakeup, BetweenPolls, SenderHandles, DropTxFrame,
    WakeFrame, oneshot, history
<1> QED BY <1>1, <1>2, <1>3 DEF IInv

LEMMA DropTxErrorKeeps ==
  ASSUME IInv, DropTxError
  PROVE  IInv'
<1>1. TypeOK' /\ FrameConservation' /\ CapacityConserved' /\ EndCoversPoll'
  BY DEF IInv, TypeOK, FrameConservation, CapacityConserved, EndCoversPoll,
    DropTxError, WakeError, mpsc, history
<1>2. SenderHandles' /\ BodyHandles' /\ Verdicts'
  BY DEF IInv, TypeOK, SenderHandles, BodyHandles, Verdicts, DropTxError,
    mpsc, history
<1>3. NoLostWakeup' /\ BetweenPolls'
  BY DEF IInv, TypeOK, NoLostWakeup, BetweenPolls, SenderHandles, DropTxError,
    WakeError, mpsc, history
<1> QED BY <1>1, <1>2, <1>3 DEF IInv

\* The frame in front moves from the buffer to the consumer, its slot to a
\* waiting send or back to the free ones.
LEMMA TakeKeeps ==
  ASSUME IInv, PollRecv, queue # <<>>
  PROVE  IInv'
<1>1. /\ queue' = Tail(queue) /\ yielded' = Append(yielded, Head(queue))
      /\ AddPermit /\ body' = "idle" /\ rxFrame = "open"
      /\ UNCHANGED <<txFrame, rxFrame, oneshot, pushed, verdict,
                     frameWaker, errorWaker>>
      /\ notified' = FALSE
      /\ pollStart' = IF verdict = "open" THEN Len(pushed) ELSE pollStart
  BY DEF PollRecv, FrameReady, Take, Miss, IInv, TypeOK, BodyHandles
<1>2. queue \in Seq(Frame) /\ yielded \in Seq(Frame) /\ pushed \in Seq(Frame)
  BY DEF IInv, TypeOK
<1>3. /\ yielded' \o queue' = yielded \o queue
      /\ yielded' \in Seq(Frame) /\ queue' \in Seq(Frame)
      /\ Len(queue) \in Nat \ {0} /\ Len(queue') = Len(queue) - 1
      /\ Len(yielded) \in Nat /\ Len(yielded') = Len(yielded) + 1
  BY <1>1, <1>2, TakeFirst
<1>4. permits \in Int /\ Buffer \in Int /\ permits \in 0..Buffer
  BY BufferAssumption DEF IInv, TypeOK
<1>5. CapacityConserved' /\ permits' \in 0..Buffer
  <2>1. permits + Len(queue) + (IF sender = "granted" THEN 1 ELSE 0) = Buffer
    BY DEF IInv, CapacityConserved
  <2>2. CASE sender = "waiting"
    <3>1. permits' = permits /\ sender' = "granted"
      BY <1>1, <2>2 DEF AddPermit
    <3> QED BY <1>3, <1>4, <2>1, <2>2, <3>1 DEF CapacityConserved
  <2>3. CASE sender # "waiting"
    <3>1. permits' = permits + 1 /\ sender' = sender
      BY <1>1, <2>3 DEF AddPermit
    <3> QED BY <1>3, <1>4, <2>1, <3>1 DEF CapacityConserved
  <2> QED BY <2>2, <2>3
<1>7. TypeOK'
  BY <1>1, <1>2, <1>3, <1>5, LenProperties DEF IInv, TypeOK, AddPermit, oneshot
<1>8. FrameConservation'
  BY <1>1, <1>3 DEF IInv, FrameConservation
<1>9. EndCoversPoll' /\ BodyHandles' /\ Verdicts'
  BY <1>1, <1>3 DEF IInv, TypeOK, EndCoversPoll, BodyHandles, Verdicts, oneshot
<1>10. NoLostWakeup' /\ SenderHandles' /\ BetweenPolls'
  BY <1>1 DEF IInv, TypeOK, NoLostWakeup, SenderHandles, BetweenPolls,
    AddPermit, oneshot
<1> QED BY <1>5, <1>7, <1>8, <1>9, <1>10 DEF IInv

LEMMA PollRecvKeeps ==
  ASSUME IInv, PollRecv
  PROVE  IInv'
<1>1. CASE queue = <<>>
  <2>1. /\ frameWaker' = (frameWaker \/ txFrame = "open") /\ body' = "between"
        /\ UNCHANGED <<queue, permits, sender, yielded>>
        /\ UNCHANGED <<txFrame, rxFrame, oneshot, errorWaker, pushed, verdict>>
        /\ notified' = FALSE
        /\ pollStart' = IF verdict = "open" THEN Len(pushed) ELSE pollStart
        /\ rxFrame = "open"
    BY <1>1 DEF PollRecv, FrameReady, Take, Miss, IInv, TypeOK, BodyHandles
  <2>2. pushed = yielded /\ Len(pushed) \in Nat
    BY <1>1, <2>1, ConcatEmptySeq, LenProperties
       DEF IInv, TypeOK, FrameConservation
  <2>3. TypeOK' /\ FrameConservation' /\ CapacityConserved'
    BY <2>1, <2>2 DEF IInv, TypeOK, FrameConservation, CapacityConserved,
      oneshot
  <2>4. EndCoversPoll' /\ SenderHandles' /\ Verdicts'
    BY <2>1, <2>2 DEF IInv, EndCoversPoll, SenderHandles, Verdicts, oneshot
  <2>5. NoLostWakeup' /\ BodyHandles'
    BY <2>1 DEF IInv, NoLostWakeup, BodyHandles, PollRecv, FrameReady, Take,
      Miss, oneshot
  <2>6. BetweenPolls'
    <3>1. queue' = <<>> /\ (frameWaker' \/ txFrame' = "dropped")
      BY <1>1, <2>1 DEF IInv, TypeOK
    <3>2. verdict' = "open" => pollStart' = Len(yielded')
      BY <2>1, <2>2
    <3> QED BY <2>1, <2>2, <3>1, <3>2 DEF BetweenPolls
  <2> QED BY <2>3, <2>4, <2>5, <2>6 DEF IInv
<1>2. CASE queue # <<>>
  BY <1>2, TakeKeeps
<1> QED BY <1>1, <1>2

LEMMA PollErrorKeeps ==
  ASSUME IInv, PollError
  PROVE  IInv'
<1>1. TypeOK' /\ FrameConservation' /\ CapacityConserved'
  BY DEF IInv, TypeOK, FrameConservation, CapacityConserved, PollError,
    Answer, mpsc
<1>2. SenderHandles' /\ BodyHandles' /\ Verdicts'
  BY DEF IInv, TypeOK, SenderHandles, BodyHandles, Verdicts, PollError,
    Answer, mpsc
<1>3. NoLostWakeup' /\ BetweenPolls' /\ EndCoversPoll'
  BY DEF IInv, TypeOK, NoLostWakeup, BetweenPolls, BodyHandles, EndCoversPoll,
    PollError, Answer, mpsc
<1> QED BY <1>1, <1>2, <1>3 DEF IInv

LEMMA DropRxFrameKeeps ==
  ASSUME IInv, DropRxFrame
  PROVE  IInv'
<1>1. rxFrame = "open" /\ pushed = yielded \o queue
  BY DEF IInv, FrameConservation, BodyHandles, DropRxFrame, TypeOK
<1>2. queue \in Seq(Frame) /\ yielded \in Seq(Frame)
  BY DEF IInv, TypeOK
<1>3. /\ Len(queue) \in Nat /\ Len(yielded) \in Nat
      /\ Len(pushed) = Len(yielded) + Len(queue)
  BY <1>1, <1>2, ConcatProperties, LenProperties
<1>4. permits \in 0..Buffer /\ Buffer \in Nat
  BY BufferAssumption DEF IInv, TypeOK
<1>5. CapacityConserved' /\ permits' \in 0..Buffer
  BY <1>3, <1>4, EmptySeq DEF IInv, CapacityConserved, DropRxFrame
<1>6. TypeOK' /\ FrameConservation'
  BY <1>3, <1>5, EmptySeq
     DEF IInv, TypeOK, FrameConservation, DropRxFrame, oneshot, wakers, history
<1>7. SenderHandles' /\ BodyHandles' /\ Verdicts'
  BY DEF IInv, TypeOK, SenderHandles, BodyHandles, Verdicts, DropRxFrame,
    oneshot, history
<1>8. NoLostWakeup' /\ BetweenPolls' /\ EndCoversPoll'
  BY DEF IInv, NoLostWakeup, BetweenPolls, EndCoversPoll, DropRxFrame, history
<1> QED BY <1>5, <1>6, <1>7, <1>8 DEF IInv

LEMMA DropRxErrorKeeps ==
  ASSUME IInv, DropRxError
  PROVE  IInv'
<1>1. TypeOK' /\ FrameConservation' /\ CapacityConserved'
  BY DEF IInv, TypeOK, FrameConservation, CapacityConserved, DropRxError, mpsc,
    wakers, history
<1>2. SenderHandles' /\ BodyHandles' /\ Verdicts'
  BY DEF IInv, TypeOK, SenderHandles, BodyHandles, Verdicts, DropRxError, mpsc,
    history
<1>3. NoLostWakeup' /\ BetweenPolls' /\ EndCoversPoll'
  BY DEF IInv, NoLostWakeup, BetweenPolls, EndCoversPoll, DropRxError, history
<1> QED BY <1>1, <1>2, <1>3 DEF IInv

LEMMA InitEstablishes == Init => IInv
<1>1. Len(<<>>) = 0 /\ <<>> \o <<>> = <<>>
  BY EmptySeq, ConcatEmptySeq
<1>2. Init => TypeOK
  <2> SUFFICES ASSUME Init PROVE TypeOK
    OBVIOUS
  <2>1. permits \in 0..Buffer
    BY BufferAssumption DEF Init
  <2>2. queue \in Seq(Frame) /\ pushed \in Seq(Frame) /\ yielded \in Seq(Frame)
    BY EmptySeq DEF Init
  <2>3. pollStart \in Nat
    BY DEF Init
  <2> QED BY <2>1, <2>2, <2>3 DEF Init, TypeOK
<1>3. Init => FrameConservation /\ CapacityConserved
  BY <1>1, BufferAssumption DEF Init, FrameConservation, CapacityConserved
<1>4. Init => NoLostWakeup /\ EndCoversPoll /\ SenderHandles /\ BodyHandles
  BY DEF Init, NoLostWakeup, EndCoversPoll, SenderHandles, BodyHandles
<1>5. Init => Verdicts /\ BetweenPolls
  BY DEF Init, Verdicts, BetweenPolls
<1> QED BY <1>2, <1>3, <1>4, <1>5 DEF IInv

LEMMA NextKeeps ==
  ASSUME IInv, [Next]_vars
  PROVE  IInv'
<1>1. CASE \E f \in Frame : Send(f) \/ ResumeSend(f) \/ TrySend(f)
  BY <1>1, SendKeeps, ResumeSendKeeps, TrySendKeeps
<1>2. CASE CancelSend \/ Abort \/ DropTxFrame \/ DropTxError
  BY <1>2, CancelSendKeeps, AbortKeeps, DropTxFrameKeeps, DropTxErrorKeeps
<1>3. CASE PollRecv \/ PollError \/ DropRxFrame \/ DropRxError
  BY <1>3, PollRecvKeeps, PollErrorKeeps, DropRxFrameKeeps, DropRxErrorKeeps
<1>4. CASE UNCHANGED vars
  BY <1>4 DEF IInv, TypeOK, FrameConservation, CapacityConserved,
    NoLostWakeup,
    EndCoversPoll, SenderHandles, BodyHandles, Verdicts, BetweenPolls,
    vars, mpsc, oneshot, wakers, history
<1> QED BY <1>1, <1>2, <1>3, <1>4 DEF Next, Finished

THEOREM Invariance == Spec => []IInv
<1>1. IInv /\ [Next]_vars => IInv'
  BY NextKeeps
<1> QED BY <1>1, InitEstablishes, PTL DEF Spec

-----------------------------------------------------------------------------
(* The properties, for two tasks on any threads.                           *)

\* Every variable keeps its type; in particular capacity() stays within
\* 0..Buffer whatever is cancelled or dropped.
THEOREM ChannelTypeOK == Spec => []TypeOK
<1>1. IInv => TypeOK
  BY DEF IInv
<1> QED BY <1>1, Invariance, PTL

\* No accepted frame is lost, duplicated or reordered.
THEOREM FramesConserved == Spec => []FrameConservation
<1>1. IInv => FrameConservation
  BY DEF IInv
<1> QED BY <1>1, Invariance, PTL

\* The slots of the buffer are conserved.
THEOREM CapacityExact == Spec => []CapacityConserved
<1>1. IInv => CapacityConserved
  BY DEF IInv
<1> QED BY <1>1, Invariance, PTL

\* A parked task with no wake-up under way has nothing to read.
THEOREM WakeupsKept == Spec => []NoLostWakeup
<1>1. IInv => NoLostWakeup
  BY DEF IInv
<1> QED BY <1>1, Invariance, PTL

\* When the task is parked and nothing woke it the buffer is empty, and an empty
\* buffer has a free slot, Buffer being at least 1.
LEMMA NobodyWaits ==
  ASSUME IInv
  PROVE  NoMutualWait
<1> SUFFICES ASSUME sender = "waiting", rxFrame = "open",
                    body = "parked", ~notified
             PROVE  FALSE
  BY DEF NoMutualWait
<1>1. queue = <<>> /\ permits = 0
  BY DEF IInv, NoLostWakeup, SenderHandles
<1>2. Buffer = 0
  BY <1>1, EmptySeq DEF IInv, CapacityConserved
<1> QED BY <1>2, BufferAssumption

\* A send and a poll never wait for each other.
THEOREM NeverMutualWait == Spec => []NoMutualWait
<1>1. IInv => NoMutualWait
  BY NobodyWaits
<1> QED BY <1>1, Invariance, PTL

\* abort() is never reported as an end, and errors come from it alone.
THEOREM AbortsReported == Spec => []AbortIsNotEnd
<1>1. IInv => AbortIsNotEnd
  BY DEF IInv, Verdicts, AbortIsNotEnd
<1> QED BY <1>1, Invariance, PTL

\* Ready(None) covers what was accepted before its poll_frame began.
THEOREM EndCovers == Spec => []EndCoversPoll
<1>1. IInv => EndCoversPoll
  BY DEF IInv
<1> QED BY <1>1, Invariance, PTL

-----------------------------------------------------------------------------
(* Both tasks on one thread: nothing is pushed between the two polls of     *)
(* poll_frame, so an end is an end.                                        *)

OneThreadInv ==
  /\ body = "between" => queue = <<>>
  /\ verdict = "end" => yielded = pushed

LEMMA OneThreadStep ==
  ASSUME ~Preemptive, IInv, OneThreadInv, [Next]_vars
  PROVE  OneThreadInv'
<1>1. verdict = "end" => sender \in {"aborting", "gone"}
  BY DEF IInv, TypeOK, Verdicts, SenderHandles
<1>2. ASSUME NEW f \in Frame, Send(f) \/ TrySend(f) \/ ResumeSend(f)
      PROVE  OneThreadInv'
  BY <1>1, <1>2 DEF Send, TrySend, ResumeSend, SenderRuns, Push, OneThreadInv,
    vars, mpsc, history
<1>3. CASE CancelSend \/ Abort \/ DropTxFrame \/ DropTxError
  BY <1>3 DEF CancelSend, Abort, DropTxFrame, DropTxError, OneThreadInv, mpsc,
    history
<1>4. CASE PollRecv
  <2>1. verdict = "end" => queue = <<>>
    BY <1>4, ConcatEqualIffEmpty DEF IInv, TypeOK, FrameConservation,
      BodyHandles, OneThreadInv, PollRecv, FrameReady, Take, Miss
  <2> QED BY <1>4, <2>1 DEF PollRecv, FrameReady, Take, Miss, OneThreadInv
<1>5. CASE PollError
  <2>1. yielded = pushed
    BY <1>5, ConcatEmptySeq DEF IInv, TypeOK, FrameConservation, BodyHandles,
      OneThreadInv, PollError, Answer
  <2> QED BY <1>5, <2>1 DEF PollError, Answer, OneThreadInv, mpsc
<1>6. CASE DropRxFrame \/ DropRxError \/ UNCHANGED vars
  BY <1>6 DEF DropRxFrame, DropRxError, OneThreadInv, vars, mpsc, history
<1> QED BY <1>2, <1>3, <1>4, <1>5, <1>6 DEF Next, Finished

LEMMA OneThread ==
  ASSUME ~Preemptive
  PROVE  Spec => []OneThreadInv
<1>1. Init => OneThreadInv
  BY DEF Init, OneThreadInv
<1>2. IInv /\ OneThreadInv /\ [Next]_vars => OneThreadInv'
  BY OneThreadStep
<1> QED BY <1>1, <1>2, Invariance, PTL DEF Spec

\* On one thread Ready(None) means that every accepted frame was returned.
THEOREM OneThreadEndIsComplete ==
  ASSUME ~Preemptive
  PROVE  Spec => []EndIsComplete
<1>1. OneThreadInv => EndIsComplete
  BY DEF OneThreadInv, EndIsComplete
<1> QED BY <1>1, OneThread, PTL

-----------------------------------------------------------------------------
(* On one thread every step of the Channel is a step of the abstract        *)
(* stream, or leaves it unchanged.                                         *)

LEMMA SenderStepRefines ==
  ASSUME IInv,
         \/ \E f \in Frame : Send(f) \/ ResumeSend(f) \/ TrySend(f)
         \/ CancelSend \/ Abort \/ DropTxFrame \/ DropTxError
  PROVE  [Stream!Next]_(Stream!svars)
<1>1. sender \notin {"aborting", "gone"} => slot = "empty" /\ Source = "open"
  BY DEF IInv, SenderHandles, Source
<1>2. ASSUME NEW f \in Frame, Push(f), sender \in {"idle", "granted"}
      PROVE  Stream!Accept(f)
  BY <1>1, <1>2 DEF Push, oneshot, Stream!Accept, Source
<1>3. ASSUME NEW f \in Frame, Send(f) \/ ResumeSend(f) \/ TrySend(f)
      PROVE  (\E g \in Frame : Stream!Accept(g)) \/ UNCHANGED Stream!svars
  BY <1>2, <1>3 DEF Send, ResumeSend, TrySend, vars, oneshot, history,
    Stream!svars, Source
<1>4. CASE CancelSend \/ DropTxFrame
  BY <1>4 DEF CancelSend, DropTxFrame, oneshot, history, Stream!svars, Source
<1>5. CASE Abort
  BY <1>1, <1>5 DEF Abort, history, Stream!Next, Stream!Close, Source
<1>6. CASE DropTxError
  BY <1>1, <1>6 DEF DropTxError, history, Stream!Next, Stream!Close, Source
<1> QED BY <1>3, <1>4, <1>5, <1>6 DEF Stream!Next

LEMMA BodyStepRefines ==
  ASSUME IInv, OneThreadInv, OneThreadInv',
         PollRecv \/ PollError \/ DropRxFrame \/ DropRxError
  PROVE  [Stream!Next]_(Stream!svars)
<1>1. CASE PollRecv /\ queue # <<>>
  <2>1. pushed = yielded \o queue /\ verdict = "open" /\ Source' = Source
    BY <1>1, ConcatEqualIffEmpty DEF IInv, TypeOK, FrameConservation,
      BodyHandles, OneThreadInv, PollRecv, FrameReady, Take, Miss, oneshot,
        Source
  <2>2. /\ Len(yielded) < Len(pushed)
        /\ Head(queue) = pushed[Len(yielded) + 1]
    BY <2>1, <1>1, ConcatProperties, LenProperties, EmptySeq DEF IInv, TypeOK
  <2>3. Stream!Return
    BY <1>1, <2>1, <2>2 DEF PollRecv, FrameReady, Take, Miss, Stream!Return
  <2> QED BY <2>3 DEF Stream!Next
<1>2. CASE PollRecv /\ queue = <<>>
  BY <1>2 DEF PollRecv, FrameReady, Take, Miss, oneshot, Stream!svars, Source
<1>3. CASE PollError
  <2>0. yielded = pushed
    BY <1>3, ConcatEmptySeq DEF IInv, TypeOK, FrameConservation, BodyHandles,
      OneThreadInv, PollError
  <2>1. verdict' # verdict => verdict = "open"
    BY <1>3 DEF IInv, BodyHandles, PollError, Answer
  <2>2. Source' = Source
    BY <1>3 DEF PollError, Answer, Source
  <2>3. CASE verdict' = verdict
    BY <1>3, <2>2, <2>3 DEF PollError, Answer, Stream!svars
  <2>4. CASE verdict' = "error" /\ verdict' # verdict
    BY <1>3, <2>0, <2>1, <2>2, <2>4
       DEF PollError, Answer, Source, Stream!Next, Stream!Fail
  <2>5. CASE verdict' = "end" /\ verdict' # verdict
    BY <1>3, <2>0, <2>1, <2>2, <2>5
       DEF PollError, Answer, Source, Stream!Next, Stream!End
  <2> QED BY <1>3, <2>3, <2>4, <2>5 DEF PollError, Answer
<1>4. CASE DropRxFrame \/ DropRxError
  BY <1>4 DEF DropRxFrame, DropRxError, oneshot, history, Stream!svars, Source
<1> QED BY <1>1, <1>2, <1>3, <1>4

\* On one thread a Channel is a FrameStream: every frame once and in order,
\* the end after all of them, an error only after abort(), both final.
THEOREM OneThreadRefines ==
  ASSUME ~Preemptive
  PROVE  Spec => ImplementsStream
<1>1. Init => Stream!Init
  BY EmptySeq DEF Init, Stream!Init, Source
<1>2. /\ IInv /\ IInv' /\ OneThreadInv /\ OneThreadInv' /\ [Next]_vars
      => [Stream!Next]_(Stream!svars)
  <2> SUFFICES ASSUME IInv, OneThreadInv, OneThreadInv', [Next]_vars
               PROVE  [Stream!Next]_(Stream!svars)
    OBVIOUS
  <2>1. CASE UNCHANGED vars
    BY <2>1 DEF vars, oneshot, history, Stream!svars, Source
  <2> QED BY <2>1, SenderStepRefines, BodyStepRefines DEF Next, Finished
<1> QED BY <1>1, <1>2, Invariance, OneThread, PTL
        DEF Spec, ImplementsStream, Stream!Spec
=============================================================================
