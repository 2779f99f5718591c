------------------------------ MODULE Channel ------------------------------
(***************************************************************************)
(* The body backed by a channel (http-body-util/src/channel.rs): a Sender  *)
(* task and the task that polls the Channel body, joined by two tokio      *)
(* channels, a bounded mpsc for the frames and a oneshot for the error of  *)
(* abort().                                                                *)
(*                                                                         *)
(* Both halves are pairs of handles, and neither pair is used atomically:  *)
(* poll_frame asks the mpsc first and the oneshot second, abort() and the  *)
(* drop of a half touch one handle and then the other. Each of those calls *)
(* is one step here, so the other task may run in between.                 *)
(***************************************************************************)
EXTENDS Naturals, Sequences

CONSTANTS
  Frame,       \* the frames a Sender may send; the channel never looks inside
  Buffer,      \* the capacity given to Channel::new
  MaxPush,     \* bound: frames accepted in one behaviour
  Preemptive   \* TRUE: the two tasks run on different threads;
               \* FALSE: one thread, where a synchronous call is not interrupted

ASSUME BufferAssumption == Buffer \in Nat \ {0}
ASSUME BoundAssumption == MaxPush \in Nat
ASSUME PreemptiveAssumption == Preemptive \in BOOLEAN

VARIABLES
  queue,       \* frames buffered in the mpsc
  permits,     \* free slots of the mpsc semaphore: what capacity() reports
  txFrame,     \* Sender::tx_frame: "open" or "dropped"
  rxFrame,     \* Channel::rx_frame: "open" or "closed"
  slot,        \* the oneshot: "empty", "error" (sent), "dropped" (no value)
  rxError,     \* Channel::rx_error: "live", "done" (completed) or "closed"
  sender,      \* the Sender task: "idle", inside send().await ("waiting" for
               \* a slot, "granted" one), "aborting", "dropping" or "gone"
  body,        \* the polling task: "idle", "between" the two polls of
               \* poll_frame, "parked" after Pending, "panicked", "dropping"
               \* or "dropped"
  frameWaker,  \* the task's waker is registered with the mpsc
  errorWaker,  \* the task's waker is registered with the oneshot
  notified,    \* a waker has fired since the current poll_frame began
  pushed,      \* history: every frame accepted by send or try_send, in order
  yielded,     \* history: every frame poll_frame returned, in order
  verdict,     \* history: "open", or how poll_frame ended: "end" is
               \* Ready(None), "error" is Ready(Some(Err(_)))
  pollStart    \* history: Len(pushed) when the last poll_frame began

wakers == <<frameWaker, errorWaker, notified>>
mpsc == <<queue, permits, txFrame, rxFrame>>
oneshot == <<slot, rxError>>
history == <<pushed, yielded, verdict, pollStart>>
vars == <<mpsc, oneshot, sender, body, wakers, history>>

TypeOK ==
  /\ queue \in Seq(Frame)
  /\ permits \in 0..Buffer
  /\ txFrame \in {"open", "dropped"}
  /\ rxFrame \in {"open", "closed"}
  /\ slot \in {"empty", "error", "dropped"}
  /\ rxError \in {"live", "done", "closed"}
  /\ sender \in {"idle", "waiting", "granted", "aborting", "dropping", "gone"}
  /\ body \in {"idle", "between", "parked", "panicked", "dropping", "dropped"}
  /\ frameWaker \in BOOLEAN /\ errorWaker \in BOOLEAN /\ notified \in BOOLEAN
  /\ pushed \in Seq(Frame) /\ yielded \in Seq(Frame)
  /\ verdict \in {"open", "end", "error"}
  /\ pollStart \in Nat

\* Channel::new
Init ==
  /\ queue = <<>> /\ permits = Buffer
  /\ txFrame = "open" /\ rxFrame = "open"
  /\ slot = "empty" /\ rxError = "live"
  /\ sender = "idle" /\ body = "idle"
  /\ frameWaker = FALSE /\ errorWaker = FALSE /\ notified = FALSE
  /\ pushed = <<>> /\ yielded = <<>> /\ verdict = "open" /\ pollStart = 0

-----------------------------------------------------------------------------
(* What tokio's channels do to the state: wakers are one-shot, a freed slot *)
(* goes to a waiting send before it is counted as capacity.                 *)

WakeFrame ==
  /\ notified' = (notified \/ frameWaker)
  /\ frameWaker' = FALSE
  /\ UNCHANGED errorWaker

WakeError ==
  /\ notified' = (notified \/ errorWaker)
  /\ errorWaker' = FALSE
  /\ UNCHANGED frameWaker

Push(f) ==
  /\ queue' = Append(queue, f)
  /\ pushed' = Append(pushed, f)
  /\ WakeFrame
  /\ UNCHANGED <<txFrame, rxFrame, oneshot, body, yielded, verdict, pollStart>>

\* Mutant: a freed slot is counted as capacity past the send that waits.
AddPermitPastWaiter == permits' = permits + 1 /\ UNCHANGED sender

AddPermit ==
  IF sender = "waiting"
  THEN sender' = "granted" /\ UNCHANGED permits
  ELSE permits' = permits + 1 /\ UNCHANGED sender

\* Mutant: a send that gives up returns a slot it did not own.
ReturnSlotAlways == permits' = permits + 1

\* A send that does not complete returns the slot it was granted, if any.
ReturnSlot == permits' = IF sender = "granted" THEN permits + 1 ELSE permits

-----------------------------------------------------------------------------
(* The Sender half.                                                        *)

\* On one thread, poll_frame and the drop of the body are not interrupted.
SenderRuns == Preemptive \/ body \notin {"between", "dropping"}

\* Sender::send, up to its await: refused, pushed at once, or waiting.
Send(f) ==
  /\ SenderRuns /\ sender = "idle" /\ Len(pushed) < MaxPush
  /\ \/ rxFrame = "closed" /\ UNCHANGED vars
     \/ /\ rxFrame = "open" /\ permits > 0
        /\ permits' = permits - 1
        /\ Push(f)
        /\ UNCHANGED sender
     \/ /\ rxFrame = "open" /\ permits = 0
        /\ sender' = "waiting"
        /\ UNCHANGED <<mpsc, oneshot, body, wakers, history>>

\* The send future polled again: it owns a slot and pushes, or the receiver
\* closed meanwhile and it gives back whatever it owned.
ResumeSend(f) ==
  /\ SenderRuns
  /\ sender' = "idle"
  /\ \/ sender = "granted" /\ rxFrame = "open" /\ Push(f) /\ UNCHANGED permits
     \/ /\ sender \in {"waiting", "granted"} /\ rxFrame = "closed"
        /\ ReturnSlot
        /\ UNCHANGED <<queue, txFrame, rxFrame, oneshot, body, wakers, history>>

\* The send future dropped before it completed (a timeout, a select!).
CancelSend ==
  /\ SenderRuns /\ sender \in {"waiting", "granted"}
  /\ sender' = "idle"
  /\ ReturnSlot
  /\ UNCHANGED <<queue, txFrame, rxFrame, oneshot, body, wakers, history>>

\* Sender::capacity and Sender::max_capacity
Capacity == permits
MaxCapacity == Buffer

\* Sender::try_send: the frame comes back when the channel is full or closed.
TrySend(f) ==
  /\ SenderRuns /\ sender = "idle" /\ Len(pushed) < MaxPush
  /\ IF rxFrame = "open" /\ permits > 0
     THEN permits' = permits - 1 /\ Push(f) /\ UNCHANGED sender
     ELSE UNCHANGED vars

\* Sender::abort: the error first (lost when the body is gone) ...
Abort ==
  /\ SenderRuns /\ sender = "idle"
  /\ slot' = IF rxError = "closed" THEN "dropped" ELSE "error"
  /\ WakeError
  /\ sender' = "aborting"
  /\ UNCHANGED <<mpsc, rxError, body, history>>

\* ... then the drop of tx_frame as abort returns; or, when the Sender is
\* dropped as it is, tx_frame first, its fields being dropped in order ...
DropTxFrame ==
  /\ SenderRuns /\ sender \in {"idle", "aborting"}
  /\ txFrame' = "dropped"
  /\ WakeFrame
  /\ sender' = IF sender = "aborting" THEN "gone" ELSE "dropping"
  /\ UNCHANGED <<queue, permits, rxFrame, oneshot, body, history>>

\* ... and tx_error second.
DropTxError ==
  /\ SenderRuns /\ sender = "dropping"
  /\ slot' = "dropped"
  /\ WakeError
  /\ sender' = "gone"
  /\ UNCHANGED <<mpsc, rxError, body, history>>

-----------------------------------------------------------------------------
(* The Channel half, and the task that polls it.                           *)

\* On one thread, abort() and the drop of the Sender are not interrupted.
BodyRuns == Preemptive \/ sender \notin {"aborting", "dropping"}

\* Mutant: the oneshot is asked before the frames that are buffered.
FrameReadyUnlessClosed == queue # <<>> /\ slot = "empty"

FrameReady == queue # <<>>

\* Mutant: a frame taken while an error is stored is dropped for the error.
TakeOrFail ==
  /\ queue' = Tail(queue)
  /\ yielded' = IF slot = "error" THEN yielded ELSE Append(yielded, Head(queue))
  /\ AddPermit
  /\ body' = IF slot = "error" THEN "between" ELSE "idle"
  /\ UNCHANGED frameWaker

Take ==
  /\ queue' = Tail(queue)
  /\ yielded' = Append(yielded, Head(queue))
  /\ AddPermit
  /\ body' = "idle"
  /\ UNCHANGED frameWaker

\* Mutant: the mpsc is asked without the waker of the task (try_recv).
MissUnregistered ==
  /\ body' = "between"
  /\ UNCHANGED <<frameWaker, queue, permits, sender, yielded>>

\* No frame: the waker is registered, unless the mpsc has ended.
Miss ==
  /\ frameWaker' = (frameWaker \/ txFrame = "open")
  /\ body' = "between"
  /\ UNCHANGED <<queue, permits, sender, yielded>>

\* The first half of poll_frame, rx_frame.poll_recv(cx): a buffered frame is
\* returned. A consumer discards a body that returned an error, and only that.
PollRecv ==
  /\ BodyRuns /\ body \in {"idle", "parked"} /\ verdict # "error"
  /\ notified' = FALSE
  /\ pollStart' = IF verdict = "open" THEN Len(pushed) ELSE pollStart
  /\ IF FrameReady THEN Take ELSE Miss
  /\ UNCHANGED <<txFrame, rxFrame, oneshot, errorWaker, pushed, verdict>>

\* Mutant: an abort is reported as an end.
AnswerAbortAsEnd == IF slot = "empty" THEN "open" ELSE "end"

\* Mutant: a oneshot dropped without a value is taken for a pending one.
AnswerIgnoresDrop == IF slot = "error" THEN "error" ELSE "open"

\* What the oneshot makes of poll_frame: an error, the end, or not yet.
Answer == CASE slot = "error" -> "error"
            [] slot = "dropped" -> "end"
            [] OTHER -> "open"

\* The second half, rx_error.poll(cx). A oneshot receiver completes once: it
\* panics when it is polled again.
PollError ==
  /\ BodyRuns /\ body = "between"
  /\ \/ /\ rxError = "live" /\ Answer # "open"
        /\ verdict' = Answer /\ rxError' = "done" /\ body' = "idle"
        /\ UNCHANGED errorWaker
     \/ /\ rxError = "live" /\ Answer = "open"
        /\ errorWaker' = TRUE /\ body' = "parked"
        /\ UNCHANGED <<verdict, rxError>>
     \/ /\ rxError = "done"
        /\ body' = "panicked"
        /\ UNCHANGED <<verdict, rxError, errorWaker>>
  /\ UNCHANGED <<mpsc, slot, sender, frameWaker, notified,
                 pushed, yielded, pollStart>>

\* The Channel dropped (by its owner, or while a panic unwinds): rx_frame
\* closes the semaphore and drains the buffer ...
DropRxFrame ==
  /\ BodyRuns /\ body \in {"idle", "parked", "panicked"}
  /\ rxFrame' = "closed"
  /\ queue' = <<>>
  /\ permits' = permits + Len(queue)
  /\ body' = "dropping"
  /\ UNCHANGED <<txFrame, oneshot, sender, wakers, history>>

\* ... then rx_error closes.
DropRxError ==
  /\ BodyRuns /\ body = "dropping"
  /\ rxError' = "closed"
  /\ body' = "dropped"
  /\ UNCHANGED <<mpsc, slot, sender, wakers, history>>

-----------------------------------------------------------------------------
\* Both halves are gone: nothing is left to run.
Finished == sender = "gone" /\ body = "dropped" /\ UNCHANGED vars

Next ==
  \/ \E f \in Frame : Send(f) \/ ResumeSend(f) \/ TrySend(f)
  \/ CancelSend \/ Abort \/ DropTxFrame \/ DropTxError
  \/ PollRecv \/ PollError \/ DropRxFrame \/ DropRxError
  \/ Finished

\* A poll the executor owes the task: it is running, or a waker has fired.
\* Polls without a wake-up happen (select!, join!) and are owed to nobody.
OwedPoll == verdict = "open" /\ (body = "idle" \/ notified) /\ PollRecv

\* Synchronous calls return, woken tasks run, and the consumer reads on until
\* the body ends. Nobody has to send, to cancel, to abort or to drop.
Fairness ==
  /\ WF_vars(OwedPoll) /\ WF_vars(PollError) /\ WF_vars(DropRxError)
  /\ WF_vars(\E f \in Frame : ResumeSend(f))
  /\ WF_vars(sender = "aborting" /\ DropTxFrame) /\ WF_vars(DropTxError)

Spec == Init /\ [][Next]_vars /\ Fairness
-----------------------------------------------------------------------------
(* Properties.                                                             *)

\* While the receiver is open no accepted frame is lost, duplicated or
\* reordered: what was accepted is what was returned, then what is buffered.
\* (poll_frame, send, try_send; cancelled and refused sends leave no trace.)
FrameConservation ==
  IF rxFrame = "open" THEN pushed = yielded \o queue
  ELSE queue = <<>> /\ Len(yielded) <= Len(pushed)

\* capacity() is exact: every slot of the buffer is free, holds a frame or is
\* owned by the one pending send, through cancellations and the drop of the
\* body. (Sender::capacity, Sender::send, Channel::poll_frame)
CapacityConserved ==
  Capacity + Len(queue) + (IF sender = "granted" THEN 1 ELSE 0) = MaxCapacity

\* poll_frame never sleeps through news: a task parked after Pending that no
\* waker has fired for has no frame to read, no error and no end to report,
\* and each handle that may bring some still holds its waker.
NoLostWakeup ==
  body = "parked" /\ ~notified =>
    /\ queue = <<>> /\ slot = "empty"
    /\ errorWaker /\ (frameWaker \/ txFrame = "dropped")

\* The two tasks never wait for each other: a send waits for a slot only while
\* the polling task has a frame to take or a poll to finish.
NoMutualWait ==
  sender = "waiting" /\ rxFrame = "open" => ~(body = "parked" /\ ~notified)

\* An aborted body is never mistaken for one that ended: once abort() has
\* stored its error poll_frame does not return Ready(None), and it returns an
\* error only then.
AbortIsNotEnd ==
  /\ slot = "error" => verdict # "end"
  /\ verdict = "error" => slot = "error"

\* Ready(None) covers at least every frame accepted before the poll_frame that
\* returned it began.
EndCoversPoll == verdict = "end" => Len(yielded) >= pollStart

\* "`Poll::Ready(None)` means that all of the frames in this stream have been
\* returned" (http-body/src/lib.rs:55).
EndIsComplete == verdict = "end" => yielded = pushed

\* "Once the end of the stream is reached, implementations should continue to
\* return `Poll::Ready(None)`" (http-body/src/lib.rs:60).
EndIsRepeatable == body # "panicked"

\* A pending send is not left behind: it completes, is cancelled or refused.
PendingSendResolves == sender = "waiting" ~> sender # "waiting"

\* Every accepted frame reaches a consumer that keeps polling, unless the
\* stream is declared over or the receiver closes first.
AcceptedIsReturned ==
  \A n \in 1..MaxPush :
    Len(pushed) >= n ~>
      (Len(yielded) >= n \/ verdict # "open" \/ rxFrame = "closed")

\* When the Sender is gone, by abort or by drop, the consumer gets to know.
SenderGoneIsReported ==
  sender = "gone" ~> (verdict # "open" \/ rxFrame = "closed")

(* The abstract stream a Channel stands for.                               *)
Source == CASE slot = "empty" -> "open"
            [] slot = "error" -> "aborted"
            [] slot = "dropped" -> "finished"

Stream == INSTANCE FrameStream WITH
  accepted <- pushed, returned <- yielded, source <- Source, outcome <- verdict

\* With both tasks on one thread the Channel implements the abstract stream:
\* every frame once and in order, the end only after all of them, the error
\* only after abort().
ImplementsStream == Stream!Spec
=============================================================================
