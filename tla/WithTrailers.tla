---------------------------- MODULE WithTrailers ----------------------------
(***************************************************************************)
(* WithTrailers, a body followed by the trailers that a future resolves to *)
(* (http-body-util/src/combinators/with_trailers.rs), polled by a task.    *)
(***************************************************************************)
EXTENDS BodyTask

CONSTANTS
  Script,          \* the bodies
  Future,          \* the futures: Pending results, then what they resolve to, a
                   \* trailers frame, End for None or Failure
  Hints            \* how much the bodies hint, a subset of Hinting

ASSUME ScriptAssumption ==
  Script \subseteq Seq(Result) /\ \A s \in Script : TrailersLast(s)
ASSUME FutureAssumption ==
  /\ Future \subseteq Seq(Result)
  /\ \A f \in Future :
       /\ f # <<>> /\ Last(f) \in TrailerFrame \cup {End, Failure}
       /\ \A i \in 1..(Len(f) - 1) : f[i] = Pending
ASSUME HintsAssumption == Hints \subseteq Hinting

VARIABLES
  state,     \* WithTrailers::state: "PollBody", "PollTrailers" or "Done"
  body,      \* what is left of the body
  trailers,  \* what is left of the future: <<>> when it has resolved
  prev,      \* State::PollTrailers::prev_trailers: a frame, End for none
  hinting,   \* how much the body hints
  panicked   \* the future was polled after it resolved

stateVars == <<state, body, trailers, prev, hinting, panicked>>
vars == <<stateVars, taskVars>>

TypeOK ==
  /\ TaskTypeOK
  /\ state \in {"PollBody", "PollTrailers", "Done"}
  /\ body \in Seq(Result) /\ trailers \in Seq(Result)
  /\ prev \in AnyFrame \cup {End}
  /\ hinting \in Hints /\ panicked \in BOOLEAN

\* WithTrailers::new
Init ==
  /\ TaskInit
  /\ state = "PollBody" /\ prev = End /\ panicked = FALSE
  /\ body \in Script /\ trailers \in Future /\ hinting \in Hints

\* Mutant: the trailers of the body are dropped for those of the future.
JoinFuture(kept, r) == r

\* The trailers of the body and of the future, merged.
JoinTrailers(kept, r) == Join(kept, r)

\* State::PollTrailers, with the trailers of the body. Polling a future that
\* has resolved is a panic of the future. When there are no trailers at all the
\* state stays as it is (line 93), and an error leaves it too (line 91).
PollTrailers(kept) ==
  \/ /\ trailers = <<>>
     /\ panicked' = TRUE
     /\ UNCHANGED <<taskVars, state, trailers, prev, hinting>>
  \/ /\ trailers # <<>>
     /\ LET r == Head(trailers) IN
        /\ trailers' = Tail(trailers)
        /\ \/ /\ r \in {Pending, Failure}
              /\ state' = "PollTrailers" /\ prev' = kept
              /\ Answer(r, r)
           \/ /\ r.kind \in {"end", "trailers"}
              /\ state' = IF Join(kept, r) = End THEN "PollTrailers" ELSE "Done"
              /\ prev' = End
              /\ Answer(JoinTrailers(kept, r), r)
     /\ UNCHANGED <<hinting, panicked>>

\* Mutant: after the trailers of the body the future waits for the next call.
BodyCompletesLater(r) ==
  /\ state' = "PollTrailers" /\ prev' = r
  /\ Answer(Pending, r)
  /\ UNCHANGED <<trailers, hinting, panicked>>

\* The body is complete: the future is polled in the same call.
BodyCompletes(r) == PollTrailers(r)

\* State::PollBody: a data frame is returned, so is an error; the end and the
\* trailers complete the body.
PollBody ==
  LET r == Poll(body) IN
  /\ body' = Rest(body)
  /\ \/ /\ r \in {Pending, Failure} \/ IsData(r)
        /\ Answer(r, r)
        /\ UNCHANGED <<state, trailers, prev, hinting, panicked>>
     \/ /\ r.kind \in {"end", "trailers"}
        /\ BodyCompletes(r)

PollFrame ==
  /\ MayPoll /\ ~panicked
  /\ \/ state = "PollBody" /\ PollBody
     \/ state = "PollTrailers" /\ PollTrailers(prev) /\ UNCHANGED body
     \/ state = "Done" /\ Answer(End, End) /\ UNCHANGED stateVars

\* is_end_stream is the default.
IsEndStream == FALSE

\* Mutant: the hint stays that of the body when the body is complete.
SizeHintOfBody == HintOf(body, hinting)

SizeHint == IF state = "PollBody" THEN HintOf(body, hinting) ELSE NoHint

Next ==
  \/ PollFrame
  \/ Wake /\ UNCHANGED stateVars
  \/ TaskDone /\ UNCHANGED stateVars

\* The executor runs a ready task, and what was pending becomes ready.
Fairness ==
  /\ WF_vars(outcome = "open" /\ PollFrame)
  /\ WF_vars(Wake /\ UNCHANGED stateVars)

Spec == Init /\ [][Next]_vars /\ Fairness
-----------------------------------------------------------------------------
(* What the body with trailers still owes its task: the data of the body,   *)
(* then the trailers of the body and of the future, unless either fails.   *)
FutureLeft == IF trailers = <<>> THEN End ELSE Last(trailers)

FinalLeft(kept) ==
  LET final == OwedTrailers(kept, FutureLeft)
  IN IF FutureLeft = Failure \/ final = End THEN <<>> ELSE <<final>>

Left ==
  IF outcome # "open" \/ state = "Done" THEN <<>>
  ELSE IF state = "PollTrailers" THEN FinalLeft(prev)
  ELSE DataLeft(body) \o
         (IF CutShort(body) THEN <<>> ELSE FinalLeft(TrailersLeft(body)))

Fails ==
  \/ outcome = "error"
  \/ outcome = "open" /\ FutureLeft = Failure
  \/ outcome = "open" /\ state = "PollBody" /\ CutShort(body)

Stream == INSTANCE FrameStream WITH
  Frame <- AnyFrame, accepted <- returned \o Left,
  source <- IF Fails THEN "aborted" ELSE "finished"

\* A body with trailers is one stream: the data of the body, then one frame
\* with the trailers of the body and of the future, or no frame when neither
\* has any. An error of either is told, as the last result: its task discards it.
ImplementsStream == Stream!Spec

\* size_hint bounds what is still delivered, at every moment a caller may ask.
HintsAreSound == Sound(SizeHint, Left, Fails)

\* The task is not left asleep between the body and the future.
Finishes == <>(outcome # "open")

\* "Once the end of the stream is reached, implementations should continue to
\* return `Poll::Ready(None)`" (http-body/src/lib.rs:60).
EndIsRepeatable == ~panicked
=============================================================================
