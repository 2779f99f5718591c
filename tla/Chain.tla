------------------------------- MODULE Chain -------------------------------
(***************************************************************************)
(* Chain, one body after another (http-body-util/src/combinators/chain.rs) *)
(* polled by a task. The trailers of the first body are kept while the     *)
(* second is polled and merged with its own.                               *)
(***************************************************************************)
EXTENDS BodyTask

CONSTANTS
  FirstScript, SecondScript,   \* the bodies to chain
  Hints                        \* how much they hint, a subset of Hinting

ASSUME ScriptAssumption ==
  /\ FirstScript \cup SecondScript \subseteq Seq(Result)
  /\ \A s \in FirstScript \cup SecondScript : TrailersLast(s)
ASSUME HintsAssumption == Hints \subseteq Hinting

VARIABLES
  inner,            \* Chain::inner: "First", "Second" or "Finished"
  first, second,    \* what is left of the two bodies
  trailers,         \* Inner::Second::trailers: a trailers frame, End for none
  hinting           \* how much each of the two bodies hints

chainVars == <<inner, first, second, trailers, hinting>>
vars == <<chainVars, taskVars>>

TypeOK ==
  /\ TaskTypeOK
  /\ inner \in {"First", "Second", "Finished"}
  /\ first \in Seq(Result) /\ second \in Seq(Result)
  /\ trailers \in AnyFrame \cup {End}
  /\ hinting \in [{"first", "second"} -> Hints]

\* Chain::new
Init ==
  /\ TaskInit
  /\ inner = "First" /\ trailers = End
  /\ first \in FirstScript /\ second \in SecondScript
  /\ hinting \in [{"first", "second"} -> Hints]

\* Inner::Second, with the trailers of the first body: the trailers of both are
\* returned once the second is complete.
PollSecond(kept) ==
  LET r == Poll(second) IN
  /\ second' = Rest(second)
  /\ \/ /\ r = Pending \/ IsData(r)
        /\ inner' = "Second" /\ trailers' = kept
        /\ Answer(r, r)
     \/ /\ r = Failure
        /\ inner' = "Finished" /\ trailers' = End
        /\ Answer(r, r)
     \/ /\ r.kind \in {"end", "trailers"}
        /\ inner' = "Finished" /\ trailers' = End
        /\ Answer(Join(kept, r), r)
  /\ UNCHANGED hinting

\* Mutant: the task is asked to come back for the second body, by nobody.
FirstCompletesLater(r) ==
  /\ inner' = "Second" /\ trailers' = r
  /\ Answer(Pending, r)
  /\ UNCHANGED <<second, hinting>>

\* The first body is complete: the second is polled in the same call.
FirstCompletes(r) == PollSecond(r)

\* Inner::First: a data frame is returned, an error finishes the chain, the end
\* and the trailers complete the first body.
PollFirst ==
  LET r == Poll(first) IN
  /\ first' = Rest(first)
  /\ \/ /\ r = Pending \/ IsData(r)
        /\ Answer(r, r)
        /\ UNCHANGED <<inner, second, trailers, hinting>>
     \/ /\ r = Failure
        /\ inner' = "Finished"
        /\ Answer(r, r)
        /\ UNCHANGED <<second, trailers, hinting>>
     \/ /\ r.kind \in {"end", "trailers"}
        /\ FirstCompletes(r)

\* A task may poll on after an error, as the tests of chain.rs do (line 457).
PollFrame ==
  /\ task = "ready"
  /\ \/ inner = "First" /\ PollFirst
     \/ inner = "Second" /\ PollSecond(trailers) /\ UNCHANGED first
     \/ inner = "Finished" /\ Answer(End, End) /\ UNCHANGED chainVars

IsEndStream == inner = "Finished"

SizeHint ==
  CASE inner = "First" ->
         Plus(HintOf(first, hinting["first"]),
              HintOf(second, hinting["second"]))
    [] inner = "Second" -> HintOf(second, hinting["second"])
    [] inner = "Finished" -> Exactly(0)

Next ==
  \/ PollFrame
  \/ Wake /\ UNCHANGED chainVars
  \/ TaskDone /\ UNCHANGED chainVars

\* The executor runs a ready task, and what was pending becomes ready.
Fairness ==
  /\ WF_vars(outcome = "open" /\ PollFrame)
  /\ WF_vars(Wake /\ UNCHANGED chainVars)

Spec == Init /\ [][Next]_vars /\ Fairness
-----------------------------------------------------------------------------
(* The frames the chain still owes its task, and whether it will fail: the  *)
(* data of the first body, then the data of the second, then the trailers   *)
(* of both; an error ends it, and trailers complete a body.                *)

SecondLeft(kept) ==
  LET final == OwedTrailers(kept, TrailersLeft(second))
  IN DataLeft(second) \o
       (IF CutShort(second) \/ final = End THEN <<>> ELSE <<final>>)

Left ==
  CASE inner = "First" ->
         DataLeft(first) \o
           (IF CutShort(first) THEN <<>> ELSE SecondLeft(TrailersLeft(first)))
    [] inner = "Second" -> SecondLeft(trailers)
    [] inner = "Finished" -> <<>>

Fails ==
  CASE inner = "First" -> CutShort(first) \/ CutShort(second)
    [] inner = "Second" -> CutShort(second)
    [] inner = "Finished" -> outcome = "error"

Stream == INSTANCE FrameStream WITH
  Frame <- AnyFrame, accepted <- returned \o Left,
  source <- IF Fails THEN "aborted" ELSE "finished"

\* A chain is one stream: its frames are the data of the first body, the data
\* of the second and the merged trailers, in this order and once each, nothing
\* is returned after an error or an end, whatever the two bodies would give and
\* however long the task polls on.
ImplementsStream == Stream!Spec

\* size_hint bounds what the chain still delivers, is_end_stream is true only
\* when nothing is left, at every moment a caller may ask.
HintsAreSound ==
  /\ Sound(SizeHint, Left, Fails)
  /\ IsEndStream => Left = <<>> /\ (Fails => outcome = "error")

\* The task is not left asleep: bodies that end let the chain end.
Finishes == <>(outcome # "open")
=============================================================================
