--------------------------- MODULE TryFutureBody ---------------------------
(***************************************************************************)
(* TryFutureBody, the body that a fallible future resolves to              *)
(* (http-body-util/src/future.rs). The task may poll on after the error of *)
(* a failed future: Inner::Failed is there to answer it.                   *)
(***************************************************************************)
EXTENDS Wrapped

CONSTANT Future    \* the futures: how often they are pending before they resolve

ASSUME FutureAssumption == Future \subseteq Nat

VARIABLES
  futureInner,   \* TryFutureBody::inner: "Future", "Body" or "Failed"
  pending,       \* how often the future is still pending
  resolves,      \* TRUE: the future resolves to the body, FALSE: to an error
  resolved       \* history: the future has resolved

futureVars == <<futureInner, pending, resolves, resolved>>

\* TryFutureBody::new
TryFutureBodyNew ==
  /\ Wraps("TryFutureBody", Lawful)
  /\ futureInner = "Future" /\ resolved = FALSE
  /\ pending \in Future /\ resolves \in BOOLEAN

\* Mutant: the body is left for the next call.
ResolveLater ==
  /\ futureInner' = "Body"
  /\ Answer(Pending, End)
  /\ UNCHANGED wrappedVars

\* The body is put into place and polled in the same call.
Resolve == futureInner' = "Body" /\ PollWrapped(Poll(body))

\* Mutant: the state is not changed by an error.
FailInPlace == Answer(Failure, Failure) /\ UNCHANGED <<futureInner, wrappedVars>>

\* The error is returned and there is no body.
Fail ==
  /\ futureInner' = "Failed"
  /\ Answer(Failure, Failure)
  /\ UNCHANGED wrappedVars

PollFuture ==
  \/ /\ pending > 0
     /\ pending' = pending - 1
     /\ Answer(Pending, Pending)
     /\ UNCHANGED <<wrappedVars, futureInner, resolved>>
  \/ /\ pending = 0
     /\ resolved' = TRUE
     /\ IF resolves THEN Resolve ELSE Fail
     /\ UNCHANGED pending

TryFutureBodyPollFrame ==
  /\ task = "ready" /\ (outcome = "error" => ~resolves)
  /\ \/ futureInner = "Future" /\ PollFuture
     \/ /\ futureInner = "Body"
        /\ PollWrapped(Poll(body))
        /\ UNCHANGED <<futureInner, pending, resolved>>
     \/ /\ futureInner = "Failed"
        /\ Answer(End, End)
        /\ UNCHANGED <<wrappedVars, futureInner, pending, resolved>>
  /\ UNCHANGED resolves

TryFutureBodyIsEndStream ==
  futureInner = "Failed" \/ (futureInner = "Body" /\ InnerEnd)

TryFutureBodySizeHint ==
  CASE futureInner = "Future" -> NoHint
    [] futureInner = "Body" -> InnerHint
    [] futureInner = "Failed" -> Exactly(0)

-----------------------------------------------------------------------------
(* The frames owed are those of the body, when the future resolves to one.  *)
TryFutureBodyLeft == IF resolves THEN FramesLeft(body) ELSE <<>>

TryFutureBodyFails == ~resolves \/ FailsLater(body)
=============================================================================
