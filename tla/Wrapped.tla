------------------------------ MODULE Wrapped ------------------------------
(***************************************************************************)
(* A body that wraps one other body, polled by a task: the state that Fuse, *)
(* Limited, TryFutureBody, the adapters and the leaves have in common. Each *)
(* of them has a module of its own; Wrappers puts them together.           *)
(***************************************************************************)
EXTENDS BodyTask

CONSTANTS
  Script,   \* the bodies to wrap
  Hints     \* how much they hint, a subset of Hinting

ASSUME ScriptAssumption == Script \subseteq Seq(Result)
ASSUME HintsAssumption == Hints \subseteq Hinting

VARIABLES
  wrapper,   \* which body this is
  body,      \* what is left of the body it wraps
  hinting    \* how much that body hints

wrappedVars == <<wrapper, body, hinting>>

\* Most wrappers rely on the contract, which they pass on.
Lawful == {s \in Script : Conforming(s)}

Wraps(name, bodies) ==
  /\ wrapper = name /\ body \in bodies /\ hinting \in Hints

\* The wrapped body is polled, and r is made of its result.
PollWrapped(r) ==
  /\ body' = Rest(body)
  /\ Answer(r, Poll(body))
  /\ UNCHANGED <<wrapper, hinting>>

InnerHint == HintOf(body, hinting)
InnerEnd == EndOf(body, hinting)
=============================================================================
