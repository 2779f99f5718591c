-------------------------------- MODULE Fuse --------------------------------
(***************************************************************************)
(* Fuse, which drops the body it wraps when that ends or fails             *)
(* (http-body-util/src/combinators/fuse.rs). The body makes no promise:    *)
(* after None or an error it may give anything. The task trusts the Fuse   *)
(* and goes on polling, after an error too.                                *)
(***************************************************************************)
EXTENDS Wrapped

VARIABLE fuseInner    \* Fuse::inner: "Some" or "None", the body was dropped

\* Fuse::new: a body that is at its end is not kept.
FuseNew ==
  /\ Wraps("Fuse", Script)
  /\ fuseInner = IF InnerEnd THEN "None" ELSE "Some"

\* Mutant: an error does not end the body.
EosOfNone(r, rest) ==
  r = End \/ (IsFrame(r) /\ EndOf(rest, hinting))

\* Mutant: no bytes left are taken for no frames left.
EosOfHint(r, rest) ==
  \/ r \in {End, Failure}
  \/ IsFrame(r) /\ HintOf(rest, hinting) = Exactly(0)

\* None and errors end the body, a frame does when the body says it was the
\* last, Pending does not.
Eos(r, rest) ==
  \/ r \in {End, Failure}
  \/ IsFrame(r) /\ EndOf(rest, hinting)

FusePollFrame ==
  /\ task = "ready"
  /\ \/ /\ fuseInner = "Some"
        /\ PollWrapped(Poll(body))
        /\ fuseInner' = IF Eos(Poll(body), Rest(body)) THEN "None" ELSE "Some"
     \/ /\ fuseInner = "None"
        /\ Answer(End, End)
        /\ UNCHANGED <<wrappedVars, fuseInner>>

FuseIsEndStream == fuseInner = "None"

FuseSizeHint == IF fuseInner = "Some" THEN InnerHint ELSE Exactly(0)

-----------------------------------------------------------------------------
(* The frames a fused body owes its task are those of the body up to the    *)
(* first None or error, whatever the Fuse remembers of it.                 *)
FuseLeft == FramesLeft(body)

FuseFails == FailsLater(body)
=============================================================================
