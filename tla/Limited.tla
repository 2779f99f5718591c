------------------------------ MODULE Limited ------------------------------
(***************************************************************************)
(* Limited, which fails a body that exceeds a number of bytes              *)
(* (http-body-util/src/limited.rs). usize has the width of u64.            *)
(***************************************************************************)
EXTENDS Wrapped

CONSTANT Limits    \* the limits, a subset of U64

ASSUME LimitsAssumption == Limits \subseteq U64

VARIABLES
  remaining,   \* Limited::remaining
  limit        \* history: the limit given to new

limitedVars == <<remaining, limit>>

\* Limited::new
LimitedNew ==
  /\ Wraps("Limited", Lawful)
  /\ limit \in Limits /\ remaining = limit

\* Mutant: a frame that exceeds what remains only exhausts it.
TooLongFor0(r) == IsData(r) /\ r.size > 0 /\ remaining = 0

\* Mutant: the frame that reaches the limit exactly is refused.
TooLongAtLimit(r) == IsData(r) /\ r.size >= remaining

TooLong(r) == IsData(r) /\ r.size > remaining

\* Mutant: a frame that is let through is not counted.
AllowanceUncounted(r) == remaining

\* What remains after a frame that is let through.
Allowance(r) == remaining - SizeOf(r)

\* A data frame that exceeds what remains is replaced by LengthLimitError.
LimitedPollFrame ==
  LET r == Poll(body) IN
  /\ MayPoll
  /\ \/ TooLong(r) /\ remaining' = 0 /\ PollWrapped(Failure)
     \/ ~TooLong(r) /\ remaining' = Allowance(r) /\ PollWrapped(r)
  /\ UNCHANGED limit

LimitedIsEndStream == InnerEnd

\* Mutant: the lower bound of the body is not checked against the limit.
LimitedSizeHintUnchecked ==
  WithUpper(InnerHint, Min(InnerHint.upper \cup {remaining}))

\* The hint of the body, cut at what remains.
LimitedSizeHint ==
  IF InnerHint.lower >= remaining THEN Exactly(remaining)
  ELSE WithUpper(InnerHint, Min(InnerHint.upper \cup {remaining}))

-----------------------------------------------------------------------------
(* The frames a limited body owes its task: those of the body while all     *)
(* their bytes together are within the limit, then an error if it has more. *)

Within(frames) ==
  {n \in 0..Len(frames) :
     Bytes(returned) + Bytes(SubSeq(frames, 1, n)) <= limit}

LimitedLeft ==
  LET frames == FramesLeft(body) IN SubSeq(frames, 1, Max(Within(frames)))

LimitedFails == FailsLater(body) \/ LimitedLeft # FramesLeft(body)
=============================================================================
