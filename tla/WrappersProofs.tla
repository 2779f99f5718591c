--------------------------- MODULE WrappersProofs ---------------------------
(***************************************************************************)
(* What every wrapper, adapter and leaf body promises, for every set of    *)
(* bodies, every future and every hint: what Fuse and TryFutureBody poll,   *)
(* what a Limited still allows, the stream of frames that each of them is,  *)
(* and that its hints are sound for what is left of it.                    *)
(***************************************************************************)
EXTENDS Wrappers, BodiesProofs

-----------------------------------------------------------------------------
(* Types. The loop of BodyDataStream stops within its body.                *)

LEMMA DataPollsType ==
  ASSUME NEW s \in Seq(Result)
  PROVE  DataPolls(s) \in 1..(Len(s) + 1)
<1> DEFINE others == {i \in DOMAIN s : s[i].kind # "trailers"}
<1>1. others \subseteq 1..Len(s) /\ Len(s) \in Nat
  BY LenProperties
<1>2. CASE others = {}
  BY <1>1, <1>2 DEF DataPolls
<1>3. CASE others # {}
  <2>1. Min(others) \in others
    <3>1. others \subseteq Nat
      BY <1>1
    <3> HIDE DEF others
    <3> QED BY <3>1, <1>3, LeastOfSome
  <2> QED BY <1>1, <1>3, <2>1 DEF DataPolls
<1> QED BY <1>2, <1>3

\* What a task keeps of an answer has its type.
LEMMA AnswerTypes ==
  ASSUME TaskTypeOK, NEW r, NEW last, Answer(r, last),
         IsFrame(r) => r \in AnyFrame
  PROVE  TaskTypeOK'
<1>1. returned' \in Seq(AnyFrame)
  BY AppendProperties DEF TaskTypeOK, Answer
<1>2. outcome' \in {"open", "end", "error"}
  BY ResultsDiffer DEF TaskTypeOK, Answer
<1> QED BY <1>1, <1>2 DEF TaskTypeOK, Answer

\* What a wrapper makes of a result of its body.
LEMMA WrappedTypes ==
  ASSUME TypeOK, NEW r, PollWrapped(r), IsFrame(r) => r \in AnyFrame
  PROVE  TaskTypeOK' /\ body' \in Seq(Result) /\ hinting' \in Hints
BY ScriptTypes, AnswerTypes DEF TypeOK, PollWrapped

LEMMA ForwardedTypes ==
  ASSUME TypeOK, PollWrapped(Poll(body))
  PROVE  TaskTypeOK' /\ body' \in Seq(Result) /\ hinting' \in Hints
BY WrappedTypes, ScriptTypes, ResultKinds DEF TypeOK

\* A result without a frame leaves the body where it was.
LEMMA UntouchedTypes ==
  ASSUME TypeOK, NEW r, NEW last, Answer(r, last), ~IsFrame(r),
         UNCHANGED wrappedVars
  PROVE  TaskTypeOK' /\ body' \in Seq(Result) /\ hinting' \in Hints
BY AnswerTypes DEF TypeOK, wrappedVars

LEMMA InitTypes == Init => TypeOK
<1> SUFFICES ASSUME Init PROVE TypeOK
  OBVIOUS
<1>1. TaskTypeOK
  BY EmptySeq DEF Init, TaskInit, TaskTypeOK
<1>2. body \in Seq(Result) /\ hinting \in Hints
  <2>1. \A name : Wraps(name, Script) \/ Wraps(name, Lawful) =>
                     body \in Seq(Result) /\ hinting \in Hints
    BY ScriptAssumption DEF Wraps, Lawful
  <2>2. FuseNew \/ LimitedNew \/ TryFutureBodyNew \/ AdapterNew =>
          body \in Seq(Result) /\ hinting \in Hints
    BY <2>1 DEF FuseNew, LimitedNew, TryFutureBodyNew, AdapterNew
  <2>3. \A f \in Result : <<f>> \in Seq(Result)
    OBVIOUS
  <2>4. <<>> \in Seq(Result) /\ DataFrame \subseteq Result /\ Failure \in Result
    BY EmptySeq DEF Result
  <2>5. LeafNew \/ PendingNew \/ ErrorBodyNew =>
          body \in Seq(Result) /\ hinting \in Hints
    BY <2>3, <2>4 DEF LeafNew, PendingNew, ErrorBodyNew, Wraps
  <2> QED BY <2>2, <2>5 DEF Init
<1>3. fuseInner \in {"Some", "None"}
  BY DEF Init, FuseNew, NoFuse
<1>4. remaining \in U64 /\ limit \in U64
  <2>1. NoLimited => remaining \in U64 /\ limit \in U64
    BY WidthAssumption DEF NoLimited, U64
  <2>2. LimitedNew => remaining \in U64 /\ limit \in U64
    BY LimitsAssumption DEF LimitedNew
  <2> QED BY <2>1, <2>2 DEF Init
<1>5. /\ futureInner \in {"Future", "Body", "Failed"}
      /\ pending \in Nat /\ resolves \in BOOLEAN /\ resolved \in BOOLEAN
  <2> DEFINE Typed ==
        /\ futureInner \in {"Future", "Body", "Failed"}
        /\ pending \in Nat /\ resolves \in BOOLEAN /\ resolved \in BOOLEAN
  <2>1. NoFuture => Typed
    <3>1. NoFuture => pending \in Nat
      BY DEF NoFuture
    <3> QED BY <3>1, Zenon DEF NoFuture
  <2>2. TryFutureBodyNew => Typed
    BY FutureAssumption DEF TryFutureBodyNew
  <2> QED BY <2>1, <2>2 DEF Init
<1> QED BY <1>1, <1>2, <1>3, <1>4, <1>5 DEF TypeOK

LEMMA FuseTypes ==
  ASSUME TypeOK, FusePollFrame, UNCHANGED <<limitedVars, futureVars>>
  PROVE  TypeOK'
<1>1. TaskTypeOK' /\ body' \in Seq(Result) /\ hinting' \in Hints
  BY ForwardedTypes, UntouchedTypes, ResultsDiffer DEF FusePollFrame
<1>2. fuseInner' \in {"Some", "None"}
  BY DEF FusePollFrame, TypeOK
<1> QED BY <1>1, <1>2 DEF TypeOK, limitedVars, futureVars

LEMMA LimitedTypes ==
  ASSUME TypeOK, LimitedPollFrame, UNCHANGED <<fuseInner, futureVars>>
  PROVE  TypeOK'
<1>1. TaskTypeOK' /\ body' \in Seq(Result) /\ hinting' \in Hints
  BY ForwardedTypes, WrappedTypes, ResultsDiffer DEF LimitedPollFrame
<1>2. remaining' \in U64
  <2>1. Poll(body) \in Result
    BY ScriptTypes DEF TypeOK
  <2>2. IsData(Poll(body)) => Poll(body).size \in U64
    BY <2>1, ResultKinds, FrameTypes
  <2>3. ~TooLong(Poll(body)) => Allowance(Poll(body)) \in U64
    BY <2>2, WidthAssumption DEF TypeOK, TooLong, Allowance, SizeOf, U64
  <2> QED BY <2>3, WidthAssumption DEF LimitedPollFrame, U64
<1> QED BY <1>1, <1>2 DEF TypeOK, LimitedPollFrame, futureVars

LEMMA TryFutureBodyTypes ==
  ASSUME TypeOK, TryFutureBodyPollFrame, UNCHANGED <<fuseInner, limitedVars>>
  PROVE  TypeOK'
<1>1. TaskTypeOK' /\ body' \in Seq(Result) /\ hinting' \in Hints
  BY ForwardedTypes, UntouchedTypes, ResultsDiffer
  DEF TryFutureBodyPollFrame, PollFuture, Resolve, Fail
<1>2. futureInner' \in {"Future", "Body", "Failed"}
  BY DEF TypeOK, TryFutureBodyPollFrame, PollFuture, Resolve, Fail
<1>3. pending' \in Nat /\ resolves' \in BOOLEAN /\ resolved' \in BOOLEAN
  <2>1. pending \in Nat /\ resolves \in BOOLEAN /\ resolved \in BOOLEAN
    BY DEF TypeOK
  <2>2. resolves' = resolves
    BY DEF TryFutureBodyPollFrame
  <2>3. resolved' = resolved \/ resolved' = TRUE
    BY DEF TryFutureBodyPollFrame, PollFuture
  <2>4. pending' = pending \/ (pending > 0 /\ pending' = pending - 1)
    BY DEF TryFutureBodyPollFrame, PollFuture
  <2>5. pending' \in Nat
    BY <2>1, <2>4
  <2>6. resolves' \in BOOLEAN /\ resolved' \in BOOLEAN
    BY <2>1, <2>2, <2>3, Zenon
  <2> QED BY <2>5, <2>6
<1> QED BY <1>1, <1>2, <1>3 DEF TypeOK, limitedVars

LEMMA AdapterTypes ==
  ASSUME TypeOK, AdapterPollFrame,
         UNCHANGED <<fuseInner, limitedVars, futureVars>>
  PROVE  TypeOK'
<1>1. TaskTypeOK' /\ body' \in Seq(Result) /\ hinting' \in Hints
  <2>1. CASE MapFrame
    <3>1. IsFrame(Poll(body)) => MapF[Poll(body)] \in AnyFrame
      BY ScriptTypes, FrameTypes, MapFAssumption, ResultsDiffer
      DEF TypeOK, Result
    <3> QED BY <2>1, <3>1, WrappedTypes DEF MapFrame
  <2>2. CASE BodyDataStream
    <3> DEFINE n == DataPolls(body)
               last == Poll(SubSeq(body, n, Len(body)))
    <3>1. n \in 1..(Len(body) + 1) /\ Len(body) \in Nat
      BY DataPollsType, LenProperties DEF TypeOK
    <3>2. /\ SubSeq(body, n, Len(body)) \in Seq(Result)
          /\ SubSeq(body, n + 1, Len(body)) \in Seq(Result)
      <4> HIDE DEF n
      <4> QED BY <3>1, SubSeqProperties, ElementOfSeq DEF TypeOK
    <3>3. last \in Result
      BY <3>2, ScriptTypes
    <3>4. IsFrame(IF last.kind = "trailers" THEN Pending ELSE last) =>
            (IF last.kind = "trailers" THEN Pending ELSE last) \in AnyFrame
      BY <3>3, ResultKinds, ResultsDiffer
    <3>5. /\ body' = SubSeq(body, n + 1, Len(body))
          /\ Answer(IF last.kind = "trailers" THEN Pending ELSE last, last)
          /\ UNCHANGED hinting
      BY <2>2 DEF BodyDataStream
    <3> HIDE DEF n, last
    <3> QED BY <3>2, <3>4, <3>5, AnswerTypes DEF TypeOK
  <2>3. CASE Empty \/ PendingForEver
    BY <2>3, UntouchedTypes, ResultsDiffer DEF Empty, PendingForEver
  <2>4. CASE PollWrapped(Poll(body))
    BY <2>4, ForwardedTypes
  <2> QED BY <2>1, <2>2, <2>3, <2>4
    DEF AdapterPollFrame, MapErr, InspectFrame, InspectErr, Either, BoxBody, Forwarded, Pointing,
      StreamBody, BodyStream, Full, String, ErrorBody
<1> QED BY <1>1 DEF TypeOK, limitedVars, futureVars

LEMMA NextTypes == TypeOK /\ [Next]_vars => TypeOK'
<1> SUFFICES ASSUME TypeOK, [Next]_vars PROVE TypeOK'
  OBVIOUS
<1>1. CASE PollFrame
  BY <1>1, FuseTypes, LimitedTypes, TryFutureBodyTypes, AdapterTypes
  DEF PollFrame
<1>2. CASE Wake /\ UNCHANGED innerVars
  BY <1>2 DEF Wake, innerVars, wrappedVars, limitedVars, futureVars,
    TypeOK, TaskTypeOK
<1>3. CASE UNCHANGED vars
  BY <1>3 DEF vars, innerVars, wrappedVars, limitedVars, futureVars, taskVars,
    TypeOK, TaskTypeOK
<1> QED BY <1>1, <1>2, <1>3 DEF Next, Hangs, TaskDone, vars

\* Every variable of a wrapper keeps its type; above all, what a Limited still
\* allows is never less than nothing.
THEOREM WrappersTypes == Spec => []TypeOK
<1> QED BY InitTypes, NextTypes, PTL DEF Spec

-----------------------------------------------------------------------------
(* The body of a Fuse. It is dropped in the call that finds its end, so what *)
(* the Fuse holds has not ended, but for a body that was pending last and   *)
(* says now that it has.                                                   *)

FuseInv ==
  wrapper = "Fuse" =>
    /\ outcome # "open" => fuseInner = "None"
    /\ InnerEnd /\ ~woken => fuseInner = "None"

LEMMA FuseStep ==
  ASSUME TypeOK, FuseInv, FusePollFrame, wrapper = "Fuse"
  PROVE  FuseInv'
<1> DEFINE r == Poll(body)
<1>1. CASE fuseInner = "Some"
  <2>1. /\ body' = Rest(body) /\ hinting' = hinting /\ Answer(r, r)
        /\ fuseInner' = IF Eos(r, Rest(body)) THEN "None" ELSE "Some"
    BY <1>1 DEF FusePollFrame, PollWrapped
  <2>2. r \in Result
    BY ScriptTypes DEF TypeOK
  <2>3. outcome = "open"
    BY <1>1 DEF FuseInv
  <2>4. outcome' # "open" => Eos(r, Rest(body))
    BY <2>1, <2>3 DEF Answer, Eos
  <2>5. InnerEnd' /\ ~woken' => Eos(r, Rest(body))
    <3>1. InnerEnd' = EndOf(Rest(body), hinting)
      BY <2>1 DEF InnerEnd
    <3>2. ~woken' => r # Pending
      BY <2>1 DEF Answer
    <3> QED BY <2>2, <3>1, <3>2, ResultKinds DEF Eos
  <2> QED BY <2>1, <2>4, <2>5 DEF FuseInv
<1>2. CASE fuseInner = "None"
  BY <1>2 DEF FusePollFrame, FuseInv
<1> QED BY <1>1, <1>2 DEF TypeOK

LEMMA FuseInvariance == Spec => []FuseInv
<1>1. Init => FuseInv
  BY DEF Init, TaskInit, FuseNew, LimitedNew, TryFutureBodyNew, AdapterNew,
    LeafNew, PendingNew, ErrorBodyNew, Wraps, NoFuse, FuseInv
<1>2. TypeOK /\ FuseInv /\ [Next]_vars => FuseInv'
  <2> SUFFICES ASSUME TypeOK, FuseInv, [Next]_vars PROVE FuseInv'
    OBVIOUS
  <2>1. CASE wrapper = "Fuse" /\ FusePollFrame
    BY <2>1, FuseStep
  <2>2. CASE wrapper # "Fuse" /\ PollFrame
    <3>1. wrapper' = wrapper
      BY <2>2 DEF PollFrame, LimitedPollFrame, TryFutureBodyPollFrame,
        PollFuture, Resolve, Fail, AdapterPollFrame, MapErr, InspectFrame,
        InspectErr, Either, BoxBody, Forwarded, Pointing, StreamBody, BodyStream, MapFrame,
        BodyDataStream, Full, Empty, String, PendingForEver, ErrorBody,
        PollWrapped, wrappedVars
    <3> QED BY <2>2, <3>1 DEF FuseInv
  <2>3. CASE /\ wrapper' = wrapper /\ body' = body /\ hinting' = hinting
             /\ fuseInner' = fuseInner /\ outcome' = outcome /\ woken' = woken
    BY <2>3 DEF FuseInv, InnerEnd
  <2>4. wrapper = "Fuse" /\ PollFrame => FusePollFrame
    BY DEF PollFrame, AdapterPollFrame, MapErr, InspectFrame, InspectErr,
      Either, BoxBody, Forwarded, Pointing, StreamBody, BodyStream, MapFrame, BodyDataStream, Full,
      Empty, String, PendingForEver, ErrorBody
  <2> QED BY <2>1, <2>2, <2>3, <2>4
    DEF Next, Hangs, TaskDone, Wake, vars, innerVars, wrappedVars, taskVars
<1> QED BY <1>1, <1>2, WrappersTypes, PTL DEF Spec

\* A Fuse leaves its body alone once that has ended, whatever body it is, and
\* however long the task polls on.
THEOREM FuseIsDone == Spec => NeverPolledAgain
<1> DEFINE Over == wrapper = "Fuse" /\ (outcome # "open" \/ (InnerEnd /\ ~woken))
<1>1. TypeOK /\ FuseInv /\ [Next]_vars => [Over => UNCHANGED body]_vars
  <2> SUFFICES ASSUME FuseInv, Next, Over PROVE UNCHANGED body
    OBVIOUS
  <2>1. fuseInner = "None"
    BY DEF FuseInv
  <2>2. CASE PollFrame
    BY <2>1, <2>2 DEF PollFrame, FusePollFrame, wrappedVars, AdapterPollFrame,
      MapErr, InspectFrame, InspectErr, Either, BoxBody, Forwarded, Pointing, StreamBody,
      BodyStream, MapFrame, BodyDataStream, Full, Empty, String,
      PendingForEver, ErrorBody
  <2> QED BY <2>2 DEF Next, Hangs, vars, innerVars, wrappedVars
<1> QED BY <1>1, WrappersTypes, FuseInvariance, PTL DEF Spec, NeverPolledAgain

-----------------------------------------------------------------------------
(* The future of a TryFutureBody.                                          *)

\* The state says whether the future has resolved, and to what.
FutureInv ==
  wrapper = "TryFutureBody" =>
    /\ resolved <=> futureInner # "Future"
    /\ futureInner = "Body" => resolves
    /\ futureInner = "Failed" => ~resolves

\* A TryFutureBody never polls its future again after it resolved, nor forgets
\* whether there is a body.
THEOREM FutureResolvesOnce == Spec => []ResolvesOnce
<1>1. Init => FutureInv
  BY DEF Init, FuseNew, LimitedNew, TryFutureBodyNew, AdapterNew,
    LeafNew, PendingNew, ErrorBodyNew, Wraps, Forwarding, Pointing, Streaming, Leaf,
    FutureInv
<1>2. TypeOK /\ FutureInv /\ [Next]_vars => FutureInv'
  <2> SUFFICES ASSUME TypeOK, FutureInv, [Next]_vars PROVE FutureInv'
    OBVIOUS
  <2>1. CASE wrapper = "TryFutureBody" /\ TryFutureBodyPollFrame
    BY <2>1 DEF TryFutureBodyPollFrame, PollFuture, Resolve, Fail,
      PollWrapped, wrappedVars, FutureInv
  <2>2. CASE wrapper' = wrapper /\ UNCHANGED futureVars
    BY <2>2 DEF futureVars, FutureInv
  <2>3. CASE PollFrame /\ ~(wrapper = "TryFutureBody" /\ TryFutureBodyPollFrame)
    <3>1. wrapper' = wrapper /\ UNCHANGED futureVars
      BY <2>3 DEF PollFrame, FusePollFrame, LimitedPollFrame,
        AdapterPollFrame, MapErr, InspectFrame, InspectErr, Either, BoxBody, Forwarded, Pointing,
        StreamBody, BodyStream, MapFrame, BodyDataStream, Full, Empty, String,
        PendingForEver, ErrorBody, PollWrapped, wrappedVars
    <3> QED BY <2>2, <3>1
  <2> QED BY <2>1, <2>2, <2>3
    DEF Next, Hangs, TaskDone, Wake, vars, innerVars, wrappedVars
<1>3. TypeOK /\ FutureInv => ResolvesOnce
  BY DEF TypeOK, FutureInv, ResolvesOnce
<1> QED BY <1>1, <1>2, <1>3, WrappersTypes, PTL DEF Spec

-----------------------------------------------------------------------------
(* The bytes of a Limited.                                                 *)

LEMMA LimitedStep ==
  ASSUME TypeOK, wrapper = "Limited", LimitedPollFrame,
         remaining + Bytes(returned) = limit, outcome' # "error"
  PROVE  remaining' + Bytes(returned') = limit'
<1> DEFINE r == Poll(body)
<1>1. /\ r \in Result /\ returned \in Seq(AnyFrame)
      /\ remaining \in Nat /\ limit \in Nat
  BY ScriptTypes, WidthAssumption DEF TypeOK, TaskTypeOK, U64
<1>2. Bytes(returned) \in Nat
  BY <1>1, BytesType
<1>3. ~TooLong(r)
  BY ResultsDiffer DEF LimitedPollFrame, PollWrapped, Answer
<1>4. /\ remaining' = remaining - SizeOf(r) /\ limit' = limit
      /\ returned' = IF IsFrame(r) THEN Append(returned, r) ELSE returned
  BY <1>3 DEF LimitedPollFrame, PollWrapped, Answer, Allowance
<1>5. CASE IsFrame(r)
  <2>1. r \in AnyFrame
    BY <1>1, <1>5, ResultKinds
  <2>2. Bytes(returned') = Bytes(returned) + SizeOf(r) /\ SizeOf(r) \in Nat
    BY <1>1, <1>4, <1>5, <2>1, BytesAppend, SizeOfType
  <2> QED BY <1>1, <1>2, <1>4, <2>2
<1>6. CASE ~IsFrame(r)
  <2>1. SizeOf(r) = 0
    BY <1>6 DEF SizeOf, IsData, IsFrame
  <2> QED BY <1>1, <1>2, <1>4, <1>6, <2>1
<1> QED BY <1>5, <1>6

\* What a Limited still allows is what the limit leaves of what it returned.
LimitInv ==
  wrapper = "Limited" /\ outcome # "error" => remaining + Bytes(returned) = limit

LEMMA LimitInvariance == Spec => []LimitInv
<1>1. Init => LimitInv
  <2> SUFFICES ASSUME Init, wrapper = "Limited" PROVE LimitInv
    BY DEF LimitInv
  <2>1. LimitedNew
    BY DEF Init, FuseNew, TryFutureBodyNew, AdapterNew, LeafNew, PendingNew,
      ErrorBodyNew, Wraps, Forwarding, Pointing, Streaming, Leaf
  <2>2. remaining = limit /\ limit \in Nat /\ returned = <<>>
    BY <2>1, LimitsAssumption, WidthAssumption
    DEF LimitedNew, Init, TaskInit, U64
  <2> QED BY <2>2, NoBytes DEF LimitInv
<1>2. TypeOK /\ LimitInv /\ [Next]_vars => LimitInv'
  <2> SUFFICES ASSUME TypeOK, LimitInv, [Next]_vars PROVE LimitInv'
    OBVIOUS
  <2>1. CASE wrapper = "Limited" /\ LimitedPollFrame
    <3>1. outcome # "error" /\ wrapper' = wrapper
      BY <2>1 DEF LimitedPollFrame, MayPoll, PollWrapped
    <3> QED BY <2>1, <3>1, LimitedStep DEF LimitInv
  <2>2. CASE /\ wrapper' = wrapper /\ returned' = returned /\ outcome' = outcome
             /\ remaining' = remaining /\ limit' = limit
    BY <2>2 DEF LimitInv
  <2>3. CASE wrapper # "Limited" /\ PollFrame
    <3>1. wrapper' = wrapper
      BY <2>3 DEF PollFrame, FusePollFrame, TryFutureBodyPollFrame, PollFuture,
        Resolve, Fail, AdapterPollFrame, MapErr, InspectFrame, InspectErr,
        Either, BoxBody, Forwarded, Pointing, StreamBody, BodyStream, MapFrame, BodyDataStream,
        Full, Empty, String, PendingForEver, ErrorBody, PollWrapped,
        wrappedVars
    <3> QED BY <2>3, <3>1 DEF LimitInv
  <2>4. wrapper = "Limited" /\ PollFrame => LimitedPollFrame
    BY DEF PollFrame, AdapterPollFrame, MapErr, InspectFrame, InspectErr,
      Either, BoxBody, Forwarded, Pointing, StreamBody, BodyStream, MapFrame, BodyDataStream, Full,
      Empty, String, PendingForEver, ErrorBody
  <2> QED BY <2>1, <2>2, <2>3, <2>4
    DEF Next, Hangs, TaskDone, Wake, vars, innerVars, wrappedVars, limitedVars,
      taskVars
<1> QED BY <1>1, <1>2, WrappersTypes, PTL DEF Spec

\* A Limited fails in the calls in which its body fails or would take the task above
\* the limit and in no other, whatever the limit and however the bytes are cut
\* into frames. (Limited::poll_frame)
THEOREM LimitedIsExact == Spec => LimitIsExact
<1> DEFINE r == Poll(body)
           Over == Bytes(returned) + SizeOf(r) > limit
<1>1. TypeOK /\ LimitInv /\ [Next]_vars =>
        [wrapper = "Limited" /\ PollFrame =>
           (outcome' = "error" <=> r = Failure \/ Over)]_vars
  <2> SUFFICES ASSUME TypeOK, LimitInv, wrapper = "Limited", LimitedPollFrame
               PROVE  outcome' = "error" <=> r = Failure \/ Over
    BY DEF PollFrame, AdapterPollFrame, MapErr, InspectFrame, InspectErr,
      Either, BoxBody, Forwarded, Pointing, StreamBody, BodyStream, MapFrame,
      BodyDataStream, Full, Empty, String, PendingForEver, ErrorBody
  <2>1. outcome # "error" /\ remaining + Bytes(returned) = limit
    BY DEF LimitInv, LimitedPollFrame, MayPoll
  <2>2. /\ r \in Result /\ returned \in Seq(AnyFrame)
        /\ remaining \in Nat /\ limit \in Nat
    BY ScriptTypes, WidthAssumption DEF TypeOK, TaskTypeOK, U64
  <2>3. Bytes(returned) \in Nat
    BY <2>2, BytesType
  <2>4. CASE TooLong(r)
    <3>1. IsData(r) /\ SizeOf(r) = r.size /\ r.size > remaining
      BY <2>4 DEF TooLong, SizeOf
    <3>2. r.size \in Nat
      BY <2>2, <3>1, ResultKinds, FrameTypes, WidthAssumption DEF U64
    <3>3. Over
      BY <2>1, <2>2, <2>3, <3>1, <3>2
    <3>4. outcome' = "error"
      BY <2>4, ResultsDiffer DEF LimitedPollFrame, PollWrapped, Answer
    <3> QED BY <3>3, <3>4
  <2>5. CASE ~TooLong(r)
    <3>1. SizeOf(r) \in Nat /\ SizeOf(r) <= remaining
      <4>1. CASE IsData(r)
        <5>1. r.size \in Nat
          BY <2>2, <4>1, ResultKinds, FrameTypes, WidthAssumption DEF U64
        <5> QED BY <2>2, <2>5, <4>1, <5>1 DEF TooLong, SizeOf
      <4>2. CASE ~IsData(r)
        BY <2>2, <4>2 DEF SizeOf
      <4> QED BY <4>1, <4>2
    <3>2. ~Over
      BY <2>1, <2>2, <2>3, <3>1
    <3>3. Answer(r, r)
      BY <2>5 DEF LimitedPollFrame, PollWrapped
    <3>4. outcome' = "error" <=> r = Failure
      BY <2>1, <3>3, ResultsDiffer DEF Answer
    <3> QED BY <3>2, <3>4
  <2> QED BY <2>4, <2>5
<1> QED BY <1>1, WrappersTypes, LimitInvariance, PTL DEF Spec, LimitIsExact

-----------------------------------------------------------------------------
(* The frames that fit into a limit.                                       *)

Fits(frames, room) ==
  {n \in 0..Len(frames) : Bytes(SubSeq(frames, 1, n)) <= room}

Cut(frames, room) == SubSeq(frames, 1, Max(Fits(frames, room)))

\* A prefix has no more bytes than the whole.
LEMMA BytesOfPrefix ==
  ASSUME NEW s \in Seq(AnyFrame), NEW n \in 0..Len(s)
  PROVE  /\ SubSeq(s, 1, n) \in Seq(AnyFrame)
         /\ Bytes(SubSeq(s, 1, n)) \in Nat
         /\ Bytes(SubSeq(s, 1, n)) <= Bytes(s)
<1> DEFINE a == SubSeq(s, 1, n)
           b == SubSeq(s, n + 1, Len(s))
<1>1. Len(s) \in Nat /\ \A i \in 1..Len(s) : s[i] \in AnyFrame
  BY LenProperties, ElementOfSeq
<1>2. /\ a \in Seq(AnyFrame) /\ Len(a) = n
      /\ \A i \in 1..n : a[i] = s[i]
  <2>1. \A i \in 1..n : s[i] \in AnyFrame
    BY <1>1
  <2>2. /\ a \in Seq(AnyFrame) /\ Len(a) = IF 1 <= n THEN n - 1 + 1 ELSE 0
        /\ \A i \in 1..(n - 1 + 1) : a[i] = s[1 + i - 1]
    BY <2>1, SubSeqProperties
  <2> HIDE DEF a
  <2> QED BY <2>2
<1>3. /\ b \in Seq(AnyFrame) /\ Len(b) = Len(s) - n
      /\ \A i \in 1..(Len(s) - n) : b[i] = s[n + i]
  <2>1. \A i \in (n + 1)..Len(s) : s[i] \in AnyFrame
    BY <1>1
  <2>2. /\ b \in Seq(AnyFrame)
        /\ Len(b) = IF n + 1 <= Len(s) THEN Len(s) - (n + 1) + 1 ELSE 0
        /\ \A i \in 1..(Len(s) - (n + 1) + 1) : b[i] = s[(n + 1) + i - 1]
    BY <1>1, <2>1, SubSeqProperties
  <2> HIDE DEF b
  <2> QED BY <1>1, <2>2
<1> HIDE DEF a, b
<1>4. a \o b = s
  <2>1. /\ a \o b \in Seq(AnyFrame) /\ Len(a \o b) = Len(s)
        /\ \A i \in 1..Len(s) :
             (a \o b)[i] = IF i <= n THEN a[i] ELSE b[i - n]
    BY <1>1, <1>2, <1>3, ConcatProperties
  <2>2. \A i \in 1..Len(s) : (a \o b)[i] = s[i]
    BY <1>1, <1>2, <1>3, <2>1
  <2> QED BY <2>1, <2>2, SeqEqual
<1>5. Bytes(s) = Bytes(a) + Bytes(b)
  BY <1>2, <1>3, <1>4, BytesConcat
<1>6. Bytes(a) \in Nat /\ Bytes(b) \in Nat
  BY <1>2, <1>3, BytesType
<1>7. Bytes(a) <= Bytes(s)
  BY <1>5, <1>6
<1> QED BY <1>2, <1>6, <1>7 DEF a

\* What is cut fits, and is not more than there was.
LEMMA CutFits ==
  ASSUME NEW s \in Seq(AnyFrame), NEW room \in Nat
  PROVE  /\ Max(Fits(s, room)) \in Fits(s, room)
         /\ \A n \in Fits(s, room) : n <= Max(Fits(s, room))
         /\ Cut(s, room) \in Seq(AnyFrame)
         /\ Bytes(Cut(s, room)) \in Nat
         /\ Bytes(Cut(s, room)) <= room
         /\ Bytes(Cut(s, room)) <= Bytes(s)
<1>1. Len(s) \in Nat
  BY LenProperties
<1>2. 0 \in Fits(s, room)
  <2>1. SubSeq(s, 1, 0) = <<>>
    BY SubSeqEmpty
  <2>2. Bytes(SubSeq(s, 1, 0)) = 0
    BY <2>1, NoBytes, Zenon
  <2> QED BY <1>1, <2>2 DEF Fits
<1>3. /\ Max(Fits(s, room)) \in Fits(s, room)
      /\ \A n \in Fits(s, room) : n <= Max(Fits(s, room))
  <2>1. Fits(s, room) \subseteq 0..Len(s)
    BY DEF Fits
  <2> QED BY <1>1, <1>2, <2>1, MostOfSome
<1>4. Max(Fits(s, room)) \in 0..Len(s) /\ Bytes(Cut(s, room)) <= room
  BY <1>3 DEF Fits, Cut
<1> QED BY <1>3, <1>4, BytesOfPrefix DEF Cut

LEMMA NothingCut ==
  ASSUME NEW room \in Nat
  PROVE  Cut(<<>>, room) = <<>>
<1>1. <<>> \in Seq(AnyFrame) /\ Len(<<>>) = 0
  BY EmptySeq
<1>2. Max(Fits(<<>>, room)) \in 0..0
  BY <1>1, CutFits DEF Fits
<1>3. Max(Fits(<<>>, room)) = 0
  BY <1>2
<1> QED BY <1>3, SubSeqEmpty DEF Cut

\* A first frame is let through and makes less room, or nothing is.
LEMMA CutUnfolds ==
  ASSUME NEW f \in AnyFrame, NEW rest \in Seq(AnyFrame), NEW room \in Nat
  PROVE  /\ SizeOf(f) <= room =>
              Cut(<<f>> \o rest, room) = <<f>> \o Cut(rest, room - SizeOf(f))
         /\ SizeOf(f) > room => Cut(<<f>> \o rest, room) = <<>>
<1> DEFINE s == <<f>> \o rest
           m == Len(rest)
<1>1. /\ <<f>> \in Seq(AnyFrame) /\ Len(<<f>>) = 1 /\ <<f>>[1] = f
      /\ s \in Seq(AnyFrame) /\ Len(s) = m + 1 /\ m \in Nat
      /\ s[1] = f /\ \A i \in 1..m : s[i + 1] = rest[i]
  <2>1. <<f>> \in Seq(AnyFrame) /\ Len(<<f>>) = 1 /\ <<f>>[1] = f /\ m \in Nat
    BY LenProperties
  <2>2. /\ s \in Seq(AnyFrame) /\ Len(s) = 1 + m
        /\ \A i \in 1..(1 + m) : s[i] = IF i <= 1 THEN <<f>>[i] ELSE rest[i - 1]
    BY <2>1, ConcatProperties
  <2>3. \A i \in 1..m : i + 1 \in 1..(1 + m) /\ ~(i + 1 <= 1) /\ (i + 1) - 1 = i
    BY <2>1
  <2> HIDE DEF s, m
  <2> QED BY <2>1, <2>2, <2>3
<1>2. ASSUME NEW j \in 0..m
      PROVE  SubSeq(s, 1, j + 1) = <<f>> \o SubSeq(rest, 1, j)
  <2> DEFINE p == SubSeq(rest, 1, j)
             q == SubSeq(s, 1, j + 1)
  <2>1. /\ p \in Seq(AnyFrame) /\ Len(p) = j
        /\ \A i \in 1..j : p[i] = rest[i]
    <3>1. \A i \in 1..j : rest[i] \in AnyFrame
      BY <1>1, ElementOfSeq
    <3>2. /\ p \in Seq(AnyFrame) /\ Len(p) = IF 1 <= j THEN j - 1 + 1 ELSE 0
          /\ \A i \in 1..(j - 1 + 1) : p[i] = rest[1 + i - 1]
      BY <3>1, SubSeqProperties
    <3> HIDE DEF p
    <3> QED BY <3>2
  <2>2. /\ q \in Seq(AnyFrame) /\ Len(q) = j + 1
        /\ \A i \in 1..(j + 1) : q[i] = s[i]
    <3> HIDE DEF s
    <3>1. \A i \in 1..(j + 1) : s[i] \in AnyFrame
      BY <1>1, ElementOfSeq
    <3>2. /\ q \in Seq(AnyFrame)
          /\ Len(q) = IF 1 <= j + 1 THEN (j + 1) - 1 + 1 ELSE 0
          /\ \A i \in 1..((j + 1) - 1 + 1) : q[i] = s[1 + i - 1]
      BY <3>1, SubSeqProperties
    <3> HIDE DEF q
    <3> QED BY <3>2
  <2> HIDE DEF p, q, s, m
  <2>3. /\ <<f>> \o p \in Seq(AnyFrame) /\ Len(<<f>> \o p) = 1 + j
        /\ \A i \in 1..(1 + j) :
             (<<f>> \o p)[i] = IF i <= 1 THEN <<f>>[i] ELSE p[i - 1]
    BY <1>1, <2>1, ConcatProperties
  <2>4. ASSUME NEW i \in 1..(j + 1) PROVE q[i] = (<<f>> \o p)[i]
    <3>1. CASE i = 1
      BY <1>1, <2>2, <2>3, <3>1
    <3>2. CASE i # 1
      <4>1. i - 1 \in 1..j /\ i - 1 \in 1..m /\ (i - 1) + 1 = i
        BY <1>1, <3>2
      <4>2. q[i] = rest[i - 1]
        BY <1>1, <2>2, <4>1
      <4>3. (<<f>> \o p)[i] = p[i - 1]
        BY <2>3, <3>2
      <4> QED BY <2>1, <4>1, <4>2, <4>3
    <3> QED BY <3>1, <3>2
  <2>5. q = <<f>> \o p
    BY <2>2, <2>3, <2>4, SeqEqual
  <2> QED BY <2>5 DEF p, q
<1>3. ASSUME NEW j \in 0..m
      PROVE  /\ Bytes(SubSeq(s, 1, j + 1)) = SizeOf(f) + Bytes(SubSeq(rest, 1, j))
             /\ Bytes(SubSeq(rest, 1, j)) \in Nat
  <2>1. SubSeq(rest, 1, j) \in Seq(AnyFrame) /\ Bytes(SubSeq(rest, 1, j)) \in Nat
    BY BytesOfPrefix
  <2>2. Bytes(<<f>> \o SubSeq(rest, 1, j)) =
          Bytes(<<f>>) + Bytes(SubSeq(rest, 1, j))
    BY <1>1, <2>1, BytesConcat
  <2> QED BY <1>2, <2>1, <2>2, BytesOfOne
<1>4. SizeOf(f) \in Nat
  BY SizeOfType
<1>5. SubSeq(s, 1, 0) = <<>>
  BY SubSeqEmpty
<1> HIDE DEF s, m
<1>6. ASSUME NEW n \in Fits(s, room), n # 0
      PROVE  /\ n - 1 \in 0..m /\ SizeOf(f) <= room
             /\ SizeOf(f) <= room => n - 1 \in Fits(rest, room - SizeOf(f))
  <2>1. n - 1 \in 0..m /\ (n - 1) + 1 = n /\ Bytes(SubSeq(s, 1, n)) <= room
    BY <1>1, <1>6 DEF Fits
  <2>2. SizeOf(f) + Bytes(SubSeq(rest, 1, n - 1)) <= room
    BY <1>3, <2>1
  <2>3. Bytes(SubSeq(rest, 1, n - 1)) \in Nat
    BY <1>3, <2>1
  <2> QED BY <1>4, <2>1, <2>2, <2>3 DEF Fits, m
<1>7. CASE SizeOf(f) <= room
  <2> DEFINE left == room - SizeOf(f)
             k == Max(Fits(rest, left))
  <2>1. left \in Nat
    BY <1>4, <1>7
  <2>2. /\ k \in Fits(rest, left) /\ \A n \in Fits(rest, left) : n <= k
    <3> HIDE DEF left
    <3> QED BY <2>1, CutFits
  <2> HIDE DEF k
  <2>3. k \in 0..m /\ Bytes(SubSeq(rest, 1, k)) <= left
    BY <2>2 DEF Fits, m
  <2>4. k + 1 \in Fits(s, room)
    <3>1. Bytes(SubSeq(s, 1, k + 1)) <= room
      BY <1>3, <1>4, <2>1, <2>3
    <3> QED BY <1>1, <2>3, <3>1 DEF Fits
  <2>5. ASSUME NEW n \in Fits(s, room) PROVE n <= k + 1
    <3>1. CASE n = 0
      BY <2>3, <3>1
    <3>2. CASE n # 0
      <4>1. n - 1 <= k /\ n - 1 \in 0..m
        BY <1>6, <1>7, <2>2, <3>2
      <4>2. n \in Int
        BY DEF Fits
      <4> QED BY <2>3, <4>1, <4>2
    <3> QED BY <3>1, <3>2
  <2>6. Max(Fits(s, room)) = k + 1
    <3>1. Len(s) \in Nat /\ Fits(s, room) \subseteq 0..Len(s)
      BY <1>1 DEF Fits
    <3> QED BY <2>4, <2>5, <3>1, MostIs
  <2>7. Cut(s, room) = <<f>> \o SubSeq(rest, 1, k)
    BY <1>2, <2>3, <2>6 DEF Cut
  <2>8. Cut(rest, left) = SubSeq(rest, 1, k)
    BY DEF Cut, k
  <2>9. ~(SizeOf(f) > room)
    BY <1>4, <1>7
  <2> QED BY <1>7, <2>7, <2>8, <2>9 DEF s
<1>8. CASE SizeOf(f) > room
  <2>1. Max(Fits(s, room)) \in Fits(s, room)
    BY <1>1, CutFits
  <2>2. Max(Fits(s, room)) = 0
    BY <1>4, <1>6, <1>8, <2>1
  <2> QED BY <1>4, <1>5, <1>8, <2>2 DEF Cut, s
<1> QED BY <1>4, <1>7, <1>8 DEF s

-----------------------------------------------------------------------------
(* What a lawful body has left.                                            *)

\* Nothing follows an end or an error.
EndsLast(s) == \A i \in 1..(Len(s) - 1) : s[i] \notin {End, Failure}

LEMMA EndsLastRest ==
  ASSUME NEW s \in Seq(Result), EndsLast(s)
  PROVE  /\ EndsLast(Rest(s))
         /\ Poll(s) \in {End, Failure} => Rest(s) = <<>>
<1>1. CASE s = <<>>
  BY <1>1 DEF Rest
<1>2. CASE s # <<>>
  <2> DEFINE n == Len(s)
             t == Tail(s)
  <2>1. /\ n \in Nat \ {0} /\ Head(s) = s[1]
        /\ t \in Seq(Result) /\ Len(t) = n - 1
        /\ \A i \in 1..(n - 1) : t[i] = s[i + 1]
    BY <1>2, EmptySeq, HeadTailProperties, LenProperties
  <2>2. Poll(s) = s[1] /\ Rest(s) = t
    BY <1>2, <2>1 DEF Poll, Rest
  <2> HIDE DEF t
  <2>3. EndsLast(t)
    BY <2>1 DEF EndsLast
  <2>4. s[1] \in {End, Failure} => t = <<>>
    <3>1. n # 1 => 1 \in 1..(n - 1)
      BY <2>1
    <3>2. s[1] \in {End, Failure} => n = 1
      BY <3>1 DEF EndsLast
    <3> QED BY <2>1, <3>2, EmptySeq
  <2> QED BY <2>2, <2>3, <2>4
<1> QED BY <1>1, <1>2

\* The frames left are frames that bodies are made of.
LEMMA FramesOfBody ==
  ASSUME NEW s \in Seq(Result)
  PROVE  FramesLeft(s) \in Seq(DataFrame \cup TrailerFrame)
<1> DEFINE F == DataFrame \cup TrailerFrame
    Holds(m) == \A t \in Seq(Result) : Len(t) = m => FramesLeft(t) \in Seq(F)
    Good == {m \in 0..Len(s) : Holds(m)}
<1>1. Len(s) \in Nat /\ <<>> \in Seq(F)
  BY LenProperties, EmptySeq
<1>2. Holds(0)
  BY <1>1, EmptySeq, NothingLeft DEF FramesLeft
<1>3. ASSUME NEW m \in 1..Len(s), Holds(m - 1)
      PROVE  Holds(m)
  <2> SUFFICES ASSUME NEW t \in Seq(Result), Len(t) = m
               PROVE  FramesLeft(t) \in Seq(F)
    OBVIOUS
  <2> DEFINE r == Poll(t)
             u == Rest(t)
  <2>1. r \in Result /\ u \in Seq(Result) /\ Len(u) = m - 1
    <3>1. t # <<>>
      BY <1>1, EmptySeq
    <3> QED BY <3>1, ScriptTypes, HeadTailProperties DEF Rest
  <2>2. FramesLeft(u) \in Seq(F)
    BY <1>3, <2>1
  <2>3. CASE IsFrame(r)
    <3>1. r \in F
      BY <2>1, <2>3, ResultsDiffer DEF Result
    <3>2. FramesLeft(t) = <<r>> \o FramesLeft(u)
      BY <2>3, FramesLeftUnfolds
    <3> HIDE DEF r, u, F
    <3> QED BY <2>2, <3>1, <3>2
  <2>4. CASE r \in {Pending, End, Failure}
    BY <1>1, <2>2, <2>4, FramesLeftUnfolds
  <2> QED BY <2>1, <2>3, <2>4, ResultKinds
<1> HIDE DEF Holds
<1>4. 0 \in Good
  BY <1>1, <1>2
<1>5. \A m \in 1..Len(s) : m - 1 \in Good => m \in Good
  BY <1>1, <1>3
<1>6. 0..Len(s) \subseteq Good
  <2> HIDE DEF Good
  <2> QED BY <1>1, <1>4, <1>5, HandedOn
<1> QED BY <1>1, <1>6 DEF Holds

\* What a MapFrame makes of frames.
Mapped(frames) == [i \in DOMAIN frames |-> MapF[frames[i]]]

LEMMA MapUnfolds ==
  ASSUME NEW r \in DataFrame \cup TrailerFrame,
         NEW rest \in Seq(DataFrame \cup TrailerFrame)
  PROVE  /\ Mapped(rest) \in Seq(AnyFrame)
         /\ Mapped(<<r>> \o rest) = <<MapF[r]>> \o Mapped(rest)
         /\ MapF[r] \in AnyFrame
<1> DEFINE F == DataFrame \cup TrailerFrame
           n == Len(rest)
           s == <<r>> \o rest
<1>1. /\ n \in Nat /\ DOMAIN rest = 1..n /\ \A i \in 1..n : rest[i] \in F
  BY LenProperties, ElementOfSeq
<1>2. \A f \in F : MapF[f] \in AnyFrame
  BY MapFAssumption, FrameTypes
<1>3. /\ s \in Seq(F) /\ Len(s) = 1 + n /\ DOMAIN s = 1..(1 + n)
      /\ \A i \in 1..(1 + n) : s[i] = IF i <= 1 THEN r ELSE rest[i - 1]
  <2>1. <<r>> \in Seq(F) /\ Len(<<r>>) = 1 /\ <<r>>[1] = r
    OBVIOUS
  <2>2. /\ s \in Seq(F) /\ Len(s) = 1 + n
        /\ \A i \in 1..(1 + n) : s[i] = IF i <= 1 THEN <<r>>[i] ELSE rest[i - 1]
    BY <1>1, <2>1, ConcatProperties
  <2>3. DOMAIN s = 1..(1 + n)
    <3> HIDE DEF s
    <3> QED BY <2>2, LenProperties
  <2> HIDE DEF s
  <2>4. ASSUME NEW i \in 1..(1 + n), i <= 1 PROVE s[i] = r
    <3>1. i = 1
      BY <2>4
    <3> QED BY <2>1, <2>2, <3>1
  <2> QED BY <2>2, <2>3, <2>4
<1>4. /\ Mapped(rest) \in Seq(AnyFrame) /\ Len(Mapped(rest)) = n
      /\ \A i \in 1..n : Mapped(rest)[i] = MapF[rest[i]]
  <2>1. Mapped(rest) = [i \in 1..n |-> MapF[rest[i]]]
    BY <1>1 DEF Mapped
  <2>2. \A i \in 1..n : MapF[rest[i]] \in AnyFrame
    BY <1>1, <1>2
  <2> HIDE DEF n
  <2> QED BY <1>1, <2>1, <2>2
<1>5. /\ Mapped(s) \in Seq(AnyFrame) /\ Len(Mapped(s)) = 1 + n
      /\ \A i \in 1..(1 + n) :
           Mapped(s)[i] = IF i <= 1 THEN MapF[r] ELSE MapF[rest[i - 1]]
  <2>1. Mapped(s) = [i \in 1..(1 + n) |-> MapF[s[i]]]
    BY <1>3 DEF Mapped
  <2> HIDE DEF s, n
  <2>2. \A i \in 1..(1 + n) : s[i] \in F
    BY <1>1, <1>3
  <2>3. \A i \in 1..(1 + n) : MapF[s[i]] \in AnyFrame
    BY <1>2, <2>2
  <2> QED BY <1>1, <1>3, <2>1, <2>3
<1> HIDE DEF n, s
<1>6. <<MapF[r]>> \in Seq(AnyFrame) /\ Len(<<MapF[r]>>) = 1
      /\ <<MapF[r]>>[1] = MapF[r]
  BY <1>2
<1>7. /\ <<MapF[r]>> \o Mapped(rest) \in Seq(AnyFrame)
      /\ Len(<<MapF[r]>> \o Mapped(rest)) = 1 + n
      /\ \A i \in 1..(1 + n) : (<<MapF[r]>> \o Mapped(rest))[i] =
           IF i <= 1 THEN <<MapF[r]>>[i] ELSE Mapped(rest)[i - 1]
  BY <1>4, <1>6, ConcatProperties
<1>8. ASSUME NEW i \in 1..(1 + n)
      PROVE  Mapped(s)[i] = (<<MapF[r]>> \o Mapped(rest))[i]
  <2>1. CASE i <= 1
    <3>1. i = 1
      BY <2>1
    <3> QED BY <1>5, <1>6, <1>7, <3>1
  <2>2. CASE ~(i <= 1)
    <3>1. i - 1 \in 1..n
      BY <1>1, <2>2
    <3> QED BY <1>4, <1>5, <1>7, <2>2, <3>1
  <2> QED BY <2>1, <2>2
<1>9. Mapped(s) = <<MapF[r]>> \o Mapped(rest)
  BY <1>5, <1>7, <1>8, SeqEqual
<1> QED BY <1>2, <1>4, <1>9 DEF s

\* The loop of BodyDataStream passes trailers only, which are no data.
LEMMA DataPollsSkip ==
  ASSUME NEW s \in Seq(Result)
  PROVE  LET n == DataPolls(s)
             u == SubSeq(s, n, Len(s))
         IN /\ u \in Seq(Result) /\ SubSeq(s, n + 1, Len(s)) = Rest(u)
            /\ Poll(u).kind # "trailers"
            /\ DataLeft(u) = DataLeft(s)
            /\ FailsLater(u) <=> FailsLater(s)
            /\ EndsLast(s) => EndsLast(u)
<1> DEFINE n == DataPolls(s)
           m == Len(s)
           u == SubSeq(s, n, m)
<1>1. /\ m \in Nat /\ n \in 1..(m + 1) /\ DOMAIN s = 1..m
      /\ \A i \in 1..m : s[i] \in Result
  BY LenProperties, ElementOfSeq, DataPollsType
<1>2. /\ \A i \in 1..(n - 1) : s[i].kind = "trailers"
      /\ n <= m => s[n].kind # "trailers"
  <2> DEFINE others == {i \in DOMAIN s : s[i].kind # "trailers"}
  <2>1. n = IF others = {} THEN m + 1 ELSE Min(others)
    BY DEF DataPolls
  <2>2. CASE others = {}
    BY <1>1, <2>1, <2>2
  <2>3. CASE others # {}
    <3>1. n \in others /\ \A y \in others : n <= y
      <4>1. others \subseteq Nat
        BY <1>1
      <4> HIDE DEF others, n
      <4> QED BY <2>1, <2>3, <4>1, LeastOfSome
    <3> HIDE DEF n
    <3> QED BY <1>1, <3>1
  <2> QED BY <2>2, <2>3
<1> HIDE DEF n
<1>3. ASSUME NEW k \in 1..m
      PROVE  /\ SubSeq(s, k, m) \in Seq(Result) /\ SubSeq(s, k, m) # <<>>
             /\ Poll(SubSeq(s, k, m)) = s[k]
             /\ Rest(SubSeq(s, k, m)) = SubSeq(s, k + 1, m)
  <2>1. m \in k..m
    BY <1>1
  <2>2. /\ SubSeq(s, k, m) \in Seq(Result)
        /\ Len(SubSeq(s, k, m)) = IF k <= m THEN m - k + 1 ELSE 0
    <3>1. \A i \in k..m : s[i] \in Result
      BY <1>1
    <3> HIDE DEF m
    <3> QED BY <1>1, <3>1, SubSeqProperties
  <2>3. SubSeq(s, k, m) # <<>>
    <3>1. Len(SubSeq(s, k, m)) # 0
      BY <1>1, <2>2
    <3> QED BY <3>1, EmptySeq
  <2>4. /\ Head(SubSeq(s, k, m)) = s[k]
        /\ Tail(SubSeq(s, k, m)) = SubSeq(s, k + 1, m)
    BY <2>1, HeadTailOfSubSeq
  <2> QED BY <2>2, <2>3, <2>4 DEF Poll, Rest
<1>4. n = m + 1 => u = <<>> /\ SubSeq(s, n + 1, m) = <<>>
  BY <1>1, SubSeqEmpty
<1>5. /\ u \in Seq(Result) /\ SubSeq(s, n + 1, m) = Rest(u)
      /\ Poll(u).kind # "trailers"
  <2>1. CASE n = m + 1
    BY <1>4, <2>1, EmptySeq DEF Poll, Rest, End
  <2>2. CASE n # m + 1
    <3>1. n \in 1..m
      BY <1>1, <2>2
    <3> QED BY <1>2, <1>3, <3>1
  <2> QED BY <2>1, <2>2
<1>6. DataLeft(u) = DataLeft(s) /\ (FailsLater(u) <=> FailsLater(s))
  <2> DEFINE Same(k) ==
        /\ DataLeft(SubSeq(s, k + 1, m)) = DataLeft(s)
        /\ FailsLater(SubSeq(s, k + 1, m)) <=> FailsLater(s)
      Good == {k \in 0..(n - 1) : Same(k)}
  <2>1. 0 \in Good
    <3>1. SubSeq(s, 1, m) = s /\ 0 + 1 = 1 /\ 0 \in 0..(n - 1)
      BY <1>1, SubSeqFull
    <3>2. Same(0)
      BY <3>1
    <3> HIDE DEF Same
    <3> QED BY <3>1, <3>2
  <2>2. ASSUME NEW k \in 1..(n - 1), k - 1 \in Good PROVE k \in Good
    <3>1. k \in 1..m /\ (k - 1) + 1 = k /\ k \in 0..(n - 1)
      BY <1>1
    <3>2. Same(k - 1)
      BY <2>2
    <3>3. s[k].kind = "trailers" /\ IsFrame(s[k])
      BY <1>2 DEF IsFrame
    <3> DEFINE t == SubSeq(s, k, m)
    <3>4. /\ t \in Seq(Result) /\ Poll(t) = s[k] /\ Rest(t) = SubSeq(s, k + 1, m)
      BY <1>3, <3>1
    <3>5. /\ DataLeft(t) = DataLeft(Rest(t))
          /\ FailsLater(t) <=> FailsLater(Rest(t))
      <4> HIDE DEF t
      <4> QED BY <3>3, <3>4, DataLeftUnfolds, FramesLeftUnfolds
    <3>6. Same(k)
      BY <3>1, <3>2, <3>4, <3>5
    <3> QED BY <3>1, <3>6
  <2> HIDE DEF Good
  <2>3. 0..(n - 1) \subseteq Good
    <3>1. n - 1 \in Nat
      BY <1>1
    <3> QED BY <2>1, <2>2, <3>1, HandedOn
  <2>4. n - 1 \in Good /\ (n - 1) + 1 = n
    BY <1>1, <2>3
  <2> QED BY <2>4 DEF Good
<1>7. ASSUME EndsLast(s) PROVE EndsLast(u)
  <2>1. CASE n = m + 1
    BY <1>4, <2>1, EmptySeq DEF EndsLast
  <2>2. CASE n # m + 1
    <3>1. n \in 1..m /\ \A i \in n..m : s[i] \in Result
      BY <1>1, <2>2
    <3>2. /\ Len(u) = m - n + 1
          /\ \A i \in 1..(m - n + 1) : u[i] = s[n + i - 1]
      <4>1. /\ Len(u) = IF n <= m THEN m - n + 1 ELSE 0
            /\ \A i \in 1..(m - n + 1) : u[i] = s[n + i - 1]
        <5> HIDE DEF m
        <5> QED BY <1>1, <3>1, SubSeqProperties
      <4> HIDE DEF u
      <4> QED BY <3>1, <4>1
    <3> HIDE DEF u
    <3>3. ASSUME NEW i \in 1..(Len(u) - 1) PROVE u[i] \notin {End, Failure}
      <4>1. /\ i \in 1..(m - n + 1) /\ n + i - 1 \in 1..(m - 1)
        BY <1>1, <3>1, <3>2
      <4> QED BY <1>7, <3>2, <4>1 DEF EndsLast
    <3> QED BY <3>3 DEF EndsLast
  <2> QED BY <2>1, <2>2
<1> QED BY <1>5, <1>6, <1>7 DEF n

-----------------------------------------------------------------------------
(* Every answer is a step of a stream.                                     *)

StreamStep == [Stream!Next]_(Stream!svars)

\* What an answer has to leave, for each kind of it.
Leaves(a) ==
  \/ a = Pending /\ Left' = Left /\ Fails' = Fails
  \/ IsFrame(a) /\ Left = <<a>> \o Left' /\ Fails' = Fails
  \/ a = Failure /\ Left = <<>> /\ Left' = <<>> /\ Fails /\ Fails'
  \/ a = End /\ Left = <<>> /\ Left' = <<>> /\ ~Fails /\ ~Fails'

LEMMA AnswersStep ==
  ASSUME TypeOK, outcome = "open",
         NEW a, NEW last, Answer(a, last), Leaves(a),
         IsFrame(a) => a \in AnyFrame, Left' \in Seq(AnyFrame)
  PROVE  StreamStep
<1>1. returned \in Seq(AnyFrame)
  BY DEF TypeOK, TaskTypeOK
<1>2. CASE a = Pending /\ Left' = Left /\ Fails' = Fails
  <2>1. returned' = returned /\ outcome' = outcome
    BY <1>2, ResultsDiffer DEF Answer
  <2> QED BY <1>2, <2>1 DEF StreamStep, Stream!svars
<1>3. CASE IsFrame(a) /\ Left = <<a>> \o Left' /\ Fails' = Fails
  <2>1. returned' = Append(returned, a) /\ outcome' = outcome
    BY <1>3, ResultsDiffer DEF Answer
  <2>2. /\ Append(returned, a) \o Left' = returned \o Left
        /\ Len(returned) < Len(returned \o Left)
        /\ (returned \o Left)[Len(returned) + 1] = a
    BY <1>1, <1>3, OneReturned
  <2>3. Stream!Return
    BY <1>3, <2>1, <2>2 DEF Stream!Return
  <2> QED BY <2>3 DEF StreamStep, Stream!Next
<1>4. CASE a = Failure /\ Left = <<>> /\ Left' = <<>> /\ Fails /\ Fails'
  <2>1. returned' = returned /\ outcome' = "error"
    BY <1>4, ResultsDiffer DEF Answer
  <2>2. returned \o <<>> = returned
    BY <1>1, ConcatEmptySeq
  <2>3. Stream!Fail
    BY <1>4, <2>1, <2>2 DEF Stream!Fail
  <2> QED BY <2>3 DEF StreamStep, Stream!Next
<1>5. CASE a = End /\ Left = <<>> /\ Left' = <<>> /\ ~Fails /\ ~Fails'
  <2>1. returned' = returned /\ outcome' = "end"
    BY <1>5, ResultsDiffer DEF Answer
  <2>2. returned \o <<>> = returned
    BY <1>1, ConcatEmptySeq
  <2>3. Stream!End
    BY <1>5, <2>1, <2>2 DEF Stream!End
  <2> QED BY <2>3 DEF StreamStep, Stream!Next
<1> QED BY <1>2, <1>3, <1>4, <1>5 DEF Leaves

\* What an answer makes of the outcome.
LEMMA Outcomes ==
  ASSUME outcome = "open", NEW a, NEW last, Answer(a, last)
  PROVE  /\ a = End => outcome' = "end"
         /\ a = Failure => outcome' = "error"
         /\ a # End /\ a # Failure => outcome' = "open"
BY ResultsDiffer DEF Answer

\* A body that has ended or failed owes nothing.
LEMMA NothingOwed ==
  /\ outcome # "open" => Left = <<>> /\ Fails = (outcome = "error")
  /\ Fails \in BOOLEAN
<1>1. outcome # "open" => Left = <<>> /\ Fails = (outcome = "error")
  BY DEF Left, Fails
<1>2. Fails \in BOOLEAN
  BY DEF Fails, FuseFails, LimitedFails, TryFutureBodyFails, AdapterFails,
    FailsLater
<1> QED BY <1>1, <1>2

\* The end, once more.
LEMMA EndsAgain ==
  ASSUME TypeOK, outcome # "open", NEW last, Answer(End, last)
  PROVE  /\ StreamStep
         /\ outcome' = outcome
<1>1. returned' = returned /\ outcome' = outcome
  BY ResultsDiffer DEF Answer
<1>2. Left' = Left /\ Fails' = Fails
  BY <1>1, NothingOwed DEF Left, Fails
<1> QED BY <1>1, <1>2 DEF StreamStep, Stream!svars

\* The result r of a body with the frames and the failure of s left is passed
\* on by a wrapper that owes what its body has left.
LEMMA PassesOn ==
  ASSUME TypeOK, outcome = "open", NEW s \in Seq(Result),
         NEW last, Answer(Poll(s), last),
         Left = FramesLeft(s), Fails = FailsLater(s),
         outcome' = "open" =>
           Left' = FramesLeft(Rest(s)) /\ Fails' = FailsLater(Rest(s))
  PROVE  StreamStep
<1> DEFINE r == Poll(s)
           u == Rest(s)
<1>1. r \in Result /\ u \in Seq(Result)
  BY ScriptTypes
<1>2. FramesLeft(u) \in Seq(AnyFrame)
  BY <1>1, FramesLeftUnfolds
<1>3. FailsLater(s) \in BOOLEAN /\ FailsLater(u) \in BOOLEAN
  BY DEF FailsLater
<1>4. CASE IsFrame(r) \/ r = Pending
  <2>1. r \in AnyFrame \/ r = Pending
    BY <1>1, <1>4, ResultKinds
  <2>2. r # End /\ r # Failure
    BY <1>4, ResultsDiffer
  <2>3. Left' = FramesLeft(u) /\ Fails' = FailsLater(u)
    BY <2>2, Outcomes
  <2>4. /\ IsFrame(r) => FramesLeft(s) = <<r>> \o FramesLeft(u)
        /\ r = Pending => FramesLeft(s) = FramesLeft(u)
        /\ FailsLater(s) = FailsLater(u)
    BY <1>3, <1>4, FramesLeftUnfolds
  <2> HIDE DEF r, u
  <2>5. Leaves(r)
    BY <1>4, <2>3, <2>4 DEF Leaves
  <2> QED BY <1>2, <2>1, <2>3, <2>5, AnswersStep, ResultsDiffer DEF r
<1>5. CASE r \in {End, Failure}
  <2>1. outcome' = IF r = End THEN "end" ELSE "error"
    BY <1>5, Outcomes, ResultsDiffer
  <2>2. Left' = <<>> /\ Fails' = (outcome' = "error")
    BY <2>1, NothingOwed DEF Left, Fails
  <2>3. Left = <<>> /\ Fails = (r = Failure)
    BY <1>3, <1>5, FramesLeftUnfolds, ResultsDiffer
  <2> HIDE DEF r
  <2>4. Leaves(r)
    BY <1>5, <2>1, <2>2, <2>3, ResultsDiffer DEF Leaves
  <2> QED BY <1>5, <2>2, <2>4, AnswersStep, ResultsDiffer, EmptySeq DEF r
<1> QED BY <1>1, <1>4, <1>5, ResultKinds

-----------------------------------------------------------------------------
(* What the wrapped bodies are when the task is told something.             *)

StreamInv ==
  /\ wrapper # "Fuse" =>
       /\ EndsLast(body)
       /\ outcome = "end" => body = <<>>
  /\ wrapper = "Fuse" =>
       /\ outcome # "open" => fuseInner = "None"
       /\ fuseInner = "None" /\ outcome = "open" => Poll(body) = End
  /\ wrapper = "Limited" /\ outcome # "error" =>
       remaining + Bytes(returned) = limit
  /\ wrapper = "TryFutureBody" =>
       /\ futureInner = "Future" => outcome = "open"
       /\ futureInner = "Failed" => outcome = "error" /\ ~resolves
       /\ futureInner = "Body" => resolves
  /\ wrapper = "ErrorBody" /\ outcome = "error" => body = <<>>
  /\ wrapper = "Pending" => body = <<>> /\ outcome = "open"
  /\ wrapper = "Empty" => body = <<>>
  /\ wrapper \in Leaf => body = <<>> \/ \E f \in DataFrame : body = <<f>>
  /\ wrapper \in Forwarding \cup Streaming \cup Leaf
       \cup {"Fuse", "Limited", "TryFutureBody", "Pending", "ErrorBody"}

LEMMA StreamInvStarts == Init => StreamInv
<1> SUFFICES ASSUME Init PROVE StreamInv
  OBVIOUS
<1>1. outcome = "open" /\ returned = <<>>
  BY DEF Init, TaskInit
<1>2. \A s \in Lawful : EndsLast(s)
  BY DEF Lawful, Conforming, EndsLast
<1>3. \A r : EndsLast(<<r>>) /\ EndsLast(<<>>)
  BY DEF EndsLast
<1>4. CASE FuseNew
  BY <1>1, <1>4 DEF FuseNew, Wraps, StreamInv, InnerEnd, EndOf, Leaf
<1>5. CASE LimitedNew
  <2>1. remaining + Bytes(returned) = limit
    <3>1. limit \in Nat /\ remaining = limit
      BY <1>5, LimitsAssumption, WidthAssumption DEF LimitedNew, U64
    <3> QED BY <1>1, <3>1, NoBytes
  <2> QED BY <1>1, <1>2, <1>5, <2>1 DEF LimitedNew, Wraps, StreamInv, Leaf
<1>6. CASE TryFutureBodyNew
  BY <1>1, <1>2, <1>6 DEF TryFutureBodyNew, Wraps, StreamInv, Leaf
<1>7. CASE AdapterNew
  <2>1. PICK name \in Forwarding \cup Streaming : Wraps(name, Lawful)
    BY <1>7 DEF AdapterNew
  <2> QED BY <1>1, <1>2, <2>1 DEF Wraps, Forwarding, Pointing, Streaming, StreamInv, Leaf
<1>8. CASE LeafNew
  <2>1. PICK name \in Leaf :
          Wraps(name, IF name = "Empty" THEN {<<>>}
            ELSE {IF f.size > 0 THEN <<f>> ELSE <<>> : f \in DataFrame})
    BY <1>8 DEF LeafNew
  <2>2. /\ wrapper = name
        /\ body = <<>> \/ \E f \in DataFrame : body = <<f>>
        /\ name = "Empty" => body = <<>>
    BY <2>1 DEF Wraps
  <2>3. EndsLast(body)
    BY <1>3, <2>2
  <2> QED BY <1>1, <2>2, <2>3 DEF Leaf, StreamInv
<1>9. CASE PendingNew
  BY <1>1, <1>3, <1>9 DEF PendingNew, Wraps, StreamInv, Leaf
<1>10. CASE ErrorBodyNew
  BY <1>1, <1>3, <1>10 DEF ErrorBodyNew, Wraps, StreamInv, Leaf
<1> QED BY <1>4, <1>5, <1>6, <1>7, <1>8, <1>9, <1>10 DEF Init

\* A lawful body that is polled stays lawful, and has nothing left with its end
\* or its error.
LEMMA LawfulKept ==
  ASSUME TypeOK, EndsLast(body), outcome = "end" => body = <<>>,
         outcome # "error" \/ body = <<>>,
         NEW last, Answer(Poll(body), last), body' = Rest(body)
  PROVE  /\ EndsLast(body')
         /\ outcome' # "open" => body' = <<>>
         /\ outcome # "open" => outcome' = outcome /\ StreamStep
<1>1. body \in Seq(Result)
  BY DEF TypeOK
<1>2. EndsLast(body')
  BY <1>1, EndsLastRest
<1>3. CASE outcome = "open"
  <2>1. outcome' # "open" => Poll(body) \in {End, Failure}
    BY <1>3, Outcomes
  <2>2. outcome' # "open" => body' = <<>>
    BY <1>1, <2>1, EndsLastRest
  <2> QED BY <1>2, <1>3, <2>2
<1>4. CASE outcome # "open"
  <2>1. body = <<>>
    BY <1>4 DEF TypeOK, TaskTypeOK
  <2>2. Poll(body) = End /\ body' = <<>>
    BY <2>1 DEF Poll, Rest
  <2>3. StreamStep /\ outcome' = outcome
    BY <1>4, <2>2, EndsAgain
  <2> QED BY <1>2, <1>4, <2>2, <2>3
<1> QED BY <1>3, <1>4

LEMMA FuseStreams ==
  ASSUME TypeOK, StreamInv, wrapper = "Fuse", FusePollFrame
  PROVE  StreamInv' /\ StreamStep
<1> DEFINE r == Poll(body)
           u == Rest(body)
<1>1. body \in Seq(Result) /\ u \in Seq(Result)
  BY ScriptTypes DEF TypeOK
<1>2. CASE fuseInner = "Some"
  <2>1. /\ body' = u /\ wrapper' = wrapper /\ hinting' = hinting
        /\ Answer(r, r) /\ outcome = "open"
        /\ fuseInner' = IF Eos(r, u) THEN "None" ELSE "Some"
    BY <1>2 DEF FusePollFrame, PollWrapped, StreamInv
  <2>2. outcome' # "open" => Eos(r, u)
    BY <2>1, Outcomes DEF Eos
  <2>3. outcome' = "open" /\ Eos(r, u) => Poll(u) = End
    BY <2>1, Outcomes DEF Eos, EndOf
  <2>4. StreamInv'
    BY <2>1, <2>2, <2>3 DEF StreamInv, Leaf
  <2>5. Left = FramesLeft(body) /\ Fails = FailsLater(body)
    BY <2>1 DEF Left, Fails, FuseLeft, FuseFails
  <2>6. outcome' = "open" =>
          Left' = FramesLeft(u) /\ Fails' = FailsLater(u)
    BY <2>1 DEF Left, Fails, FuseLeft, FuseFails
  <2> QED BY <1>1, <2>1, <2>4, <2>5, <2>6, PassesOn
<1>3. CASE fuseInner = "None"
  <2>1. Answer(End, End) /\ UNCHANGED <<wrappedVars, fuseInner>>
    BY <1>3 DEF FusePollFrame
  <2>2. CASE outcome = "open"
    <3>1. Poll(body) = End /\ outcome' = "end"
      BY <1>3, <2>1, <2>2, Outcomes DEF StreamInv
    <3>2. Left = <<>> /\ ~Fails
      BY <1>1, <2>2, <3>1, FramesLeftUnfolds DEF Left, Fails, FuseLeft, FuseFails
    <3>3. Left' = <<>> /\ ~Fails'
      BY <3>1 DEF Left, Fails
    <3>4. StreamStep
      BY <2>1, <2>2, <3>2, <3>3, AnswersStep, ResultsDiffer, EmptySeq DEF Leaves
    <3> QED BY <1>3, <2>1, <3>1, <3>4 DEF StreamInv, wrappedVars, Leaf
  <2>3. CASE outcome # "open"
    <3>1. StreamStep /\ outcome' = outcome
      BY <2>1, <2>3, EndsAgain
    <3> QED BY <1>3, <2>1, <2>3, <3>1 DEF StreamInv, wrappedVars, Leaf
  <2> QED BY <2>2, <2>3
<1> QED BY <1>2, <1>3 DEF TypeOK

-----------------------------------------------------------------------------
(* A Limited owes the frames of its body that fit into what remains.        *)

LEMMA SameFront ==
  ASSUME NEW f \in AnyFrame, NEW a \in Seq(AnyFrame), NEW b \in Seq(AnyFrame)
  PROVE  /\ <<f>> \o a = <<f>> \o b => a = b
         /\ <<f>> \o a # <<>>
<1>1. /\ <<f>> \in Seq(AnyFrame) /\ Len(<<f>>) = 1
      /\ Len(a) \in Nat /\ Len(b) \in Nat
  BY LenProperties
<1>2. /\ Len(<<f>> \o a) = 1 + Len(a) /\ Len(<<f>> \o b) = 1 + Len(b)
      /\ \A i \in 1..(1 + Len(a)) :
           (<<f>> \o a)[i] = IF i <= 1 THEN <<f>>[i] ELSE a[i - 1]
      /\ \A i \in 1..(1 + Len(b)) :
           (<<f>> \o b)[i] = IF i <= 1 THEN <<f>>[i] ELSE b[i - 1]
  BY <1>1, ConcatProperties
<1>3. ASSUME <<f>> \o a = <<f>> \o b PROVE a = b
  <2>1. Len(a) = Len(b)
    BY <1>1, <1>2, <1>3
  <2>2. ASSUME NEW i \in 1..Len(a) PROVE a[i] = b[i]
    <3>1. /\ i + 1 \in 1..(1 + Len(a)) /\ i + 1 \in 1..(1 + Len(b))
          /\ ~(i + 1 <= 1) /\ (i + 1) - 1 = i
      BY <1>1, <2>1
    <3>2. (<<f>> \o a)[i + 1] = a[i] /\ (<<f>> \o b)[i + 1] = b[i]
      BY <1>2, <3>1
    <3> QED BY <1>3, <3>2
  <2> QED BY <2>1, <2>2, SeqEqual
<1>4. <<f>> \o a # <<>>
  <2>1. Len(<<f>> \o a) # 0
    BY <1>1, <1>2
  <2> QED BY <2>1, EmptySeq
<1> QED BY <1>3, <1>4

\* What the limit leaves of the frames is what fits into what remains of it.
LEMMA WithinFits ==
  ASSUME NEW frames \in Seq(AnyFrame), NEW had \in Nat, NEW room \in Nat,
         NEW lim, room + had = lim
  PROVE  {n \in 0..Len(frames) :
            had + Bytes(SubSeq(frames, 1, n)) <= lim} = Fits(frames, room)
<1>1. \A n \in 0..Len(frames) : Bytes(SubSeq(frames, 1, n)) \in Nat
  BY BytesOfPrefix
<1>2. \A n \in 0..Len(frames) :
        had + Bytes(SubSeq(frames, 1, n)) <= lim
          <=> Bytes(SubSeq(frames, 1, n)) <= room
  BY <1>1
<1> QED BY <1>2 DEF Fits

LEMMA LimitedStreams ==
  ASSUME TypeOK, StreamInv, wrapper = "Limited", LimitedPollFrame
  PROVE  StreamInv' /\ StreamStep
<1> DEFINE r == Poll(body)
           u == Rest(body)
           all == FramesLeft(body)
           more == FramesLeft(u)
<1>1. /\ body \in Seq(Result) /\ r \in Result /\ u \in Seq(Result)
      /\ all \in Seq(AnyFrame) /\ more \in Seq(AnyFrame)
      /\ remaining \in Nat /\ limit \in Nat
  <2>1. body \in Seq(Result) /\ r \in Result /\ u \in Seq(Result)
    BY ScriptTypes DEF TypeOK
  <2>2. all \in Seq(AnyFrame) /\ more \in Seq(AnyFrame)
    <3> HIDE DEF u
    <3> QED BY <2>1, FramesLeftUnfolds
  <2>3. remaining \in Nat /\ limit \in Nat
    BY WidthAssumption DEF TypeOK, U64
  <2> QED BY <2>1, <2>2, <2>3
<1>2. /\ outcome = "end" => body = <<>>
      /\ outcome \in {"open", "end"}
      /\ remaining + Bytes(returned) = limit
      /\ returned \in Seq(AnyFrame) /\ Bytes(returned) \in Nat
  BY BytesType DEF StreamInv, LimitedPollFrame, MayPoll, TypeOK, TaskTypeOK
<1>3. /\ EndsLast(body)
      /\ body' = u /\ wrapper' = wrapper /\ hinting' = hinting
      /\ TooLong(r) => Answer(Failure, r) /\ remaining' = 0
      /\ ~TooLong(r) => Answer(r, r) /\ remaining' = Allowance(r)
  BY <1>2 DEF LimitedPollFrame, PollWrapped, StreamInv
<1>4. outcome' # "error" => remaining' + Bytes(returned') = limit'
  BY <1>2, LimitedStep
<1>5. EndsLast(u)
  BY <1>1, <1>3, EndsLastRest
<1>6. ASSUME outcome' = "end" => body' = <<>> PROVE StreamInv'
  BY <1>3, <1>4, <1>5, <1>6 DEF StreamInv, Leaf
<1>7. /\ IsFrame(r) => all = <<r>> \o more
      /\ r = Pending => all = more
      /\ r \in {End, Failure} => all = <<>>
      /\ IsFrame(r) \/ r = Pending => (FailsLater(body) <=> FailsLater(u))
      /\ r = End => ~FailsLater(body)
      /\ r = Failure => FailsLater(body)
      /\ FailsLater(body) \in BOOLEAN /\ FailsLater(u) \in BOOLEAN
  <2>1. FailsLater(body) \in BOOLEAN /\ FailsLater(u) \in BOOLEAN
    BY DEF FailsLater
  <2> QED BY <1>1, <2>1, FramesLeftUnfolds
<1>8. outcome = "open" =>
        /\ Left = Cut(all, remaining)
        /\ Fails = (FailsLater(body) \/ Left # all)
  <2>1. Within(all) = Fits(all, remaining)
    <3> HIDE DEF all
    <3> QED BY <1>1, <1>2, WithinFits DEF Within
  <2> QED BY <2>1 DEF Left, Fails, LimitedLeft, LimitedFails, Cut
<1>9. outcome' = "open" /\ remaining' \in Nat /\ Bytes(returned') \in Nat =>
        /\ Left' = Cut(more, remaining')
        /\ Fails' = (FailsLater(u) \/ Left' # more)
  <2> SUFFICES ASSUME outcome' = "open", remaining' \in Nat,
                      Bytes(returned') \in Nat
               PROVE  /\ Left' = Cut(more, remaining')
                      /\ Fails' = (FailsLater(u) \/ Left' # more)
    OBVIOUS
  <2>1. {n \in 0..Len(more) :
           Bytes(returned') + Bytes(SubSeq(more, 1, n)) <= limit'}
          = Fits(more, remaining')
    <3> HIDE DEF more
    <3> QED BY <1>1, <1>4, WithinFits
  <2>2. FramesLeft(body)' = more /\ wrapper' = "Limited"
    BY <1>3
  <2>3. Within(FramesLeft(body))' = Fits(more, remaining')
    BY <2>1, <2>2 DEF Within
  <2>4. LimitedLeft' = Cut(more, remaining')
    BY <2>2, <2>3 DEF LimitedLeft, Cut
  <2>5. LimitedFails' = (FailsLater(u) \/ LimitedLeft' # more)
    BY <1>3, <2>2 DEF LimitedFails
  <2>6. Left' = LimitedLeft' /\ Fails' = LimitedFails'
    BY <2>2 DEF Left, Fails
  <2> QED BY <2>4, <2>5, <2>6
<1> HIDE DEF all, more, r, u
<1>10. CASE outcome = "open" /\ TooLong(r)
  <2>1. IsFrame(r) /\ r \in AnyFrame /\ SizeOf(r) > remaining
    BY <1>1, <1>10, ResultKinds DEF TooLong, IsData, IsFrame, SizeOf
  <2>2. Left = <<>> /\ all # <<>>
    <3>1. Cut(<<r>> \o more, remaining) = <<>>
      BY <1>1, <2>1, CutUnfolds
    <3>2. <<r>> \o more # <<>>
      BY <1>1, <2>1, SameFront, Zenon
    <3> QED BY <1>7, <1>8, <1>10, <2>1, <3>1, <3>2
  <2>3. outcome' = "error"
    BY <1>3, <1>10, Outcomes
  <2>4. Left' = <<>> /\ Fails'
    BY <2>3 DEF Left, Fails
  <2>5. Leaves(Failure)
    BY <1>8, <1>10, <2>2, <2>4 DEF Leaves
  <2> QED BY <1>3, <1>6, <1>10, <2>3, <2>4, <2>5, AnswersStep, ResultsDiffer,
    EmptySeq
<1>11. CASE outcome = "open" /\ ~TooLong(r) /\ IsFrame(r)
  <2>1. r \in AnyFrame /\ SizeOf(r) \in Nat /\ SizeOf(r) <= remaining
    <3>1. r \in AnyFrame /\ SizeOf(r) \in Nat
      BY <1>1, <1>11, ResultKinds, SizeOfType
    <3>2. IsData(r) => SizeOf(r) = r.size
      BY DEF SizeOf
    <3>3. ~IsData(r) => SizeOf(r) = 0
      BY DEF SizeOf
    <3>4. SizeOf(r) <= remaining
      BY <1>1, <1>11, <3>1, <3>2, <3>3 DEF TooLong
    <3> QED BY <3>1, <3>4
  <2>2. remaining' = remaining - SizeOf(r) /\ remaining' \in Nat
    BY <1>1, <1>3, <1>11, <2>1 DEF Allowance
  <2>3. outcome' = "open" /\ returned' = Append(returned, r)
    BY <1>3, <1>11, ResultsDiffer DEF Answer
  <2>4. returned' \in Seq(AnyFrame) /\ Bytes(returned') \in Nat
    BY <1>2, <2>1, <2>3, AppendProperties, BytesType
  <2>5. Left = <<r>> \o Cut(more, remaining') /\ Left' = Cut(more, remaining')
    <3>1. Cut(<<r>> \o more, remaining) = <<r>> \o Cut(more, remaining')
      BY <1>1, <2>1, <2>2, CutUnfolds
    <3> QED BY <1>7, <1>8, <1>9, <1>11, <2>2, <2>3, <2>4, <3>1
  <2>6. Cut(more, remaining') \in Seq(AnyFrame)
    BY <1>1, <2>2, CutFits
  <2>7. Left # all <=> Left' # more
    BY <1>1, <1>7, <1>11, <2>1, <2>5, <2>6, SameFront
  <2>8. Fails' = Fails
    BY <1>7, <1>8, <1>9, <1>11, <2>2, <2>3, <2>4, <2>7
  <2>9. Leaves(r)
    BY <1>11, <2>5, <2>8 DEF Leaves
  <2> QED BY <1>3, <1>6, <1>11, <2>1, <2>3, <2>5, <2>6, <2>9, AnswersStep
<1>12. CASE outcome = "open" /\ ~TooLong(r) /\ r = Pending
  <2>1. remaining' = remaining
    BY <1>1, <1>3, <1>12 DEF Allowance, SizeOf, IsData, Pending
  <2>2. outcome' = "open" /\ returned' = returned
    BY <1>3, <1>12, ResultsDiffer DEF Answer
  <2>3. Left' = Cut(more, remaining) /\ Fails' = (FailsLater(u) \/ Left' # more)
    BY <1>1, <1>2, <1>9, <2>1, <2>2
  <2>4. Left' = Left /\ Fails' = Fails
    BY <1>7, <1>8, <1>12, <2>3
  <2>5. Left' \in Seq(AnyFrame)
    BY <1>1, <2>3, CutFits
  <2>6. Leaves(r)
    BY <1>12, <2>4 DEF Leaves
  <2> QED BY <1>3, <1>6, <1>12, <2>2, <2>5, <2>6, AnswersStep, ResultsDiffer
<1>13. CASE outcome = "open" /\ ~TooLong(r) /\ r \in {End, Failure}
  <2>1. outcome' = IF r = End THEN "end" ELSE "error"
    BY <1>3, <1>13, Outcomes, ResultsDiffer
  <2>2. body' = <<>>
    BY <1>1, <1>3, <1>13, EndsLastRest DEF r, u
  <2>3. Left = <<>> /\ Fails = (r = Failure)
    BY <1>1, <1>7, <1>8, <1>13, NothingCut, ResultsDiffer
  <2>4. Left' = <<>> /\ Fails' = (r = Failure)
    BY <1>13, <2>1, ResultsDiffer DEF Left, Fails
  <2>5. Leaves(r)
    BY <1>13, <2>3, <2>4, ResultsDiffer DEF Leaves
  <2> QED BY <1>3, <1>6, <1>13, <2>2, <2>4, <2>5, AnswersStep, ResultsDiffer,
    EmptySeq
<1>14. CASE outcome # "open"
  <2>1. body = <<>>
    BY <1>2, <1>14 DEF StreamInv
  <2>2. r = End /\ u = <<>>
    BY <2>1 DEF r, u, Poll, Rest
  <2>3. ~TooLong(r)
    BY <2>2 DEF TooLong, IsData, End
  <2> QED BY <1>3, <1>6, <1>14, <2>2, <2>3, EndsAgain
<1> QED BY <1>1, <1>10, <1>11, <1>12, <1>13, <1>14, ResultKinds

-----------------------------------------------------------------------------
(* A TryFutureBody owes the frames of its body, when there is one.          *)

\* The result of a lawful body is passed on by a wrapper that owes what that
\* body has left.
LEMMA BodyPassesOn ==
  ASSUME TypeOK, EndsLast(body), outcome = "end" => body = <<>>,
         outcome # "error" \/ body = <<>>, PollWrapped(Poll(body)),
         outcome = "open" =>
           Left = FramesLeft(body) /\ Fails = FailsLater(body),
         outcome' = "open" =>
           Left' = FramesLeft(body') /\ Fails' = FailsLater(body')
  PROVE  /\ StreamStep
         /\ EndsLast(body')
         /\ outcome' # "open" => body' = <<>>
         /\ outcome # "open" => outcome' = outcome
<1>1. /\ body \in Seq(Result) /\ body' = Rest(body)
      /\ Answer(Poll(body), Poll(body))
  BY DEF TypeOK, PollWrapped
<1>2. /\ EndsLast(body')
      /\ outcome' # "open" => body' = <<>>
      /\ outcome # "open" => outcome' = outcome /\ StreamStep
  BY <1>1, LawfulKept
<1>3. outcome = "open" => StreamStep
  BY <1>1, PassesOn
<1> QED BY <1>2, <1>3

LEMMA TryFutureStreams ==
  ASSUME TypeOK, StreamInv, wrapper = "TryFutureBody", TryFutureBodyPollFrame
  PROVE  StreamInv' /\ StreamStep
<1>1. /\ EndsLast(body)
      /\ outcome = "end" => body = <<>>
      /\ outcome = "error" => ~resolves
      /\ futureInner = "Future" => outcome = "open"
      /\ futureInner = "Failed" => outcome = "error" /\ ~resolves
      /\ futureInner = "Body" => resolves
      /\ resolves' = resolves /\ resolves \in BOOLEAN
  BY DEF StreamInv, TryFutureBodyPollFrame, TypeOK
<1>2. ASSUME wrapper' = wrapper, EndsLast(body'),
             outcome' = "end" => body' = <<>>,
             futureInner' = "Future" => outcome' = "open",
             futureInner' = "Failed" => outcome' = "error" /\ ~resolves,
             futureInner' = "Body" => resolves
      PROVE  StreamInv'
  BY <1>1, <1>2 DEF StreamInv, Leaf
<1>3. /\ outcome = "open" /\ resolves =>
           Left = FramesLeft(body) /\ Fails = FailsLater(body)
      /\ outcome = "open" /\ ~resolves => Left = <<>> /\ Fails = TRUE
  BY DEF Left, Fails, TryFutureBodyLeft, TryFutureBodyFails, FailsLater
<1>4. /\ outcome' = "open" /\ resolves /\ wrapper' = wrapper =>
           Left' = FramesLeft(body') /\ Fails' = FailsLater(body')
      /\ outcome' = "open" /\ ~resolves /\ wrapper' = wrapper =>
           Left' = <<>> /\ Fails' = TRUE
  BY <1>1 DEF Left, Fails, TryFutureBodyLeft, TryFutureBodyFails, FailsLater
<1>5. CASE /\ futureInner = "Future" /\ pending > 0 /\ Answer(Pending, Pending)
           /\ UNCHANGED <<wrappedVars, futureInner>>
  <2>1. /\ body' = body /\ wrapper' = wrapper /\ futureInner' = futureInner
        /\ outcome = "open" /\ outcome' = "open"
    BY <1>1, <1>5, Outcomes, ResultsDiffer DEF wrappedVars
  <2>2. Left' = Left /\ Fails' = Fails
    BY <1>1, <1>3, <1>4, <2>1
  <2>3. Left \in Seq(AnyFrame)
    <3>1. FramesLeft(body) \in Seq(AnyFrame)
      BY FramesLeftUnfolds DEF TypeOK
    <3> QED BY <1>1, <1>3, <2>1, <3>1, EmptySeq
  <2>4. Leaves(Pending)
    BY <2>2 DEF Leaves
  <2>5. StreamStep
    BY <1>5, <2>1, <2>2, <2>3, <2>4, AnswersStep, ResultsDiffer
  <2> QED BY <1>1, <1>2, <1>5, <2>1, <2>5
<1>6. CASE futureInner' = "Body" /\ resolves /\ PollWrapped(Poll(body))
  <2>1. wrapper' = wrapper /\ outcome # "error"
    BY <1>1, <1>6 DEF PollWrapped
  <2>2. /\ StreamStep /\ EndsLast(body')
        /\ outcome' # "open" => body' = <<>>
    BY <1>1, <1>3, <1>4, <1>6, <2>1, BodyPassesOn
  <2> QED BY <1>2, <1>6, <2>1, <2>2
<1>7. CASE futureInner = "Future" /\ ~resolves /\ Fail
  <2>1. /\ body' = body /\ wrapper' = wrapper /\ futureInner' = "Failed"
        /\ outcome = "open" /\ outcome' = "error" /\ Answer(Failure, Failure)
    BY <1>1, <1>7, Outcomes DEF wrappedVars, Fail
  <2>2. Left' = <<>> /\ Fails'
    BY <2>1 DEF Left, Fails
  <2>3. Leaves(Failure)
    BY <1>3, <1>7, <2>1, <2>2 DEF Leaves
  <2>4. StreamStep
    BY <2>1, <2>2, <2>3, AnswersStep, ResultsDiffer, EmptySeq
  <2> QED BY <1>1, <1>2, <1>7, <2>1, <2>4
<1>8. CASE /\ futureInner = "Failed" /\ Answer(End, End)
           /\ UNCHANGED <<wrappedVars, futureInner>>
  <2>1. StreamStep /\ outcome' = outcome
    BY <1>1, <1>8, EndsAgain
  <2> QED BY <1>1, <1>2, <1>8, <2>1 DEF wrappedVars
<1>9. CASE futureInner = "Future" /\ PollFuture
  BY <1>5, <1>6, <1>7, <1>9 DEF PollFuture, Resolve
<1>10. CASE /\ futureInner = "Body" /\ PollWrapped(Poll(body))
            /\ UNCHANGED <<futureInner, pending, resolved>>
  BY <1>1, <1>6, <1>10
<1> QED BY <1>8, <1>9, <1>10 DEF TryFutureBodyPollFrame

-----------------------------------------------------------------------------
(* The adapters owe the frames of their body, each in its own way.          *)

LEMMA MappedType ==
  ASSUME NEW frames \in Seq(DataFrame \cup TrailerFrame)
  PROVE  /\ Mapped(frames) \in Seq(AnyFrame)
         /\ Len(Mapped(frames)) = Len(frames)
<1>1. Mapped(frames) = [i \in 1..Len(frames) |-> MapF[frames[i]]]
  BY LenProperties DEF Mapped
<1>2. \A i \in 1..Len(frames) : MapF[frames[i]] \in AnyFrame
  BY ElementOfSeq, MapFAssumption, FrameTypes
<1>3. Len(frames) \in Nat
  BY LenProperties
<1> QED BY <1>1, <1>2, <1>3

LEMMA NothingMapped == Mapped(<<>>) = <<>>
BY MappedType, EmptySeq

LEMMA MapFrameStreams ==
  ASSUME TypeOK, StreamInv, outcome # "error", MapFrame
  PROVE  StreamInv' /\ StreamStep
<1> DEFINE r == Poll(body)
           u == Rest(body)
           all == FramesLeft(body)
           more == FramesLeft(u)
           a == IF IsFrame(r) THEN MapF[r] ELSE r
<1>1. /\ body \in Seq(Result) /\ r \in Result /\ u \in Seq(Result)
      /\ EndsLast(body) /\ body' = u /\ Answer(a, r)
      /\ wrapper = "MapFrame" /\ wrapper' = wrapper
  BY ScriptTypes DEF TypeOK, StreamInv, MapFrame, PollWrapped
<1>2. outcome = "end" => body = <<>>
  BY <1>1 DEF StreamInv
<1>3. EndsLast(body')
  BY <1>1, EndsLastRest
<1>4. ASSUME outcome' = "end" => body' = <<>> PROVE StreamInv'
  BY <1>1, <1>3, <1>4 DEF StreamInv, Leaf
<1>5. /\ outcome = "open" => Left = Mapped(all) /\ Fails = FailsLater(body)
      /\ outcome' = "open" => Left' = Mapped(more) /\ Fails' = FailsLater(u)
  BY <1>1 DEF Left, Fails, AdapterLeft, AdapterFails, Mapped
<1>6. /\ IsFrame(r) => all = <<r>> \o more
      /\ r = Pending => all = more
      /\ r \in {End, Failure} => all = <<>>
      /\ IsFrame(r) \/ r = Pending => (FailsLater(body) <=> FailsLater(u))
      /\ r = End => ~FailsLater(body)
      /\ r = Failure => FailsLater(body)
      /\ FailsLater(body) \in BOOLEAN /\ FailsLater(u) \in BOOLEAN
  <2>1. FailsLater(body) \in BOOLEAN /\ FailsLater(u) \in BOOLEAN
    BY DEF FailsLater
  <2> QED BY <1>1, <2>1, FramesLeftUnfolds
<1>7. more \in Seq(DataFrame \cup TrailerFrame)
  <2> HIDE DEF u
  <2> QED BY <1>1, FramesOfBody
<1>8. Mapped(more) \in Seq(AnyFrame)
  BY <1>7, MappedType
<1> HIDE DEF r, u, all, more
<1>9. CASE outcome = "open" /\ IsFrame(r)
  <2>1. r \in DataFrame \cup TrailerFrame
    BY <1>1, <1>9, ResultsDiffer DEF Result
  <2>2. MapF[r] \in AnyFrame /\ Mapped(<<r>> \o more) = <<MapF[r]>> \o Mapped(more)
    BY <1>7, <2>1, MapUnfolds
  <2>3. IsFrame(MapF[r]) /\ MapF[r] \notin {Pending, End, Failure}
    <3>1. MapF[r] \in Result /\ MapF[r] \in DataFrame \cup TrailerFrame
      BY <2>1, MapFAssumption DEF Result
    <3>2. \A f \in DataFrame \cup TrailerFrame : IsFrame(f)
      BY FrameTypes DEF IsFrame, Data, Trailers
    <3> QED BY <3>1, <3>2, ResultKinds
  <2>4. a = MapF[r] /\ outcome' = "open"
    BY <1>1, <1>9, <2>3, Outcomes
  <2>5. Left' = Mapped(more) /\ Left = <<MapF[r]>> \o Mapped(more)
    BY <1>5, <1>6, <1>9, <2>2, <2>4
  <2>6. Fails' = Fails
    BY <1>5, <1>6, <1>9, <2>4
  <2>7. Leaves(MapF[r])
    BY <2>3, <2>5, <2>6 DEF Leaves
  <2>8. Answer(MapF[r], r)
    BY <1>9 DEF MapFrame, PollWrapped, r
  <2> QED BY <1>4, <1>8, <1>9, <2>2, <2>4, <2>5, <2>7, <2>8, AnswersStep
<1>10. CASE outcome = "open" /\ r = Pending
  <2>1. a = Pending /\ outcome' = "open"
    BY <1>1, <1>10, Outcomes, ResultsDiffer
  <2>2. Left' = Left /\ Fails' = Fails
    BY <1>5, <1>6, <1>10, <2>1
  <2> HIDE DEF a
  <2>3. Leaves(a)
    BY <2>1, <2>2 DEF Leaves
  <2> QED BY <1>1, <1>4, <1>5, <1>8, <1>10, <2>1, <2>2, <2>3, AnswersStep,
    ResultsDiffer
<1>11. CASE outcome = "open" /\ r \in {End, Failure}
  <2>1. a = r /\ outcome' = IF r = End THEN "end" ELSE "error"
    BY <1>1, <1>11, Outcomes, ResultsDiffer
  <2>2. body' = <<>>
    BY <1>1, <1>11, EndsLastRest DEF r, u
  <2>3. Left = <<>> /\ Fails = (r = Failure)
    BY <1>5, <1>6, <1>11, NothingMapped, ResultsDiffer
  <2>4. Left' = <<>> /\ Fails' = (r = Failure)
    BY <1>11, <2>1, ResultsDiffer DEF Left, Fails
  <2>5. Leaves(r)
    BY <1>11, <2>3, <2>4, ResultsDiffer DEF Leaves
  <2>6. Answer(r, r)
    BY <1>11, ResultsDiffer DEF MapFrame, PollWrapped, r
  <2> QED BY <1>4, <1>11, <2>2, <2>4, <2>5, <2>6, AnswersStep,
    ResultsDiffer, EmptySeq
<1>12. CASE outcome # "open"
  <2>1. body = <<>>
    BY <1>2, <1>12 DEF TypeOK, TaskTypeOK
  <2>2. r = End /\ u = <<>>
    BY <2>1 DEF r, u, Poll, Rest
  <2>3. a = End
    BY <2>2, ResultsDiffer
  <2> HIDE DEF a
  <2> QED BY <1>1, <1>4, <1>12, <2>2, <2>3, EndsAgain
<1> QED BY <1>1, <1>9, <1>10, <1>11, <1>12, ResultKinds

LEMMA BodyDataStreamStreams ==
  ASSUME TypeOK, StreamInv, outcome # "error", BodyDataStream
  PROVE  StreamInv' /\ StreamStep
<1> DEFINE v == SubSeq(body, DataPolls(body), Len(body))
           r == Poll(v)
           u == Rest(v)
<1>1. body \in Seq(Result)
  BY DEF TypeOK
<1>2. /\ v \in Seq(Result)
      /\ SubSeq(body, DataPolls(body) + 1, Len(body)) = u
      /\ r.kind # "trailers" /\ DataLeft(v) = DataLeft(body)
      /\ FailsLater(v) <=> FailsLater(body)
      /\ EndsLast(body) => EndsLast(v)
  BY <1>1, DataPollsSkip
<1>3. body' = u /\ Answer(r, r) /\ wrapper = "BodyDataStream"
      /\ wrapper' = wrapper
  BY <1>2 DEF BodyDataStream
<1>4. EndsLast(v) /\ (outcome = "end" => body = <<>>)
  BY <1>2, <1>3 DEF StreamInv
<1>5. outcome = "end" => v = <<>>
  <2> SUFFICES ASSUME body = <<>> PROVE v = <<>>
    BY <1>4
  <2>1. DataPolls(<<>>) \in 1..(Len(<<>>) + 1) /\ Len(<<>>) = 0
    BY DataPollsType, EmptySeq
  <2>2. DataPolls(body) = 1 /\ Len(body) = 0
    BY <2>1
  <2> QED BY <2>2, SubSeqEmpty
<1> HIDE DEF v
<1>6. r \in Result /\ u \in Seq(Result)
  BY <1>2, ScriptTypes
<1>7. EndsLast(u) /\ (r \in {End, Failure} => u = <<>>)
  BY <1>2, <1>4, EndsLastRest
<1>8. ASSUME outcome' = "end" => body' = <<>> PROVE StreamInv'
  BY <1>3, <1>7, <1>8 DEF StreamInv, Leaf
<1>9. /\ outcome = "open" => Left = DataLeft(v) /\ Fails = FailsLater(v)
      /\ outcome' = "open" => Left' = DataLeft(u) /\ Fails' = FailsLater(u)
  <2>1. FailsLater(v) = FailsLater(body)
    BY <1>2 DEF FailsLater
  <2> QED BY <1>2, <1>3, <2>1 DEF Left, Fails, AdapterLeft, AdapterFails
<1>10. /\ IsData(r) => DataLeft(v) = <<r>> \o DataLeft(u)
       /\ r = Pending => DataLeft(v) = DataLeft(u)
       /\ r \in {End, Failure} => DataLeft(v) = <<>>
       /\ IsFrame(r) \/ r = Pending => FailsLater(v) = FailsLater(u)
       /\ r = End => ~FailsLater(v)
       /\ r = Failure => FailsLater(v)
       /\ DataLeft(u) \in Seq(AnyFrame)
       /\ FailsLater(v) \in BOOLEAN
  <2>1. FailsLater(v) \in BOOLEAN /\ FailsLater(u) \in BOOLEAN
    BY DEF FailsLater
  <2> HIDE DEF u
  <2> QED BY <1>2, <1>6, <2>1, FramesLeftUnfolds, DataLeftUnfolds DEF u
<1> HIDE DEF r, u
<1>11. CASE outcome = "open" /\ IsFrame(r)
  <2>1. IsData(r) /\ r \in AnyFrame /\ r \notin {Pending, End, Failure}
    BY <1>2, <1>6, <1>11, ResultKinds DEF IsFrame, IsData
  <2>2. outcome' = "open"
    BY <1>3, <1>11, <2>1, Outcomes
  <2>3. Leaves(r)
    BY <1>9, <1>10, <1>11, <2>1, <2>2 DEF Leaves
  <2> QED BY <1>3, <1>8, <1>9, <1>10, <1>11, <2>1, <2>2, <2>3, AnswersStep
<1>12. CASE outcome = "open" /\ r = Pending
  <2>1. outcome' = "open"
    BY <1>3, <1>12, Outcomes, ResultsDiffer
  <2>2. Left' = Left /\ Fails' = Fails
    BY <1>9, <1>10, <1>12, <2>1
  <2>3. Leaves(r)
    BY <1>12, <2>2 DEF Leaves
  <2> QED BY <1>3, <1>8, <1>9, <1>10, <1>12, <2>1, <2>3, AnswersStep,
    ResultsDiffer
<1>13. CASE outcome = "open" /\ r \in {End, Failure}
  <2>1. outcome' = IF r = End THEN "end" ELSE "error"
    BY <1>3, <1>13, Outcomes, ResultsDiffer
  <2>2. Left = <<>> /\ Fails = (r = Failure)
    BY <1>9, <1>10, <1>13, ResultsDiffer
  <2>3. Left' = <<>> /\ Fails' = (r = Failure)
    BY <1>13, <2>1, ResultsDiffer DEF Left, Fails
  <2>4. Leaves(r)
    BY <1>13, <2>2, <2>3, ResultsDiffer DEF Leaves
  <2> QED BY <1>3, <1>7, <1>8, <1>13, <2>3, <2>4, AnswersStep, ResultsDiffer,
    EmptySeq
<1>14. CASE outcome # "open"
  <2>1. v = <<>>
    BY <1>5, <1>14 DEF TypeOK, TaskTypeOK
  <2>2. r = End /\ u = <<>>
    BY <2>1 DEF r, u, Poll, Rest
  <2> QED BY <1>3, <1>8, <1>14, <2>2, EndsAgain
<1> QED BY <1>6, <1>11, <1>12, <1>13, <1>14, ResultKinds

LEMMA ForwarderStreams ==
  ASSUME TypeOK, StreamInv, PollWrapped(Poll(body)),
         outcome # "error" \/ wrapper = "ErrorBody",
         wrapper \in Forwarding \cup {"StreamBody", "BodyStream"}
           \cup {"Full", "String", "ErrorBody"}
  PROVE  StreamInv' /\ StreamStep
<1>1. /\ EndsLast(body)
      /\ outcome = "end" => body = <<>>
      /\ outcome # "error" \/ body = <<>>
  BY DEF StreamInv, Forwarding, Pointing
<1>2. /\ outcome = "open" =>
           Left = FramesLeft(body) /\ Fails = FailsLater(body)
      /\ outcome' = "open" /\ wrapper' = wrapper =>
           Left' = FramesLeft(body') /\ Fails' = FailsLater(body')
  BY DEF Left, Fails, AdapterLeft, AdapterFails, Forwarding, Pointing
<1>3. wrapper' = wrapper /\ body' = Rest(body)
  BY DEF PollWrapped
<1>4. /\ StreamStep
      /\ EndsLast(body')
      /\ outcome' # "open" => body' = <<>>
  BY <1>1, <1>2, <1>3, BodyPassesOn
<1>5. wrapper \in Leaf => body' = <<>>
  <2>1. \A f \in DataFrame : Rest(<<f>>) = <<>>
    BY DEF Rest
  <2> QED BY <1>3, <2>1 DEF StreamInv, Rest
<1>6. StreamInv'
  BY <1>3, <1>4, <1>5 DEF StreamInv, Forwarding, Pointing, Leaf
<1> QED BY <1>4, <1>6

LEMMA AdapterStreams ==
  ASSUME TypeOK, StreamInv, AdapterPollFrame
  PROVE  StreamInv' /\ StreamStep
<1>1. CASE MapErr \/ InspectFrame \/ InspectErr \/ Either \/ BoxBody \/ Forwarded
           \/ StreamBody \/ BodyStream \/ Full \/ String
  <2>1. outcome # "error"
    BY <1>1 DEF AdapterPollFrame, MayPoll, MapErr, InspectFrame, InspectErr,
      Either, BoxBody, Forwarded, Pointing, StreamBody, BodyStream, Full, String, ErrorBody
  <2> QED BY <1>1, <2>1, ForwarderStreams DEF MapErr, InspectFrame, InspectErr,
    Either, BoxBody, Forwarded, Pointing, StreamBody, BodyStream, Full, String, Forwarding
<1>2. CASE ErrorBody
  BY <1>2, ForwarderStreams DEF ErrorBody
<1>3. CASE MayPoll /\ MapFrame
  BY <1>3, MapFrameStreams DEF MayPoll
<1>4. CASE MayPoll /\ BodyDataStream
  BY <1>4, BodyDataStreamStreams DEF MayPoll
<1>5. CASE MayPoll /\ Empty
  <2>1. /\ body = <<>> /\ body' = body /\ wrapper = "Empty" /\ wrapper' = wrapper
        /\ Answer(End, End)
    BY <1>5 DEF StreamInv, Empty, wrappedVars
  <2>2. StreamInv'
    BY <2>1 DEF StreamInv, Leaf
  <2>3. CASE outcome = "open"
    <3>1. Poll(<<>>) = End /\ <<>> \in Seq(Result)
      BY EmptySeq DEF Poll
    <3>2. FramesLeft(<<>>) = <<>> /\ ~FailsLater(<<>>)
      BY <3>1, FramesLeftUnfolds
    <3>3. Left = <<>> /\ ~Fails
      BY <2>1, <2>3, <3>2 DEF Left, Fails, AdapterLeft, AdapterFails
    <3>4. outcome' = "end"
      BY <2>1, <2>3, Outcomes
    <3>5. Left' = <<>> /\ ~Fails'
      BY <3>4 DEF Left, Fails
    <3>6. Leaves(End)
      BY <3>3, <3>5 DEF Leaves
    <3> QED BY <2>1, <2>2, <2>3, <3>5, <3>6, AnswersStep, ResultsDiffer, EmptySeq
  <2> QED BY <2>1, <2>2, <2>3, EndsAgain
<1>6. CASE MayPoll /\ PendingForEver
  <2>1. /\ body = <<>> /\ body' = body /\ wrapper = "Pending"
        /\ wrapper' = wrapper /\ outcome = "open" /\ Answer(Pending, End)
    BY <1>6 DEF StreamInv, PendingForEver, wrappedVars
  <2>2. outcome' = "open"
    BY <2>1, Outcomes, ResultsDiffer
  <2>3. StreamInv'
    BY <2>1, <2>2 DEF StreamInv, Leaf
  <2>4. Left' = Left /\ Fails' = Fails
    BY <2>1, <2>2 DEF Left, Fails, AdapterLeft, AdapterFails
  <2>5. Left \in Seq(AnyFrame)
    <3>1. FramesLeft(<<>>) \in Seq(AnyFrame)
      BY EmptySeq, FramesLeftUnfolds
    <3> QED BY <2>1, <3>1 DEF Left, AdapterLeft
  <2>6. Leaves(Pending)
    BY <2>4 DEF Leaves
  <2> QED BY <2>1, <2>3, <2>4, <2>5, <2>6, AnswersStep, ResultsDiffer
<1> QED BY <1>1, <1>2, <1>3, <1>4, <1>5, <1>6 DEF AdapterPollFrame

-----------------------------------------------------------------------------
(* Every body of this module is a stream.                                   *)

LEMMA LeftType ==
  ASSUME TypeOK, StreamInv
  PROVE  Left \in Seq(AnyFrame)
<1>1. /\ body \in Seq(Result) /\ FramesLeft(body) \in Seq(AnyFrame)
      /\ DataLeft(body) \in Seq(AnyFrame) /\ <<>> \in Seq(AnyFrame)
      /\ FramesLeft(body) \in Seq(DataFrame \cup TrailerFrame)
  BY FramesLeftUnfolds, DataLeftUnfolds, FramesOfBody, EmptySeq DEF TypeOK
<1>2. Mapped(FramesLeft(body)) \in Seq(AnyFrame)
  BY <1>1, MappedType
<1>3. AdapterLeft \in Seq(AnyFrame)
  BY <1>1, <1>2 DEF AdapterLeft, Mapped
<1>4. CASE wrapper = "Limited" /\ outcome = "open"
  <2>1. /\ remaining \in Nat /\ Bytes(returned) \in Nat
        /\ remaining + Bytes(returned) = limit
    BY <1>4, WidthAssumption, BytesType
    DEF TypeOK, TaskTypeOK, StreamInv, U64
  <2>2. Within(FramesLeft(body)) = Fits(FramesLeft(body), remaining)
    BY <1>1, <2>1, WithinFits DEF Within
  <2>3. LimitedLeft = Cut(FramesLeft(body), remaining)
    BY <2>2 DEF LimitedLeft, Cut
  <2>4. LimitedLeft \in Seq(AnyFrame)
    BY <1>1, <2>1, <2>3, CutFits
  <2> QED BY <1>4, <2>4 DEF Left
<1> QED BY <1>1, <1>3, <1>4 DEF Left, FuseLeft, TryFutureBodyLeft

LEMMA StreamStarts == Init => Stream!Init
<1> SUFFICES ASSUME Init PROVE Stream!Init
  OBVIOUS
<1>1. Left \in Seq(AnyFrame)
  BY InitTypes, StreamInvStarts, LeftType
<1>2. <<>> \o Left = Left
  BY <1>1, ConcatEmptySeq
<1> QED BY <1>1, <1>2 DEF Init, TaskInit, Stream!Init

LEMMA StreamSteps == TypeOK /\ StreamInv /\ [Next]_vars => StreamInv' /\ StreamStep
<1> SUFFICES ASSUME TypeOK, StreamInv, [Next]_vars
             PROVE  StreamInv' /\ StreamStep
  OBVIOUS
<1>1. AdapterPollFrame => wrapper \notin {"Fuse", "Limited", "TryFutureBody"}
  BY DEF AdapterPollFrame, MapErr, InspectFrame, InspectErr, Either, BoxBody, Forwarded, Pointing,
    StreamBody, BodyStream, MapFrame, BodyDataStream, Full, Empty, String,
    PendingForEver, ErrorBody
<1>2. CASE PollFrame
  BY <1>2, FuseStreams, LimitedStreams, TryFutureStreams, AdapterStreams
  DEF PollFrame
<1>3. CASE /\ UNCHANGED innerVars
           /\ returned' = returned /\ outcome' = outcome
  <2>1. StreamInv'
    BY <1>3 DEF StreamInv, innerVars, wrappedVars, limitedVars, futureVars
  <2>2. Left' = Left /\ Fails' = Fails
    BY <1>3 DEF Left, Fails, innerVars, wrappedVars, limitedVars, futureVars,
      FuseLeft, FuseFails, LimitedLeft, LimitedFails, Within,
      TryFutureBodyLeft, TryFutureBodyFails, AdapterLeft, AdapterFails
  <2> QED BY <1>3, <2>1, <2>2 DEF StreamStep, Stream!svars
<1> QED BY <1>2, <1>3 DEF Next, Hangs, Wake, TaskDone, vars, taskVars

\* Every wrapper is one stream with the frames it owes, in order and once each,
\* then its end or its error and nothing after that: a Fuse over any body
\* whatever, a Limited up to the first frame whose bytes exceed the limit, a
\* TryFutureBody with the error of its future or the frames of its body.
THEOREM WrappersAreStreams == Spec => ImplementsStream
<1> QED BY StreamStarts, StreamInvStarts, InitTypes, NextTypes, StreamSteps, PTL
    DEF Spec, StreamStep, ImplementsStream, Stream!Spec

-----------------------------------------------------------------------------
(* The hints. Only a body that says it may have the largest number of bytes *)
(* has to have no more than that.                                           *)

Hinted == Forwarding \cup {"Fuse", "Limited", "TryFutureBody"}

HintFits ==
  hinting = "max" /\ wrapper \in Hinted /\ (wrapper = "Fuse" => fuseInner = "Some")
    => Representable(body)

LEMMA RestFits ==
  ASSUME NEW s \in Seq(Result), Representable(s),
         EndsLast(s) \/ Poll(s) \notin {End, Failure}
  PROVE  Representable(Rest(s))
<1>1. CASE Poll(s) \in {End, Failure}
  <2>1. Rest(s) = <<>>
    BY <1>1, EndsLastRest
  <2>2. FramesLeft(<<>>) = <<>>
    BY NothingLeft DEF FramesLeft
  <2>3. Bytes(FramesLeft(Rest(s))) = 0
    BY <2>1, <2>2, NoBytes, Zenon
  <2>4. Bytes(FramesLeft(s)) \in Nat
    BY FramesLeftUnfolds, BytesType
  <2> QED BY <2>3, <2>4, WidthAssumption DEF Representable
<1>2. CASE Poll(s) \notin {End, Failure}
  <2>1. Poll(s) = Pending \/ IsFrame(Poll(s))
    BY <1>2, ScriptTypes, ResultKinds
  <2> QED BY <2>1, RepresentableRest
<1> QED BY <1>1, <1>2

LEMMA HintFitsKept == TypeOK /\ StreamInv /\ HintFits /\ [Next]_vars => HintFits'
<1> SUFFICES ASSUME TypeOK, StreamInv, HintFits, [Next]_vars PROVE HintFits'
  OBVIOUS
<1>1. CASE /\ wrapper' = wrapper /\ body' = body /\ hinting' = hinting
           /\ fuseInner' = fuseInner
  BY <1>1 DEF HintFits
<1>2. CASE /\ wrapper' = wrapper /\ hinting' = hinting /\ wrapper # "Fuse"
           /\ body' = Rest(body)
  BY <1>2, RestFits DEF HintFits, StreamInv, TypeOK
<1>3. CASE wrapper = "Fuse" /\ FusePollFrame
  <2>1. CASE fuseInner = "Some" /\ fuseInner' = "Some"
    <3>1. /\ body' = Rest(body) /\ wrapper' = wrapper /\ hinting' = hinting
          /\ Poll(body) \notin {End, Failure}
      BY <1>3, <2>1 DEF FusePollFrame, PollWrapped, Eos
    <3> QED BY <1>3, <2>1, <3>1, RestFits DEF HintFits, TypeOK
  <2> QED BY <1>3, <2>1 DEF FusePollFrame, HintFits, PollWrapped, wrappedVars
<1>4. CASE wrapper \notin Hinted /\ wrapper' = wrapper
  BY <1>4 DEF HintFits
<1>5. CASE wrapper = "Limited" /\ LimitedPollFrame
  BY <1>2, <1>5 DEF LimitedPollFrame, PollWrapped
<1>6. CASE /\ wrapper = "TryFutureBody" /\ TryFutureBodyPollFrame
           /\ UNCHANGED fuseInner
  BY <1>1, <1>2, <1>6 DEF TryFutureBodyPollFrame, PollFuture, Resolve, Fail,
    PollWrapped, wrappedVars
<1>7. CASE AdapterPollFrame
  BY <1>2, <1>4, <1>7 DEF AdapterPollFrame, MapErr, InspectFrame, InspectErr,
    Either, BoxBody, Forwarded, Pointing, StreamBody, BodyStream, MapFrame, BodyDataStream, Full,
    Empty, String, PendingForEver, ErrorBody, PollWrapped, wrappedVars,
    Hinted, Forwarding, Pointing
<1> QED BY <1>1, <1>3, <1>5, <1>6, <1>7
  DEF Next, PollFrame, Hangs, Wake, TaskDone, vars, innerVars, wrappedVars

\* What the wrappers owe that pass the frames of their body on, all of them.
LEMMA PassedOn ==
  ASSUME TypeOK, StreamInv, outcome # "error", wrapper \in Hinted,
         wrapper # "Limited",
         wrapper = "Fuse" => fuseInner = "Some",
         wrapper = "TryFutureBody" => futureInner = "Body"
  PROVE  Left = FramesLeft(body) /\ Fails = FailsLater(body)
<1>1. CASE outcome = "open"
  BY <1>1 DEF StreamInv, Left, Fails, FuseLeft, FuseFails, TryFutureBodyLeft,
    TryFutureBodyFails, AdapterLeft, AdapterFails, Hinted, Forwarding, Pointing, FailsLater
<1>2. CASE outcome = "end"
  <2>1. body = <<>>
    BY <1>2 DEF StreamInv
  <2>2. FramesLeft(body) = <<>> /\ FailsLater(body) = FALSE
    BY <2>1, NothingLeft, NothingFails DEF FramesLeft, FailsLater
  <2>3. Left = <<>> /\ Fails = FALSE
    BY <1>2 DEF Left, Fails
  <2> QED BY <2>2, <2>3
<1> QED BY <1>1, <1>2 DEF TypeOK, TaskTypeOK

\* The hint of the body holds for such a wrapper.
LEMMA BodyHintsHold ==
  ASSUME TypeOK, StreamInv, HintFits, wrapper \in Hinted,
         wrapper # "Limited",
         wrapper = "Fuse" => fuseInner = "Some",
         wrapper = "TryFutureBody" => futureInner = "Body"
  PROVE  /\ Sound(InnerHint, Left, Fails)
         /\ \A max \in InnerHint.upper : InnerHint.lower <= max
         /\ InnerEnd => Left = <<>> /\ (Fails => outcome = "error")
<1>1. body \in Seq(Result) /\ hinting \in Hinting
  BY HintsAssumption DEF TypeOK
<1>2. /\ InnerHint.upper \subseteq Nat
      /\ \A m \in InnerHint.upper :
           Bytes(DataLeft(body)) <= m /\ InnerHint.lower <= m
      /\ CutShort(body) \/ InnerHint.lower <= Bytes(DataLeft(body))
  BY <1>1, HintsHold DEF HintFits, InnerHint
<1>3. CASE outcome = "error"
  <2>1. Left = <<>> /\ Fails /\ Bytes(Left) = 0
    BY <1>3, NoBytes DEF Left, Fails
  <2> QED BY <1>2, <1>3, <2>1 DEF Sound
<1>4. CASE outcome # "error"
  <2>1. Left = FramesLeft(body) /\ Fails = FailsLater(body)
    BY <1>4, PassedOn
  <2>2. Bytes(Left) = Bytes(DataLeft(body)) /\ (CutShort(body) => Fails)
    BY <1>1, <2>1, BytesAreData DEF CutShort
  <2>3. InnerEnd => Left = <<>> /\ ~Fails
    BY <1>1, <2>1, FramesLeftUnfolds DEF InnerEnd, EndOf
  <2> QED BY <1>2, <2>2, <2>3 DEF Sound
<1> QED BY <1>3, <1>4

LEMMA LimitedHintsHold ==
  ASSUME TypeOK, StreamInv, HintFits, wrapper = "Limited"
  PROVE  HintsAreSound
<1> DEFINE h == InnerHint
           n == Bytes(DataLeft(body))
           all == FramesLeft(body)
<1>1. /\ body \in Seq(Result) /\ hinting \in Hinting /\ all \in Seq(AnyFrame)
      /\ remaining \in Nat
  <2>1. body \in Seq(Result) /\ hinting \in Hinting
    BY HintsAssumption DEF TypeOK
  <2>2. remaining \in Nat
    BY WidthAssumption DEF TypeOK, U64
  <2> QED BY <2>1, <2>2, FramesLeftUnfolds
<1>2. /\ n \in Nat /\ h.lower \in Nat /\ h.upper \subseteq Nat
      /\ h.upper = {} \/ \E m \in Nat : h.upper = {m}
      /\ \A m \in h.upper : n <= m /\ h.lower <= m
      /\ CutShort(body) \/ h.lower <= n
  BY <1>1, HintsHold DEF HintFits, InnerHint, Hinted
<1>3. Bytes(all) = n
  BY <1>1, BytesAreData
<1>4. outcome # "error" =>
        /\ Left = Cut(all, remaining)
        /\ Fails = (FailsLater(body) \/ Left # all)
  <2>1. CASE outcome = "open"
    <3>1. /\ remaining + Bytes(returned) = limit /\ Bytes(returned) \in Nat
      BY <2>1, BytesType DEF StreamInv, TypeOK, TaskTypeOK
    <3>2. Within(all) = Fits(all, remaining)
      <4> HIDE DEF all
      <4> QED BY <1>1, <3>1, WithinFits DEF Within
    <3> QED BY <2>1, <3>2 DEF Left, Fails, LimitedLeft, LimitedFails, Cut
  <2>2. CASE outcome = "end"
    <3>1. body = <<>>
      BY <2>2 DEF StreamInv
    <3>2. all = <<>> /\ ~FailsLater(body)
      BY <3>1, NothingLeft, NothingFails DEF FramesLeft
    <3>3. Cut(all, remaining) = <<>>
      BY <1>1, <3>2, NothingCut
    <3> QED BY <2>2, <3>2, <3>3 DEF Left, Fails
  <2> QED BY <2>1, <2>2 DEF TypeOK, TaskTypeOK
<1>5. outcome = "error" => Left = <<>> /\ Fails
  BY DEF Left, Fails
<1>6. /\ Bytes(Left) \in Nat /\ Bytes(Left) <= remaining /\ Bytes(Left) <= n
      /\ Fails \/ h.lower <= Bytes(Left)
  <2>1. CASE outcome = "error"
    <3>1. Bytes(Left) = 0
      BY <1>5, <2>1, NoBytes, Zenon
    <3> QED BY <1>1, <1>2, <1>5, <2>1, <3>1
  <2>2. CASE outcome # "error"
    <3>1. /\ Bytes(Left) \in Nat /\ Bytes(Left) <= remaining
          /\ Bytes(Left) <= Bytes(all)
      <4> HIDE DEF all
      <4> QED BY <1>1, <1>4, <2>2, CutFits
    <3>2. ~Fails => Left = all /\ ~CutShort(body)
      BY <1>4, <2>2 DEF CutShort
    <3> QED BY <1>2, <1>3, <3>1, <3>2
  <2> QED BY <2>1, <2>2
<1>7. IsEndStream => Left = <<>> /\ (Fails => outcome = "error")
  <2> SUFFICES ASSUME InnerEnd PROVE Left = <<>> /\ (Fails => outcome = "error")
    BY DEF IsEndStream, LimitedIsEndStream
  <2>1. all = <<>> /\ ~FailsLater(body)
    BY <1>1, FramesLeftUnfolds DEF InnerEnd, EndOf
  <2>2. Cut(all, remaining) = <<>>
    BY <1>1, <2>1, NothingCut
  <2> QED BY <1>4, <1>5, <2>1, <2>2
<1>8. SizeHint = LimitedSizeHint
  BY DEF SizeHint
<1>9. LimitedSizeHint = IF h.lower >= remaining THEN Exactly(remaining)
                        ELSE WithUpper(h, Min(h.upper \cup {remaining}))
  BY DEF LimitedSizeHint
<1> HIDE DEF h, n, all
<1>10. CASE h.lower >= remaining
  <2>1. SizeHint.lower = remaining /\ SizeHint.upper = {remaining}
    BY <1>8, <1>9, <1>10 DEF Exactly
  <2>2. Fails \/ remaining <= Bytes(Left)
    BY <1>1, <1>2, <1>6, <1>10
  <2> QED BY <1>1, <1>6, <1>7, <2>1, <2>2 DEF HintsAreSound, Sound
<1>11. CASE ~(h.lower >= remaining)
  <2> DEFINE U == h.upper \cup {remaining}
             least == Min(U)
  <2>1. least \in U /\ U \subseteq Nat
    <3>1. U \subseteq Nat /\ U # {}
      BY <1>1, <1>2
    <3> HIDE DEF U
    <3> QED BY <3>1, LeastOfSome
  <2> HIDE DEF least
  <2>2. h.lower <= least /\ Bytes(Left) <= least
    BY <1>1, <1>2, <1>6, <1>11, <2>1
  <2>3. SizeHint.lower = h.lower /\ SizeHint.upper = {least}
    <3>1. SizeHint = [h EXCEPT !.upper = {least}]
      BY <1>8, <1>9, <1>11 DEF WithUpper, least
    <3>2. \E lo, up : h = [lower |-> lo, upper |-> up]
      BY <1>1 DEF h, InnerHint, HintOf, NoHint, Exactly, WithUpper, Hinting
    <3> QED BY <3>1, <3>2
  <2> QED BY <1>6, <1>7, <2>2, <2>3 DEF HintsAreSound, Sound
<1> QED BY <1>10, <1>11

LEMMA LeafHintsHold ==
  ASSUME TypeOK, StreamInv, wrapper \in Leaf
  PROVE  HintsAreSound
<1>1. /\ SizeHint = Exactly(Bytes(body))
      /\ IsEndStream <=> body = <<>>
      /\ wrapper # "Fuse"
  BY DEF SizeHint, AdapterSizeHint, IsEndStream, AdapterIsEndStream, Leaf,
    Forwarding, Pointing
<1>2. FramesLeft(body) = body /\ body \in Seq(AnyFrame)
  <2>1. FramesLeft(<<>>) = <<>> /\ <<>> \in Seq(AnyFrame)
    BY NothingLeft, EmptySeq DEF FramesLeft
  <2>2. ASSUME NEW f \in DataFrame
        PROVE  FramesLeft(<<f>>) = <<f>> /\ <<f>> \in Seq(AnyFrame)
    <3>1. f \in Result /\ f \in AnyFrame /\ IsFrame(f)
      BY FrameTypes DEF Result, IsFrame, Data
    <3>2. <<f>> \in Seq(Result) /\ Poll(<<f>>) = f /\ Rest(<<f>>) = <<>>
      BY <3>1 DEF Poll, Rest
    <3>3. FramesLeft(<<f>>) = <<f>> \o FramesLeft(<<>>)
      BY <3>1, <3>2, FramesLeftUnfolds
    <3>4. <<f>> \in Seq(AnyFrame)
      BY <3>1
    <3> QED BY <2>1, <3>3, <3>4, ConcatEmptySeq
  <2> QED BY <2>1, <2>2 DEF StreamInv
<1>3. Bytes(body) \in Nat
  BY <1>2, BytesType
<1>4. body = <<>> => ~FailsLater(body)
  BY NothingFails
<1>5. CASE outcome = "open"
  <2>1. Left = body /\ Fails = FailsLater(body)
    BY <1>2, <1>5 DEF Left, Fails, AdapterLeft, AdapterFails, Leaf
  <2> QED BY <1>1, <1>3, <1>4, <2>1 DEF HintsAreSound, Sound, Exactly
<1>6. CASE outcome # "open"
  <2>1. Left = <<>> /\ (Fails <=> outcome = "error") /\ Bytes(Left) = 0
    BY <1>6, NoBytes DEF Left, Fails
  <2>2. outcome # "error" => Bytes(body) = 0
    <3>1. outcome # "error" => body = <<>>
      BY <1>1, <1>6 DEF StreamInv, TypeOK, TaskTypeOK
    <3> QED BY <3>1, NoBytes, Zenon
  <2>3. SizeHint.lower = Bytes(body) /\ SizeHint.upper = {Bytes(body)}
    BY <1>1 DEF Exactly
  <2>4. Sound(SizeHint, Left, Fails)
    <3>1. Fails \/ SizeHint.lower <= Bytes(Left)
      BY <2>1, <2>2, <2>3
    <3> QED BY <1>3, <2>1, <2>3, <3>1 DEF Sound
  <2> QED BY <1>1, <1>3, <2>1, <2>3, <2>4 DEF HintsAreSound
<1> QED BY <1>5, <1>6

LEMMA HintsHoldHere == TypeOK /\ StreamInv /\ HintFits => HintsAreSound
<1> SUFFICES ASSUME TypeOK, StreamInv, HintFits PROVE HintsAreSound
  OBVIOUS
<1>1. CASE wrapper = "Limited"
  BY <1>1, LimitedHintsHold
<1>2. CASE wrapper \in Leaf
  BY <1>2, LeafHintsHold
<1>3. CASE wrapper \in Forwarding
  <2>1. SizeHint = InnerHint /\ IsEndStream = InnerEnd /\ wrapper # "Fuse"
    BY <1>3 DEF SizeHint, AdapterSizeHint, IsEndStream, AdapterIsEndStream,
      Leaf, Forwarding, Pointing, InnerEnd, EndOf
  <2>2. wrapper \in Hinted /\ wrapper \notin {"Fuse", "Limited", "TryFutureBody"}
    BY <1>3 DEF Hinted, Forwarding, Pointing
  <2> QED BY <2>1, <2>2, BodyHintsHold DEF HintsAreSound
<1>4. CASE wrapper = "Fuse" /\ fuseInner = "Some"
  <2>1. SizeHint = InnerHint /\ ~IsEndStream /\ outcome = "open"
    BY <1>4 DEF SizeHint, FuseSizeHint, IsEndStream, FuseIsEndStream, StreamInv
  <2> QED BY <1>4, <2>1, BodyHintsHold DEF HintsAreSound, Hinted
<1>5. CASE wrapper = "Fuse" /\ fuseInner = "None"
  <2>1. SizeHint = Exactly(0) /\ IsEndStream
    BY <1>5 DEF SizeHint, FuseSizeHint, IsEndStream, FuseIsEndStream
  <2>2. Left = <<>> /\ (Fails => outcome = "error")
    <3>1. outcome = "open" => FramesLeft(body) = <<>> /\ ~FailsLater(body)
      BY <1>5, FramesLeftUnfolds DEF StreamInv, TypeOK
    <3> QED BY <1>5, <3>1 DEF Left, Fails, FuseLeft, FuseFails
  <2>3. Bytes(Left) = 0
    BY <2>2, NoBytes, Zenon
  <2> QED BY <2>1, <2>2, <2>3 DEF HintsAreSound, Sound, Exactly
<1>6. CASE wrapper = "TryFutureBody" /\ futureInner = "Future"
  <2>1. SizeHint = NoHint /\ ~IsEndStream
    BY <1>6 DEF SizeHint, TryFutureBodySizeHint, IsEndStream,
      TryFutureBodyIsEndStream
  <2>2. Bytes(Left) \in Nat
    BY LeftType, BytesType
  <2> QED BY <1>6, <2>1, <2>2 DEF HintsAreSound, Sound, NoHint
<1>7. CASE wrapper = "TryFutureBody" /\ futureInner = "Body"
  <2>1. SizeHint = InnerHint /\ IsEndStream = InnerEnd
    BY <1>7 DEF SizeHint, TryFutureBodySizeHint, IsEndStream,
      TryFutureBodyIsEndStream, InnerEnd, EndOf
  <2> QED BY <1>7, <2>1, BodyHintsHold DEF HintsAreSound, Hinted
<1>8. CASE wrapper = "TryFutureBody" /\ futureInner = "Failed"
  <2>1. SizeHint = Exactly(0) /\ outcome = "error"
    BY <1>8 DEF SizeHint, TryFutureBodySizeHint, StreamInv
  <2>2. Left = <<>> /\ Fails /\ Bytes(Left) = 0
    BY <2>1, NoBytes DEF Left, Fails
  <2> QED BY <1>8, <2>1, <2>2 DEF HintsAreSound, Sound, Exactly
<1>9. CASE wrapper \in Streaming \cup {"Pending", "ErrorBody"}
  <2>1. SizeHint = NoHint /\ wrapper # "Fuse"
    BY <1>9 DEF SizeHint, AdapterSizeHint, Streaming, Leaf, Forwarding, Pointing
  <2>2. Bytes(Left) \in Nat
    BY LeftType, BytesType
  <2>3. ASSUME IsEndStream PROVE Left = <<>> /\ (Fails => outcome = "error")
    <3>1. CASE outcome # "open"
      BY <3>1 DEF Left, Fails
    <3>2. CASE outcome = "open"
      <4>1. \/ wrapper = "MapFrame" /\ InnerEnd
            \/ wrapper = "ErrorBody" /\ body = <<>>
        BY <1>9, <2>3 DEF IsEndStream, AdapterIsEndStream, Streaming, Leaf,
          Forwarding, Pointing
      <4>2. Poll(body) = End
        BY <4>1 DEF InnerEnd, EndOf, Poll
      <4>3. FramesLeft(body) = <<>> /\ ~FailsLater(body)
        BY <4>2, FramesLeftUnfolds DEF TypeOK
      <4>4. AdapterLeft = <<>>
        <5>1. Mapped(FramesLeft(body)) = <<>>
          BY <4>3, NothingMapped
        <5> QED BY <4>1, <4>3, <5>1 DEF AdapterLeft, Mapped
      <4> QED BY <3>2, <4>1, <4>3, <4>4 DEF Left, Fails, AdapterFails
    <3> QED BY <3>1, <3>2
  <2> QED BY <2>1, <2>2, <2>3 DEF HintsAreSound, Sound, NoHint
<1> QED BY <1>1, <1>2, <1>3, <1>4, <1>5, <1>6, <1>7, <1>8, <1>9
  DEF StreamInv, TypeOK

\* What every wrapper says of its size and of its end bounds what it still
\* gives, at every moment, and never makes set_upper panic: above all that of a
\* Limited, which cuts the hint of its body at what remains of the limit. Only a
\* body that says it may have the largest number of bytes has to have no more.
THEOREM WrappersHintsAreSound ==
  ASSUME "max" \in Hints => \A s \in Script : Representable(s)
  PROVE  Spec => []HintsAreSound
<1>1. Init => HintFits
  <2> SUFFICES ASSUME Init, hinting = "max", wrapper \in Hinted
               PROVE  Representable(body)
    BY DEF HintFits
  <2>1. body \in Script /\ hinting \in Hints
    BY DEF Init, FuseNew, LimitedNew, TryFutureBodyNew, AdapterNew, LeafNew,
      PendingNew, ErrorBodyNew, Wraps, Lawful, Hinted, Forwarding, Pointing, Leaf
  <2> QED BY <2>1
<1> QED BY <1>1, StreamInvStarts, InitTypes, NextTypes, StreamSteps,
      HintFitsKept, HintsHoldHere, PTL DEF Spec
-----------------------------------------------------------------------------
(* What is safe about waiting.                                             *)

LEMMA WaitsForPending ==
  ASSUME NEW r, NEW last, Answer(r, last), r = Pending => last = Pending
  PROVE  task' = "parked" => woken'
BY DEF Answer

LEMMA WrappedWaits ==
  ASSUME TypeOK, NEW r, PollWrapped(r),
         r \in AnyFrame \cup {Failure} \/ r = Poll(body)
  PROVE  task' = "parked" => woken'
<1>1. r = Pending => Poll(body) = Pending
  BY FrameTypes, ResultsDiffer DEF AnyFrame, Data, Trailers, IsFrame
<1> QED BY <1>1, WaitsForPending DEF PollWrapped

LEMMA WrapperWaits ==
  ASSUME TypeOK, wrapper # "Pending", PollFrame
  PROVE  task' = "parked" => woken'
<1>1. CASE PollWrapped(Poll(body))
  BY <1>1, WrappedWaits
<1>2. CASE \/ Answer(End, End) \/ Answer(Pending, Pending)
           \/ Answer(Failure, Failure)
  BY <1>2, WaitsForPending
<1>3. CASE PollWrapped(Failure)
  BY <1>3, WrappedWaits
<1>4. CASE MapFrame
  <2>1. Poll(body) \in Result
    BY ScriptTypes DEF TypeOK
  <2>2. IsFrame(Poll(body)) => MapF[Poll(body)] \in AnyFrame
    BY <2>1, FrameTypes, MapFAssumption, ResultsDiffer DEF Result
  <2> QED BY <1>4, <2>2, WrappedWaits DEF MapFrame
<1>5. CASE BodyDataStream
  <2> DEFINE n == DataPolls(body)
             last == Poll(SubSeq(body, n, Len(body)))
  <2>1. last.kind # "trailers"
    BY DataPollsSkip DEF TypeOK
  <2>2. Answer(last, last)
    BY <1>5, <2>1 DEF BodyDataStream
  <2> QED BY <2>2, WaitsForPending
<1> QED BY <1>1, <1>2, <1>3, <1>4, <1>5
    DEF PollFrame, FusePollFrame, LimitedPollFrame, TryFutureBodyPollFrame,
      PollFuture, Resolve, Fail, AdapterPollFrame, MapErr, InspectFrame,
      InspectErr, Either, BoxBody, Forwarded, Pointing, StreamBody, BodyStream, Full, Empty, String,
      PendingForEver, ErrorBody

\* No wrapper leaves its task asleep: when it is pending, what it polled last was,
\* and has kept the waker. The body called Pending is pending on its own, and the
\* only one that nobody wakes.
THEOREM WrappersWakeupsKept ==
  Spec => [](wrapper # "Pending" /\ task = "parked" => woken)
<1> DEFINE Wakes == wrapper # "Pending" /\ task = "parked" => woken
<1>1. Init => Wakes
  BY DEF Init, TaskInit
<1>2. TypeOK /\ Wakes /\ [Next]_vars => Wakes'
  <2> SUFFICES ASSUME TypeOK, Wakes, [Next]_vars PROVE Wakes'
    OBVIOUS
  <2>1. CASE PollFrame
    <3>1. wrapper' = wrapper
      BY <2>1 DEF PollFrame, FusePollFrame, LimitedPollFrame,
        TryFutureBodyPollFrame, PollFuture, Resolve, Fail, AdapterPollFrame,
        MapErr, InspectFrame, InspectErr, Either, BoxBody, Forwarded, Pointing, StreamBody,
        BodyStream, MapFrame, BodyDataStream, Full, Empty, String,
        PendingForEver, ErrorBody, PollWrapped, wrappedVars
    <3> QED BY <2>1, <3>1, WrapperWaits
  <2>2. CASE Wake
    BY <2>2 DEF Wake
  <2>3. CASE UNCHANGED taskVars /\ wrapper' = wrapper
    BY <2>3 DEF taskVars
  <2> QED BY <2>1, <2>2, <2>3
      DEF Next, Hangs, TaskDone, vars, innerVars, wrappedVars
<1> HIDE DEF Wakes
<1>3. Spec => []Wakes
  BY <1>1, <1>2, WrappersTypes, PTL DEF Spec
<1> QED BY <1>3 DEF Wakes
=============================================================================
