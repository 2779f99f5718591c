---------------------------- MODULE ChainProofs ----------------------------
(***************************************************************************)
(* Chain implements the contract of a body, for every two bodies, whatever *)
(* they give and however long they are: what is left of a body is followed *)
(* one result at a time. Its hints are sound while their sums do not       *)
(* overflow.                                                               *)
(***************************************************************************)
EXTENDS Chain, BodiesProofs

\* A chain with something left has not told its task an end or an error; the
\* two bodies go on as bodies do, and what is kept are trailers.
ChainInv ==
  /\ TypeOK
  /\ TrailersLast(first) /\ TrailersLast(second)
  /\ trailers \in KeptTrailers
  /\ inner # "Finished" => outcome = "open"

LEMMA InitHolds == Init => ChainInv
<1> SUFFICES ASSUME Init PROVE ChainInv
  OBVIOUS
<1>1. TaskTypeOK
  BY EmptySeq DEF Init, TaskInit, TaskTypeOK
<1>2. /\ first \in Seq(Result) /\ TrailersLast(first)
      /\ second \in Seq(Result) /\ TrailersLast(second)
  BY ScriptAssumption DEF Init
<1>3. /\ inner = "First" /\ trailers = End /\ outcome = "open"
      /\ hinting \in [{"first", "second"} -> Hints]
  BY DEF Init, TaskInit
<1> QED BY <1>1, <1>2, <1>3 DEF ChainInv, TypeOK, KeptTrailers

-----------------------------------------------------------------------------
(* Types.                                                                  *)

\* What a task keeps of an answer has its type.
LEMMA AnswerTypes ==
  ASSUME TaskTypeOK, NEW r, NEW last, Answer(r, last),
         IsFrame(r) => r \in AnyFrame
  PROVE  TaskTypeOK'
<1>1. returned' \in Seq(AnyFrame)
  BY AppendProperties DEF TaskTypeOK, Answer
<1>2. outcome' \in {"open", "end", "error"}
  BY ResultsDiffer DEF TaskTypeOK, Answer
<1> QED BY <1>1, <1>2 DEF TaskTypeOK, Answer

LEMMA PollTypes ==
  ASSUME ChainInv, NEW kept \in KeptTrailers, PollSecond(kept)
  PROVE  /\ TaskTypeOK'
         /\ inner' \in {"Second", "Finished"} /\ trailers' \in KeptTrailers
         /\ second' \in Seq(Result) /\ TrailersLast(second')
         /\ hinting' = hinting
         /\ inner' # "Finished" => outcome' = outcome
<1> DEFINE r == Poll(second)
<1>1. r \in Result /\ Rest(second) \in Seq(Result) /\ TrailersLast(Rest(second))
  BY ScriptTypes, TrailersComplete DEF ChainInv, TypeOK
<1>2. second' = Rest(second) /\ hinting' = hinting
  BY DEF PollSecond
<1>3. TaskTypeOK
  BY DEF ChainInv, TypeOK
<1>4. CASE r = Pending \/ IsData(r)
  <2>1. inner' = "Second" /\ trailers' = kept /\ Answer(r, r)
    BY <1>1, <1>4, Kinds, ResultsDiffer DEF PollSecond, Pending, IsData
  <2>2. IsFrame(r) => r \in AnyFrame
    BY <1>1, ResultKinds
  <2>3. r # Failure /\ r # End
    BY <1>1, <1>4, Kinds, ResultsDiffer
  <2>4. outcome' = outcome
    BY <2>1, <2>3 DEF Answer
  <2> QED BY <1>1, <1>2, <1>3, <2>1, <2>2, <2>4, AnswerTypes
<1>5. CASE r = Failure
  <2>1. inner' = "Finished" /\ trailers' = End /\ Answer(r, r)
    BY <1>5, ResultsDiffer DEF PollSecond, Pending, IsData, Failure
  <2> QED BY <1>1, <1>2, <1>3, <1>5, <2>1, AnswerTypes, ResultsDiffer
      DEF KeptTrailers
<1>6. CASE r = End \/ r.kind = "trailers"
  <2>1. inner' = "Finished" /\ trailers' = End /\ Answer(Join(kept, r), r)
    BY <1>1, <1>6, Kinds, ResultsDiffer DEF PollSecond
  <2>2. Join(kept, r) \in KeptTrailers
    BY <1>1, <1>6, Kinds, JoinedAsOwed
  <2>3. IsFrame(Join(kept, r)) => Join(kept, r) \in AnyFrame
    BY <2>2, ResultsDiffer DEF KeptTrailers
  <2> QED BY <1>1, <1>2, <1>3, <2>1, <2>3, AnswerTypes DEF KeptTrailers
<1>7. r = Pending \/ IsData(r) \/ r = Failure \/ r = End \/ r.kind = "trailers"
  BY <1>1, ResultKinds DEF IsFrame, IsData
<1> QED BY <1>4, <1>5, <1>6, <1>7

LEMMA InvHolds == ChainInv /\ [Next]_vars => ChainInv'
<1> SUFFICES ASSUME ChainInv, [Next]_vars PROVE ChainInv'
  OBVIOUS
<1>1. CASE inner = "First" /\ PollFirst
  <2> DEFINE r == Poll(first)
  <2>1. /\ r \in Result /\ first' = Rest(first)
        /\ Rest(first) \in Seq(Result) /\ TrailersLast(Rest(first))
    BY <1>1, ScriptTypes, TrailersComplete DEF ChainInv, TypeOK, PollFirst
  <2>2. CASE r = End \/ r.kind = "trailers"
    <3>1. r \in KeptTrailers /\ PollSecond(r)
      BY <1>1, <2>1, <2>2, Kinds, ResultsDiffer DEF PollFirst, FirstCompletes
    <3> QED BY <1>1, <2>1, <3>1, PollTypes, Kept DEF ChainInv, TypeOK
  <2>3. CASE ~(r = End \/ r.kind = "trailers")
    <3>1. /\ Answer(r, r) /\ UNCHANGED <<second, trailers, hinting>>
          /\ (inner' = inner /\ r # Failure) \/ inner' = "Finished"
      BY <1>1, <2>1, <2>3, Kinds, ResultsDiffer DEF PollFirst
    <3>2. TaskTypeOK'
      BY <2>1, <3>1, AnswerTypes, ResultKinds DEF ChainInv, TypeOK
    <3>3. inner' # "Finished" => outcome' = outcome
      BY <2>3, <3>1 DEF Answer
    <3> QED BY <1>1, <2>1, <3>1, <3>2, <3>3 DEF ChainInv, TypeOK
  <2> QED BY <2>2, <2>3
<1>2. CASE inner = "Second" /\ PollSecond(trailers) /\ UNCHANGED first
  <2>1. trailers \in KeptTrailers
    BY DEF ChainInv
  <2> QED BY <1>2, <2>1, PollTypes, Kept DEF ChainInv, TypeOK
<1>3. CASE inner = "Finished" /\ Answer(End, End) /\ UNCHANGED chainVars
  BY <1>3, AnswerTypes, ResultsDiffer DEF ChainInv, TypeOK, chainVars
<1>4. CASE Wake /\ UNCHANGED chainVars
  BY <1>4 DEF Wake, chainVars, ChainInv, TypeOK, TaskTypeOK
<1>5. CASE UNCHANGED vars
  BY <1>5 DEF vars, chainVars, taskVars, ChainInv, TypeOK, TaskTypeOK
<1> QED BY <1>1, <1>2, <1>3, <1>4, <1>5 DEF Next, PollFrame, TaskDone, vars

\* Every variable of a chain keeps its type; above all, merged trailers are
\* trailers.
THEOREM ChainTypes == Spec => []TypeOK
<1>1. ChainInv => TypeOK
  BY DEF ChainInv
<1> QED BY <1>1, InitHolds, InvHolds, PTL DEF Spec

-----------------------------------------------------------------------------
(* What a chain owes, before and after a step.                             *)

\* What is owed when one body is left and trailers are kept of another.
Owes(s, kept) ==
  LET final == OwedTrailers(kept, TrailersLeft(s))
  IN DataLeft(s) \o (IF CutShort(s) \/ final = End THEN <<>> ELSE <<final>>)

LEMMA OwesType ==
  ASSUME NEW s \in Seq(Result), NEW kept \in KeptTrailers
  PROVE  Owes(s, kept) \in Seq(AnyFrame)
<1>1. OwedTrailers(kept, TrailersLeft(s)) \in KeptTrailers
  BY TrailersLeftType, JoinedAsOwed
<1>2. DataLeft(s) \in Seq(AnyFrame)
  BY DataLeftUnfolds
<1>3. \A f \in AnyFrame : <<f>> \in Seq(AnyFrame)
  OBVIOUS
<1> QED BY <1>1, <1>2, <1>3, EmptySeq DEF Owes, KeptTrailers

LEMMA OwesUnfolds ==
  ASSUME NEW s \in Seq(Result), TrailersLast(s), NEW kept \in KeptTrailers
  PROVE  LET r == Poll(s)
             t == Rest(s)
         IN /\ r = Pending => Owes(s, kept) = Owes(t, kept)
            /\ IsData(r) => Owes(s, kept) = <<r>> \o Owes(t, kept)
            /\ r = Failure => Owes(s, kept) = <<>>
            /\ r = End \/ r.kind = "trailers" =>
                 Owes(s, kept) = IF Join(kept, r) = End THEN <<>>
                                 ELSE <<Join(kept, r)>>
<1> DEFINE r == Poll(s)
           owed(b) == OwedTrailers(kept, b)
           after == [b \in KeptTrailers |-> IF owed(b) = End THEN <<>>
                                           ELSE <<owed(b)>>]
<1>1. \A b \in KeptTrailers :
        owed(b) = Join(kept, b) /\ owed(b) \in KeptTrailers
  BY JoinedAsOwed
<1>2. after \in [KeptTrailers -> Seq(AnyFrame)]
  BY <1>1, EmptySeq DEF KeptTrailers
<1>3. \A v \in Seq(Result) : Owes(v, kept) = Followed(v, after)
  BY TrailersLeftType DEF Owes, Followed
<1>4. Owes(s, kept) = Followed(s, after) /\ Owes(Rest(s), kept) = Followed(Rest(s), after)
  BY <1>3, ScriptTypes
<1>5. r = End \/ r.kind = "trailers" => r \in KeptTrailers
  BY ScriptTypes, Kinds
<1>6. \A b \in KeptTrailers :
        after[b] = IF Join(kept, b) = End THEN <<>> ELSE <<Join(kept, b)>>
  BY <1>1
<1> HIDE DEF after
<1> QED BY <1>2, <1>4, <1>5, <1>6, FollowedUnfolds

-----------------------------------------------------------------------------
(* Every answer of a chain is a step of a stream.                          *)

StreamStep == [Stream!Next]_(Stream!svars)

\* What an answer has to leave, for each kind of it.
Leaves(a) ==
  \/ a = Pending /\ Left' = Left /\ Fails' = Fails
  \/ IsFrame(a) /\ Left = <<a>> \o Left' /\ Fails' = Fails
  \/ a = Failure /\ Left = <<>> /\ Left' = <<>> /\ Fails /\ Fails'
  \/ a = End /\ Left = <<>> /\ Left' = <<>> /\ ~Fails /\ ~Fails'

LEMMA AnswersStep ==
  ASSUME ChainInv, outcome = "open", NEW a, NEW last, Answer(a, last), Leaves(a),
         IsFrame(a) => a \in AnyFrame, Left' \in Seq(AnyFrame)
  PROVE  StreamStep
<1>1. returned \in Seq(AnyFrame)
  BY DEF ChainInv, TypeOK, TaskTypeOK
<1>2. CASE a = Pending /\ Left' = Left /\ Fails' = Fails
  <2>1. returned' = returned /\ outcome' = outcome
    BY <1>2, ResultsDiffer DEF Answer
  <2> QED BY <1>2, <2>1 DEF StreamStep, Stream!svars
<1>3. CASE IsFrame(a) /\ Left = <<a>> \o Left' /\ Fails' = Fails
  <2>1. returned' = Append(returned, a) /\ outcome' = outcome
    BY <1>3, ResultsDiffer DEF Answer
  <2>2. /\ Append(returned, a) \o Left' = returned \o Left
        /\ Len(returned) < Len(returned \o Left)
        /\ (returned \o Left)[Len(returned) + 1] = a
    BY <1>1, <1>3, OneReturned
  <2>3. Stream!Return
    BY <1>3, <2>1, <2>2 DEF Stream!Return
  <2> QED BY <2>3 DEF StreamStep, Stream!Next
<1>4. CASE a = Failure /\ Left = <<>> /\ Left' = <<>> /\ Fails /\ Fails'
  <2>1. returned' = returned /\ outcome' = "error"
    BY <1>4, ResultsDiffer DEF Answer
  <2>2. returned \o <<>> = returned
    BY <1>1, ConcatEmptySeq
  <2>3. Stream!Fail
    BY <1>4, <2>1, <2>2 DEF Stream!Fail
  <2> QED BY <2>3 DEF StreamStep, Stream!Next
<1>5. CASE a = End /\ Left = <<>> /\ Left' = <<>> /\ ~Fails /\ ~Fails'
  <2>1. returned' = returned /\ outcome' = "end"
    BY <1>5, ResultsDiffer DEF Answer
  <2>2. returned \o <<>> = returned
    BY <1>1, ConcatEmptySeq
  <2>3. Stream!End
    BY <1>5, <2>1, <2>2 DEF Stream!End
  <2> QED BY <2>3 DEF StreamStep, Stream!Next
<1> QED BY <1>2, <1>3, <1>4, <1>5 DEF Leaves

\* The second body answers, and the trailers kept of the first.
LEMMA SecondAnswers ==
  ASSUME ChainInv, outcome = "open", NEW kept \in KeptTrailers, PollSecond(kept),
         Left = Owes(second, kept), Fails = CutShort(second)
  PROVE  StreamStep
<1> DEFINE r == Poll(second)
           t == Rest(second)
<1>1. /\ second \in Seq(Result) /\ TrailersLast(second)
      /\ r \in Result /\ t \in Seq(Result) /\ second' = t
  BY ScriptTypes DEF ChainInv, TypeOK, PollSecond
<1>2. /\ CutShort(second) \in BOOLEAN /\ CutShort(t) \in BOOLEAN
  BY DEF CutShort
<1>3. /\ r = Pending \/ IsData(r) => CutShort(second) = CutShort(t)
      /\ r = Failure => CutShort(second)
      /\ r = End \/ r.kind = "trailers" => ~CutShort(second)
  BY <1>1, <1>2, BodyUnfolds
<1>4. CASE r = Pending \/ IsData(r)
  <2>1. inner' = "Second" /\ trailers' = kept /\ Answer(r, r)
    BY <1>1, <1>4, Kinds, ResultsDiffer DEF PollSecond, Pending, IsData
  <2>2. Left' = Owes(t, kept) /\ Fails' = CutShort(t)
    BY <1>1, <2>1 DEF Left, Fails, SecondLeft, Owes
  <2>3. IsFrame(r) => r \in AnyFrame
    BY <1>1, ResultKinds
  <2>4. Leaves(r)
    BY <1>1, <1>3, <1>4, <2>2, OwesUnfolds, Kinds DEF Leaves
  <2>5. Left' \in Seq(AnyFrame)
    BY <1>1, <2>2, OwesType
  <2> QED BY <2>1, <2>3, <2>4, <2>5, AnswersStep
<1>5. CASE r = Failure
  <2>1. inner' = "Finished" /\ Answer(r, r)
    BY <1>5, ResultsDiffer DEF PollSecond, Pending, IsData, Failure
  <2>2. Left' = <<>> /\ Fails'
    BY <1>5, <2>1, ResultsDiffer DEF Left, Fails, Answer
  <2>3. Leaves(r)
    BY <1>1, <1>3, <1>5, <2>2, OwesUnfolds DEF Leaves
  <2> QED BY <1>5, <2>1, <2>2, <2>3, AnswersStep, ResultsDiffer, EmptySeq
<1>6. CASE r = End \/ r.kind = "trailers"
  <2> DEFINE a == Join(kept, r)
  <2>1. inner' = "Finished" /\ Answer(a, r)
    BY <1>1, <1>6, Kinds, ResultsDiffer DEF PollSecond
  <2>2. a \in KeptTrailers
    BY <1>1, <1>6, Kinds, JoinedAsOwed
  <2>3. /\ a # End => a \in AnyFrame /\ IsFrame(a) /\ a # Failure
        /\ a = End => ~IsFrame(a) /\ a # Failure
    BY <2>2, KeptKinds, ResultsDiffer DEF KeptTrailers
  <2>4. outcome' # "error"
    BY <2>1, <2>3, ResultsDiffer DEF Answer
  <2>5. Left' = <<>> /\ ~Fails'
    BY <2>1, <2>4 DEF Left, Fails
  <2>6. Left = IF a = End THEN <<>> ELSE <<a>>
    BY <1>1, <1>6, OwesUnfolds
  <2>7. a # End => <<a>> = <<a>> \o <<>>
    BY <2>3
  <2>8. ~Fails /\ Fails' = Fails
    <3>1. Fails \in BOOLEAN /\ Fails' \in BOOLEAN
      BY <1>2, <2>1 DEF Fails
    <3> QED BY <1>3, <1>6, <2>5, <3>1
  <2> HIDE DEF a
  <2>9. Leaves(a)
    BY <2>3, <2>5, <2>6, <2>7, <2>8 DEF Leaves
  <2> QED BY <2>1, <2>3, <2>5, <2>9, AnswersStep, EmptySeq
<1>7. r = Pending \/ IsData(r) \/ r = Failure \/ r = End \/ r.kind = "trailers"
  BY <1>1, ResultKinds DEF IsFrame, IsData
<1> QED BY <1>4, <1>5, <1>6, <1>7

\* What is owed while there are two bodies.
OwesBoth(s, t) ==
  DataLeft(s) \o (IF CutShort(s) THEN <<>> ELSE Owes(t, TrailersLeft(s)))

LEMMA OwesBothUnfolds ==
  ASSUME NEW s \in Seq(Result), TrailersLast(s), NEW t \in Seq(Result)
  PROVE  LET r == Poll(s)
             u == Rest(s)
         IN /\ OwesBoth(s, t) \in Seq(AnyFrame)
            /\ r = Pending => OwesBoth(s, t) = OwesBoth(u, t)
            /\ IsData(r) => OwesBoth(s, t) = <<r>> \o OwesBoth(u, t)
            /\ r = Failure => OwesBoth(s, t) = <<>>
            /\ r = End \/ r.kind = "trailers" => OwesBoth(s, t) = Owes(t, r)
<1> DEFINE r == Poll(s)
           after == [b \in KeptTrailers |-> Owes(t, b)]
<1>1. after \in [KeptTrailers -> Seq(AnyFrame)]
  BY OwesType
<1>2. \A v \in Seq(Result) : OwesBoth(v, t) = Followed(v, after)
  BY TrailersLeftType DEF OwesBoth, Followed
<1>3. OwesBoth(s, t) = Followed(s, after) /\ OwesBoth(Rest(s), t) = Followed(Rest(s), after)
  BY <1>2, ScriptTypes
<1>4. r = End \/ r.kind = "trailers" => after[r] = Owes(t, r)
  BY ScriptTypes, Kinds
<1> HIDE DEF after
<1> QED BY <1>1, <1>3, <1>4, FollowedUnfolds

LEMMA FirstAnswers ==
  ASSUME ChainInv, inner = "First", PollFirst
  PROVE  StreamStep
<1> DEFINE r == Poll(first)
           u == Rest(first)
<1>1. /\ first \in Seq(Result) /\ TrailersLast(first) /\ second \in Seq(Result)
      /\ r \in Result /\ u \in Seq(Result) /\ TrailersLast(u) /\ first' = u
      /\ outcome = "open"
  BY ScriptTypes, TrailersComplete DEF ChainInv, TypeOK, PollFirst
<1>2. Left = OwesBoth(first, second)
  BY DEF Left, SecondLeft, Owes, OwesBoth
<1>3. Fails = (CutShort(first) \/ CutShort(second))
  BY DEF Fails
<1>4. CASE r = Pending \/ IsData(r)
  <2>1. Answer(r, r) /\ UNCHANGED <<inner, second, trailers, hinting>>
    BY <1>1, <1>4, Kinds, ResultsDiffer DEF PollFirst, Pending, IsData
  <2>2. Left' = OwesBoth(u, second)
    BY <1>1, <2>1 DEF Left, SecondLeft, Owes, OwesBoth
  <2>3. Fails' = (CutShort(u) \/ CutShort(second))
    BY <1>1, <2>1 DEF Fails
  <2>4. CutShort(first) <=> CutShort(u)
    BY <1>1, <1>4, BodyUnfolds
  <2>5. Fails' = Fails
    BY <1>3, <2>3, <2>4
  <2>6. Leaves(r)
    BY <1>1, <1>2, <1>4, <2>2, <2>5, OwesBothUnfolds, Kinds DEF Leaves
  <2>7. Left' \in Seq(AnyFrame) /\ (IsFrame(r) => r \in AnyFrame)
    BY <1>1, <2>2, OwesBothUnfolds, ResultKinds
  <2> QED BY <1>1, <2>1, <2>6, <2>7, AnswersStep
<1>5. CASE r = Failure
  <2>1. inner' = "Finished" /\ Answer(r, r)
    BY <1>5, ResultsDiffer DEF PollFirst, Pending, IsData, Failure
  <2>2. Left' = <<>> /\ Fails'
    BY <1>5, <2>1, ResultsDiffer DEF Left, Fails, Answer
  <2>3. Left = <<>> /\ Fails
    BY <1>1, <1>2, <1>3, <1>5, OwesBothUnfolds, BodyUnfolds
  <2>4. Leaves(r)
    BY <1>5, <2>2, <2>3 DEF Leaves
  <2> QED BY <1>1, <1>5, <2>1, <2>2, <2>4, AnswersStep, ResultsDiffer, EmptySeq
<1>6. CASE r = End \/ r.kind = "trailers"
  <2>1. r \in KeptTrailers /\ PollSecond(r)
    BY <1>1, <1>6, Kinds, ResultsDiffer DEF PollFirst, FirstCompletes
  <2>2. Left = Owes(second, r)
    BY <1>1, <1>2, <1>6, OwesBothUnfolds
  <2>3. ~CutShort(first)
    BY <1>1, <1>6, BodyUnfolds
  <2>4. CutShort(second) \in BOOLEAN
    BY DEF CutShort
  <2>5. Fails = CutShort(second)
    BY <1>3, <2>3, <2>4
  <2> HIDE DEF r
  <2> QED BY <1>1, <2>1, <2>2, <2>5, SecondAnswers
<1>7. r = Pending \/ IsData(r) \/ r = Failure \/ r = End \/ r.kind = "trailers"
  BY <1>1, ResultKinds DEF IsFrame, IsData
<1> QED BY <1>4, <1>5, <1>6, <1>7

\* A finished chain owes nothing: Ready(None) is its end, and changes no more.
LEMMA FinishedAnswers ==
  ASSUME ChainInv, inner = "Finished", Answer(End, End),
         UNCHANGED chainVars
  PROVE  StreamStep
<1>1. Left = <<>> /\ Left' = <<>> /\ inner' = "Finished"
  BY DEF Left, chainVars
<1>2. Fails = (outcome = "error") /\ Fails' = (outcome' = "error")
  BY <1>1 DEF Fails
<1>3. CASE outcome = "open"
  <2>1. outcome' = "end"
    BY <1>3, ResultsDiffer DEF Answer
  <2>2. Leaves(End)
    BY <1>1, <1>2, <1>3, <2>1 DEF Leaves
  <2> QED BY <1>1, <1>3, <2>2, AnswersStep, ResultsDiffer, EmptySeq
<1>4. CASE outcome # "open"
  <2>1. outcome' = outcome /\ returned' = returned
    BY <1>4, ResultsDiffer DEF Answer
  <2> QED BY <1>1, <1>2, <2>1 DEF StreamStep, Stream!svars
<1> QED BY <1>3, <1>4

LEMMA StreamSteps == ChainInv /\ [Next]_vars => StreamStep
<1> SUFFICES ASSUME ChainInv, [Next]_vars PROVE StreamStep
  OBVIOUS
<1>1. CASE inner = "Second" /\ PollSecond(trailers)
  <2>1. Left = Owes(second, trailers) /\ Fails = CutShort(second)
    BY <1>1 DEF Left, Fails, SecondLeft, Owes
  <2> QED BY <1>1, <2>1, SecondAnswers DEF ChainInv
<1>2. CASE UNCHANGED <<chainVars, returned, outcome>>
  <2>1. Left' = Left /\ Fails' = Fails
    BY <1>2 DEF chainVars, Left, Fails, SecondLeft
  <2> QED BY <1>2, <2>1 DEF StreamStep, Stream!svars
<1> QED BY <1>1, <1>2, FirstAnswers, FinishedAnswers
    DEF Next, PollFrame, Wake, TaskDone, vars, taskVars

LEMMA StreamStarts == Init => Stream!Init
<1> SUFFICES ASSUME Init PROVE Stream!Init
  OBVIOUS
<1>1. /\ first \in Seq(Result) /\ TrailersLast(first) /\ second \in Seq(Result)
      /\ inner = "First"
  BY ScriptAssumption DEF Init
<1>2. Left = OwesBoth(first, second)
  BY <1>1 DEF Left, SecondLeft, Owes, OwesBoth
<1>3. Left \in Seq(AnyFrame)
  BY <1>1, <1>2, OwesBothUnfolds
<1>4. <<>> \o Left = Left
  BY <1>3, ConcatEmptySeq
<1> QED BY <1>3, <1>4 DEF Init, TaskInit, Stream!Init

\* A chain is one stream: its frames are the data of the first body, the data
\* of the second and the merged trailers, in this order and once each, and
\* nothing comes after an error or an end, whatever the two bodies give.
THEOREM ChainIsAStream == Spec => ImplementsStream
<1> QED BY StreamStarts, InitHolds, InvHolds, StreamSteps, PTL
    DEF Spec, StreamStep, ImplementsStream, Stream!Spec

-----------------------------------------------------------------------------
(* The hints.                                                              *)

\* What the two bodies announce adds up within the width: no sum of two of their
\* bounds wraps around.
NoOverflow ==
  /\ "max" \notin Hints
  /\ \A a \in FirstScript, b \in SecondScript :
       Bytes(FramesLeft(a)) + Bytes(FramesLeft(b)) + 4 <= MaxU64

\* That stays so until the first body is complete.
SumFits ==
  /\ "max" \notin Hints
  /\ inner = "First" =>
       Bytes(DataLeft(first)) + Bytes(DataLeft(second)) + 4 <= MaxU64

LEMMA InitFits == Init /\ NoOverflow => SumFits
<1> SUFFICES ASSUME Init, NoOverflow PROVE SumFits
  OBVIOUS
<1>1. first \in FirstScript /\ second \in SecondScript
  BY DEF Init
<1>2. first \in Seq(Result) /\ second \in Seq(Result)
  BY <1>1, ScriptAssumption
<1>3. /\ Bytes(FramesLeft(first)) = Bytes(DataLeft(first))
      /\ Bytes(FramesLeft(second)) = Bytes(DataLeft(second))
  BY <1>2, BytesAreData
<1>4. Bytes(FramesLeft(first)) + Bytes(FramesLeft(second)) + 4 <= MaxU64
  BY <1>1 DEF NoOverflow
<1> QED BY <1>3, <1>4 DEF SumFits, NoOverflow

LEMMA SumFitsKept == ChainInv /\ SumFits /\ [Next]_vars => SumFits'
<1> SUFFICES ASSUME ChainInv, SumFits, [Next]_vars, inner' = "First"
             PROVE  /\ inner = "First"
                    /\ (Bytes(DataLeft(first)) + Bytes(DataLeft(second)) + 4)'
                         <= MaxU64
  BY DEF SumFits
<1>1. CASE UNCHANGED <<inner, first, second>>
  BY <1>1 DEF SumFits
<1>2. CASE inner = "First" /\ PollFirst
  <2> DEFINE r == Poll(first)
             u == Rest(first)
  <2>1. first \in Seq(Result) /\ second \in Seq(Result) /\ r \in Result
    BY ScriptTypes DEF ChainInv, TypeOK
  <2>2. first' = u /\ second' = second /\ (r = Pending \/ IsData(r))
    BY <1>2 DEF PollFirst, FirstCompletes, PollSecond
  <2>3. /\ Bytes(DataLeft(u)) \in Nat
        /\ Bytes(DataLeft(u)) <= Bytes(DataLeft(first))
    BY <2>1, <2>2, RepresentableRest DEF IsData, IsFrame
  <2>4. Bytes(DataLeft(first)) \in Nat /\ Bytes(DataLeft(second)) \in Nat
    BY <2>1, BytesAreData
  <2>5. Bytes(DataLeft(first)) + Bytes(DataLeft(second)) + 4 <= MaxU64
    BY <1>2 DEF SumFits
  <2> HIDE DEF u
  <2>6. Bytes(DataLeft(u)) + Bytes(DataLeft(second)) + 4 <= MaxU64
    BY <2>3, <2>4, <2>5, WidthAssumption
  <2> QED BY <1>2, <2>2, <2>6
<1>3. CASE inner = "Second" /\ PollSecond(trailers)
  BY <1>3 DEF PollSecond
<1> QED BY <1>1, <1>2, <1>3
    DEF Next, PollFrame, Wake, TaskDone, vars, chainVars, taskVars

LEMMA WrapFits ==
  ASSUME NEW n \in Nat, n <= MaxU64
  PROVE  Wrap(n) = n
BY WidthAssumption DEF Wrap

\* The bytes of the trailers that are owed do not count.
LEMMA OwesBytes ==
  ASSUME NEW s \in Seq(Result), NEW kept \in KeptTrailers
  PROVE  Bytes(Owes(s, kept)) = Bytes(DataLeft(s))
<1> DEFINE final == OwedTrailers(kept, TrailersLeft(s))
<1>1. final \in KeptTrailers
  BY TrailersLeftType, JoinedAsOwed
<1>2. DataLeft(s) \in Seq(AnyFrame)
  BY DataLeftUnfolds
<1>3. CASE CutShort(s)
  <2>1. Owes(s, kept) = DataLeft(s) \o <<>>
    BY <1>3 DEF Owes
  <2> QED BY <1>2, <2>1, ConcatEmptySeq
<1>4. CASE ~CutShort(s)
  <2>1. Owes(s, kept) = DataLeft(s) \o (IF final = End THEN <<>> ELSE <<final>>)
    BY <1>4 DEF Owes
  <2> HIDE DEF final
  <2> QED BY <1>1, <1>2, <2>1, BytesOwed
<1> QED BY <1>3, <1>4

LEMMA HintsHoldHere == ChainInv /\ SumFits => HintsAreSound
<1> SUFFICES ASSUME ChainInv, SumFits PROVE HintsAreSound
  OBVIOUS
<1> DEFINE a == HintOf(first, hinting["first"])
           b == HintOf(second, hinting["second"])
           n == Bytes(DataLeft(first))
           m == Bytes(DataLeft(second))
<1>1. /\ first \in Seq(Result) /\ second \in Seq(Result)
      /\ hinting["first"] \in Hinting \ {"max"}
      /\ hinting["second"] \in Hinting \ {"max"}
      /\ trailers \in KeptTrailers /\ inner \in {"First", "Second", "Finished"}
  BY HintsAssumption DEF ChainInv, TypeOK, SumFits
<1>2. /\ n \in Nat /\ a.lower \in Nat /\ a.upper \subseteq Nat
      /\ \A x \in a.upper : n <= x /\ x <= n + 2
      /\ CutShort(first) \/ a.lower <= n
      /\ a.lower <= n + 1
  BY <1>1, HintsHold
<1>3. /\ m \in Nat /\ b.lower \in Nat /\ b.upper \subseteq Nat
      /\ \A y \in b.upper : m <= y /\ y <= m + 2
      /\ CutShort(second) \/ b.lower <= m
      /\ b.lower <= m + 1
  BY <1>1, HintsHold
<1>4. IsEndStream => Left = <<>> /\ (Fails => outcome = "error")
  BY DEF IsEndStream, Left, Fails
<1>5. CASE inner = "First"
  <2>1. n + m + 4 <= MaxU64 /\ MaxU64 \in Nat
    BY <1>5, WidthAssumption DEF SumFits
  <2>2. SizeHint = Plus(a, b) /\ Fails = (CutShort(first) \/ CutShort(second))
    BY <1>5 DEF SizeHint, Fails
  <2>3. Bytes(Left) = IF CutShort(first) THEN n ELSE n + m
    <3> DEFINE more == Owes(second, TrailersLeft(first))
    <3>1. Left = DataLeft(first) \o (IF CutShort(first) THEN <<>> ELSE more)
      BY <1>5 DEF Left, SecondLeft, Owes
    <3>2. DataLeft(first) \in Seq(AnyFrame) /\ TrailersLeft(first) \in KeptTrailers
      BY <1>1, DataLeftUnfolds, TrailersLeftType
    <3>3. more \in Seq(AnyFrame) /\ Bytes(more) = m
      BY <1>1, <3>2, OwesType, OwesBytes
    <3> HIDE DEF more
    <3>4. CASE CutShort(first)
      BY <3>1, <3>2, <3>4, ConcatEmptySeq
    <3>5. CASE ~CutShort(first)
      BY <3>1, <3>2, <3>3, <3>5, BytesConcat
    <3> QED BY <3>4, <3>5
  <2> HIDE DEF a, b, n, m
  <2>4. Plus(a, b).lower = a.lower + b.lower
    <3>1. a.lower + b.lower \in Nat /\ a.lower + b.lower <= MaxU64
      BY <1>2, <1>3, <2>1
    <3> QED BY <3>1, WrapFits DEF Plus
  <2>5. \A z \in Plus(a, b).upper :
          \E x \in a.upper, y \in b.upper : z = x + y
    <3> SUFFICES ASSUME NEW x \in a.upper, NEW y \in b.upper
                 PROVE  Wrap(x + y) = x + y
      BY DEF Plus
    <3>1. x + y \in Nat /\ x + y <= MaxU64
      BY <1>2, <1>3, <2>1
    <3> QED BY <3>1, WrapFits
  <2>6. \A z \in SizeHint.upper : Bytes(Left) <= z
    BY <1>2, <1>3, <2>2, <2>3, <2>5
  <2>7. Fails \/ SizeHint.lower <= Bytes(Left)
    <3>1. CASE CutShort(first) \/ CutShort(second)
      BY <2>2, <3>1
    <3>2. CASE ~CutShort(first) /\ ~CutShort(second)
      <4>1. a.lower <= n /\ b.lower <= m /\ Bytes(Left) = n + m
        BY <1>2, <1>3, <2>3, <3>2
      <4>2. SizeHint.lower = a.lower + b.lower
        BY <2>2, <2>4
      <4>3. /\ n \in Nat /\ m \in Nat /\ a.lower \in Nat /\ b.lower \in Nat
        BY <1>2, <1>3
      <4> QED BY <4>1, <4>2, <4>3
    <3> QED BY <3>1, <3>2
  <2> QED BY <1>4, <2>6, <2>7 DEF HintsAreSound, Sound
<1>6. CASE inner = "Second"
  <2>1. SizeHint = b /\ Fails = CutShort(second) /\ Left = Owes(second, trailers)
    BY <1>6 DEF SizeHint, Fails, Left, SecondLeft, Owes
  <2>2. Bytes(Left) = m
    BY <1>1, <2>1, OwesBytes
  <2> HIDE DEF a, b, n, m
  <2> QED BY <1>3, <1>4, <2>1, <2>2 DEF HintsAreSound, Sound
<1>7. CASE inner = "Finished"
  <2>1. SizeHint.upper = {0} /\ SizeHint.lower = 0 /\ Left = <<>>
    BY <1>7 DEF SizeHint, Exactly, Left
  <2> QED BY <1>4, <2>1, NoBytes DEF HintsAreSound, Sound
<1> QED BY <1>1, <1>5, <1>6, <1>7

\* The hint of a chain bounds what it still delivers, and a chain that says it
\* is at its end is, unless the bounds of the two bodies overflow when added.
THEOREM ChainHintsAreSound ==
  ASSUME NoOverflow
  PROVE  Spec => []HintsAreSound
<1>1. Init => SumFits
  BY InitFits
<1> QED BY <1>1, InitHolds, InvHolds, SumFitsKept, HintsHoldHere, PTL DEF Spec
-----------------------------------------------------------------------------
(* What is safe about waiting.                                             *)

LEMMA WaitsForPending ==
  ASSUME NEW r, NEW last, Answer(r, last), r = Pending => last = Pending
  PROVE  task' = "parked" => woken'
BY DEF Answer

LEMMA SecondWaits ==
  ASSUME ChainInv, NEW kept \in KeptTrailers, PollSecond(kept)
  PROVE  task' = "parked" => woken'
<1> DEFINE r == Poll(second)
<1>1. r \in Result
  BY ScriptTypes DEF ChainInv, TypeOK
<1>2. CASE Answer(r, r)
  BY <1>2, WaitsForPending
<1>3. CASE r.kind \in {"end", "trailers"} /\ Answer(Join(kept, r), r)
  <2>1. Join(kept, r) \in KeptTrailers
    BY <1>1, <1>3, Kinds, JoinedAsOwed
  <2>2. Join(kept, r) # Pending
    BY <2>1, KeptKinds, ResultsDiffer
  <2> QED BY <1>3, <2>2, WaitsForPending
<1> QED BY <1>2, <1>3 DEF PollSecond

\* A chain does not sleep between its bodies: when it is pending, so was the body
\* that it polled last, and that has kept the waker.
THEOREM ChainWakeupsKept == Spec => [](task = "parked" => woken)
<1> DEFINE Wakes == task = "parked" => woken
<1>1. Init => Wakes
  BY DEF Init, TaskInit
<1>2. ChainInv /\ Wakes /\ [Next]_vars => Wakes'
  <2> SUFFICES ASSUME ChainInv, Wakes, [Next]_vars PROVE Wakes'
    OBVIOUS
  <2>1. CASE PollFirst
    <3> DEFINE r == Poll(first)
    <3>1. CASE Answer(r, r)
      BY <3>1, WaitsForPending
    <3>2. CASE r.kind \in {"end", "trailers"} /\ PollSecond(r)
      <4>1. r \in KeptTrailers
        BY <3>2, ScriptTypes, Kinds DEF ChainInv, TypeOK
      <4> QED BY <3>2, <4>1, SecondWaits
    <3> QED BY <2>1, <3>1, <3>2 DEF PollFirst, FirstCompletes
  <2>2. CASE PollSecond(trailers)
    BY <2>2, SecondWaits DEF ChainInv
  <2>3. CASE Answer(End, End)
    BY <2>3, WaitsForPending
  <2>4. CASE Wake
    BY <2>4 DEF Wake
  <2>5. CASE UNCHANGED taskVars
    BY <2>5 DEF taskVars
  <2> QED BY <2>1, <2>2, <2>3, <2>4, <2>5 DEF Next, PollFrame, TaskDone, vars
<1> HIDE DEF Wakes
<1>3. Spec => []Wakes
  BY <1>1, <1>2, InitHolds, InvHolds, PTL DEF Spec
<1> QED BY <1>3 DEF Wakes
=============================================================================
