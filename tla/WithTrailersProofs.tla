------------------------- MODULE WithTrailersProofs -------------------------
(***************************************************************************)
(* WithTrailers implements the contract of a body, for every body and every *)
(* future, however long either is pending, and its hints are sound.        *)
(***************************************************************************)
EXTENDS WithTrailers, BodiesProofs

\* What is left of a future that is not resolved: it is pending, then resolves.
Resolving(f) ==
  /\ f # <<>> /\ Last(f) \in TrailerFrame \cup {End, Failure}
  /\ \A i \in 1..(Len(f) - 1) : f[i] = Pending

\* The future is there as long as something is to come of it, and is not polled
\* again for a task that has seen the end.
WithTrailersInv ==
  /\ TypeOK
  /\ TrailersLast(body) /\ prev \in KeptTrailers
  /\ trailers # <<>> => Resolving(trailers)
  /\ outcome = "open" /\ state # "Done" => trailers # <<>>
  /\ state = "Done" => trailers = <<>>
  /\ outcome = "end" => state # "PollBody" /\ trailers = <<>>

LEMMA InitHolds == Init => WithTrailersInv
<1> SUFFICES ASSUME Init PROVE WithTrailersInv
  OBVIOUS
<1>1. TaskTypeOK
  BY EmptySeq DEF Init, TaskInit, TaskTypeOK
<1>2. /\ body \in Seq(Result) /\ TrailersLast(body)
      /\ trailers \in Seq(Result) /\ Resolving(trailers)
  BY ScriptAssumption, FutureAssumption DEF Init, Resolving
<1>3. /\ state = "PollBody" /\ prev = End /\ outcome = "open"
      /\ hinting \in Hints /\ panicked = FALSE
  BY DEF Init, TaskInit
<1> QED BY <1>1, <1>2, <1>3
    DEF WithTrailersInv, TypeOK, KeptTrailers, Resolving

\* A future is pending, or resolves to trailers, none or an error.
LEMMA FutureUnfolds ==
  ASSUME NEW f \in Seq(Result), Resolving(f)
  PROVE  /\ Head(f) \in Result /\ Tail(f) \in Seq(Result)
         /\ Head(f) = Pending =>
              Resolving(Tail(f)) /\ Last(Tail(f)) = Last(f)
         /\ Head(f) # Pending =>
              Tail(f) = <<>> /\ Last(f) = Head(f) /\ Head(f) \in KeptTrailers \cup {Failure}
<1> DEFINE n == Len(f)
<1>1. /\ n \in Nat \ {0} /\ Head(f) = f[1] /\ Head(f) \in Result
      /\ Tail(f) \in Seq(Result) /\ Len(Tail(f)) = n - 1
      /\ \A i \in 1..(n - 1) : Tail(f)[i] = f[i + 1]
  BY EmptySeq, HeadTailProperties, LenProperties DEF Resolving
<1> DEFINE rest == Tail(f)
<1>2. (rest = <<>> <=> Len(rest) = 0) /\ Last(rest) = rest[Len(rest)]
  <2>1. rest \in Seq(Result)
    BY <1>1
  <2> HIDE DEF rest
  <2> QED BY <2>1, EmptySeq DEF Last
<1>3. Last(f) = f[n]
  BY DEF Last
<1>4. f[n] # Pending
  <2>1. \A t \in TrailerFrame : t # Pending
    BY FrameTypes DEF Trailers, Pending
  <2> QED BY <1>3, <2>1, ResultsDiffer DEF Resolving
<1>5. ASSUME Head(f) = Pending
      PROVE  Resolving(Tail(f)) /\ Last(Tail(f)) = Last(f)
  <2>1. n > 1
    BY <1>1, <1>4, <1>5
  <2>2. Tail(f) # <<>> /\ Last(Tail(f)) = f[n]
    BY <1>1, <1>2, <2>1
  <2>3. \A i \in 1..((n - 1) - 1) : Tail(f)[i] = Pending
    BY <1>1 DEF Resolving
  <2> QED BY <1>1, <1>3, <2>2, <2>3 DEF Resolving
<1>6. ASSUME Head(f) # Pending
      PROVE  /\ Tail(f) = <<>> /\ Last(f) = Head(f)
             /\ Head(f) \in KeptTrailers \cup {Failure}
  <2>1. n = 1
    BY <1>1, <1>6 DEF Resolving
  <2>2. Tail(f) = <<>>
    BY <1>1, <1>2, <2>1
  <2>3. \A t \in TrailerFrame : t \in KeptTrailers
    BY FrameTypes DEF KeptTrailers, IsData, Trailers
  <2> QED BY <1>1, <1>3, <2>1, <2>2, <2>3 DEF Resolving, KeptTrailers
<1> QED BY <1>1, <1>5, <1>6

-----------------------------------------------------------------------------
(* What is owed, before and after a step.                                  *)

\* What a future is still to give, and what is owed with the trailers that are
\* kept of the body.
Gives(f) == IF f = <<>> THEN End ELSE Last(f)

Owes(f, kept) ==
  LET final == OwedTrailers(kept, Gives(f))
  IN IF Gives(f) = Failure \/ final = End THEN <<>> ELSE <<final>>

OwesAll(s, f) ==
  DataLeft(s) \o (IF CutShort(s) THEN <<>> ELSE Owes(f, TrailersLeft(s)))

LEMMA OwesType ==
  ASSUME NEW f \in Seq(Result), f # <<>> => Resolving(f), NEW kept \in KeptTrailers
  PROVE  /\ Owes(f, kept) \in Seq(AnyFrame)
         /\ Gives(f) # Failure =>
              /\ Gives(f) \in KeptTrailers
              /\ Owes(f, kept) = IF Join(kept, Gives(f)) = End THEN <<>>
                                 ELSE <<Join(kept, Gives(f))>>
<1>1. Gives(f) \in KeptTrailers \cup {Failure}
  <2>1. \A t \in TrailerFrame : t \in KeptTrailers
    BY FrameTypes DEF KeptTrailers, IsData, Trailers
  <2> QED BY <2>1 DEF Gives, Resolving, KeptTrailers
<1>2. \A b \in KeptTrailers :
        OwedTrailers(kept, b) = Join(kept, b) /\ Join(kept, b) \in KeptTrailers
  BY JoinedAsOwed
<1>3. \A b \in KeptTrailers :
        (IF b = End THEN <<>> ELSE <<b>>) \in Seq(AnyFrame)
  BY EmptySeq DEF KeptTrailers
<1> QED BY <1>1, <1>2, <1>3, EmptySeq, ResultsDiffer DEF Owes

LEMMA OwesAllUnfolds ==
  ASSUME NEW s \in Seq(Result), TrailersLast(s),
         NEW f \in Seq(Result), f # <<>> => Resolving(f)
  PROVE  LET r == Poll(s)
             u == Rest(s)
         IN /\ OwesAll(s, f) \in Seq(AnyFrame)
            /\ r = Pending => OwesAll(s, f) = OwesAll(u, f)
            /\ IsData(r) => OwesAll(s, f) = <<r>> \o OwesAll(u, f)
            /\ r = Failure => OwesAll(s, f) = <<>>
            /\ r = End \/ r.kind = "trailers" => OwesAll(s, f) = Owes(f, r)
<1> DEFINE r == Poll(s)
           after == [b \in KeptTrailers |-> Owes(f, b)]
<1>1. after \in [KeptTrailers -> Seq(AnyFrame)]
  BY OwesType
<1>2. \A v \in Seq(Result) : OwesAll(v, f) = Followed(v, after)
  BY TrailersLeftType DEF OwesAll, Followed
<1>3. /\ OwesAll(s, f) = Followed(s, after)
      /\ OwesAll(Rest(s), f) = Followed(Rest(s), after)
  BY <1>2, ScriptTypes
<1>4. r = End \/ r.kind = "trailers" => after[r] = Owes(f, r)
  BY ScriptTypes, Kinds
<1> HIDE DEF after
<1> QED BY <1>1, <1>3, <1>4, FollowedUnfolds

\* Left and Fails by the state.
LEMMA LeftOwes ==
  ASSUME WithTrailersInv
  PROVE  /\ outcome = "open" /\ state = "PollBody" =>
              /\ Left = OwesAll(body, trailers)
              /\ Fails = (Gives(trailers) = Failure \/ CutShort(body))
         /\ outcome = "open" /\ state = "PollTrailers" =>
              /\ Left = Owes(trailers, prev)
              /\ Fails = (Gives(trailers) = Failure)
         /\ outcome = "open" /\ state = "Done" => Left = <<>> /\ ~Fails
         /\ outcome = "end" => Left = <<>> /\ ~Fails
         /\ outcome = "error" => Left = <<>> /\ Fails
         /\ Left \in Seq(AnyFrame) /\ Fails \in BOOLEAN
<1>1. outcome = "open" /\ state = "PollBody" =>
        /\ Left = OwesAll(body, trailers)
        /\ Fails = (Gives(trailers) = Failure \/ CutShort(body))
  BY DEF Left, Fails, FutureLeft, FinalLeft, Gives, Owes, OwesAll
<1>2. outcome = "open" /\ state = "PollTrailers" =>
        Left = Owes(trailers, prev) /\ Fails = (Gives(trailers) = Failure)
  BY DEF Left, Fails, FutureLeft, FinalLeft, Gives, Owes
<1>3. outcome = "open" /\ state = "Done" => Left = <<>> /\ ~Fails
  BY ResultsDiffer DEF WithTrailersInv, Left, Fails, FutureLeft
<1>4. /\ outcome = "end" => Left = <<>> /\ ~Fails
      /\ outcome = "error" => Left = <<>> /\ Fails
  BY DEF Left, Fails
<1>5. Left \in Seq(AnyFrame)
  BY <1>1, <1>2, <1>3, <1>4, OwesType, OwesAllUnfolds, EmptySeq
  DEF WithTrailersInv, TypeOK, TaskTypeOK
<1>6. Fails \in BOOLEAN
  BY DEF Fails
<1> QED BY <1>1, <1>2, <1>3, <1>4, <1>5, <1>6

-----------------------------------------------------------------------------
(* Every answer is a step of a stream.                                     *)

StreamStep == [Stream!Next]_(Stream!svars)

\* What an answer has to leave, for each kind of it.
Leaves(a) ==
  \/ a = Pending /\ Left' = Left /\ Fails' = Fails
  \/ IsFrame(a) /\ Left = <<a>> \o Left' /\ Fails' = Fails
  \/ a = Failure /\ Left = <<>> /\ Left' = <<>> /\ Fails /\ Fails'
  \/ a = End /\ Left = <<>> /\ Left' = <<>> /\ ~Fails /\ ~Fails'

LEMMA AnswersStep ==
  ASSUME WithTrailersInv, outcome = "open",
         NEW a, NEW last, Answer(a, last), Leaves(a),
         IsFrame(a) => a \in AnyFrame, Left' \in Seq(AnyFrame)
  PROVE  StreamStep
<1>1. returned \in Seq(AnyFrame)
  BY DEF WithTrailersInv, TypeOK, TaskTypeOK
<1>2. CASE a = Pending /\ Left' = Left /\ Fails' = Fails
  <2>1. returned' = returned /\ outcome' = outcome
    BY <1>2, ResultsDiffer DEF Answer
  <2> QED BY <1>2, <2>1 DEF StreamStep, Stream!svars
<1>3. CASE IsFrame(a) /\ Left = <<a>> \o Left' /\ Fails' = Fails
  <2>1. returned' = Append(returned, a) /\ outcome' = outcome
    BY <1>3, ResultsDiffer DEF Answer
  <2>2. /\ Append(returned, a) \o Left' = returned \o Left
        /\ Len(returned) < Len(returned \o Left)
        /\ (returned \o Left)[Len(returned) + 1] = a
    BY <1>1, <1>3, OneReturned
  <2>3. Stream!Return
    BY <1>3, <2>1, <2>2 DEF Stream!Return
  <2> QED BY <2>3 DEF StreamStep, Stream!Next
<1>4. CASE a = Failure /\ Left = <<>> /\ Left' = <<>> /\ Fails /\ Fails'
  <2>1. returned' = returned /\ outcome' = "error"
    BY <1>4, ResultsDiffer DEF Answer
  <2>2. returned \o <<>> = returned
    BY <1>1, ConcatEmptySeq
  <2>3. Stream!Fail
    BY <1>4, <2>1, <2>2 DEF Stream!Fail
  <2> QED BY <2>3 DEF StreamStep, Stream!Next
<1>5. CASE a = End /\ Left = <<>> /\ Left' = <<>> /\ ~Fails /\ ~Fails'
  <2>1. returned' = returned /\ outcome' = "end"
    BY <1>5, ResultsDiffer DEF Answer
  <2>2. returned \o <<>> = returned
    BY <1>1, ConcatEmptySeq
  <2>3. Stream!End
    BY <1>5, <2>1, <2>2 DEF Stream!End
  <2> QED BY <2>3 DEF StreamStep, Stream!Next
<1> QED BY <1>2, <1>3, <1>4, <1>5 DEF Leaves

\* What a task keeps of an answer has its type.
LEMMA AnswerTypes ==
  ASSUME TaskTypeOK, NEW r, NEW last, Answer(r, last),
         IsFrame(r) => r \in AnyFrame
  PROVE  TaskTypeOK'
<1>1. returned' \in Seq(AnyFrame)
  BY AppendProperties DEF TaskTypeOK, Answer
<1>2. outcome' \in {"open", "end", "error"}
  BY ResultsDiffer DEF TaskTypeOK, Answer
<1> QED BY <1>1, <1>2 DEF TaskTypeOK, Answer

\* What an answer makes of the outcome.
LEMMA Outcomes ==
  ASSUME outcome = "open", NEW a, NEW last, Answer(a, last)
  PROVE  /\ a = End => outcome' = "end"
         /\ a = Failure => outcome' = "error"
         /\ a # End /\ a # Failure => outcome' = "open"
BY ResultsDiffer DEF Answer

\* The future answers, and the trailers kept of the body.
LEMMA FutureAnswers ==
  ASSUME WithTrailersInv, outcome = "open", trailers # <<>>,
         NEW kept \in KeptTrailers, PollTrailers(kept),
         body' \in Seq(Result), TrailersLast(body'),
         Left = Owes(trailers, kept), Fails = (Gives(trailers) = Failure)
  PROVE  WithTrailersInv' /\ StreamStep
<1> DEFINE r == Head(trailers)
<1>1. /\ trailers \in Seq(Result) /\ Resolving(trailers) /\ Gives(trailers) = Last(trailers)
      /\ r \in Result /\ TaskTypeOK
  BY FutureUnfolds DEF WithTrailersInv, TypeOK, Gives
<1>2. /\ trailers' = Tail(trailers) /\ trailers' \in Seq(Result)
      /\ UNCHANGED <<hinting, panicked>>
  BY <1>1, FutureUnfolds DEF PollTrailers
<1>3. CASE r = Pending
  <2>1. state' = "PollTrailers" /\ prev' = kept /\ Answer(r, r)
    BY <1>3, ResultsDiffer DEF PollTrailers, Pending
  <2>2. outcome' = "open" /\ TaskTypeOK'
    BY <1>1, <1>3, <2>1, Outcomes, AnswerTypes, ResultsDiffer
  <2>3. Resolving(trailers') /\ Gives(trailers') = Gives(trailers)
    BY <1>1, <1>2, <1>3, FutureUnfolds DEF Gives, Resolving
  <2>4. WithTrailersInv'
    BY <1>2, <2>1, <2>2, <2>3, Kept DEF WithTrailersInv, TypeOK, Resolving
  <2>5. Left' = Owes(trailers', kept) /\ Fails' = (Gives(trailers') = Failure)
    BY <2>1, <2>2 DEF Left, Fails, FutureLeft, FinalLeft, Gives, Owes
  <2>6. Leaves(r)
    BY <1>3, <2>3, <2>5 DEF Leaves, Owes
  <2>7. Left' \in Seq(AnyFrame)
    BY <1>1, <2>3, <2>5, OwesType DEF Owes
  <2> QED BY <1>3, <2>1, <2>4, <2>6, <2>7, AnswersStep, ResultsDiffer
<1>4. CASE r = Failure
  <2>1. state' = "PollTrailers" /\ prev' = kept /\ Answer(r, r)
    BY <1>4, ResultsDiffer DEF PollTrailers, Failure
  <2>2. outcome' = "error" /\ TaskTypeOK'
    BY <1>1, <1>4, <2>1, Outcomes, AnswerTypes, ResultsDiffer
  <2>3. trailers' = <<>> /\ Gives(trailers) = Failure
    BY <1>1, <1>2, <1>4, FutureUnfolds, ResultsDiffer
  <2>4. WithTrailersInv'
    BY <1>2, <2>1, <2>2, <2>3, Kept DEF WithTrailersInv, TypeOK
  <2>5. Left = <<>> /\ Fails /\ Left' = <<>> /\ Fails'
    BY <2>2, <2>3 DEF Owes, Left, Fails
  <2>6. Leaves(r)
    BY <1>4, <2>5 DEF Leaves
  <2> QED BY <1>4, <2>1, <2>4, <2>5, <2>6, AnswersStep, ResultsDiffer, EmptySeq
<1>5. CASE r \notin {Pending, Failure}
  <2> DEFINE a == Join(kept, r)
  <2>1. r \in KeptTrailers /\ trailers' = <<>> /\ Gives(trailers) = r
    BY <1>1, <1>2, <1>5, FutureUnfolds
  <2>2. /\ state' = IF a = End THEN "PollTrailers" ELSE "Done"
        /\ prev' = End /\ Answer(a, r)
    BY <1>5 DEF PollTrailers, JoinTrailers
  <2>3. a \in KeptTrailers
    BY <2>1, JoinedAsOwed
  <2>4. /\ a # End => a \in AnyFrame /\ IsFrame(a) /\ a # Failure
        /\ a = End => ~IsFrame(a) /\ a # Failure
    BY <2>3, KeptKinds, ResultsDiffer DEF KeptTrailers
  <2>5. Left = IF a = End THEN <<>> ELSE <<a>>
    BY <1>1, <1>5, <2>1, OwesType
  <2>6. ~Fails
    BY <1>5, <2>1
  <2> HIDE DEF a, r
  <2>7. /\ outcome' = IF a = End THEN "end" ELSE "open"
        /\ TaskTypeOK'
    BY <1>1, <2>2, <2>4, Outcomes, AnswerTypes
  <2>8. WithTrailersInv'
    BY <1>2, <2>1, <2>2, <2>7 DEF WithTrailersInv, TypeOK, KeptTrailers
  <2>9. Left' = <<>> /\ ~Fails'
    BY <2>1, <2>2, <2>7, ResultsDiffer DEF Left, Fails, FutureLeft
  <2>10. a # End => <<a>> = <<a>> \o <<>>
    BY <2>4
  <2>11. Fails' = Fails
    <3>1. Fails \in BOOLEAN /\ Fails' \in BOOLEAN
      BY DEF Fails
    <3> QED BY <2>6, <2>9, <3>1
  <2>12. Leaves(a)
    BY <2>4, <2>5, <2>6, <2>9, <2>10, <2>11 DEF Leaves
  <2> QED BY <2>2, <2>4, <2>8, <2>9, <2>12, AnswersStep, EmptySeq
<1> QED BY <1>3, <1>4, <1>5

\* The body answers.
LEMMA BodyAnswers ==
  ASSUME WithTrailersInv, outcome = "open", state = "PollBody", PollBody
  PROVE  WithTrailersInv' /\ StreamStep
<1> DEFINE r == Poll(body)
           u == Rest(body)
<1>1. /\ body \in Seq(Result) /\ TrailersLast(body)
      /\ trailers \in Seq(Result) /\ trailers # <<>> /\ Resolving(trailers)
      /\ r \in Result /\ u \in Seq(Result) /\ TrailersLast(u) /\ body' = u
      /\ TaskTypeOK
  BY ScriptTypes, TrailersComplete DEF WithTrailersInv, TypeOK, PollBody
<1>2. /\ Left = OwesAll(body, trailers)
      /\ Fails = (Gives(trailers) = Failure \/ CutShort(body))
  BY LeftOwes
<1>3. CASE r = Pending \/ IsData(r)
  <2>1. Answer(r, r) /\ UNCHANGED <<state, trailers, prev, hinting, panicked>>
    BY <1>1, <1>3, Kinds, ResultsDiffer DEF PollBody, Pending, IsData
  <2>2. /\ r # Failure /\ r # End
        /\ IsFrame(r) => r \in AnyFrame
    BY <1>1, <1>3, ResultKinds, Kinds, ResultsDiffer
  <2>3. outcome' = "open" /\ TaskTypeOK'
    BY <1>1, <2>1, <2>2, Outcomes, AnswerTypes
  <2>4. WithTrailersInv'
    BY <1>1, <2>1, <2>3 DEF WithTrailersInv, TypeOK
  <2>5. /\ Left' = OwesAll(u, trailers)
        /\ Fails' = (Gives(trailers) = Failure \/ CutShort(u))
    BY <1>1, <2>1, <2>3
    DEF Left, Fails, FutureLeft, FinalLeft, Gives, Owes, OwesAll
  <2>6. CutShort(body) <=> CutShort(u)
    BY <1>1, <1>3, BodyUnfolds
  <2>7. Leaves(r)
    BY <1>1, <1>2, <1>3, <2>5, <2>6, OwesAllUnfolds, Kinds DEF Leaves
  <2>8. Left' \in Seq(AnyFrame)
    BY <1>1, <2>5, OwesAllUnfolds
  <2> QED BY <2>1, <2>2, <2>4, <2>7, <2>8, AnswersStep
<1>4. CASE r = Failure
  <2>1. Answer(r, r) /\ UNCHANGED <<state, trailers, prev, hinting, panicked>>
    BY <1>4, ResultsDiffer DEF PollBody, Pending, IsData, Failure
  <2>2. outcome' = "error" /\ TaskTypeOK'
    BY <1>1, <1>4, <2>1, Outcomes, AnswerTypes, ResultsDiffer
  <2>3. WithTrailersInv'
    BY <1>1, <2>1, <2>2 DEF WithTrailersInv, TypeOK
  <2>4. Left = <<>> /\ Fails /\ Left' = <<>> /\ Fails'
    BY <1>1, <1>2, <1>4, <2>2, OwesAllUnfolds, BodyUnfolds DEF Left, Fails
  <2>5. Leaves(r)
    BY <1>4, <2>4 DEF Leaves
  <2> QED BY <1>4, <2>1, <2>3, <2>4, <2>5, AnswersStep, ResultsDiffer, EmptySeq
<1>5. CASE r = End \/ r.kind = "trailers"
  <2>1. r \in KeptTrailers /\ PollTrailers(r)
    BY <1>1, <1>5, Kinds, ResultsDiffer DEF PollBody, BodyCompletes
  <2>2. Left = Owes(trailers, r)
    BY <1>1, <1>2, <1>5, OwesAllUnfolds
  <2>3. ~CutShort(body)
    BY <1>1, <1>5, BodyUnfolds
  <2>4. Fails = (Gives(trailers) = Failure)
    BY <1>2, <2>3
  <2> HIDE DEF r
  <2> QED BY <1>1, <2>1, <2>2, <2>4, FutureAnswers
<1>6. r = Pending \/ IsData(r) \/ r = Failure \/ r = End \/ r.kind = "trailers"
  BY <1>1, ResultKinds DEF IsFrame, IsData
<1> QED BY <1>3, <1>4, <1>5, <1>6

\* Polled after the end, a future that has resolved panics: what the task has
\* been given stays.
LEMMA AnswersAfterEnd ==
  ASSUME WithTrailersInv, outcome = "end", PollFrame
  PROVE  WithTrailersInv' /\ StreamStep
<1>1. state # "PollBody" /\ trailers = <<>> /\ state \in {"PollTrailers", "Done"}
  BY DEF WithTrailersInv, TypeOK
<1>2. CASE state = "PollTrailers"
  <2>1. /\ panicked' = TRUE
        /\ UNCHANGED <<taskVars, state, trailers, prev, hinting, body>>
    BY <1>1, <1>2 DEF PollFrame, PollTrailers
  <2>2. WithTrailersInv'
    BY <2>1 DEF WithTrailersInv, TypeOK, TaskTypeOK, taskVars
  <2>3. Left' = Left /\ Fails' = Fails /\ UNCHANGED <<returned, outcome>>
    BY <2>1 DEF Left, Fails, taskVars, FutureLeft, FinalLeft
  <2> QED BY <2>2, <2>3 DEF StreamStep, Stream!svars
<1>3. CASE state = "Done"
  <2>1. Answer(End, End) /\ UNCHANGED stateVars
    BY <1>3 DEF PollFrame
  <2>2. returned' = returned /\ outcome' = outcome
    BY <2>1, ResultsDiffer DEF Answer
  <2>3. TaskTypeOK'
    BY <2>1, AnswerTypes, ResultsDiffer DEF WithTrailersInv, TypeOK
  <2>4. WithTrailersInv'
    BY <2>1, <2>2, <2>3 DEF WithTrailersInv, TypeOK, stateVars
  <2>5. Left' = Left /\ Fails' = Fails
    BY <2>1, <2>2 DEF Left, Fails, stateVars, FutureLeft, FinalLeft
  <2> QED BY <2>2, <2>4, <2>5 DEF StreamStep, Stream!svars
<1> QED BY <1>1, <1>2, <1>3

LEMMA DoneAnswers ==
  ASSUME WithTrailersInv, outcome = "open", state = "Done", Answer(End, End),
         UNCHANGED stateVars
  PROVE  WithTrailersInv' /\ StreamStep
<1>1. outcome' = "end" /\ TaskTypeOK'
  BY Outcomes, AnswerTypes, ResultsDiffer DEF WithTrailersInv, TypeOK
<1>2. WithTrailersInv'
  BY <1>1 DEF WithTrailersInv, TypeOK, stateVars
<1>3. Left = <<>> /\ ~Fails
  BY LeftOwes
<1>4. Left' = <<>> /\ ~Fails'
  BY <1>1 DEF Left, Fails
<1>5. Leaves(End)
  BY <1>3, <1>4 DEF Leaves
<1> QED BY <1>2, <1>4, <1>5, AnswersStep, ResultsDiffer, EmptySeq

LEMMA StreamSteps ==
  WithTrailersInv /\ [Next]_vars => WithTrailersInv' /\ StreamStep
<1> SUFFICES ASSUME WithTrailersInv, [Next]_vars
             PROVE  WithTrailersInv' /\ StreamStep
  OBVIOUS
<1>1. CASE PollFrame /\ outcome = "open"
  <2>1. CASE state = "PollBody" /\ PollBody
    BY <1>1, <2>1, BodyAnswers
  <2>2. CASE state = "PollTrailers" /\ PollTrailers(prev) /\ UNCHANGED body
    <3>1. /\ trailers # <<>> /\ prev \in KeptTrailers
          /\ body' \in Seq(Result) /\ TrailersLast(body')
      BY <1>1, <2>2 DEF WithTrailersInv, TypeOK
    <3>2. Left = Owes(trailers, prev) /\ Fails = (Gives(trailers) = Failure)
      BY <1>1, <2>2, LeftOwes
    <3> QED BY <1>1, <2>2, <3>1, <3>2, FutureAnswers
  <2>3. CASE state = "Done" /\ Answer(End, End) /\ UNCHANGED stateVars
    BY <1>1, <2>3, DoneAnswers
  <2> QED BY <1>1, <2>1, <2>2, <2>3 DEF PollFrame
<1>2. CASE PollFrame /\ outcome # "open"
  BY <1>2, AnswersAfterEnd DEF PollFrame, MayPoll, WithTrailersInv, TypeOK,
    TaskTypeOK
<1>3. CASE UNCHANGED <<stateVars, returned, outcome>> /\ TaskTypeOK'
  <2>1. WithTrailersInv'
    BY <1>3 DEF WithTrailersInv, TypeOK, stateVars
  <2>2. Left' = Left /\ Fails' = Fails
    BY <1>3 DEF Left, Fails, stateVars, FutureLeft, FinalLeft
  <2> QED BY <1>3, <2>1, <2>2 DEF StreamStep, Stream!svars
<1>4. TaskTypeOK
  BY DEF WithTrailersInv, TypeOK
<1> QED BY <1>1, <1>2, <1>3, <1>4
    DEF Next, Wake, TaskDone, vars, taskVars, TaskTypeOK

\* Every variable keeps its type; above all, merged trailers are trailers.
THEOREM WithTrailersTypes == Spec => []TypeOK
<1>1. WithTrailersInv => TypeOK
  BY DEF WithTrailersInv
<1> QED BY <1>1, InitHolds, StreamSteps, PTL DEF Spec

LEMMA StreamStarts == Init => Stream!Init
<1> SUFFICES ASSUME Init PROVE Stream!Init
  OBVIOUS
<1>1. WithTrailersInv
  BY InitHolds
<1>2. Left \in Seq(AnyFrame)
  BY <1>1, LeftOwes
<1>3. <<>> \o Left = Left
  BY <1>2, ConcatEmptySeq
<1> QED BY <1>2, <1>3 DEF Init, TaskInit, Stream!Init

\* A body with trailers is one stream: the data of the body, then one frame with
\* the trailers of both, or none; nothing after an error.
THEOREM WithTrailersIsAStream == Spec => ImplementsStream
<1> QED BY StreamStarts, InitHolds, StreamSteps, PTL
    DEF Spec, StreamStep, ImplementsStream, Stream!Spec

-----------------------------------------------------------------------------
(* The hints.                                                              *)

\* A body that is still polled has hints that are numbers of the width, if it
\* says that it has at most the largest of them.
HintFits ==
  hinting = "max" /\ outcome = "open" /\ state = "PollBody" => Representable(body)

LEMMA HintFitsKept ==
  WithTrailersInv /\ HintFits /\ [Next]_vars => HintFits'
<1> SUFFICES ASSUME WithTrailersInv, HintFits, [Next]_vars,
                    hinting' = "max", outcome' = "open", state' = "PollBody"
             PROVE  Representable(body)'
  BY DEF HintFits
<1>1. CASE UNCHANGED <<stateVars, returned, outcome>>
  BY <1>1 DEF HintFits, stateVars
<1>2. CASE PollFrame
  <2>1. CASE state = "PollBody" /\ PollBody
    <3> DEFINE r == Poll(body)
    <3>1. body \in Seq(Result) /\ r \in Result /\ body' = Rest(body)
      BY <2>1, ScriptTypes DEF WithTrailersInv, TypeOK, PollBody
    <3>2. CASE r.kind \in {"end", "trailers"} /\ BodyCompletes(r)
      <4>1. outcome = "open"
        BY <1>2, <2>1 DEF PollFrame, MayPoll, WithTrailersInv, TypeOK, TaskTypeOK
      <4>2. trailers # <<>>
        BY <2>1, <4>1 DEF WithTrailersInv
      <4>3. state' # "PollBody"
        BY <3>2, <4>2 DEF BodyCompletes, PollTrailers
      <4> QED BY <4>3
    <3>3. CASE /\ r \in {Pending, Failure} \/ IsData(r)
               /\ Answer(r, r) /\ UNCHANGED <<state, trailers, prev, hinting, panicked>>
      <4>1. r # Failure
        BY <3>3, ResultsDiffer DEF Answer
      <4>2. outcome = "open"
        BY <3>3, <1>2 DEF Answer, PollFrame, MayPoll, WithTrailersInv, TypeOK, TaskTypeOK
      <4>3. r = Pending \/ IsFrame(r)
        BY <3>3, <4>1 DEF IsData, IsFrame
      <4>4. hinting = "max" /\ state = "PollBody"
        BY <3>3
      <4>5. Representable(body)
        BY <4>2, <4>4 DEF HintFits
      <4> QED BY <3>1, <4>3, <4>5, RepresentableRest DEF Representable
    <3> QED BY <2>1, <3>2, <3>3 DEF PollBody
  <2>2. CASE state = "PollTrailers" /\ PollTrailers(prev)
    BY <2>2 DEF PollTrailers
  <2>3. CASE state = "Done" /\ UNCHANGED stateVars
    BY <2>3 DEF stateVars
  <2> QED BY <1>2, <2>1, <2>2, <2>3 DEF PollFrame
<1> QED BY <1>1, <1>2 DEF Next, Wake, TaskDone, vars, taskVars

LEMMA HintsHoldHere ==
  ASSUME WithTrailersInv, HintFits
  PROVE  HintsAreSound
<1>1. /\ body \in Seq(Result) /\ TrailersLast(body) /\ hinting \in Hinting
      /\ trailers \in Seq(Result) /\ (trailers # <<>> => Resolving(trailers))
  BY HintsAssumption DEF WithTrailersInv, TypeOK
<1>2. Left \in Seq(AnyFrame) /\ Bytes(Left) \in Nat
  BY LeftOwes, BytesType
<1>3. CASE state # "PollBody"
  BY <1>2, <1>3 DEF HintsAreSound, Sound, SizeHint, NoHint
<1>4. CASE state = "PollBody" /\ outcome # "open"
  <2>1. outcome = "error"
    BY <1>4 DEF WithTrailersInv, TypeOK, TaskTypeOK
  <2>2. Left = <<>> /\ Fails /\ Bytes(Left) = 0
    BY <2>1, NoBytes DEF Left, Fails
  <2>3. SizeHint.upper \subseteq Nat
    BY <1>1, <1>4, HintsAreNumbers DEF SizeHint
  <2> QED BY <2>2, <2>3 DEF HintsAreSound, Sound
<1>5. CASE state = "PollBody" /\ outcome = "open"
  <2>1. SizeHint = HintOf(body, hinting)
    BY <1>5 DEF SizeHint
  <2>2. /\ \A m \in SizeHint.upper : m \in Nat /\ Bytes(DataLeft(body)) <= m
        /\ CutShort(body) \/ SizeHint.lower <= Bytes(DataLeft(body))
    BY <1>1, <1>5, <2>1, HintsHold DEF HintFits
  <2>3. /\ Left = OwesAll(body, trailers)
        /\ Fails = (Gives(trailers) = Failure \/ CutShort(body))
    BY <1>5, LeftOwes
  <2>4. Bytes(Left) = Bytes(DataLeft(body))
    <3>1. DataLeft(body) \in Seq(AnyFrame) /\ TrailersLeft(body) \in KeptTrailers
      BY <1>1, DataLeftUnfolds, TrailersLeftType
    <3>2. CASE CutShort(body) \/ Gives(trailers) = Failure
      <4>1. Left = DataLeft(body) \o <<>>
        BY <2>3, <3>2 DEF OwesAll, Owes
      <4> QED BY <3>1, <4>1, ConcatEmptySeq
    <3>3. CASE ~CutShort(body) /\ Gives(trailers) # Failure
      <4> DEFINE final == Join(TrailersLeft(body), Gives(trailers))
      <4>1. /\ Gives(trailers) \in KeptTrailers
            /\ Owes(trailers, TrailersLeft(body)) =
                 IF final = End THEN <<>> ELSE <<final>>
        BY <1>1, <3>1, <3>3, OwesType
      <4>2. final \in KeptTrailers
        BY <3>1, <4>1, JoinedAsOwed
      <4>3. Left = DataLeft(body) \o (IF final = End THEN <<>> ELSE <<final>>)
        BY <2>3, <3>3, <4>1 DEF OwesAll
      <4> HIDE DEF final
      <4> QED BY <3>1, <4>2, <4>3, BytesOwed
    <3> QED BY <3>2, <3>3
  <2> QED BY <2>2, <2>3, <2>4 DEF HintsAreSound, Sound
<1> QED BY <1>3, <1>4, <1>5

\* A hint given to a body is still one for the body with trailers, and as sound,
\* at every moment. Only a body that says it may have the largest number of bytes
\* has to have no more than that.
THEOREM WithTrailersHintsAreSound ==
  ASSUME "max" \in Hints => \A s \in Script : Representable(s)
  PROVE  Spec => []HintsAreSound
<1>1. Init => HintFits
  BY DEF Init, HintFits
<1>2. WithTrailersInv /\ HintFits => HintsAreSound
  BY HintsHoldHere
<1> QED BY <1>1, <1>2, InitHolds, StreamSteps, HintFitsKept, PTL DEF Spec
-----------------------------------------------------------------------------
(* What is safe about waiting.                                             *)

LEMMA WaitsForPending ==
  ASSUME NEW r, NEW last, Answer(r, last), r = Pending => last = Pending
  PROVE  task' = "parked" => woken'
BY DEF Answer

LEMMA FutureWaits ==
  ASSUME WithTrailersInv, task = "parked" => woken,
         NEW kept \in KeptTrailers, PollTrailers(kept)
  PROVE  task' = "parked" => woken'
<1> DEFINE r == Head(trailers)
<1>1. CASE UNCHANGED taskVars
  BY <1>1 DEF taskVars
<1>2. CASE Answer(r, r)
  BY <1>2, WaitsForPending
<1>3. CASE /\ trailers # <<>> /\ r.kind \in {"end", "trailers"}
           /\ Answer(Join(kept, r), r)
  <2>1. r \in Result
    BY <1>3, FutureUnfolds DEF WithTrailersInv, TypeOK
  <2>2. Join(kept, r) \in KeptTrailers
    BY <1>3, <2>1, Kinds, JoinedAsOwed
  <2>3. Join(kept, r) # Pending
    BY <2>2, KeptKinds, ResultsDiffer
  <2> QED BY <1>3, <2>3, WaitsForPending
<1> QED BY <1>1, <1>2, <1>3 DEF PollTrailers, JoinTrailers

\* The task does not sleep between the body and the future: whichever was polled
\* last was pending itself and has kept the waker.
THEOREM WithTrailersWakeupsKept == Spec => [](task = "parked" => woken)
<1> DEFINE Wakes == task = "parked" => woken
<1>1. Init => Wakes
  BY DEF Init, TaskInit
<1>2. WithTrailersInv /\ Wakes /\ [Next]_vars => Wakes'
  <2> SUFFICES ASSUME WithTrailersInv, Wakes, [Next]_vars PROVE Wakes'
    OBVIOUS
  <2>1. CASE PollBody
    <3> DEFINE r == Poll(body)
    <3>1. CASE Answer(r, r)
      BY <3>1, WaitsForPending
    <3>2. CASE r.kind \in {"end", "trailers"} /\ PollTrailers(r)
      <4>1. r \in KeptTrailers
        BY <3>2, ScriptTypes, Kinds DEF WithTrailersInv, TypeOK
      <4> QED BY <3>2, <4>1, FutureWaits
    <3> QED BY <2>1, <3>1, <3>2 DEF PollBody, BodyCompletes
  <2>2. CASE PollTrailers(prev)
    BY <2>2, FutureWaits DEF WithTrailersInv
  <2>3. CASE Answer(End, End)
    BY <2>3, WaitsForPending
  <2>4. CASE Wake
    BY <2>4 DEF Wake
  <2>5. CASE UNCHANGED taskVars
    BY <2>5 DEF taskVars
  <2> QED BY <2>1, <2>2, <2>3, <2>4, <2>5 DEF Next, PollFrame, TaskDone, vars
<1> HIDE DEF Wakes
<1>3. Spec => []Wakes
  BY <1>1, <1>2, InitHolds, StreamSteps, PTL DEF Spec
<1> QED BY <1>3 DEF Wakes
=============================================================================
