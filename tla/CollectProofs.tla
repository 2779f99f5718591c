---------------------------- MODULE CollectProofs ----------------------------
(***************************************************************************)
(* A body is collected whole: a body that fails is never taken for a whole  *)
(* one, and of one that ends every byte and every header is read once, for  *)
(* every body, however it is cut into frames and pending polls, and through *)
(* whichever readers. The loops of the code are folds over sequences: what  *)
(* a fold computes is shown by induction on the length.                    *)
(***************************************************************************)
EXTENDS Collect, BodiesProofs

\* Where the loop of a poll stops: behind frames only, at a result that is none
\* or at the end of the body.
LEMMA LoopStops ==
  ASSUME NEW s \in Seq(Result)
  PROVE  LET n == ReadyFrames(s) + 1
         IN /\ n \in 1..(Len(s) + 1)
            /\ \A i \in 1..(n - 1) : IsFrame(s[i])
            /\ n <= Len(s) => ~IsFrame(s[n])
<1> DEFINE stop == {i \in DOMAIN s : ~IsFrame(s[i])}
<1>1. Len(s) \in Nat /\ DOMAIN s = 1..Len(s)
  BY LenProperties
<1>2. CASE stop = {}
  BY <1>1, <1>2 DEF ReadyFrames
<1>3. CASE stop # {}
  <2>1. Min(stop) \in stop /\ \A i \in stop : Min(stop) <= i
    <3>1. stop \subseteq Nat
      BY <1>1
    <3> HIDE DEF stop
    <3> QED BY <3>1, <1>3, LeastOfSome
  <2>2. ReadyFrames(s) = Min(stop) - 1
    BY <1>3 DEF ReadyFrames
  <2> DEFINE k == Min(stop)
  <2>3. k \in 1..Len(s) /\ ~IsFrame(s[k])
    BY <1>1, <2>1
  <2>4. \A i \in 1..Len(s) : ~IsFrame(s[i]) => k <= i
    BY <1>1, <2>1
  <2>5. ReadyFrames(s) + 1 = k
    BY <1>1, <2>2, <2>3
  <2> HIDE DEF k
  <2>6. \A i \in 1..(k - 1) : IsFrame(s[i])
    BY <1>1, <2>3, <2>4
  <2> QED BY <1>1, <2>3, <2>5, <2>6
<1> QED BY <1>2, <1>3

\* A poll that is pending leaves a body that fails as it did before.
LEMMA FailureStays ==
  ASSUME NEW s \in Seq(Result)
  PROVE  LET n == ReadyFrames(s) + 1
             last == Poll(SubSeq(s, n, Len(s)))
             rest == SubSeq(s, n + 1, Len(s))
         IN /\ rest \in Seq(Result) /\ last \in {Pending, End, Failure}
            /\ last = Failure => FailsLater(s)
            /\ last = End => ~FailsLater(s)
            /\ last = Pending => (FailsLater(s) <=> FailsLater(rest))
<1> DEFINE n == ReadyFrames(s) + 1
           m == Len(s)
           last == Poll(SubSeq(s, n, m))
           rest == SubSeq(s, n + 1, m)
<1> DEFINE Goal ==
      /\ rest \in Seq(Result) /\ last \in {Pending, End, Failure}
      /\ last = Failure => FailsLater(s)
      /\ last = End => ~FailsLater(s)
      /\ last = Pending => (FailsLater(s) <=> FailsLater(rest))
<1> SUFFICES Goal
  OBVIOUS
<1>1. /\ n \in 1..(m + 1) /\ m \in Nat /\ DOMAIN s = 1..m
      /\ \A i \in 1..(n - 1) : IsFrame(s[i])
      /\ n <= m => ~IsFrame(s[n])
      /\ \A i \in 1..m : s[i] \in Result
  BY LoopStops, LenProperties, ElementOfSeq
<1> HIDE DEF n, m
<1>2. /\ SubSeq(s, n, m) \in Seq(Result) /\ rest \in Seq(Result)
      /\ n <= m => /\ SubSeq(s, n, m) # <<>> /\ SubSeq(s, n, m)[1] = s[n]
                   /\ Len(rest) = m - n
                   /\ \A i \in 1..(m - n) : rest[i] = s[n + i]
      /\ n > m => SubSeq(s, n, m) = <<>>
  <2> DEFINE t == SubSeq(s, n, m)
  <2>1. /\ t \in Seq(Result) /\ Len(t) = IF n <= m THEN m - n + 1 ELSE 0
        /\ \A i \in 1..(m - n + 1) : t[i] = s[n + i - 1]
    BY <1>1, SubSeqProperties
  <2>2. /\ rest \in Seq(Result)
        /\ Len(rest) = IF n + 1 <= m THEN m - (n + 1) + 1 ELSE 0
        /\ \A i \in 1..(m - (n + 1) + 1) : rest[i] = s[(n + 1) + i - 1]
    BY <1>1, SubSeqProperties
  <2> HIDE DEF t, rest
  <2>3. t = <<>> <=> Len(t) = 0
    BY <2>1, EmptySeq
  <2>4. \A i \in 1..(m - n) : rest[i] = s[n + i]
    <3> SUFFICES ASSUME NEW i \in 1..(m - n) PROVE rest[i] = s[n + i]
      OBVIOUS
    <3>1. i \in 1..(m - (n + 1) + 1) /\ (n + 1) + i - 1 = n + i
      BY <1>1
    <3> QED BY <2>2, <3>1
  <2>5. n <= m => t[1] = s[n]
    <3>1. n <= m => 1 \in 1..(m - n + 1) /\ n + 1 - 1 = n
      BY <1>1
    <3> QED BY <2>1, <3>1
  <2>6. n <= m => Len(rest) = m - n
    BY <1>1, <2>2
  <2>7. n <= m => Len(t) # 0
    BY <1>1, <2>1
  <2>8. n > m => Len(t) = 0
    BY <1>1, <2>1
  <2> QED BY <2>1, <2>2, <2>3, <2>4, <2>5, <2>6, <2>7, <2>8 DEF t
<1>3. CASE n > m
  <2>1. last = End
    BY <1>2, <1>3 DEF Poll
  <2>2. \A i \in 1..m : s[i] # Failure
    BY <1>1, <1>3, ResultsDiffer
  <2>3. ~FailsLater(s)
    BY <1>1, <2>2 DEF FailsLater
  <2> QED BY <1>2, <2>1, <2>3, ResultsDiffer
<1>4. CASE n <= m
  <2>1. last = s[n]
    BY <1>2, <1>4, HeadTailProperties DEF Poll
  <2>2. last \in {Pending, End, Failure}
    BY <1>1, <1>4, <2>1, ResultKinds
  <2>3. \A i \in 1..(n - 1) : s[i] # Failure /\ s[i] # End
    BY <1>1, ResultsDiffer
  <2>4. n \in 1..m
    BY <1>1, <1>4
  <2> HIDE DEF last, rest
  <2>5. last = Failure => FailsLater(s)
    BY <1>1, <2>1, <2>3, <2>4 DEF FailsLater
  <2>6. ASSUME NEW i \in 1..m, s[i] = Failure, last # Failure
         PROVE  i > n
    <3>1. i \notin 1..(n - 1)
      BY <2>3, <2>6
    <3>2. i # n
      BY <2>1, <2>6
    <3> QED BY <1>1, <2>4, <3>1, <3>2
  <2>7. last = End => ~FailsLater(s)
    <3> SUFFICES ASSUME last = End, FailsLater(s) PROVE FALSE
      OBVIOUS
    <3>1. PICK i \in 1..m : s[i] = Failure /\ \A j \in 1..(i - 1) : s[j] # End
      BY <1>1 DEF FailsLater
    <3>2. i > n
      BY <2>6, <3>1, ResultsDiffer
    <3>3. n \in 1..(i - 1)
      BY <2>4, <3>1, <3>2
    <3> QED BY <2>1, <3>1, <3>3
  <2>8. DOMAIN rest = 1..(m - n)
    BY <1>1, <1>2, <1>4, LenProperties
  <2>9. ASSUME last = Pending, FailsLater(s) PROVE FailsLater(rest)
    <3>1. PICK i \in 1..m : s[i] = Failure /\ \A j \in 1..(i - 1) : s[j] # End
      BY <1>1, <2>9 DEF FailsLater
    <3>2. i > n
      BY <2>9, <2>6, <3>1, ResultsDiffer
    <3>3. i - n \in 1..(m - n) /\ n + (i - n) = i
      BY <1>1, <2>4, <3>1, <3>2
    <3>4. rest[i - n] = Failure
      BY <1>2, <1>4, <3>1, <3>3
    <3>5. ASSUME NEW j \in 1..((i - n) - 1) PROVE rest[j] # End
      <4>1. j \in 1..(m - n) /\ n + j \in 1..(i - 1)
        BY <1>1, <2>4, <3>1, <3>2
      <4> QED BY <1>2, <1>4, <3>1, <4>1
    <3> QED BY <2>8, <3>3, <3>4, <3>5 DEF FailsLater
  <2>10. ASSUME last = Pending, FailsLater(rest) PROVE FailsLater(s)
    <3>1. PICK i \in 1..(m - n) :
            rest[i] = Failure /\ \A j \in 1..(i - 1) : rest[j] # End
      BY <2>8, <2>10 DEF FailsLater
    <3>2. n + i \in 1..m /\ s[n + i] = Failure
      BY <1>1, <1>2, <1>4, <2>4, <3>1
    <3>3. ASSUME NEW j \in 1..((n + i) - 1) PROVE s[j] # End
      <4>1. CASE j < n
        BY <1>1, <2>3, <2>4, <4>1
      <4>2. CASE j = n
        BY <2>1, <2>10, <4>2, ResultsDiffer
      <4>3. CASE j > n
        <5>1. /\ j - n \in 1..(i - 1) /\ j - n \in 1..(m - n)
              /\ n + (j - n) = j
          BY <1>1, <2>4, <3>1, <4>3
        <5>2. rest[j - n] = s[j]
          BY <1>2, <1>4, <5>1
        <5> QED BY <3>1, <5>1, <5>2
      <4> QED BY <1>1, <2>4, <4>1, <4>2, <4>3
    <3> QED BY <1>1, <3>2, <3>3 DEF FailsLater
  <2> QED BY <1>2, <2>2, <2>5, <2>7, <2>9, <2>10
<1> QED BY <1>1, <1>3, <1>4

-----------------------------------------------------------------------------
(* The future keeps whether its body fails until it knows.                 *)

CollectInv ==
  /\ body \in Seq(Result)
  /\ phase \in {"collecting", "failed", "body", "buf"}
  /\ phase = "collecting" => (FailsLater(body) <=> FailsLater(script))
  /\ phase = "failed" => FailsLater(script)
  /\ phase \in {"body", "buf"} => ~FailsLater(script)

LEMMA CollectStep == CollectInv /\ [Next]_vars => CollectInv'
<1> SUFFICES ASSUME CollectInv, [Next]_vars PROVE CollectInv'
  OBVIOUS
<1>1. CASE PollCollect
  <2> DEFINE last == Poll(SubSeq(body, ReadyFrames(body) + 1, Len(body)))
             rest == SubSeq(body, (ReadyFrames(body) + 1) + 1, Len(body))
  <2>1. /\ phase = "collecting" /\ body' = rest /\ script' = script
        /\ \/ last \notin {End, Failure} /\ phase' = phase
           \/ /\ last \in {End, Failure}
              /\ phase' = IF last = End THEN "body" ELSE "failed"
    BY <1>1 DEF PollCollect, Polls, Resolved
  <2>2. /\ rest \in Seq(Result) /\ last \in {Pending, End, Failure}
        /\ last = Failure => FailsLater(body)
        /\ last = End => ~FailsLater(body)
        /\ last = Pending => (FailsLater(body) <=> FailsLater(rest))
    BY FailureStays DEF CollectInv
  <2>3. FailsLater(body) <=> FailsLater(script)
    BY <2>1 DEF CollectInv
  <2> HIDE DEF last, rest
  <2> QED BY <2>1, <2>2, <2>3, ResultsDiffer DEF CollectInv
<1>2. CASE UNCHANGED <<body, phase, script>>
  BY <1>2 DEF CollectInv
<1>3. CASE Aggregate
  BY <1>3 DEF Aggregate, CollectInv
<1> QED BY <1>1, <1>2, <1>3
    DEF Next, Wake, Failed, PollFrame, TakeTrailers, ReadAndAdvance,
      ReadVectored, CopyToBytes, vars, collectVars

\* A body that fails does not resolve to what it gave before, one that ends
\* does: the future never passes a part for the whole.
THEOREM NoPartForTheWhole == Spec => []FailureIsNotEnd
<1>1. Init => CollectInv
  BY ScriptAssumption DEF Init, CollectInv
<1>2. CollectInv => FailureIsNotEnd
  BY DEF CollectInv, FailureIsNotEnd
<1> QED BY <1>1, <1>2, CollectStep, PTL DEF Spec

-----------------------------------------------------------------------------
(* All the bytes of a list of buffers.                                     *)

LEMMA AllBytesCompute ==
  ASSUME NEW B, NEW bs \in Seq(Seq(B))
  PROVE  \E g \in [0..Len(bs) -> Seq(B)] :
           /\ g[0] = <<>> /\ AllBytes(bs) = g[Len(bs)]
           /\ \A k \in 1..Len(bs) : g[k] = g[k - 1] \o bs[k]
<1> DEFINE n == Len(bs)
    V == Seq(B)
    step == [k \in 1..n |-> [v \in V |-> v \o bs[k]]]
    Is(f) == f = [k \in 1..n |-> IF k = 1 THEN bs[k] ELSE f[k - 1] \o bs[k]]
    flatten == CHOOSE f : Is(f)
<1>1. /\ n \in Nat /\ <<>> \in V
      /\ \A k \in 1..n : bs[k] \in V
  BY LenProperties, ElementOfSeq, EmptySeq
<1>2. step \in Steps(n, V)
  BY <1>1, ConcatProperties DEF Steps
<1>3. PICK g \in [0..n -> V] :
        g[0] = <<>> /\ \A k \in 1..n : g[k] = step[k][g[k - 1]]
  <2> HIDE DEF n, step, V
  <2>1. \E g \in [0..n -> V] : Follows(g, n, <<>>, step)
    BY <1>1, <1>2, Computable, Zenon
  <2> QED BY <2>1 DEF Follows
<1>4. \A k \in 1..n : g[k] = g[k - 1] \o bs[k]
  <2> SUFFICES ASSUME NEW k \in 1..n PROVE g[k] = g[k - 1] \o bs[k]
    OBVIOUS
  <2>1. g[k - 1] \in V
    <3> HIDE DEF n, step, V
    <3>1. k - 1 \in 0..n
      BY <1>1
    <3> QED BY <1>3, <3>1
  <2> QED BY <1>3, <2>1
<1>5. CASE n = 0
  <2>1. bs = <<>>
    BY <1>5, EmptySeq
  <2>2. AllBytes(bs) = g[n]
    BY <1>3, <1>5, <2>1 DEF AllBytes, FlattenSeq
  <2> QED BY <1>3, <1>4, <2>2
<1>6. CASE n # 0
  <2> DEFINE h == [k \in 1..n |-> g[k]]
  <2>1. g[1] = bs[1]
    <3>1. 1 \in 1..n /\ 1 - 1 = 0
      BY <1>1, <1>6
    <3>2. g[1] = <<>> \o bs[1] /\ bs[1] \in Seq(B)
      BY <1>1, <1>3, <1>4, <3>1
    <3> HIDE DEF n
    <3> QED BY <3>2, ConcatEmptySeq
  <2>2. Is(h)
    <3>1. \A k \in 1..n : k # 1 => k - 1 \in 1..n
      BY <1>1
    <3> QED BY <1>4, <2>1, <3>1
  <2>3. Is(flatten)
    <3> HIDE DEF h, Is
    <3> QED BY <2>2
  <2>4. AllBytes(bs) = flatten[n]
    BY <1>6 DEF AllBytes, FlattenSeq
  <2> HIDE DEF flatten
  <2> DEFINE Good == {k \in 0..n : k # 0 => flatten[k] = g[k]}
  <2>5. 0..n \subseteq Good
    <3>1. 0 \in Good
      BY <1>1
    <3>2. ASSUME NEW k \in 1..n, k - 1 \in Good PROVE k \in Good
      <4>1. flatten[k] = IF k = 1 THEN bs[k] ELSE flatten[k - 1] \o bs[k]
        BY <2>3
      <4>2. k # 1 => k - 1 # 0 /\ k \in 0..n
        BY <1>1
      <4>3. flatten[k] = g[k]
        BY <1>4, <2>1, <3>2, <4>1, <4>2
      <4> QED BY <1>1, <4>3
    <3> HIDE DEF Good
    <3> QED BY <1>1, <3>1, <3>2, HandedOn
  <2>6. flatten[n] = g[n]
    BY <1>1, <1>6, <2>5
  <2> QED BY <1>3, <1>4, <2>4, <2>6
<1> QED BY <1>5, <1>6

LEMMA AllBytesType ==
  ASSUME NEW B, NEW bs \in Seq(Seq(B))
  PROVE  AllBytes(bs) \in Seq(B)
<1>1. PICK g \in [0..Len(bs) -> Seq(B)] : AllBytes(bs) = g[Len(bs)]
  BY AllBytesCompute
<1>2. Len(bs) \in 0..Len(bs)
  BY LenProperties
<1> HIDE DEF AllBytes
<1> QED BY <1>1, <1>2

LEMMA NoBuffers == AllBytes(<<>>) = <<>>
BY EmptySeq DEF AllBytes, FlattenSeq

\* The bytes of a buffer that is appended come last.
LEMMA AllBytesAppend ==
  ASSUME NEW B, NEW bs \in Seq(Seq(B)), NEW b \in Seq(B)
  PROVE  AllBytes(Append(bs, b)) = AllBytes(bs) \o b
<1> DEFINE n == Len(bs)
           t == Append(bs, b)
<1>1. /\ n \in Nat /\ t \in Seq(Seq(B)) /\ Len(t) = n + 1 /\ t[n + 1] = b
      /\ \A k \in 1..n : t[k] = bs[k]
  BY LenProperties, AppendProperties
<1>2. PICK g \in [0..n -> Seq(B)] :
        /\ g[0] = <<>> /\ AllBytes(bs) = g[n]
        /\ \A k \in 1..n : g[k] = g[k - 1] \o bs[k]
  BY AllBytesCompute
<1> HIDE DEF t, n
<1>3. PICK h \in [0..Len(t) -> Seq(B)] :
        /\ h[0] = <<>> /\ AllBytes(t) = h[Len(t)]
        /\ \A k \in 1..Len(t) : h[k] = h[k - 1] \o t[k]
  BY <1>1, AllBytesCompute
<1> DEFINE Good == {k \in 0..n : h[k] = g[k]}
<1>4. 0..n \subseteq Good
  <2>1. 0 \in Good
    BY <1>1, <1>2, <1>3
  <2>2. ASSUME NEW k \in 1..n, k - 1 \in Good PROVE k \in Good
    <3>1. k \in 1..Len(t) /\ k \in 0..n /\ t[k] = bs[k]
      BY <1>1
    <3>2. h[k] = h[k - 1] \o t[k] /\ g[k] = g[k - 1] \o bs[k]
      BY <1>2, <1>3, <3>1
    <3> QED BY <2>2, <3>1, <3>2
  <2> HIDE DEF Good
  <2> QED BY <1>1, <2>1, <2>2, HandedOn
<1>5. h[n] = g[n]
  BY <1>1, <1>4
<1>6. n + 1 \in 1..(n + 1) /\ (n + 1) - 1 = n
  BY <1>1
<1>7. h[n + 1] = h[n] \o b
  BY <1>1, <1>3, <1>6
<1> QED BY <1>1, <1>2, <1>3, <1>5, <1>7 DEF t

\* The bytes of two lists follow one another.
LEMMA AllBytesConcat ==
  ASSUME NEW B, NEW as \in Seq(Seq(B)), NEW bs \in Seq(Seq(B))
  PROVE  AllBytes(as \o bs) = AllBytes(as) \o AllBytes(bs)
<1> DEFINE m == Len(bs)
    Both(k) == as \o SubSeq(bs, 1, k)
    Holds(k) == AllBytes(Both(k)) = AllBytes(as) \o AllBytes(SubSeq(bs, 1, k))
    Good == {k \in 0..m : Holds(k)}
<1>1. /\ m \in Nat /\ AllBytes(as) \in Seq(B) /\ AllBytes(bs) \in Seq(B)
      /\ SubSeq(bs, 1, m) = bs
  BY LenProperties, AllBytesType, SubSeqFull
<1>2. Holds(0)
  <2>1. SubSeq(bs, 1, 0) = <<>>
    BY SubSeqEmpty
  <2>2. as \o <<>> = as /\ AllBytes(as) \o <<>> = AllBytes(as)
    BY <1>1, ConcatEmptySeq
  <2> QED BY <2>1, <2>2, NoBuffers
<1>3. ASSUME NEW k \in 1..m, Holds(k - 1) PROVE Holds(k)
  <2> DEFINE p == SubSeq(bs, 1, k - 1)
  <2>1. p \in Seq(Seq(B)) /\ bs[k] \in Seq(B)
    <3>1. \A i \in 1..(k - 1) : bs[i] \in Seq(B)
      BY <1>1, ElementOfSeq
    <3> QED BY <1>1, <3>1, ElementOfSeq, SubSeqProperties
  <2>2. SubSeq(bs, 1, k) = Append(p, bs[k])
    <3>1. SubSeq(bs, 1, k) = p \o <<bs[k]>>
      BY <1>1, SubSeqRecursiveSecond
    <3> HIDE DEF p
    <3> QED BY <2>1, <3>1, AppendIsConcat
  <2> HIDE DEF p
  <2>3. as \o Append(p, bs[k]) = Append(as \o p, bs[k]) /\ as \o p \in Seq(Seq(B))
    <3>1. as \o p \in Seq(Seq(B))
      BY <2>1, ConcatProperties, Zenon
    <3>2. <<bs[k]>> \in Seq(Seq(B))
      BY <2>1
    <3>3. (as \o p) \o <<bs[k]>> = as \o (p \o <<bs[k]>>)
      <4>1. as \in Seq(Seq(B)) /\ p \in Seq(Seq(B)) /\ <<bs[k]>> \in Seq(Seq(B))
        BY <2>1, <3>2
      <4> DEFINE S == Seq(B)
      <4> HIDE DEF S
      <4>2. \A a, b, c \in Seq(S) : (a \o b) \o c = a \o (b \o c)
        BY ConcatAssociative
      <4> QED BY <4>1, <4>2, Zenon DEF S
    <3> QED BY <2>1, <3>1, <3>3, AppendIsConcat
  <2>4. /\ AllBytes(Append(p, bs[k])) = AllBytes(p) \o bs[k]
        /\ AllBytes(Append(as \o p, bs[k])) = AllBytes(as \o p) \o bs[k]
        /\ AllBytes(p) \in Seq(B)
    BY <2>1, <2>3, AllBytesAppend, AllBytesType
  <2>5. AllBytes(as \o p) = AllBytes(as) \o AllBytes(p)
    BY <1>3 DEF p
  <2>6. (AllBytes(as) \o AllBytes(p)) \o bs[k]
          = AllBytes(as) \o (AllBytes(p) \o bs[k])
    <3>1. AllBytes(as) \in Seq(B) /\ AllBytes(p) \in Seq(B) /\ bs[k] \in Seq(B)
      BY <1>1, <2>1, <2>4
    <3>2. \A a, b, c \in Seq(B) : (a \o b) \o c = a \o (b \o c)
      BY ConcatAssociative
    <3> QED BY <3>1, <3>2
  <2> QED BY <2>2, <2>3, <2>4, <2>5, <2>6
<1>4. Holds(m)
  <2> HIDE DEF Holds
  <2>1. 0 \in Good /\ \A k \in 1..m : k - 1 \in Good => k \in Good
    BY <1>1, <1>2, <1>3
  <2>2. 0..m \subseteq Good
    <3> HIDE DEF Good
    <3> QED BY <1>1, <2>1, HandedOn
  <2> QED BY <1>1, <2>2
<1> QED BY <1>1, <1>4

\* The bytes of the first buffer come first.
LEMMA FirstBytes ==
  ASSUME NEW B, NEW bs \in Seq(Seq(B)), bs # <<>>
  PROVE  /\ Head(bs) \in Seq(B) /\ Tail(bs) \in Seq(Seq(B))
         /\ AllBytes(bs) = Head(bs) \o AllBytes(Tail(bs))
         /\ AllBytes(Tail(bs)) \in Seq(B)
<1>1. Head(bs) \in Seq(B) /\ Tail(bs) \in Seq(Seq(B))
  BY HeadTailProperties
<1>2. <<Head(bs)>> \in Seq(Seq(B)) /\ bs = <<Head(bs)>> \o Tail(bs)
  OBVIOUS
<1>3. AllBytes(<<Head(bs)>>) = Head(bs)
  <2>1. <<Head(bs)>> = Append(<<>>, Head(bs)) /\ <<>> \in Seq(Seq(B))
    OBVIOUS
  <2>2. AllBytes(Append(<<>>, Head(bs))) = <<>> \o Head(bs)
    BY <1>1, <2>1, AllBytesAppend, NoBuffers
  <2> QED BY <1>1, <2>1, <2>2, ConcatEmptySeq
<1> QED BY <1>1, <1>2, <1>3, AllBytesConcat, AllBytesType

-----------------------------------------------------------------------------
(* Folds over sequences.                                                   *)

\* The function that a fold from the left is the last value of: the sets of
\* indices are folded, the largest index last.
FoldsSets(g, n, base, step) ==
  g = [s \in SUBSET (1..n) |->
         IF s = {} THEN base ELSE step[Max(s)][g[s \ {Max(s)}]]]

LEMMA FoldExists ==
  ASSUME NEW n \in Nat, NEW V, NEW base \in V, NEW step \in Steps(n, V)
  PROVE  \E g \in [SUBSET (1..n) -> V] : FoldsSets(g, n, base, step)
<1> DEFINE Folds(m, g) == FoldsSets(g, m, base, step)
    Good == {m \in 0..n : \E g \in [SUBSET (1..m) -> V] : Folds(m, g)}
<1>1. 0 \in Good
  <2> DEFINE g == [s \in SUBSET (1..0) |-> base]
  <2>1. \A s \in SUBSET (1..0) : s = {}
    OBVIOUS
  <2>2. Folds(0, g)
    BY <2>1 DEF FoldsSets
  <2>3. g \in [SUBSET (1..0) -> V]
    OBVIOUS
  <2> HIDE DEF Folds, g
  <2>4. 0 \in 0..n /\ \E f \in [SUBSET (1..0) -> V] : Folds(0, f)
    BY <2>2, <2>3
  <2> QED BY <2>4, Zenon
<1>2. ASSUME NEW m \in 1..n, m - 1 \in Good PROVE m \in Good
  <2>1. PICK g \in [SUBSET (1..(m - 1)) -> V] : Folds(m - 1, g)
    BY <1>2
  <2> DEFINE h == [s \in SUBSET (1..m) |->
                     IF m \in s THEN step[m][g[s \ {m}]] ELSE g[s]]
  <2>2. \A s \in SUBSET (1..m) :
          /\ s \ {m} \in SUBSET (1..(m - 1))
          /\ m \notin s => s \in SUBSET (1..(m - 1))
    OBVIOUS
  <2>3. h \in [SUBSET (1..m) -> V]
    <3> SUFFICES ASSUME NEW s \in SUBSET (1..m)
                 PROVE  (IF m \in s THEN step[m][g[s \ {m}]] ELSE g[s]) \in V
      OBVIOUS
    <3>1. g[s \ {m}] \in V /\ (m \notin s => g[s] \in V)
      BY <2>1, <2>2
    <3> QED BY <3>1 DEF Steps
  <2>4. ASSUME NEW s \in SUBSET (1..m)
        PROVE  h[s] = IF s = {} THEN base ELSE step[Max(s)][h[s \ {Max(s)}]]
    <3>1. CASE m \in s
      <4>1. Max(s) = m
        <5>1. m \in Nat /\ s \subseteq 0..m /\ \A y \in s : y <= m
          OBVIOUS
        <5> QED BY <3>1, <5>1, MostIs, Zenon
      <4>2. h[s \ {m}] = g[s \ {m}]
        OBVIOUS
      <4> QED BY <3>1, <4>1, <4>2
    <3>2. CASE m \notin s
      <4>1. s \in SUBSET (1..(m - 1)) /\ h[s] = g[s]
        BY <2>2, <3>2
      <4>2. g[s] = IF s = {} THEN base ELSE step[Max(s)][g[s \ {Max(s)}]]
        BY <2>1, <4>1 DEF FoldsSets
      <4>3. h[s \ {Max(s)}] = g[s \ {Max(s)}]
        <5>1. s \ {Max(s)} \in SUBSET (1..m) /\ m \notin s \ {Max(s)}
          BY <3>2
        <5> HIDE DEF Max
        <5> QED BY <5>1
      <4> HIDE DEF h
      <4> QED BY <4>1, <4>2, <4>3
    <3> QED BY <3>1, <3>2
  <2>5. Folds(m, h)
    <3>1. h = [s \in SUBSET (1..m) |-> h[s]]
      OBVIOUS
    <3> HIDE DEF h
    <3> QED BY <2>4, <3>1 DEF FoldsSets
  <2> HIDE DEF Folds, h
  <2> QED BY <2>3, <2>5
<1>3. n \in Good
  <2>1. \A m \in 1..n : m - 1 \in Good => m \in Good
    BY <1>2
  <2> HIDE DEF Good
  <2>2. 0..n \subseteq Good
    BY <1>1, <2>1, HandedOn
  <2> QED BY <2>2
<1> QED BY <1>3

\* The indices up to one of them.
LEMMA UpTo ==
  ASSUME NEW n \in Nat, NEW k \in 1..n
  PROVE  /\ 1..k \in SUBSET (1..n) /\ 1..k # {}
         /\ Max(1..k) = k /\ (1..k) \ {k} = 1..(k - 1)
<1>1. 1..k \subseteq 0..n /\ k \in 1..k /\ \A y \in 1..k : y <= k
  OBVIOUS
<1>2. Max(1..k) = k
  BY <1>1, MostIs
<1> QED BY <1>1, <1>2

-----------------------------------------------------------------------------
(* What is kept of the frames of a body.                                   *)

NoneEmpty(buffers) == \A i \in 1..Len(buffers) : buffers[i] # <<>>
Buffers == {bs \in Seq(Seq(Byte)) : NoneEmpty(bs)}
Keeping == [bufs : Buffers, trailers : KeptTrailers]

\* A data frame is one of those that bodies are made of.
LEMMA DataFrames ==
  ASSUME NEW f \in AnyFrame, IsData(f)
  PROVE  f \in DataFrame /\ f.size \in Nat
<1>1. f \in DataFrame
  BY DEF AnyFrame, IsData, Trailers
<1> QED BY <1>1, FrameAssumption, WidthAssumption DEF Data, U64

LEMMA ContentType ==
  ASSUME NEW f \in AnyFrame, IsData(f)
  PROVE  /\ Content(f) \in Seq(Byte) /\ Len(Content(f)) = f.size
         /\ f.size = 0 <=> Content(f) = <<>>
<1>1. f \in DataFrame /\ f.size \in Nat
  BY DataFrames
<1>2. \A i \in 1..f.size : <<f.size, i>> \in Byte
  BY <1>1 DEF Byte
<1>3. Content(f) \in [1..f.size -> Byte]
  BY <1>2 DEF Content
<1>4. Content(f) \in Seq(Byte) /\ Len(Content(f)) = f.size
  <2>1. Content(f) \in Seq(Byte)
    BY <1>1, <1>3, SeqDef
  <2>2. DOMAIN Content(f) = 1..f.size
    BY <1>3
  <2> HIDE DEF Content
  <2> QED BY <1>1, <2>1, <2>2, LenProperties
<1> HIDE DEF Content
<1> QED BY <1>4, EmptySeq

\* A frame adds its bytes, or its trailers, to those that are kept.
LEMMA PushFrameKeeps ==
  ASSUME NEW kept \in Keeping, NEW f \in AnyFrame
  PROVE  LET pushed == PushFrame(kept, f)
         IN /\ pushed \in Keeping
            /\ IsData(f) =>
                 /\ AllBytes(pushed.bufs) = AllBytes(kept.bufs) \o Content(f)
                 /\ pushed.trailers = kept.trailers
            /\ ~IsData(f) =>
                 /\ pushed.bufs = kept.bufs
                 /\ pushed.trailers = Join(kept.trailers, f)
<1> DEFINE pushed == PushFrame(kept, f)
<1>1. /\ kept.bufs \in Seq(Seq(Byte)) /\ NoneEmpty(kept.bufs)
      /\ kept.trailers \in KeptTrailers
      /\ kept = [bufs |-> kept.bufs, trailers |-> kept.trailers]
  BY DEF Keeping, Buffers
<1>2. CASE IsData(f) /\ f.size = 0
  <2>1. pushed = kept
    BY <1>2 DEF PushFrame
  <2>2. AllBytes(kept.bufs) \o Content(f) = AllBytes(kept.bufs)
    <3>1. Content(f) = <<>> /\ AllBytes(kept.bufs) \in Seq(Byte)
      BY <1>1, <1>2, ContentType, AllBytesType
    <3> QED BY <3>1, ConcatEmptySeq
  <2> HIDE DEF pushed
  <2> QED BY <1>2, <2>1, <2>2 DEF pushed
<1>3. CASE IsData(f) /\ f.size # 0
  <2> DEFINE b == Content(f)
             bs == Append(kept.bufs, b)
  <2>1. b \in Seq(Byte) /\ b # <<>> /\ f.size > 0
    BY <1>3, ContentType, DataFrames
  <2>2. pushed = [bufs |-> bs, trailers |-> kept.trailers]
    BY <1>1, <1>3, <2>1 DEF PushFrame
  <2> HIDE DEF b
  <2>3. bs \in Buffers
    <3>1. /\ bs \in Seq(Seq(Byte)) /\ Len(bs) = Len(kept.bufs) + 1
          /\ bs[Len(kept.bufs) + 1] = b
          /\ \A i \in 1..Len(kept.bufs) : bs[i] = kept.bufs[i]
      BY <1>1, <2>1, AppendProperties, LenProperties
    <3>2. Len(kept.bufs) \in Nat
      BY <1>1, LenProperties
    <3> HIDE DEF bs
    <3>3. \A i \in 1..Len(bs) : i \in 1..Len(kept.bufs) \/ i = Len(kept.bufs) + 1
      BY <3>1, <3>2
    <3>4. NoneEmpty(bs)
      BY <1>1, <2>1, <3>1, <3>3, Zenon DEF NoneEmpty
    <3> QED BY <3>1, <3>4 DEF Buffers
  <2>4. AllBytes(bs) = AllBytes(kept.bufs) \o b
    BY <1>1, <2>1, AllBytesAppend
  <2> HIDE DEF bs, pushed
  <2> QED BY <1>1, <1>3, <2>2, <2>3, <2>4 DEF Keeping, b, pushed
<1>4. CASE ~IsData(f)
  <2>1. pushed = [bufs |-> kept.bufs, trailers |-> Join(kept.trailers, f)]
    BY <1>1, <1>4 DEF PushFrame
  <2>2. Join(kept.trailers, f) \in KeptTrailers
    BY <1>1, <1>4, JoinedAsOwed DEF KeptTrailers
  <2> HIDE DEF pushed
  <2> QED BY <1>1, <1>4, <2>1, <2>2 DEF Keeping, Buffers, pushed
<1> QED BY <1>2, <1>3, <1>4

LEMMA PushFrameFolds ==
  ASSUME NEW kept \in Keeping, NEW fs \in Seq(AnyFrame)
  PROVE  \E h \in [0..Len(fs) -> Keeping] :
           /\ h[0] = kept /\ FoldLeft(PushFrame, kept, fs) = h[Len(fs)]
           /\ \A k \in 1..Len(fs) : h[k] = PushFrame(h[k - 1], fs[k])
<1> DEFINE n == Len(fs)
    step == [k \in 1..n |-> [v \in Keeping |-> PushFrame(v, fs[k])]]
    Is(g) == g = [s \in SUBSET (1..n) |->
                    IF s = {} THEN kept
                    ELSE PushFrame(g[s \ {Max(s)}], fs[Max(s)])]
    folded == CHOOSE g : Is(g)
<1>1. n \in Nat /\ DOMAIN fs = 1..n /\ \A k \in 1..n : fs[k] \in AnyFrame
  BY LenProperties, ElementOfSeq
<1>2. step \in Steps(n, Keeping)
  <2>1. \A k \in 1..n, v \in Keeping : PushFrame(v, fs[k]) \in Keeping
    BY <1>1, PushFrameKeeps
  <2> QED BY <2>1 DEF Steps
<1>3. \E g : Is(g)
  <2>1. PICK g \in [SUBSET (1..n) -> Keeping] : FoldsSets(g, n, kept, step)
    <3> HIDE DEF n, step
    <3> QED BY <1>1, <1>2, FoldExists, Zenon
  <2>2. ASSUME NEW s \in SUBSET (1..n), s # {}
        PROVE  step[Max(s)][g[s \ {Max(s)}]]
                 = PushFrame(g[s \ {Max(s)}], fs[Max(s)])
    <3>1. Max(s) \in s
      <4>1. s \subseteq 0..n
        BY <1>1
      <4> HIDE DEF n
      <4> QED BY <1>1, <2>2, <4>1, MostOfSome
    <3>2. g[s \ {Max(s)}] \in Keeping
      OBVIOUS
    <3> QED BY <3>1, <3>2
  <2> HIDE DEF step, n
  <2>3. Is(g)
    BY <2>1, <2>2 DEF FoldsSets
  <2> QED BY <2>3
<1>4. Is(folded)
  <2> HIDE DEF Is
  <2> QED BY <1>3
<1>5. FoldLeft(PushFrame, kept, fs) = folded[1..n]
  BY <1>1 DEF FoldLeft, MapThenFoldSet
<1> HIDE DEF folded, n
<1>6. /\ folded[1..0] = kept
      /\ \A k \in 1..n :
           folded[1..k] = PushFrame(folded[1..(k - 1)], fs[k])
  <2>1. 1..0 = {} /\ {} \in SUBSET (1..n)
    OBVIOUS
  <2>2. folded[{}] = kept
    BY <1>4, <2>1
  <2>3. ASSUME NEW k \in 1..n
        PROVE  folded[1..k] = PushFrame(folded[1..(k - 1)], fs[k])
    <3>1. /\ 1..k \in SUBSET (1..n) /\ 1..k # {}
          /\ Max(1..k) = k /\ (1..k) \ {k} = 1..(k - 1)
      BY <1>1, UpTo
    <3> HIDE DEF Max
    <3>2. folded[1..k] = PushFrame(folded[(1..k) \ {Max(1..k)}], fs[Max(1..k)])
      BY <1>4, <3>1, Zenon
    <3> QED BY <3>1, <3>2
  <2> QED BY <2>1, <2>2, <2>3
<1> DEFINE h == [k \in 0..n |-> folded[1..k]]
<1>7. /\ h[0] = kept
      /\ \A k \in 1..n : h[k] = PushFrame(h[k - 1], fs[k])
  <2>1. 0 \in 0..n /\ \A k \in 1..n : k \in 0..n /\ k - 1 \in 0..n
    BY <1>1
  <2> QED BY <1>6, <2>1
<1>8. h \in [0..n -> Keeping]
  <2> DEFINE Good == {k \in 0..n : h[k] \in Keeping}
  <2> HIDE DEF h
  <2>1. 0 \in Good
    BY <1>1, <1>7
  <2>2. ASSUME NEW k \in 1..n, k - 1 \in Good PROVE k \in Good
    <3>1. h[k - 1] \in Keeping /\ fs[k] \in AnyFrame /\ k \in 0..n
      BY <1>1, <2>2
    <3>2. PushFrame(h[k - 1], fs[k]) \in Keeping
      BY <3>1, PushFrameKeeps
    <3> QED BY <1>7, <3>1, <3>2
  <2>3. 0..n \subseteq Good
    <3> HIDE DEF Good
    <3> QED BY <1>1, <2>1, <2>2, HandedOn
  <2> QED BY <2>3 DEF h
<1>9. FoldLeft(PushFrame, kept, fs) = h[n]
  BY <1>1, <1>5
<1> HIDE DEF h
<1> QED BY <1>7, <1>8, <1>9 DEF n

-----------------------------------------------------------------------------
(* The bytes that a body has left.                                         *)

Contents(fs) == AllBytes([i \in DOMAIN fs |-> Content(fs[i])])

\* Only data frames are left when only they are asked for.
LEMMA DataLeftType ==
  ASSUME NEW s \in Seq(Result)
  PROVE  DataLeft(s) \in Seq(DataFrame)
<1> DEFINE n == Len(s)
<1>1. n \in Nat /\ \A k \in 1..n : s[n - k + 1] \in Result
  BY LenProperties
<1>2. PICK g \in [0..n -> Seq(AnyFrame)] :
        /\ g[0] = <<>> /\ LeftOf(s, {"data"}) = g[n]
        /\ \A k \in 1..n : g[k] = Before(s[n - k + 1], g[k - 1], {"data"})
  <2>1. {"data"} \subseteq {"data", "trailers"}
    OBVIOUS
  <2> QED BY <2>1, LeftOfComputes
<1> HIDE DEF n
<1> DEFINE Good == {k \in 0..n : g[k] \in Seq(DataFrame)}
<1>3. 0 \in Good
  BY <1>1, <1>2, EmptySeq
<1>4. ASSUME NEW k \in 1..n, k - 1 \in Good PROVE k \in Good
  <2> DEFINE r == s[n - k + 1]
  <2>1. r \in Result /\ g[k - 1] \in Seq(DataFrame) /\ k \in 0..n
    BY <1>1, <1>4
  <2>2. r \notin {End, Failure} /\ r.kind \in {"data"} => r \in DataFrame
    BY <2>1, ResultKinds, DataFrames DEF IsFrame, IsData
  <2> HIDE DEF r
  <2>3. Before(r, g[k - 1], {"data"}) \in Seq(DataFrame)
    BY <2>1, <2>2, EmptySeq DEF Before
  <2> QED BY <1>2, <2>1, <2>3 DEF r
<1>5. 0..n \subseteq Good
  <2> HIDE DEF Good
  <2> QED BY <1>1, <1>3, <1>4, HandedOn
<1> QED BY <1>1, <1>2, <1>5 DEF DataLeft

LEMMA ContentsType ==
  ASSUME NEW fs \in Seq(DataFrame)
  PROVE  /\ [i \in DOMAIN fs |-> Content(fs[i])] \in Seq(Seq(Byte))
         /\ Len([i \in DOMAIN fs |-> Content(fs[i])]) = Len(fs)
         /\ Contents(fs) \in Seq(Byte)
<1> DEFINE bs == [i \in DOMAIN fs |-> Content(fs[i])]
<1>1. DOMAIN fs = 1..Len(fs) /\ Len(fs) \in Nat
  BY LenProperties
<1>2. \A i \in 1..Len(fs) : Content(fs[i]) \in Seq(Byte)
  <2> SUFFICES ASSUME NEW i \in 1..Len(fs) PROVE Content(fs[i]) \in Seq(Byte)
    OBVIOUS
  <2>1. fs[i] \in AnyFrame /\ IsData(fs[i])
    <3>1. fs[i] \in DataFrame
      BY ElementOfSeq
    <3> QED BY <3>1, FrameTypes DEF AnyFrame, IsData, Data
  <2> QED BY <2>1, ContentType
<1>3. bs \in [1..Len(fs) -> Seq(Byte)]
  BY <1>1, <1>2
<1>4. bs \in Seq(Seq(Byte))
  BY <1>1, <1>3, SeqDef
<1>5. DOMAIN bs = 1..Len(fs)
  BY <1>3
<1> HIDE DEF bs
<1>6. Len(bs) = Len(fs)
  BY <1>1, <1>4, <1>5, LenProperties
<1>7. AllBytes(bs) \in Seq(Byte)
  BY <1>4, AllBytesType
<1> QED BY <1>4, <1>6, <1>7 DEF Contents, bs

LEMMA ContentsUnfolds ==
  ASSUME NEW f \in DataFrame, NEW fs \in Seq(DataFrame)
  PROVE  Contents(<<f>> \o fs) = Content(f) \o Contents(fs)
<1> DEFINE gs == <<f>> \o fs
    bs == [i \in DOMAIN fs |-> Content(fs[i])]
    cs == [i \in DOMAIN gs |-> Content(gs[i])]
<1>1. /\ gs \in Seq(DataFrame) /\ Len(gs) = Len(fs) + 1 /\ gs[1] = f
      /\ \A i \in 1..Len(fs) : gs[i + 1] = fs[i]
      /\ Len(fs) \in Nat /\ DOMAIN fs = 1..Len(fs) /\ DOMAIN gs = 1..Len(gs)
  <2>1. <<f>> \in Seq(DataFrame) /\ Len(<<f>>) = 1 /\ <<f>>[1] = f
    OBVIOUS
  <2>2. /\ gs \in Seq(DataFrame) /\ Len(gs) = 1 + Len(fs) /\ gs[1] = f
        /\ \A i \in 1..Len(fs) : gs[1 + i] = fs[i]
    OBVIOUS
  <2> HIDE DEF gs
  <2> QED BY <2>2, LenProperties
<1>2. /\ bs \in Seq(Seq(Byte)) /\ Len(bs) = Len(fs)
      /\ cs \in Seq(Seq(Byte)) /\ Len(cs) = Len(gs)
      /\ Contents(fs) = AllBytes(bs) /\ Contents(gs) = AllBytes(cs)
  <2> HIDE DEF gs
  <2> QED BY <1>1, ContentsType DEF Contents
<1>3. \A i \in 1..Len(fs) : bs[i] = Content(fs[i]) /\ cs[i + 1] = Content(fs[i])
  BY <1>1
<1>4. cs[1] = Content(f)
  BY <1>1
<1> HIDE DEF bs, cs, gs
<1>5. cs # <<>> /\ Head(cs) = Content(f)
  BY <1>1, <1>2, <1>4, EmptySeq, HeadTailProperties
<1>6. Tail(cs) = bs
  <2>1. /\ Tail(cs) \in Seq(Seq(Byte)) /\ Len(Tail(cs)) = Len(cs) - 1
        /\ \A i \in 1..Len(Tail(cs)) : Tail(cs)[i] = cs[i + 1]
    BY <1>2, <1>5, HeadTailProperties
  <2>2. Len(Tail(cs)) = Len(bs)
    BY <1>1, <1>2, <2>1
  <2>3. \A i \in 1..Len(Tail(cs)) : Tail(cs)[i] = bs[i]
    BY <1>1, <1>2, <1>3, <2>1, <2>2
  <2> QED BY <1>2, <2>1, <2>2, <2>3, SeqEqual
<1> QED BY <1>2, <1>5, <1>6, FirstBytes DEF gs

-----------------------------------------------------------------------------
(* The trailers that a body has left.                                      *)

\* Each header as the last trailers frame that has it gives it.
TrailersIn(fs) == {f \in ToSet(fs) : ~IsData(f)}
Having(fs, n) == {i \in DOMAIN fs : ~IsData(fs[i]) /\ n \in DOMAIN fs[i].map}
Merged(fs) ==
  IF TrailersIn(fs) = {} THEN End
  ELSE Trailers([n \in UNION {DOMAIN f.map : f \in TrailersIn(fs)} |->
                   fs[Max(Having(fs, n))].map[n]])

LEMMA JoinAssociative ==
  ASSUME NEW a \in KeptTrailers, NEW b \in KeptTrailers, NEW c \in KeptTrailers
  PROVE  Join(Join(a, b), c) = Join(a, Join(b, c))
<1>1. CASE a = End \/ b = End \/ c = End
  BY <1>1 DEF Join
<1>2. CASE a # End /\ b # End /\ c # End
  <2>1. \A m : Trailers(m) # End /\ Trailers(m).map = m
    BY DEF Trailers, End
  <2>2. Merge(Merge(a.map, b.map), c.map) = Merge(a.map, Merge(b.map, c.map))
    BY DEF Merge
  <2> HIDE DEF Merge
  <2>3. Join(a, b) = Trailers(Merge(a.map, b.map))
    BY <1>2 DEF Join
  <2>4. Join(b, c) = Trailers(Merge(b.map, c.map))
    BY <1>2 DEF Join
  <2>5. Join(Join(a, b), c) = Trailers(Merge(Merge(a.map, b.map), c.map))
    BY <1>2, <2>1, <2>3 DEF Join
  <2>6. Join(a, Join(b, c)) = Trailers(Merge(a.map, Merge(b.map, c.map)))
    BY <1>2, <2>1, <2>4 DEF Join
  <2> QED BY <2>2, <2>5, <2>6
<1> QED BY <1>1, <1>2

\* The last of the frames with a header is the first only if no other has it.
LEMMA LastHaving ==
  ASSUME NEW f \in AnyFrame, NEW fs \in Seq(AnyFrame), NEW n
  PROVE  LET gs == <<f>> \o fs
             here == ~IsData(f) /\ n \in DOMAIN f.map
         IN /\ Having(gs, n) # {} <=> here \/ Having(fs, n) # {}
            /\ Having(fs, n) # {} =>
                 gs[Max(Having(gs, n))] = fs[Max(Having(fs, n))]
            /\ here /\ Having(fs, n) = {} => gs[Max(Having(gs, n))] = f
<1> DEFINE gs == <<f>> \o fs
           here == ~IsData(f) /\ n \in DOMAIN f.map
           m == Len(fs)
<1>1. /\ m \in Nat /\ DOMAIN fs = 1..m /\ DOMAIN gs = 1..(m + 1)
      /\ gs[1] = f /\ \A i \in 1..m : gs[i + 1] = fs[i]
  <2>1. <<f>> \in Seq(AnyFrame) /\ Len(<<f>>) = 1 /\ <<f>>[1] = f
    OBVIOUS
  <2>2. /\ gs \in Seq(AnyFrame) /\ Len(gs) = 1 + Len(fs) /\ gs[1] = f
        /\ \A i \in 1..Len(fs) : gs[1 + i] = fs[i]
    OBVIOUS
  <2> HIDE DEF gs
  <2> QED BY <2>2, LenProperties
<1> HIDE DEF m, gs
<1>2. Having(fs, n) \subseteq 0..m /\ Having(gs, n) \subseteq 0..(m + 1)
  BY <1>1 DEF Having
<1>3. 1 \in Having(gs, n) <=> here
  BY <1>1 DEF Having
<1>4. \A i \in 1..m : i \in Having(fs, n) <=> i + 1 \in Having(gs, n)
  BY <1>1 DEF Having
<1>5. \A j \in Having(gs, n) : j = 1 \/ (j - 1 \in 1..m /\ j - 1 \in Having(fs, n))
  <2> SUFFICES ASSUME NEW j \in Having(gs, n), j # 1
               PROVE  j - 1 \in 1..m /\ j - 1 \in Having(fs, n)
    OBVIOUS
  <2>1. j \in 1..(m + 1)
    BY <1>1 DEF Having
  <2>2. j - 1 \in 1..m /\ (j - 1) + 1 = j
    BY <1>1, <2>1
  <2> QED BY <1>4, <2>2
<1>6. \A i \in Having(fs, n) : i \in 1..m
  BY <1>1 DEF Having
<1> DEFINE A == Having(fs, n)
           G == Having(gs, n)
<1> HIDE DEF here
<1>7. G # {} <=> here \/ A # {}
  BY <1>3, <1>4, <1>5, <1>6
<1>8. ASSUME A # {} PROVE gs[Max(G)] = fs[Max(A)]
  <2> HIDE DEF A, G
  <2>1. Max(A) \in A /\ \A y \in A : y <= Max(A)
    BY <1>1, <1>2, <1>8, MostOfSome DEF A
  <2> DEFINE k == Max(A)
  <2>2. k \in 1..m /\ k + 1 \in G
    BY <1>4, <1>6, <2>1 DEF A, G
  <2>3. \A y \in A : y <= k
    BY <2>1
  <2> HIDE DEF k
  <2>4. \A j \in G : j <= k + 1
    <3> SUFFICES ASSUME NEW j \in G PROVE j <= k + 1
      OBVIOUS
    <3>1. j = 1 \/ (j - 1 \in 1..m /\ j - 1 <= k)
      BY <1>5, <2>3 DEF A, G
    <3>2. j \in 0..(m + 1)
      BY <1>2 DEF G
    <3> QED BY <1>1, <2>2, <3>1, <3>2
  <2>5. Max(G) = k + 1
    <3>1. m + 1 \in Nat /\ G \subseteq 0..(m + 1)
      BY <1>1, <1>2 DEF G
    <3> QED BY <2>2, <2>4, <3>1, MostIs, Zenon
  <2> QED BY <1>1, <2>2, <2>5 DEF k
<1>9. ASSUME here, A = {} PROVE gs[Max(G)] = f
  <2>1. 1 \in G /\ \A j \in G : j <= 1
    BY <1>3, <1>5, <1>9
  <2>2. m + 1 \in Nat /\ G \subseteq 0..(m + 1)
    BY <1>1, <1>2
  <2> HIDE DEF G
  <2>3. Max(G) = 1
    BY <2>1, <2>2, MostIs, Zenon
  <2> QED BY <1>1, <2>3
<1> QED BY <1>7, <1>8, <1>9 DEF gs, here

\* A header is in the trailers if and only if some frame has it.
LEMMA HavingSome ==
  ASSUME NEW fs \in Seq(AnyFrame)
  PROVE  /\ \A n : n \in UNION {DOMAIN f.map : f \in TrailersIn(fs)}
                     <=> Having(fs, n) # {}
         /\ \A n : Having(fs, n) # {} =>
              LET i == Max(Having(fs, n))
              IN i \in DOMAIN fs /\ ~IsData(fs[i]) /\ n \in DOMAIN fs[i].map
<1>1. Len(fs) \in Nat /\ DOMAIN fs = 1..Len(fs)
  BY LenProperties
<1>2. ASSUME NEW n
      PROVE  n \in UNION {DOMAIN f.map : f \in TrailersIn(fs)}
               <=> Having(fs, n) # {}
  BY DEF TrailersIn, Having, ToSet
<1>3. ASSUME NEW n, Having(fs, n) # {}
      PROVE  Max(Having(fs, n)) \in Having(fs, n)
  <2>1. Having(fs, n) \subseteq 0..Len(fs)
    BY <1>1 DEF Having
  <2> QED BY <1>1, <1>3, <2>1, MostOfSome
<1> QED BY <1>2, <1>3 DEF Having

LEMMA HeaderMaps ==
  ASSUME NEW a \in AnyFrame, ~IsData(a)
  PROVE  /\ a \in KeptTrailers /\ a # End /\ a = Trailers(a.map)
         /\ DOMAIN a.map \subseteq Name
         /\ \A n \in DOMAIN a.map : a.map[n] \in Value
         /\ a.map = [n \in DOMAIN a.map |-> a.map[n]]
<1>1. a \in KeptTrailers
  BY DEF KeptTrailers
<1>2. a # End
  BY FrameTypes DEF AnyFrame, End, Data, Trailers
<1>3. a.map \in HeaderMap /\ a = Trailers(a.map)
  BY <1>1, <1>2, KeptKinds
<1>4. PICK x \in SUBSET Name : a.map \in [x -> Value]
  BY <1>3 DEF HeaderMap
<1> QED BY <1>1, <1>2, <1>3, <1>4

LEMMA MergedType ==
  ASSUME NEW fs \in Seq(AnyFrame)
  PROVE  Merged(fs) \in KeptTrailers
<1> DEFINE U == UNION {DOMAIN f.map : f \in TrailersIn(fs)}
           m == [n \in U |-> fs[Max(Having(fs, n))].map[n]]
<1>1. CASE TrailersIn(fs) = {}
  BY <1>1 DEF Merged, KeptTrailers
<1>2. CASE TrailersIn(fs) # {}
  <2>1. \A i \in DOMAIN fs : fs[i] \in AnyFrame
    BY LenProperties, ElementOfSeq
  <2>2. U \subseteq Name
    <3>1. \A f \in TrailersIn(fs) : DOMAIN f.map \subseteq Name
      BY <2>1, HeaderMaps DEF TrailersIn, ToSet
    <3> QED BY <3>1
  <2>3. \A n \in U : fs[Max(Having(fs, n))].map[n] \in Value
    <3> SUFFICES ASSUME NEW n \in U PROVE fs[Max(Having(fs, n))].map[n] \in Value
      OBVIOUS
    <3> DEFINE i == Max(Having(fs, n))
    <3>1. i \in DOMAIN fs /\ ~IsData(fs[i]) /\ n \in DOMAIN fs[i].map
      BY HavingSome
    <3> HIDE DEF i
    <3>2. fs[i] \in AnyFrame
      BY <2>1, <3>1
    <3>3. fs[i].map[n] \in Value
      BY <3>1, <3>2, HeaderMaps
    <3> QED BY <3>3 DEF i
  <2> HIDE DEF U
  <2>4. m \in [U -> Value]
    BY <2>3
  <2> HIDE DEF m
  <2>5. m \in HeaderMap
    BY <2>2, <2>4 DEF HeaderMap
  <2>6. Trailers(m) \in KeptTrailers
    BY <2>5 DEF KeptTrailers, AnyFrame, Trailers, IsData
  <2>7. Merged(fs) = Trailers(m)
    BY <1>2 DEF Merged, m, U
  <2> QED BY <2>6, <2>7
<1> QED BY <1>1, <1>2

\* The trailers of the first frame come before those of the others.
LEMMA MergedUnfolds ==
  ASSUME NEW f \in AnyFrame, NEW fs \in Seq(AnyFrame)
  PROVE  Merged(<<f>> \o fs) =
           IF IsData(f) THEN Merged(fs) ELSE Join(f, Merged(fs))
<1> DEFINE gs == <<f>> \o fs
    Names(hs) == UNION {DOMAIN h.map : h \in TrailersIn(hs)}
    Latest(hs, n) == hs[Max(Having(hs, n))].map[n]
    Map(hs) == [n \in Names(hs) |-> Latest(hs, n)]
<1>1. TrailersIn(gs) = TrailersIn(fs) \cup {h \in {f} : ~IsData(h)}
  <2>1. ToSet(gs) = ToSet(fs) \cup {f}
    <3>1. /\ DOMAIN fs = 1..Len(fs) /\ DOMAIN gs = 1..(Len(fs) + 1)
          /\ gs[1] = f /\ \A i \in 1..Len(fs) : gs[i + 1] = fs[i]
          /\ Len(fs) \in Nat
      <4>1. <<f>> \in Seq(AnyFrame) /\ Len(<<f>>) = 1 /\ <<f>>[1] = f
        OBVIOUS
      <4>2. /\ gs \in Seq(AnyFrame) /\ Len(gs) = 1 + Len(fs) /\ gs[1] = f
            /\ \A i \in 1..Len(fs) : gs[1 + i] = fs[i]
        OBVIOUS
      <4> HIDE DEF gs
      <4> QED BY <4>2, LenProperties
    <3> HIDE DEF gs
    <3>2. ASSUME NEW i \in DOMAIN gs PROVE gs[i] \in ToSet(fs) \cup {f}
      <4>1. i = 1 \/ (i - 1 \in 1..Len(fs) /\ (i - 1) + 1 = i)
        BY <3>1
      <4>2. i # 1 => gs[i] = fs[i - 1] /\ i - 1 \in DOMAIN fs
        BY <3>1, <4>1
      <4> QED BY <3>1, <4>2 DEF ToSet
    <3>3. f \in ToSet(gs)
      <4>1. 1 \in DOMAIN gs
        BY <3>1
      <4> QED BY <3>1, <4>1 DEF ToSet
    <3>4. ASSUME NEW i \in DOMAIN fs PROVE fs[i] \in ToSet(gs)
      <4>1. i + 1 \in DOMAIN gs /\ gs[i + 1] = fs[i]
        BY <3>1
      <4> QED BY <4>1 DEF ToSet
    <3> QED BY <3>2, <3>3, <3>4 DEF ToSet
  <2> HIDE DEF gs
  <2> QED BY <2>1 DEF TrailersIn
<1>2. gs \in Seq(AnyFrame)
  OBVIOUS
<1>3. /\ \A n : n \in Names(gs) <=> Having(gs, n) # {}
      /\ \A n : n \in Names(fs) <=> Having(fs, n) # {}
  <2> HIDE DEF gs
  <2> QED BY <1>2, HavingSome
<1>4. \A n : /\ Having(fs, n) # {} => Latest(gs, n) = Latest(fs, n)
             /\ ~IsData(f) /\ n \in DOMAIN f.map /\ Having(fs, n) = {}
                  => Latest(gs, n) = f.map[n]
             /\ Having(gs, n) # {}
                  <=> (~IsData(f) /\ n \in DOMAIN f.map) \/ Having(fs, n) # {}
  BY LastHaving
<1>5. /\ Merged(gs) = IF TrailersIn(gs) = {} THEN End ELSE Trailers(Map(gs))
      /\ Merged(fs) = IF TrailersIn(fs) = {} THEN End ELSE Trailers(Map(fs))
  BY DEF Merged
<1> HIDE DEF gs, Names, Latest
<1>6. CASE IsData(f)
  <2>1. TrailersIn(gs) = TrailersIn(fs)
    BY <1>1, <1>6
  <2>2. Names(gs) = Names(fs)
    BY <2>1 DEF Names
  <2>3. Map(gs) = Map(fs)
    BY <1>3, <1>4, <2>2
  <2> HIDE DEF Map
  <2> QED BY <1>5, <1>6, <2>1, <2>3 DEF gs
<1>7. CASE ~IsData(f)
  <2>1. /\ f # End /\ f = Trailers(f.map)
        /\ f.map = [n \in DOMAIN f.map |-> f.map[n]]
    BY <1>7, HeaderMaps
  <2>2. f \in TrailersIn(gs) /\ Merged(gs) = Trailers(Map(gs))
    BY <1>1, <1>5, <1>7
  <2>3. \A n : n \in Names(gs) <=> n \in DOMAIN f.map \/ n \in Names(fs)
    BY <1>3, <1>4, <1>7
  <2>4. CASE TrailersIn(fs) = {}
    <3>1. Names(fs) = {}
      BY <2>4 DEF Names
    <3>2. Names(gs) = DOMAIN f.map
      BY <2>3, <3>1
    <3>3. \A n \in Names(gs) : Latest(gs, n) = f.map[n]
      BY <1>3, <1>4, <1>7, <3>1, <3>2
    <3>4. Map(gs) = [n \in DOMAIN f.map |-> f.map[n]]
      BY <3>2, <3>3
    <3> HIDE DEF Map
    <3> QED BY <1>5, <1>7, <2>1, <2>2, <2>4, <3>4 DEF Join, gs
  <2>5. CASE TrailersIn(fs) # {}
    <3>1. Merged(fs) = Trailers(Map(fs)) /\ Merged(fs) # End
      BY <1>5, <2>5 DEF Trailers, End
    <3>2. Merged(fs).map = Map(fs)
      BY <3>1 DEF Trailers
    <3>3. DOMAIN Map(fs) = Names(fs)
      OBVIOUS
    <3>4. \A n \in Names(gs) :
            Latest(gs, n) = IF n \in Names(fs) THEN Map(fs)[n] ELSE f.map[n]
      BY <1>3, <1>4, <1>7, <2>3
    <3>5. Names(gs) = DOMAIN f.map \cup Names(fs)
      BY <2>3
    <3>6. Merge(f.map, Map(fs)) = Map(gs)
      <4> DEFINE F == Map(fs)
      <4>1. DOMAIN F = Names(fs)
        OBVIOUS
      <4> HIDE DEF F
      <4> QED BY <3>4, <3>5, <4>1 DEF Merge, F
    <3> HIDE DEF Map
    <3>7. Join(f, Merged(fs)) = Trailers(Merge(f.map, Map(fs)))
      BY <2>1, <3>1, <3>2 DEF Join
    <3> QED BY <1>7, <2>2, <3>6, <3>7 DEF gs
  <2> QED BY <2>4, <2>5
<1> QED BY <1>6, <1>7

-----------------------------------------------------------------------------
(* What a body has left, after the result that a poll of it gives.          *)

BytesAhead(s) == Contents(DataLeft(s))
TrailersAhead(s) == Merged(FramesLeft(s))

LEMMA AheadType ==
  ASSUME NEW s \in Seq(Result)
  PROVE  BytesAhead(s) \in Seq(Byte) /\ TrailersAhead(s) \in KeptTrailers
<1>1. FramesLeft(s) \in Seq(AnyFrame) /\ DataLeft(s) \in Seq(DataFrame)
  BY FramesLeftUnfolds, DataLeftType
<1> QED BY <1>1, ContentsType, MergedType DEF BytesAhead, TrailersAhead

LEMMA AheadUnfolds ==
  ASSUME NEW s \in Seq(Result)
  PROVE  LET r == Poll(s)
             t == Rest(s)
         IN /\ IsFrame(r) /\ IsData(r) =>
                 /\ BytesAhead(s) = Content(r) \o BytesAhead(t)
                 /\ TrailersAhead(s) = TrailersAhead(t)
            /\ IsFrame(r) /\ ~IsData(r) =>
                 /\ BytesAhead(s) = BytesAhead(t)
                 /\ TrailersAhead(s) = Join(r, TrailersAhead(t))
            /\ r = Pending =>
                 /\ BytesAhead(s) = BytesAhead(t)
                 /\ TrailersAhead(s) = TrailersAhead(t)
            /\ r \in {End, Failure} =>
                 BytesAhead(s) = <<>> /\ TrailersAhead(s) = End
<1> DEFINE r == Poll(s)
           t == Rest(s)
<1>1. /\ r \in Result /\ t \in Seq(Result)
      /\ DataLeft(t) \in Seq(DataFrame) /\ FramesLeft(t) \in Seq(AnyFrame)
      /\ IsFrame(r) => r \in AnyFrame
  <2>1. r \in Result /\ t \in Seq(Result)
    BY ScriptTypes
  <2> HIDE DEF r, t
  <2> QED BY <2>1, DataLeftType, FramesLeftUnfolds, ResultKinds
<1>2. /\ IsFrame(r) => FramesLeft(s) = <<r>> \o FramesLeft(t)
      /\ r = Pending => FramesLeft(s) = FramesLeft(t)
      /\ r \in {End, Failure} => FramesLeft(s) = <<>>
  BY FramesLeftUnfolds
<1>3. /\ IsData(r) => DataLeft(s) = <<r>> \o DataLeft(t)
      /\ r = Pending => DataLeft(s) = DataLeft(t)
      /\ r \in {End, Failure} => DataLeft(s) = <<>>
      /\ r.kind = "trailers" => DataLeft(s) = DataLeft(t)
  BY DataLeftUnfolds
<1> HIDE DEF r, t
<1>4. ASSUME IsFrame(r), IsData(r)
      PROVE  /\ BytesAhead(s) = Content(r) \o BytesAhead(t)
             /\ TrailersAhead(s) = TrailersAhead(t)
  <2>1. r \in DataFrame
    BY <1>1, <1>4, DataFrames
  <2>2. Contents(<<r>> \o DataLeft(t)) = Content(r) \o Contents(DataLeft(t))
    BY <1>1, <2>1, ContentsUnfolds
  <2>3. Merged(<<r>> \o FramesLeft(t)) = Merged(FramesLeft(t))
    BY <1>1, <1>4, MergedUnfolds
  <2> QED BY <1>2, <1>3, <1>4, <2>2, <2>3 DEF BytesAhead, TrailersAhead
<1>5. ASSUME IsFrame(r), ~IsData(r)
      PROVE  /\ BytesAhead(s) = BytesAhead(t)
             /\ TrailersAhead(s) = Join(r, TrailersAhead(t))
  <2>1. r.kind = "trailers"
    BY <1>5 DEF IsFrame, IsData
  <2>2. Merged(<<r>> \o FramesLeft(t)) = Join(r, Merged(FramesLeft(t)))
    BY <1>1, <1>5, MergedUnfolds
  <2> QED BY <1>2, <1>3, <1>5, <2>1, <2>2 DEF BytesAhead, TrailersAhead
<1>6. Contents(<<>>) = <<>> /\ Merged(<<>>) = End
  <2>1. DOMAIN <<>> = {}
    OBVIOUS
  <2>2. [i \in DOMAIN <<>> |-> Content(<<>>[i])] = <<>>
    OBVIOUS
  <2>3. TrailersIn(<<>>) = {}
    BY <2>1 DEF TrailersIn, ToSet
  <2> QED BY <2>2, <2>3, NoBuffers DEF Contents, Merged
<1> QED BY <1>2, <1>3, <1>4, <1>5, <1>6 DEF BytesAhead, TrailersAhead, r, t

\* What the body has left behind a result is left of what is left from it on.
LEMMA FromOn ==
  ASSUME NEW s \in Seq(Result), NEW k \in 1..Len(s)
  PROVE  /\ Poll(SubSeq(s, k, Len(s))) = s[k]
         /\ Rest(SubSeq(s, k, Len(s))) = SubSeq(s, k + 1, Len(s))
         /\ SubSeq(s, k, Len(s)) \in Seq(Result)
         /\ SubSeq(s, k + 1, Len(s)) \in Seq(Result)
<1> DEFINE m == Len(s)
           t == SubSeq(s, k, m)
           u == SubSeq(s, k + 1, m)
<1>1. m \in Nat /\ \A i \in 1..m : s[i] \in Result
  BY LenProperties, ElementOfSeq
<1> HIDE DEF m
<1>2. /\ t \in Seq(Result) /\ Len(t) = m - k + 1
      /\ \A i \in 1..(m - k + 1) : t[i] = s[k + i - 1]
  BY <1>1, SubSeqProperties DEF m
<1>3. /\ u \in Seq(Result) /\ Len(u) = m - k
      /\ \A i \in 1..(m - k) : u[i] = s[k + i]
  <2>1. /\ u \in Seq(Result)
        /\ Len(u) = IF k + 1 <= m THEN m - (k + 1) + 1 ELSE 0
        /\ \A i \in 1..(m - (k + 1) + 1) : u[i] = s[(k + 1) + i - 1]
    BY <1>1, SubSeqProperties DEF m
  <2> HIDE DEF u
  <2>2. Len(u) = m - k
    BY <1>1, <2>1 DEF m
  <2>3. ASSUME NEW i \in 1..(m - k) PROVE u[i] = s[k + i]
    <3>1. i \in 1..(m - (k + 1) + 1) /\ (k + 1) + i - 1 = k + i
      BY <1>1 DEF m
    <3> QED BY <2>1, <3>1
  <2> QED BY <2>1, <2>2, <2>3
<1> HIDE DEF t, u
<1>4. t # <<>> /\ t[1] = s[k]
  <2>1. 1 \in 1..(m - k + 1) /\ k + 1 - 1 = k /\ m - k + 1 # 0
    BY <1>1 DEF m
  <2> QED BY <1>2, <2>1, EmptySeq
<1>5. Tail(t) = u
  <2>1. /\ Tail(t) \in Seq(Result) /\ Len(Tail(t)) = Len(t) - 1
        /\ \A i \in 1..Len(Tail(t)) : Tail(t)[i] = t[i + 1]
    BY <1>2, <1>4, HeadTailProperties
  <2>2. Len(Tail(t)) = m - k
    BY <1>1, <1>2, <2>1 DEF m
  <2>3. ASSUME NEW i \in 1..(m - k) PROVE Tail(t)[i] = u[i]
    <3>1. i + 1 \in 1..(m - k + 1) /\ k + (i + 1) - 1 = k + i
      BY <1>1 DEF m
    <3> QED BY <1>2, <1>3, <2>1, <2>2, <3>1
  <2> QED BY <1>3, <2>1, <2>2, <2>3, SeqEqual
<1>6. Head(t) = t[1]
  BY <1>2, <1>4, HeadTailProperties
<1> QED BY <1>2, <1>3, <1>4, <1>5, <1>6 DEF Poll, Rest, t, u, m

\* A poll keeps what the body gives: nothing is lost between what is kept and
\* what is left, neither of a body that is pending nor of one that is done.
LEMMA PollCollects ==
  ASSUME NEW kept \in Keeping, NEW s \in Seq(Result)
  PROVE  LET n == ReadyFrames(s) + 1
             last == Poll(SubSeq(s, n, Len(s)))
             rest == SubSeq(s, n + 1, Len(s))
             pushed == FoldLeft(PushFrame, kept,
                                SubSeq(s, 1, Min({n, ReadyFrames(s)})))
             bytes == AllBytes(kept.bufs) \o BytesAhead(s)
             all == Join(kept.trailers, TrailersAhead(s))
         IN /\ pushed \in Keeping
            /\ last = Pending =>
                 /\ AllBytes(pushed.bufs) \o BytesAhead(rest) = bytes
                 /\ Join(pushed.trailers, TrailersAhead(rest)) = all
            /\ last \in {End, Failure} =>
                 AllBytes(pushed.bufs) = bytes /\ pushed.trailers = all
<1> DEFINE c == ReadyFrames(s)
    n == c + 1
    m == Len(s)
    fs == SubSeq(s, 1, Min({n, c}))
    pushed == FoldLeft(PushFrame, kept, fs)
    bytes == AllBytes(kept.bufs) \o BytesAhead(s)
    all == Join(kept.trailers, TrailersAhead(s))
    From(k) == SubSeq(s, k, m)
<1>1. /\ n \in 1..(m + 1) /\ m \in Nat /\ c \in 0..m /\ n = c + 1
      /\ \A i \in 1..c : IsFrame(s[i])
      /\ n <= m => ~IsFrame(s[n])
      /\ \A i \in 1..m : s[i] \in Result
  <2>1. n \in 1..(m + 1) /\ m \in Nat
    BY LoopStops, LenProperties
  <2>2. c \in 0..m /\ n - 1 = c
    <3>1. c \in Int
      <4> DEFINE stop == {i \in DOMAIN s : ~IsFrame(s[i])}
      <4>1. DOMAIN s = 1..m
        BY LenProperties
      <4>2. stop # {} => Min(stop) \in stop
        <5>1. stop \subseteq Nat
          BY <4>1
        <5> HIDE DEF stop
        <5> QED BY <5>1, LeastOfSome
      <4> QED BY <2>1, <4>1, <4>2 DEF ReadyFrames
    <3> HIDE DEF c
    <3> QED BY <2>1, <3>1
  <2>3. \A i \in 1..(n - 1) : IsFrame(s[i])
    BY LoopStops
  <2> QED BY <2>1, <2>2, <2>3, LoopStops, ElementOfSeq
<1> HIDE DEF c, n, m
<1>2. fs \in Seq(AnyFrame) /\ Len(fs) = c /\ \A i \in 1..c : fs[i] = s[i]
  <2>1. Min({n, c}) = c
    <3>1. {n, c} \subseteq Nat /\ {n, c} # {}
      BY <1>1
    <3>2. Min({n, c}) \in {n, c} /\ \A y \in {n, c} : Min({n, c}) <= y
      BY <3>1, LeastOfSome
    <3> QED BY <1>1, <3>2
  <2>2. \A i \in 1..c : s[i] \in AnyFrame
    BY <1>1, ResultKinds
  <2>3. /\ SubSeq(s, 1, c) \in Seq(AnyFrame) /\ Len(SubSeq(s, 1, c)) = c
        /\ \A i \in 1..c : SubSeq(s, 1, c)[i] = s[i]
    <3>1. SubSeq(s, 1, c) = [i \in 1..c |-> s[i]]
      BY <1>1 DEF m
    <3> QED BY <1>1, <2>2, <3>1
  <2> QED BY <2>1, <2>3
<1> HIDE DEF fs
<1>3. PICK h \in [0..c -> Keeping] :
        /\ h[0] = kept /\ pushed = h[c]
        /\ \A k \in 1..c : h[k] = PushFrame(h[k - 1], s[k])
  <2>1. \E h \in [0..c -> Keeping] :
          /\ h[0] = kept /\ FoldLeft(PushFrame, kept, fs) = h[c]
          /\ \A k \in 1..c : h[k] = PushFrame(h[k - 1], fs[k])
    BY <1>2, PushFrameFolds
  <2> QED BY <1>2, <2>1
<1> HIDE DEF pushed
<1> DEFINE Holds(k) ==
             /\ AllBytes(h[k].bufs) \o BytesAhead(From(k + 1)) = bytes
             /\ Join(h[k].trailers, TrailersAhead(From(k + 1))) = all
    Good == {k \in 0..c : Holds(k)}
<1>4. 0 \in Good
  <2>1. From(0 + 1) = s
    BY SubSeqFull DEF m
  <2>2. Holds(0)
    <3> HIDE DEF bytes, all
    <3> QED BY <1>3, <2>1 DEF bytes, all
  <2>3. 0 \in 0..c
    BY <1>1
  <2> HIDE DEF Holds
  <2> QED BY <2>2, <2>3
<1>5. ASSUME NEW k \in 1..c, k - 1 \in Good PROVE k \in Good
  <2> DEFINE t == From(k)
             u == From(k + 1)
             f == s[k]
             g == h[k - 1]
  <2>1. k \in 1..m /\ k \in 0..c /\ k - 1 \in 0..c /\ (k - 1) + 1 = k
    BY <1>1
  <2>2. Poll(t) = f /\ Rest(t) = u /\ t \in Seq(Result) /\ u \in Seq(Result)
    BY <2>1, FromOn DEF m
  <2>3. f \in AnyFrame /\ IsFrame(f)
    BY <1>1, <2>1, ResultKinds
  <2>4. AllBytes(g.bufs) \o BytesAhead(t) = bytes /\ Join(g.trailers, TrailersAhead(t)) = all
    BY <1>5, <2>1
  <2>5. g \in Keeping /\ h[k] = PushFrame(g, f) /\ h[k] \in Keeping
    BY <1>3, <2>1
  <2> HIDE DEF f, t, u, g
  <2>6. /\ g.bufs \in Seq(Seq(Byte)) /\ g.trailers \in KeptTrailers
        /\ AllBytes(g.bufs) \in Seq(Byte)
        /\ BytesAhead(u) \in Seq(Byte) /\ TrailersAhead(u) \in KeptTrailers
    <3>1. g.bufs \in Seq(Seq(Byte)) /\ g.trailers \in KeptTrailers
      BY <2>5 DEF Keeping, Buffers
    <3> QED BY <2>2, <3>1, AllBytesType, AheadType
  <2>7. CASE IsData(f)
    <3>1. /\ AllBytes(h[k].bufs) = AllBytes(g.bufs) \o Content(f)
          /\ h[k].trailers = g.trailers
      BY <2>3, <2>5, <2>7, PushFrameKeeps
    <3>2. /\ BytesAhead(t) = Content(f) \o BytesAhead(u)
          /\ TrailersAhead(t) = TrailersAhead(u)
      BY <2>2, <2>3, <2>7, AheadUnfolds
    <3>3. Content(f) \in Seq(Byte)
      BY <2>3, <2>7, ContentType
    <3>4. \A x, y, z \in Seq(Byte) : (x \o y) \o z = x \o (y \o z)
      BY ConcatAssociative
    <3>5. (AllBytes(g.bufs) \o Content(f)) \o BytesAhead(u) = bytes
      <4>1. (AllBytes(g.bufs) \o Content(f)) \o BytesAhead(u)
              = AllBytes(g.bufs) \o (Content(f) \o BytesAhead(u))
        BY <2>6, <3>3, <3>4
      <4> HIDE DEF bytes
      <4> QED BY <2>4, <3>2, <4>1
    <3> HIDE DEF bytes, all
    <3>6. Join(h[k].trailers, TrailersAhead(u)) = all
      BY <2>4, <3>1, <3>2
    <3> QED BY <2>1, <3>1, <3>5, <3>6 DEF u
  <2>8. CASE ~IsData(f)
    <3>1. /\ h[k].bufs = g.bufs
          /\ h[k].trailers = Join(g.trailers, f)
      BY <2>3, <2>5, <2>8, PushFrameKeeps
    <3>2. /\ BytesAhead(t) = BytesAhead(u)
          /\ TrailersAhead(t) = Join(f, TrailersAhead(u))
      BY <2>2, <2>3, <2>8, AheadUnfolds
    <3>3. f \in KeptTrailers
      BY <2>3, <2>8 DEF KeptTrailers
    <3>4. Join(Join(g.trailers, f), TrailersAhead(u))
            = Join(g.trailers, Join(f, TrailersAhead(u)))
      BY <2>6, <3>3, JoinAssociative
    <3> HIDE DEF bytes, all
    <3> QED BY <2>1, <2>4, <3>1, <3>2, <3>4 DEF u
  <2> QED BY <2>7, <2>8
<1>6. Holds(c)
  <2> HIDE DEF Holds
  <2>1. 0 \in Good /\ \A k \in 1..c : k - 1 \in Good => k \in Good
    BY <1>4, <1>5
  <2>2. 0..c \subseteq Good
    <3> HIDE DEF Good
    <3>1. c \in Nat
      BY <1>1
    <3> QED BY <2>1, <3>1, HandedOn
  <2> QED BY <1>1, <2>2
<1>7. pushed \in Keeping
  BY <1>1, <1>3
<1> DEFINE t == From(n)
           u == From(n + 1)
<1>8. AllBytes(pushed.bufs) \o BytesAhead(t) = bytes /\ Join(pushed.trailers, TrailersAhead(t)) = all
  BY <1>1, <1>3, <1>6
<1>9. t \in Seq(Result) /\ u \in Seq(Result) /\ (Poll(t) = Pending => Rest(t) = u)
  <2>1. t \in Seq(Result) /\ u \in Seq(Result)
    BY <1>1, SubSeqProperties DEF m
  <2>2. CASE n <= m
    <3>1. n \in 1..m
      BY <1>1, <2>2
    <3> QED BY <2>1, <3>1, FromOn DEF m
  <2>3. CASE n > m
    <3>1. t = <<>>
      BY <1>1, <2>3, SubSeqEmpty
    <3> HIDE DEF t, u
    <3> QED BY <2>1, <3>1, ResultsDiffer DEF Poll
  <2> QED BY <1>1, <2>2, <2>3
<1> HIDE DEF t, u, bytes, all
<1>10. Poll(t) = Pending =>
         BytesAhead(t) = BytesAhead(u) /\ TrailersAhead(t) = TrailersAhead(u)
  BY <1>9, AheadUnfolds
<1>11. Poll(t) \in {End, Failure} =>
         BytesAhead(t) = <<>> /\ TrailersAhead(t) = End
  BY <1>9, AheadUnfolds
<1>12. /\ AllBytes(pushed.bufs) \o <<>> = AllBytes(pushed.bufs)
       /\ Join(pushed.trailers, End) = pushed.trailers
  <2>1. pushed.bufs \in Seq(Seq(Byte)) /\ AllBytes(pushed.bufs) \in Seq(Byte)
    <3>1. pushed.bufs \in Seq(Seq(Byte))
      BY <1>7 DEF Keeping, Buffers
    <3> QED BY <3>1, AllBytesType
  <2> QED BY <2>1, ConcatEmptySeq DEF Join
<1>13. /\ Poll(t) = Pending =>
            /\ AllBytes(pushed.bufs) \o BytesAhead(u) = bytes
            /\ Join(pushed.trailers, TrailersAhead(u)) = all
       /\ Poll(t) \in {End, Failure} =>
            AllBytes(pushed.bufs) = bytes /\ pushed.trailers = all
  BY <1>8, <1>10, <1>11, <1>12
<1> QED BY <1>7, <1>13 DEF t, u, bytes, all, pushed, fs, c, n, m

-----------------------------------------------------------------------------
(* Reading what is kept: advance, and the slices of a vectored write.      *)

Skipping == [cnt : Nat, kept : Buffers]

\* How advance treats the next buffer.
Skip(acc, b) ==
  IF acc.cnt > 0 /\ Len(b) <= acc.cnt
  THEN [acc EXCEPT !.cnt = @ - Len(b)]
  ELSE [cnt |-> 0,
        kept |-> Append(acc.kept, SubSeq(b, acc.cnt + 1, Len(b)))]

\* A sequence is what comes before a place of it, then the rest.
LEMMA CutInTwo ==
  ASSUME NEW B, NEW b \in Seq(B), NEW c \in 0..Len(b)
  PROVE  /\ SubSeq(b, 1, c) \in Seq(B) /\ Len(SubSeq(b, 1, c)) = c
         /\ SubSeq(b, c + 1, Len(b)) \in Seq(B)
         /\ Len(SubSeq(b, c + 1, Len(b))) = Len(b) - c
         /\ b = SubSeq(b, 1, c) \o SubSeq(b, c + 1, Len(b))
<1> DEFINE n == Len(b)
           x == SubSeq(b, 1, c)
           y == SubSeq(b, c + 1, n)
<1>1. n \in Nat /\ \A i \in 1..n : b[i] \in B
  BY LenProperties, ElementOfSeq
<1>2. x \in Seq(B) /\ Len(x) = c /\ \A i \in 1..c : x[i] = b[i]
  <2>1. /\ x \in Seq(B) /\ Len(x) = IF 1 <= c THEN c - 1 + 1 ELSE 0
        /\ \A i \in 1..(c - 1 + 1) : x[i] = b[1 + i - 1]
    BY <1>1, SubSeqProperties
  <2> HIDE DEF x
  <2>2. Len(x) = c
    BY <1>1, <2>1
  <2>3. \A i \in 1..c : x[i] = b[i]
    BY <1>1, <2>1
  <2> QED BY <2>1, <2>2, <2>3
<1>3. y \in Seq(B) /\ Len(y) = n - c /\ \A i \in 1..(n - c) : y[i] = b[c + i]
  <2>1. /\ y \in Seq(B)
        /\ Len(y) = IF c + 1 <= n THEN n - (c + 1) + 1 ELSE 0
        /\ \A i \in 1..(n - (c + 1) + 1) : y[i] = b[(c + 1) + i - 1]
    BY <1>1, SubSeqProperties
  <2> HIDE DEF y
  <2>2. Len(y) = n - c
    BY <1>1, <2>1
  <2>3. ASSUME NEW i \in 1..(n - c) PROVE y[i] = b[c + i]
    <3>1. i \in 1..(n - (c + 1) + 1) /\ (c + 1) + i - 1 = c + i
      BY <1>1
    <3> QED BY <2>1, <3>1
  <2> QED BY <2>1, <2>2, <2>3
<1> HIDE DEF x, y, n
<1>4. b = x \o y
  <2> DEFINE xy == x \o y
  <2>1. /\ xy \in Seq(B) /\ Len(xy) = Len(x) + Len(y)
        /\ \A i \in 1..(Len(x) + Len(y)) :
             xy[i] = IF i <= Len(x) THEN x[i] ELSE y[i - Len(x)]
    BY <1>2, <1>3, ConcatProperties
  <2> HIDE DEF xy
  <2>2. Len(xy) = n /\ c \in 0..n
    BY <1>1, <1>2, <1>3, <2>1 DEF n
  <2>3. ASSUME NEW i \in 1..n PROVE xy[i] = b[i]
    <3>1. xy[i] = IF i <= c THEN x[i] ELSE y[i - c]
      BY <1>1, <1>2, <1>3, <2>1, <2>2
    <3>2. CASE i <= c
      <4>1. i \in 1..c
        BY <3>2
      <4> QED BY <1>2, <3>1, <3>2, <4>1
    <3>3. CASE ~(i <= c)
      <4>1. i - c \in 1..(n - c) /\ c + (i - c) = i
        BY <1>1, <2>2, <3>3
      <4>2. y[i - c] = b[i]
        BY <1>3, <4>1
      <4> QED BY <3>1, <3>3, <4>2
    <3> QED BY <3>2, <3>3
  <2>4. xy = b
    BY <2>1, <2>2, <2>3, SeqEqual DEF n
  <2> QED BY <2>4 DEF xy
<1> QED BY <1>2, <1>3, <1>4 DEF x, y, n

\* What comes before a place of the first of two is what comes before that
\* place of both.
LEMMA CutFirst ==
  ASSUME NEW B, NEW a \in Seq(B), NEW b \in Seq(B), NEW c \in 0..Len(a)
  PROVE  SubSeq(a \o b, 1, c) = SubSeq(a, 1, c)
<1> DEFINE ab == a \o b
           x == SubSeq(ab, 1, c)
           y == SubSeq(a, 1, c)
<1>1. /\ ab \in Seq(B) /\ Len(ab) = Len(a) + Len(b)
      /\ Len(a) \in Nat /\ Len(b) \in Nat
      /\ \A i \in 1..Len(a) : ab[i] = a[i]
  <2>1. Len(a) \in Nat /\ Len(b) \in Nat
    BY LenProperties
  <2>2. /\ ab \in Seq(B) /\ Len(ab) = Len(a) + Len(b)
        /\ \A i \in 1..(Len(a) + Len(b)) :
             ab[i] = IF i <= Len(a) THEN a[i] ELSE b[i - Len(a)]
    BY ConcatProperties
  <2> HIDE DEF ab
  <2>3. \A i \in 1..Len(a) : i \in 1..(Len(a) + Len(b)) /\ i <= Len(a)
    BY <2>1
  <2> QED BY <2>1, <2>2, <2>3
<1> HIDE DEF ab
<1>2. x = [i \in 1..c |-> ab[i]]
  BY <1>1
<1>3. y = [i \in 1..c |-> a[i]]
  BY <1>1
<1>4. \A i \in 1..c : ab[i] = a[i]
  BY <1>1
<1> QED BY <1>2, <1>3, <1>4 DEF ab

LEMMA SkipKeeps ==
  ASSUME NEW acc \in Skipping, NEW b \in Seq(Byte), b # <<>>
  PROVE  Skip(acc, b) \in Skipping
<1>1. acc.cnt \in Nat /\ acc.kept \in Buffers /\ Len(b) \in Nat
  BY LenProperties DEF Skipping
<1>2. CASE acc.cnt > 0 /\ Len(b) <= acc.cnt
  BY <1>1, <1>2 DEF Skip, Skipping
<1>3. CASE ~(acc.cnt > 0 /\ Len(b) <= acc.cnt)
  <2> DEFINE z == SubSeq(b, acc.cnt + 1, Len(b))
             bs == Append(acc.kept, z)
  <2>1. acc.cnt \in 0..Len(b) /\ Len(b) - acc.cnt # 0
    <3>1. Len(b) # 0
      BY EmptySeq
    <3> QED BY <1>1, <1>3, <3>1
  <2>2. z \in Seq(Byte) /\ Len(z) # 0
    BY <2>1, CutInTwo
  <2>3. z # <<>>
    <3> HIDE DEF z
    <3> QED BY <2>2, EmptySeq
  <2> HIDE DEF z
  <2>4. bs \in Buffers
    <3>0. acc.kept \in Seq(Seq(Byte)) /\ NoneEmpty(acc.kept)
      BY <1>1 DEF Buffers
    <3> DEFINE l == Len(acc.kept)
    <3>1. /\ bs \in Seq(Seq(Byte)) /\ Len(bs) = l + 1 /\ bs[l + 1] = z
          /\ \A i \in 1..l : bs[i] = acc.kept[i]
          /\ l \in Nat
      BY <2>2, <3>0, AppendProperties, LenProperties
    <3> HIDE DEF bs
    <3>2. \A i \in 1..Len(bs) : i \in 1..l \/ i = l + 1
      BY <3>1
    <3>3. NoneEmpty(bs)
      BY <2>3, <3>0, <3>1, <3>2, Zenon DEF NoneEmpty
    <3> QED BY <3>1, <3>3 DEF Buffers
  <2>5. Skip(acc, b) = [cnt |-> 0, kept |-> bs]
    BY <1>3 DEF Skip, z
  <2> HIDE DEF bs
  <2> QED BY <2>4, <2>5 DEF Skipping
<1> QED BY <1>2, <1>3

LEMMA SkipFolds ==
  ASSUME NEW bs \in Buffers, NEW cnt \in Nat
  PROVE  \E h \in [0..Len(bs) -> Skipping] :
           /\ h[0] = [cnt |-> cnt, kept |-> <<>>]
           /\ Advance(bs, cnt) = h[Len(bs)].kept
           /\ \A k \in 1..Len(bs) : h[k] = Skip(h[k - 1], bs[k])
<1> DEFINE n == Len(bs)
    base == [cnt |-> cnt, kept |-> <<>>]
    step == [k \in 1..n |-> [v \in Skipping |-> Skip(v, bs[k])]]
    Is(g) == g = [s \in SUBSET (1..n) |->
                    IF s = {} THEN base
                    ELSE Skip(g[s \ {Max(s)}], bs[Max(s)])]
    folded == CHOOSE g : Is(g)
<1>1. /\ n \in Nat /\ DOMAIN bs = 1..n
      /\ \A k \in 1..n : bs[k] \in Seq(Byte) /\ bs[k] # <<>>
  <2>1. bs \in Seq(Seq(Byte)) /\ NoneEmpty(bs)
    BY DEF Buffers
  <2> QED BY <2>1, LenProperties, ElementOfSeq DEF NoneEmpty
<1>2. base \in Skipping
  <2>1. <<>> \in Buffers
    BY EmptySeq DEF Buffers, NoneEmpty
  <2> QED BY <2>1 DEF Skipping
<1>3. step \in Steps(n, Skipping)
  <2>1. \A k \in 1..n, v \in Skipping : Skip(v, bs[k]) \in Skipping
    BY <1>1, SkipKeeps
  <2> QED BY <2>1 DEF Steps
<1>4. \E g : Is(g)
  <2>1. PICK g \in [SUBSET (1..n) -> Skipping] : FoldsSets(g, n, base, step)
    <3> HIDE DEF n, step, base
    <3> QED BY <1>1, <1>2, <1>3, FoldExists, Zenon
  <2>2. ASSUME NEW s \in SUBSET (1..n), s # {}
        PROVE  step[Max(s)][g[s \ {Max(s)}]] = Skip(g[s \ {Max(s)}], bs[Max(s)])
    <3>1. Max(s) \in s
      <4>1. s \subseteq 0..n
        BY <1>1
      <4> HIDE DEF n
      <4> QED BY <1>1, <2>2, <4>1, MostOfSome
    <3>2. g[s \ {Max(s)}] \in Skipping
      OBVIOUS
    <3> QED BY <3>1, <3>2
  <2> HIDE DEF step, n, base
  <2>3. Is(g)
    BY <2>1, <2>2 DEF FoldsSets
  <2> QED BY <2>3
<1>5. Is(folded)
  <2> HIDE DEF Is
  <2> QED BY <1>4
<1>6. Advance(bs, cnt) = folded[1..n].kept
  BY <1>1 DEF Advance, FoldLeft, MapThenFoldSet, Skip
<1> HIDE DEF folded, n, base
<1>7. /\ folded[1..0] = base
      /\ \A k \in 1..n : folded[1..k] = Skip(folded[1..(k - 1)], bs[k])
  <2>1. 1..0 = {} /\ {} \in SUBSET (1..n)
    OBVIOUS
  <2>2. folded[{}] = base
    BY <1>5, <2>1
  <2>3. ASSUME NEW k \in 1..n
        PROVE  folded[1..k] = Skip(folded[1..(k - 1)], bs[k])
    <3>1. /\ 1..k \in SUBSET (1..n) /\ 1..k # {}
          /\ Max(1..k) = k /\ (1..k) \ {k} = 1..(k - 1)
      BY <1>1, UpTo
    <3> HIDE DEF Max
    <3>2. folded[1..k] = Skip(folded[(1..k) \ {Max(1..k)}], bs[Max(1..k)])
      BY <1>5, <3>1, Zenon
    <3> QED BY <3>1, <3>2
  <2> QED BY <2>1, <2>2, <2>3
<1> DEFINE h == [k \in 0..n |-> folded[1..k]]
<1>8. /\ h[0] = base
      /\ \A k \in 1..n : h[k] = Skip(h[k - 1], bs[k])
  <2>1. 0 \in 0..n /\ \A k \in 1..n : k \in 0..n /\ k - 1 \in 0..n
    BY <1>1
  <2> QED BY <1>7, <2>1
<1>9. h \in [0..n -> Skipping]
  <2> DEFINE Good == {k \in 0..n : h[k] \in Skipping}
  <2> HIDE DEF h
  <2>1. 0 \in Good
    BY <1>1, <1>2, <1>8
  <2>2. ASSUME NEW k \in 1..n, k - 1 \in Good PROVE k \in Good
    <3>1. /\ h[k - 1] \in Skipping /\ k \in 0..n
          /\ bs[k] \in Seq(Byte) /\ bs[k] # <<>>
      BY <1>1, <2>2
    <3>2. Skip(h[k - 1], bs[k]) \in Skipping
      BY <3>1, SkipKeeps
    <3> QED BY <1>8, <3>1, <3>2
  <2>3. 0..n \subseteq Good
    <3> HIDE DEF Good
    <3> QED BY <1>1, <2>1, <2>2, HandedOn
  <2> QED BY <2>3 DEF h
<1>10. Advance(bs, cnt) = h[n].kept
  BY <1>1, <1>6
<1> HIDE DEF h
<1> QED BY <1>8, <1>9, <1>10 DEF n, base

\* Advancing by some bytes leaves the others.
LEMMA AdvanceSkips ==
  ASSUME NEW bs \in Buffers, NEW cnt \in 0..Len(AllBytes(bs))
  PROVE  /\ Advance(bs, cnt) \in Buffers
         /\ \E skipped \in Seq(Byte) :
              /\ Len(skipped) = cnt
              /\ AllBytes(bs) = skipped \o AllBytes(Advance(bs, cnt))
<1> DEFINE n == Len(bs)
<1>1. /\ n \in Nat /\ bs \in Seq(Seq(Byte)) /\ cnt \in Nat
      /\ \A k \in 1..n : bs[k] \in Seq(Byte)
      /\ AllBytes(bs) \in Seq(Byte) /\ Len(AllBytes(bs)) \in Nat
  <2>1. bs \in Seq(Seq(Byte))
    BY DEF Buffers
  <2>2. AllBytes(bs) \in Seq(Byte)
    BY <2>1, AllBytesType
  <2>3. Len(AllBytes(bs)) \in Nat
    BY <2>2, LenProperties
  <2> QED BY <2>1, <2>2, <2>3, LenProperties, ElementOfSeq
<1>2. PICK g \in [0..n -> Seq(Byte)] :
        /\ g[0] = <<>> /\ AllBytes(bs) = g[n]
        /\ \A k \in 1..n : g[k] = g[k - 1] \o bs[k]
  BY <1>1, AllBytesCompute
<1>3. PICK h \in [0..n -> Skipping] :
        /\ h[0] = [cnt |-> cnt, kept |-> <<>>]
        /\ Advance(bs, cnt) = h[n].kept
        /\ \A k \in 1..n : h[k] = Skip(h[k - 1], bs[k])
  BY <1>1, SkipFolds
<1> HIDE DEF n
<1> DEFINE Skipped(k, sk) ==
             /\ h[k].cnt <= cnt /\ Len(sk) = cnt - h[k].cnt
             /\ g[k] = sk \o AllBytes(h[k].kept)
             /\ h[k].cnt > 0 => h[k].kept = <<>>
    Good == {k \in 0..n : \E sk \in Seq(Byte) : Skipped(k, sk)}
<1>4. 0 \in Good
  <2>1. Skipped(0, <<>>)
    <3>1. h[0].cnt = cnt /\ h[0].kept = <<>>
      BY <1>3
    <3>2. Len(<<>>) = 0 /\ <<>> \o <<>> = <<>>
      OBVIOUS
    <3> QED BY <1>1, <1>2, <3>1, <3>2, NoBuffers
  <2>2. 0 \in 0..n /\ <<>> \in Seq(Byte)
    BY <1>1, EmptySeq
  <2> HIDE DEF Skipped
  <2> QED BY <2>1, <2>2
<1>5. ASSUME NEW k \in 1..n, k - 1 \in Good PROVE k \in Good
  <2> DEFINE acc == h[k - 1]
             b == bs[k]
  <2>1. PICK sk \in Seq(Byte) : Skipped(k - 1, sk)
    BY <1>5
  <2>2. /\ acc \in Skipping /\ acc.cnt \in Nat /\ acc.kept \in Seq(Seq(Byte))
        /\ b \in Seq(Byte) /\ Len(b) \in Nat /\ Len(sk) \in Nat
    <3>1. k - 1 \in 0..n
      BY <1>1
    <3>2. acc \in Skipping
      BY <1>3, <3>1
    <3> HIDE DEF acc
    <3> QED BY <1>1, <3>2, LenProperties DEF Skipping, Buffers
  <2>3. h[k] = Skip(acc, b) /\ g[k] = g[k - 1] \o b
    BY <1>2, <1>3
  <2>4. /\ acc.cnt <= cnt /\ Len(sk) = cnt - acc.cnt
        /\ g[k - 1] = sk \o AllBytes(acc.kept)
        /\ acc.cnt > 0 => acc.kept = <<>>
    BY <2>1
  <2> HIDE DEF acc, b
  <2>5. \E new \in Seq(Byte) : Skipped(k, new)
    <3>1. acc.cnt > 0 => g[k - 1] = sk
      <4>1. sk \o <<>> = sk
        BY ConcatEmptySeq
      <4> QED BY <2>4, <4>1, NoBuffers
    <3>2. CASE acc.cnt > 0 /\ Len(b) <= acc.cnt
      <4> DEFINE new == sk \o b
      <4>1. h[k].cnt = acc.cnt - Len(b) /\ h[k].kept = <<>>
        BY <2>2, <2>3, <2>4, <3>2 DEF Skip, Skipping
      <4>2. new \in Seq(Byte) /\ Len(new) = Len(sk) + Len(b) /\ new \o <<>> = new
        BY <2>2, ConcatProperties, ConcatEmptySeq
      <4>3. g[k] = new
        BY <2>3, <3>1, <3>2
      <4> HIDE DEF new
      <4>4. h[k].cnt <= cnt /\ Len(new) = cnt - h[k].cnt
        <5>1. /\ h[k].cnt = acc.cnt - Len(b) /\ Len(new) = Len(sk) + Len(b)
              /\ Len(sk) = cnt - acc.cnt /\ acc.cnt <= cnt /\ Len(b) <= acc.cnt
          BY <2>4, <3>2, <4>1, <4>2
        <5>2. acc.cnt \in Nat /\ Len(b) \in Nat /\ cnt \in Nat
          BY <1>1, <2>2
        <5> QED BY <5>1, <5>2
      <4>5. g[k] = new \o AllBytes(h[k].kept)
        BY <4>1, <4>2, <4>3, NoBuffers
      <4> QED BY <4>1, <4>2, <4>4, <4>5
    <3>3. CASE ~(acc.cnt > 0 /\ Len(b) <= acc.cnt)
      <4> DEFINE x == SubSeq(b, 1, acc.cnt)
                 y == SubSeq(b, acc.cnt + 1, Len(b))
                 new == sk \o x
                 a == AllBytes(acc.kept)
      <4>1. h[k].cnt = 0 /\ h[k].kept = Append(acc.kept, y)
        <5>1. Skip(acc, b) = [cnt |-> 0, kept |-> Append(acc.kept, y)]
          BY <3>3 DEF Skip
        <5> HIDE DEF y
        <5>2. h[k] = [cnt |-> 0, kept |-> Append(acc.kept, y)]
          BY <2>3, <5>1
        <5> QED BY <5>2
      <4>2. acc.cnt \in 0..Len(b)
        BY <2>2, <3>3
      <4>3. x \in Seq(Byte) /\ y \in Seq(Byte) /\ Len(x) = acc.cnt /\ b = x \o y
        BY <2>2, <4>2, CutInTwo
      <4>4. a \in Seq(Byte) /\ AllBytes(Append(acc.kept, y)) = a \o y
        BY <2>2, <4>3, AllBytesAppend, AllBytesType
      <4> HIDE DEF x, y, a
      <4>5. new \in Seq(Byte) /\ Len(new) = Len(sk) + Len(x)
        BY <4>3, ConcatProperties
      <4>6. \A u, v, w \in Seq(Byte) : (u \o v) \o w = u \o (v \o w)
        BY ConcatAssociative
      <4>7. g[k] = new \o (a \o y)
        <5>1. g[k] = (sk \o a) \o b
          BY <2>3, <2>4 DEF a
        <5>2. CASE acc.cnt > 0
          <6>1. a = <<>>
            BY <2>4, <5>2, NoBuffers DEF a
          <6>2. sk \o a = sk /\ a \o y = y
            BY <4>3, <6>1, ConcatEmptySeq
          <6>3. sk \o (x \o y) = (sk \o x) \o y
            BY <4>3, <4>6
          <6> QED BY <4>3, <5>1, <6>2, <6>3
        <5>3. CASE ~(acc.cnt > 0)
          <6>1. Len(x) = 0
            BY <2>2, <4>3, <5>3
          <6>2. x = <<>>
            BY <4>3, <6>1, EmptySeq
          <6>3. sk \o x = sk /\ x \o y = y
            BY <4>3, <6>2, ConcatEmptySeq
          <6>4. (sk \o a) \o y = sk \o (a \o y)
            BY <4>3, <4>4, <4>6
          <6> QED BY <4>3, <5>1, <6>3, <6>4
        <5> QED BY <5>2, <5>3
      <4> HIDE DEF new
      <4>8. h[k].cnt <= cnt /\ Len(new) = cnt - h[k].cnt
        <5>1. /\ h[k].cnt = 0 /\ Len(new) = Len(sk) + acc.cnt
              /\ Len(sk) = cnt - acc.cnt
          BY <2>4, <4>1, <4>3, <4>5
        <5>2. acc.cnt \in Nat /\ cnt \in Nat
          BY <1>1, <2>2
        <5> QED BY <5>1, <5>2
      <4>9. g[k] = new \o AllBytes(h[k].kept)
        BY <4>1, <4>4, <4>7
      <4>10. ~(h[k].cnt > 0)
        BY <4>1
      <4> QED BY <4>5, <4>8, <4>9, <4>10
    <3> QED BY <3>2, <3>3
  <2> HIDE DEF Skipped
  <2>6. k \in 0..n
    BY <1>1
  <2> QED BY <2>5, <2>6
<1>6. n \in Good
  <2>1. 0..n \subseteq Good
    <3> HIDE DEF Good
    <3> QED BY <1>1, <1>4, <1>5, HandedOn
  <2>2. n \in 0..n
    BY <1>1
  <2> HIDE DEF Good
  <2> QED BY <2>1, <2>2
<1>7. PICK sk \in Seq(Byte) : Skipped(n, sk)
  BY <1>6
<1>8. h[n] \in Skipping /\ h[n].cnt \in Nat /\ h[n].kept \in Buffers
  <2>1. h[n] \in Skipping
    BY <1>1, <1>3
  <2> QED BY <2>1 DEF Skipping
<1>9. h[n].cnt = 0
  <2> SUFFICES ASSUME h[n].cnt > 0 PROVE FALSE
    BY <1>8
  <2>1. g[n] = sk
    <3>1. sk \o <<>> = sk
      BY ConcatEmptySeq
    <3>2. h[n].kept = <<>>
      BY <1>7
    <3>3. g[n] = sk \o AllBytes(h[n].kept)
      BY <1>7
    <3> QED BY <3>1, <3>2, <3>3, NoBuffers
  <2>2. Len(AllBytes(bs)) = cnt - h[n].cnt
    BY <1>2, <1>7, <2>1
  <2> QED BY <1>1, <1>8, <2>2
<1>10. Len(sk) = cnt /\ AllBytes(bs) = sk \o AllBytes(Advance(bs, cnt))
  <2>1. Len(sk) = cnt - h[n].cnt /\ g[n] = sk \o AllBytes(h[n].kept)
    BY <1>7
  <2> QED BY <1>1, <1>2, <1>3, <1>9, <2>1
<1> QED BY <1>3, <1>8, <1>10

\* Skipping as many bytes as were taken from the front leaves the others.
LEMMA TakenThenSkipped ==
  ASSUME NEW bs \in Buffers, NEW cnt \in 0..Len(AllBytes(bs))
  PROVE  SubSeq(AllBytes(bs), 1, cnt) \o AllBytes(Advance(bs, cnt))
           = AllBytes(bs)
<1> DEFINE rest == AllBytes(Advance(bs, cnt))
<1>1. PICK sk \in Seq(Byte) : Len(sk) = cnt /\ AllBytes(bs) = sk \o rest
  BY AdvanceSkips
<1>2. rest \in Seq(Byte)
  <2>1. Advance(bs, cnt) \in Seq(Seq(Byte))
    BY AdvanceSkips DEF Buffers
  <2> QED BY <2>1, AllBytesType
<1> HIDE DEF rest
<1>3. cnt \in 0..Len(sk)
  BY <1>1, LenProperties
<1>4. SubSeq(sk \o rest, 1, cnt) = SubSeq(sk, 1, cnt)
  BY <1>2, <1>3, CutFirst
<1>5. SubSeq(sk, 1, cnt) = sk
  BY <1>1, SubSeqFull
<1> QED BY <1>1, <1>4, <1>5 DEF rest

\* How chunks_vectored treats the next buffer.
Slice(room, vecs, b) == IF Len(vecs) = room THEN vecs ELSE Append(vecs, b)

LEMMA SlicesFold ==
  ASSUME bufs \in Seq(Seq(Byte)), NEW room \in Nat
  PROVE  \E h \in [0..Len(bufs) -> Seq(Seq(Byte))] :
           /\ h[0] = <<>> /\ ChunksVectored(room) = h[Len(bufs)]
           /\ \A k \in 1..Len(bufs) : h[k] = Slice(room, h[k - 1], bufs[k])
<1> DEFINE n == Len(bufs)
    V == Seq(Seq(Byte))
    step == [k \in 1..n |-> [v \in V |-> Slice(room, v, bufs[k])]]
    Is(g) == g = [s \in SUBSET (1..n) |->
                    IF s = {} THEN <<>>
                    ELSE Slice(room, g[s \ {Max(s)}], bufs[Max(s)])]
    folded == CHOOSE g : Is(g)
<1>1. /\ n \in Nat /\ DOMAIN bufs = 1..n /\ <<>> \in V
      /\ \A k \in 1..n : bufs[k] \in Seq(Byte)
  BY LenProperties, ElementOfSeq, EmptySeq
<1>2. \A k \in 1..n, v \in V : Slice(room, v, bufs[k]) \in V
  BY <1>1, AppendProperties DEF Slice
<1>3. step \in Steps(n, V)
  BY <1>2 DEF Steps
<1>4. \E g : Is(g)
  <2>1. PICK g \in [SUBSET (1..n) -> V] : FoldsSets(g, n, <<>>, step)
    <3> HIDE DEF n, step, V
    <3> QED BY <1>1, <1>3, FoldExists, Zenon
  <2>2. ASSUME NEW s \in SUBSET (1..n), s # {}
        PROVE  step[Max(s)][g[s \ {Max(s)}]]
                 = Slice(room, g[s \ {Max(s)}], bufs[Max(s)])
    <3>1. Max(s) \in s
      <4>1. s \subseteq 0..n
        BY <1>1
      <4> HIDE DEF n
      <4> QED BY <1>1, <2>2, <4>1, MostOfSome
    <3>2. g[s \ {Max(s)}] \in V
      OBVIOUS
    <3> HIDE DEF V
    <3> QED BY <3>1, <3>2
  <2> HIDE DEF step, n, V
  <2>3. Is(g)
    BY <2>1, <2>2 DEF FoldsSets
  <2> QED BY <2>3
<1>5. Is(folded)
  <2> HIDE DEF Is
  <2> QED BY <1>4
<1>6. ChunksVectored(room) = folded[1..n]
  BY <1>1 DEF ChunksVectored, FoldLeft, MapThenFoldSet, Slice
<1> HIDE DEF folded, n, V
<1>7. /\ folded[1..0] = <<>>
      /\ \A k \in 1..n :
           folded[1..k] = Slice(room, folded[1..(k - 1)], bufs[k])
  <2>1. 1..0 = {} /\ {} \in SUBSET (1..n)
    OBVIOUS
  <2>2. folded[{}] = <<>>
    BY <1>5, <2>1
  <2>3. ASSUME NEW k \in 1..n
        PROVE  folded[1..k] = Slice(room, folded[1..(k - 1)], bufs[k])
    <3>1. /\ 1..k \in SUBSET (1..n) /\ 1..k # {}
          /\ Max(1..k) = k /\ (1..k) \ {k} = 1..(k - 1)
      BY <1>1, UpTo
    <3> HIDE DEF Max
    <3>2. folded[1..k] = Slice(room, folded[(1..k) \ {Max(1..k)}],
                               bufs[Max(1..k)])
      BY <1>5, <3>1, Zenon
    <3> QED BY <3>1, <3>2
  <2> QED BY <2>1, <2>2, <2>3
<1> DEFINE h == [k \in 0..n |-> folded[1..k]]
<1>8. /\ h[0] = <<>>
      /\ \A k \in 1..n : h[k] = Slice(room, h[k - 1], bufs[k])
  <2>1. 0 \in 0..n /\ \A k \in 1..n : k \in 0..n /\ k - 1 \in 0..n
    BY <1>1
  <2> QED BY <1>7, <2>1
<1>9. h \in [0..n -> V]
  <2> DEFINE Good == {k \in 0..n : h[k] \in V}
  <2> HIDE DEF h
  <2>1. 0 \in Good
    BY <1>1, <1>8
  <2>2. ASSUME NEW k \in 1..n, k - 1 \in Good PROVE k \in Good
    <3>1. h[k - 1] \in V /\ k \in 0..n
      BY <1>1, <2>2
    <3>2. Slice(room, h[k - 1], bufs[k]) \in V
      BY <1>2, <3>1
    <3> QED BY <1>8, <3>1, <3>2
  <2>3. 0..n \subseteq Good
    <3> HIDE DEF Good
    <3> QED BY <1>1, <2>1, <2>2, HandedOn
  <2> QED BY <2>3 DEF h
<1>10. ChunksVectored(room) = h[n]
  BY <1>1, <1>6
<1> HIDE DEF h
<1> QED BY <1>8, <1>9, <1>10 DEF n, V

\* The slices are the first buffers, as many as there is room for.
LEMMA VectoredIs ==
  ASSUME bufs \in Seq(Seq(Byte)), NEW room \in Nat
  PROVE  ChunksVectored(room) =
           SubSeq(bufs, 1, IF Len(bufs) <= room THEN Len(bufs) ELSE room)
<1> DEFINE n == Len(bufs)
           l(k) == IF k <= room THEN k ELSE room
           S == Seq(Byte)
<1>1. PICK h \in [0..n -> Seq(S)] :
        /\ h[0] = <<>> /\ ChunksVectored(room) = h[n]
        /\ \A k \in 1..n : h[k] = Slice(room, h[k - 1], bufs[k])
  BY SlicesFold
<1> HIDE DEF S
<1>2. n \in Nat /\ \A k \in 1..n : bufs[k] \in S
  BY LenProperties, ElementOfSeq DEF S
<1> HIDE DEF n
<1> DEFINE Good == {k \in 0..n : h[k] = SubSeq(bufs, 1, l(k))}
<1>3. 0 \in Good
  <2>1. l(0) = 0 /\ 0 \in 0..n
    BY <1>2
  <2> QED BY <1>1, <2>1, SubSeqEmpty
<1>4. ASSUME NEW k \in 1..n, k - 1 \in Good PROVE k \in Good
  <2>1. h[k - 1] = SubSeq(bufs, 1, l(k - 1)) /\ k \in 0..n
    BY <1>2, <1>4
  <2>2. Len(h[k - 1]) = l(k - 1)
    <3>1. l(k - 1) \in 0..n
      BY <1>2
    <3> HIDE DEF l
    <3>2. \A i \in 1..l(k - 1) : bufs[i] \in S
      BY <1>2, <3>1
    <3>3. Len(SubSeq(bufs, 1, l(k - 1))) = l(k - 1)
      <4> DEFINE j == l(k - 1)
      <4>1. j \in 0..Len(bufs)
        BY <3>1 DEF n
      <4> HIDE DEF j
      <4>2. Len(SubSeq(bufs, 1, j)) = j
        BY <4>1, CutInTwo
      <4> QED BY <4>2 DEF j
    <3> QED BY <2>1, <3>3
  <2>3. h[k] = Slice(room, h[k - 1], bufs[k])
    BY <1>1
  <2>4. CASE k <= room
    <3>1. l(k - 1) = k - 1 /\ l(k) = k /\ l(k - 1) # room
      BY <1>2, <2>4
    <3>2. h[k] = Append(SubSeq(bufs, 1, k - 1), bufs[k])
      BY <2>1, <2>2, <2>3, <3>1 DEF Slice
    <3>3. SubSeq(bufs, 1, k) = SubSeq(bufs, 1, k - 1) \o <<bufs[k]>>
      BY <1>2, SubSeqRecursiveSecond DEF n, S
    <3>4. Append(SubSeq(bufs, 1, k - 1), bufs[k])
            = SubSeq(bufs, 1, k - 1) \o <<bufs[k]>>
      <4> DEFINE p == SubSeq(bufs, 1, k - 1)
      <4>1. p \in Seq(S)
        <5>1. k - 1 \in 0..Len(bufs)
          BY <1>2 DEF n
        <5> QED BY <5>1, CutInTwo DEF S
      <4> HIDE DEF p
      <4>2. Append(p, bufs[k]) = p \o <<bufs[k]>>
        BY <1>2, <4>1, AppendIsConcat
      <4> QED BY <4>2 DEF p
    <3> QED BY <2>1, <3>1, <3>2, <3>3, <3>4
  <2>5. CASE ~(k <= room)
    <3>1. l(k - 1) = room /\ l(k) = room
      BY <1>2, <2>5
    <3>2. h[k] = h[k - 1]
      BY <2>2, <2>3, <3>1 DEF Slice
    <3> QED BY <2>1, <3>1, <3>2
  <2> QED BY <2>4, <2>5
<1>5. h[n] = SubSeq(bufs, 1, l(n))
  <2>1. 0..n \subseteq Good
    <3> HIDE DEF Good
    <3> QED BY <1>2, <1>3, <1>4, HandedOn
  <2>2. n \in Good
    BY <1>2, <2>1
  <2> QED BY <2>2
<1> QED BY <1>1, <1>5 DEF n

\* The bytes of the slices are the first of all the bytes.
LEMMA SlicesFirst ==
  ASSUME bufs \in Seq(Seq(Byte)), NEW room \in Nat
  PROVE  LET slices == AllBytes(ChunksVectored(room))
         IN /\ slices \in Seq(Byte)
            /\ \E others \in Seq(Byte) : AllBytes(bufs) = slices \o others
<1> DEFINE S == Seq(Byte)
           c == IF Len(bufs) <= room THEN Len(bufs) ELSE room
           x == SubSeq(bufs, 1, c)
           y == SubSeq(bufs, c + 1, Len(bufs))
<1>1. c \in 0..Len(bufs)
  BY LenProperties
<1>2. ChunksVectored(room) = x
  BY VectoredIs
<1> HIDE DEF c
<1>3. bufs \in Seq(S)
  OBVIOUS
<1> HIDE DEF S
<1>4. x \in Seq(S) /\ y \in Seq(S) /\ bufs = x \o y
  BY <1>1, <1>3, CutInTwo
<1> HIDE DEF x, y
<1>5. AllBytes(x \o y) = AllBytes(x) \o AllBytes(y)
  BY <1>4, AllBytesConcat DEF S
<1>6. AllBytes(x) \in Seq(Byte) /\ AllBytes(y) \in Seq(Byte)
  BY <1>4, AllBytesType DEF S
<1> QED BY <1>2, <1>4, <1>5, <1>6

-----------------------------------------------------------------------------
(* While the body is collected, what is kept and what the body has left     *)
(* make the whole; when it is, what is read and what is kept do.           *)

CollectedTypes ==
  /\ body \in Seq(Result) /\ script \in Script /\ script \in Seq(Result)
  /\ bufs \in Buffers /\ read \in Seq(Byte)
  /\ trailers \in KeptTrailers /\ taken \in KeptTrailers
  /\ phase \in {"collecting", "failed", "body", "buf"}
  /\ task \in {"ready", "parked"} /\ woken \in BOOLEAN

CollectingAll ==
  phase = "collecting" =>
    /\ read = <<>> /\ taken = End
    /\ AllBytes(bufs) \o BytesAhead(body) = BytesAhead(script)
    /\ Join(trailers, TrailersAhead(body)) = TrailersAhead(script)

ReadingAll ==
  phase \in {"body", "buf"} => read \o AllBytes(bufs) = BytesAhead(script)

TrailersOnce ==
  /\ phase = "body" =>
       \/ trailers = TrailersAhead(script) /\ taken = End
       \/ trailers = End /\ taken = TrailersAhead(script)
  /\ phase = "buf" => taken \in {TrailersAhead(script), End}

CollectedInv == CollectedTypes /\ CollectingAll /\ ReadingAll /\ TrailersOnce

LEMMA CollectStarts == Init => CollectedInv
<1> SUFFICES ASSUME Init PROVE CollectedInv
  OBVIOUS
<1>1. /\ script \in Script /\ script \in Seq(Result) /\ body = script
      /\ bufs = <<>> /\ trailers = End /\ read = <<>> /\ taken = End
      /\ phase = "collecting" /\ task = "ready" /\ woken = FALSE
  BY ScriptAssumption DEF Init
<1>2. BytesAhead(script) \in Seq(Byte)
  BY <1>1, AheadType
<1>3. <<>> \in Buffers /\ <<>> \in Seq(Byte) /\ End \in KeptTrailers
  BY EmptySeq DEF Buffers, NoneEmpty, KeptTrailers
<1>4. <<>> \o BytesAhead(script) = BytesAhead(script)
  BY <1>2, ConcatEmptySeq
<1>5. CollectedTypes
  BY <1>1, <1>3 DEF CollectedTypes
<1>6. CollectingAll
  BY <1>1, <1>4, NoBuffers DEF CollectingAll, Join
<1> QED BY <1>1, <1>5, <1>6 DEF CollectedInv, ReadingAll, TrailersOnce

LEMMA PollStep == CollectedInv /\ PollCollect => CollectedInv'
<1> SUFFICES ASSUME CollectedInv, PollCollect PROVE CollectedInv'
  OBVIOUS
<1> DEFINE n == ReadyFrames(body) + 1
    last == Poll(SubSeq(body, n, Len(body)))
    rest == SubSeq(body, n + 1, Len(body))
    kept == [bufs |-> bufs, trailers |-> trailers]
    pushed == FoldLeft(PushFrame, kept,
                       SubSeq(body, 1, Min({n, ReadyFrames(body)})))
<1>1. /\ phase = "collecting" /\ body' = rest
      /\ bufs' = pushed.bufs /\ trailers' = pushed.trailers
      /\ \/ /\ last \notin {End, Failure}
            /\ task' = "parked" /\ woken' = (last = Pending) /\ phase' = phase
         \/ /\ last \in {End, Failure}
            /\ phase' = IF last = End THEN "body" ELSE "failed"
            /\ task' = task /\ woken' = woken
      /\ script' = script /\ read' = read /\ taken' = taken
  BY DEF PollCollect, Polls, Resolved
<1>2. CollectedTypes /\ read = <<>> /\ taken = End
  BY <1>1 DEF CollectedInv, CollectingAll
<1>3. rest \in Seq(Result) /\ last \in {Pending, End, Failure}
  BY <1>2, FailureStays DEF CollectedTypes
<1> DEFINE bytes == AllBytes(bufs) \o BytesAhead(body)
           all == Join(trailers, TrailersAhead(body))
<1>4. bytes = BytesAhead(script) /\ all = TrailersAhead(script)
  BY <1>1 DEF CollectedInv, CollectingAll
<1>5. /\ pushed \in Keeping
      /\ last = Pending =>
           /\ AllBytes(pushed.bufs) \o BytesAhead(rest) = bytes
           /\ Join(pushed.trailers, TrailersAhead(rest)) = all
      /\ last \in {End, Failure} =>
           AllBytes(pushed.bufs) = bytes /\ pushed.trailers = all
  <2>1. kept \in Keeping /\ kept.bufs = bufs /\ kept.trailers = trailers
    BY <1>2 DEF CollectedTypes, Keeping
  <2>2. body \in Seq(Result)
    BY <1>2 DEF CollectedTypes
  <2> HIDE DEF kept
  <2> QED BY <2>1, <2>2, PollCollects
<1> HIDE DEF n, last, rest, kept, pushed, bytes, all
<1>6. bufs' \in Buffers /\ trailers' \in KeptTrailers
  BY <1>1, <1>5 DEF Keeping
<1>7. phase' \in {"collecting", "failed", "body", "buf"}
  BY <1>1
<1>8. task' \in {"ready", "parked"} /\ woken' \in BOOLEAN
  BY <1>1, <1>2 DEF CollectedTypes
<1>9. CollectedTypes'
  BY <1>1, <1>2, <1>3, <1>6, <1>7, <1>8 DEF CollectedTypes
<1>10. CASE last = Pending
  <2>1. phase' = "collecting"
    BY <1>1, <1>10, ResultsDiffer
  <2>2. /\ AllBytes(bufs') \o BytesAhead(body') = BytesAhead(script')
        /\ Join(trailers', TrailersAhead(body')) = TrailersAhead(script')
    BY <1>1, <1>4, <1>5, <1>10
  <2>3. CollectingAll'
    BY <1>1, <1>2, <2>2 DEF CollectingAll
  <2> QED BY <1>9, <2>1, <2>3 DEF CollectedInv, ReadingAll, TrailersOnce
<1>11. CASE last \in {End, Failure}
  <2>1. phase' \in {"body", "failed"}
    BY <1>1, <1>11, ResultsDiffer
  <2>2. AllBytes(bufs') = BytesAhead(script') /\ trailers' = TrailersAhead(script')
    BY <1>1, <1>4, <1>5, <1>11
  <2>3. read' \o AllBytes(bufs') = BytesAhead(script')
    <3>1. BytesAhead(script) \in Seq(Byte)
      BY <1>2, AheadType DEF CollectedTypes
    <3>2. <<>> \o BytesAhead(script) = BytesAhead(script)
      BY <3>1, ConcatEmptySeq
    <3> QED BY <1>1, <1>2, <2>2, <3>2
  <2>4. taken' = End
    BY <1>1, <1>2
  <2> QED BY <1>9, <2>1, <2>2, <2>3, <2>4
      DEF CollectedInv, CollectingAll, ReadingAll, TrailersOnce
<1> QED BY <1>3, <1>10, <1>11

\* Bytes that are read are taken from the front of those that are kept.
LEMMA ReadOn ==
  ASSUME CollectedInv, phase \in {"body", "buf"}, NEW p \in Seq(Byte),
         bufs' \in Buffers, p \o AllBytes(bufs') = AllBytes(bufs),
         read' = read \o p, script' = script, phase' = phase,
         body' = body, task' = task, woken' = woken, taken' = taken,
         trailers' = trailers
  PROVE  CollectedInv'
<1>1. CollectedTypes /\ read \o AllBytes(bufs) = BytesAhead(script)
  BY DEF CollectedInv, ReadingAll
<1>2. AllBytes(bufs') \in Seq(Byte)
  <2>1. bufs' \in Seq(Seq(Byte))
    BY DEF Buffers
  <2> QED BY <2>1, AllBytesType
<1>3. read \in Seq(Byte)
  BY <1>1 DEF CollectedTypes
<1>4. read' \in Seq(Byte)
  BY <1>3, ConcatProperties
<1>5. \A x, y, z \in Seq(Byte) : (x \o y) \o z = x \o (y \o z)
  BY ConcatAssociative
<1>6. (read \o p) \o AllBytes(bufs') = read \o (p \o AllBytes(bufs'))
  BY <1>2, <1>3, <1>5
<1>7. read' \o AllBytes(bufs') = BytesAhead(script')
  BY <1>1, <1>6
<1>8. CollectedTypes'
  BY <1>1, <1>4 DEF CollectedTypes
<1>9. ReadingAll'
  BY <1>7 DEF ReadingAll
<1>10. CollectingAll'
  BY DEF CollectingAll
<1>11. TrailersOnce'
  BY DEF CollectedInv, TrailersOnce
<1> QED BY <1>8, <1>9, <1>10, <1>11 DEF CollectedInv

LEMMA AdvanceOn ==
  ASSUME CollectedInv, phase = "buf", NEW cnt \in 0..Len(AllBytes(bufs)),
         read' = read \o SubSeq(AllBytes(bufs), 1, cnt),
         bufs' = Advance(bufs, cnt),
         script' = script, phase' = phase, body' = body, task' = task,
         woken' = woken, taken' = taken, trailers' = trailers
  PROVE  CollectedInv'
<1> DEFINE p == SubSeq(AllBytes(bufs), 1, cnt)
<1>1. bufs \in Buffers /\ bufs \in Seq(Seq(Byte))
  BY DEF CollectedInv, CollectedTypes, Buffers
<1>2. AllBytes(bufs) \in Seq(Byte)
  BY <1>1, AllBytesType
<1>3. p \in Seq(Byte)
  BY <1>2, CutInTwo
<1>4. bufs' \in Buffers /\ p \o AllBytes(bufs') = AllBytes(bufs)
  BY <1>1, AdvanceSkips, TakenThenSkipped
<1>5. phase \in {"body", "buf"} /\ read' = read \o p
  OBVIOUS
<1> HIDE DEF p
<1> QED BY <1>3, <1>4, <1>5, ReadOn

\* The first buffer, and the others.
LEMMA Popped ==
  ASSUME NEW bs \in Buffers, bs # <<>>
  PROVE  /\ Head(bs) \in Seq(Byte) /\ Head(bs) # <<>>
         /\ Tail(bs) \in Buffers /\ AllBytes(Tail(bs)) \in Seq(Byte)
         /\ AllBytes(bs) = Head(bs) \o AllBytes(Tail(bs))
<1>1. bs \in Seq(Seq(Byte)) /\ NoneEmpty(bs)
  BY DEF Buffers
<1>2. /\ Head(bs) = bs[1] /\ Len(Tail(bs)) = Len(bs) - 1
      /\ \A i \in 1..Len(Tail(bs)) : Tail(bs)[i] = bs[i + 1]
      /\ Len(bs) \in Nat /\ Len(bs) # 0
  BY <1>1, LenProperties, EmptySeq, HeadTailProperties
<1>3. Head(bs) # <<>> /\ NoneEmpty(Tail(bs))
  <2>1. 1 \in 1..Len(bs) /\ \A i \in 1..Len(Tail(bs)) : i + 1 \in 1..Len(bs)
    BY <1>2
  <2> QED BY <1>1, <1>2, <2>1 DEF NoneEmpty
<1> QED BY <1>1, <1>3, FirstBytes DEF Buffers

LEMMA FrameStep == CollectedInv /\ PollFrame => CollectedInv'
<1> SUFFICES ASSUME CollectedInv, PollFrame PROVE CollectedInv'
  OBVIOUS
<1>1. bufs \in Buffers /\ CollectedTypes
  BY DEF CollectedInv, CollectedTypes
<1>2. CASE bufs # <<>>
  <2>1. /\ bufs' = Tail(bufs) /\ read' = read \o Head(bufs)
        /\ phase = "body" /\ UNCHANGED <<trailers, taken>>
        /\ UNCHANGED <<body, phase, task, woken, script>>
    BY <1>2 DEF PollFrame
  <2>2. /\ Head(bufs) \in Seq(Byte) /\ bufs' \in Buffers
        /\ Head(bufs) \o AllBytes(bufs') = AllBytes(bufs)
    BY <1>1, <1>2, <2>1, Popped
  <2> QED BY <2>1, <2>2, ReadOn
<1>3. CASE bufs = <<>>
  <2>1. /\ phase = "body" /\ trailers' = End
        /\ taken' = IF trailers = End THEN taken ELSE trailers
        /\ UNCHANGED <<bufs, read>>
        /\ UNCHANGED <<body, phase, task, woken, script>>
    BY <1>3 DEF PollFrame
  <2>2. CollectedTypes'
    BY <1>1, <2>1 DEF CollectedTypes, KeptTrailers
  <2>3. taken' = TrailersAhead(script)
    BY <2>1 DEF CollectedInv, TrailersOnce
  <2> QED BY <2>1, <2>2, <2>3
      DEF CollectedInv, CollectingAll, ReadingAll, TrailersOnce
<1> QED BY <1>2, <1>3

LEMMA TakeStep == CollectedInv /\ TakeTrailers => CollectedInv'
<1> SUFFICES ASSUME CollectedInv, TakeTrailers PROVE CollectedInv'
  OBVIOUS
<1>1. /\ phase = "body" /\ trailers # End /\ trailers' = End /\ taken' = trailers
      /\ UNCHANGED <<body, bufs, phase, task, woken, script, read>>
  BY DEF TakeTrailers
<1>2. CollectedTypes'
  BY <1>1 DEF CollectedInv, CollectedTypes, KeptTrailers
<1>3. taken' = TrailersAhead(script)
  BY <1>1 DEF CollectedInv, TrailersOnce
<1> QED BY <1>1, <1>2, <1>3
    DEF CollectedInv, CollectingAll, ReadingAll, TrailersOnce

LEMMA AggregateStep == CollectedInv /\ Aggregate => CollectedInv'
<1> SUFFICES ASSUME CollectedInv, Aggregate PROVE CollectedInv'
  OBVIOUS
<1>1. /\ phase = "body" /\ phase' = "buf" /\ trailers' = End
      /\ UNCHANGED <<body, bufs, task, woken, script, read, taken>>
  BY DEF Aggregate
<1>2. CollectedTypes'
  BY <1>1 DEF CollectedInv, CollectedTypes, KeptTrailers
<1> QED BY <1>1, <1>2 DEF CollectedInv, CollectingAll, ReadingAll, TrailersOnce

LEMMA ReadStep == CollectedInv /\ ReadAndAdvance => CollectedInv'
<1> SUFFICES ASSUME CollectedInv, ReadAndAdvance PROVE CollectedInv'
  OBVIOUS
<1>1. PICK cnt \in 1..Remaining :
        /\ phase = "buf"
        /\ read' = read \o (IF cnt <= Len(Chunk) THEN SubSeq(Chunk, 1, cnt)
                            ELSE SubSeq(AllBytes(bufs), 1, cnt))
        /\ bufs' = Advance(bufs, cnt)
        /\ UNCHANGED <<body, trailers, phase, task, woken, script, taken>>
  BY DEF ReadAndAdvance
<1>2. bufs \in Buffers
  BY DEF CollectedInv, CollectedTypes
<1>3. cnt \in 0..Len(AllBytes(bufs))
  BY DEF Remaining
<1>4. read' = read \o SubSeq(AllBytes(bufs), 1, cnt)
  <2>1. CASE cnt <= Len(Chunk)
    <3>1. bufs # <<>> /\ Chunk = Head(bufs)
      <4>1. bufs = <<>> => Len(Chunk) = 0
        BY DEF Chunk
      <4>2. bufs # <<>>
        BY <2>1, <4>1
      <4> QED BY <4>2 DEF Chunk
    <3>2. /\ Head(bufs) \in Seq(Byte) /\ AllBytes(Tail(bufs)) \in Seq(Byte)
          /\ AllBytes(bufs) = Head(bufs) \o AllBytes(Tail(bufs))
      BY <1>2, <3>1, Popped
    <3>3. cnt \in 0..Len(Head(bufs))
      <4>1. Len(Head(bufs)) \in Nat
        BY <3>2, LenProperties
      <4> QED BY <2>1, <3>1, <4>1
    <3>4. SubSeq(AllBytes(bufs), 1, cnt) = SubSeq(Head(bufs), 1, cnt)
      BY <3>2, <3>3, CutFirst
    <3> QED BY <1>1, <2>1, <3>1, <3>4
  <2>2. CASE ~(cnt <= Len(Chunk))
    BY <1>1, <2>2
  <2> QED BY <2>1, <2>2
<1> QED BY <1>1, <1>3, <1>4, AdvanceOn

LEMMA VectoredStep == CollectedInv /\ ReadVectored => CollectedInv'
<1> SUFFICES ASSUME CollectedInv, ReadVectored PROVE CollectedInv'
  OBVIOUS
<1>1. PICK room \in 0..(Len(bufs) + 1) :
        \E cnt \in 0..Len(AllBytes(ChunksVectored(room))) :
          /\ phase = "buf"
          /\ read' = read \o SubSeq(AllBytes(ChunksVectored(room)), 1, cnt)
          /\ bufs' = Advance(bufs, cnt)
          /\ UNCHANGED <<body, trailers, phase, task, woken, script, taken>>
  BY DEF ReadVectored
<1> DEFINE slices == AllBytes(ChunksVectored(room))
<1>2. PICK cnt \in 0..Len(slices) :
        /\ phase = "buf"
        /\ read' = read \o SubSeq(slices, 1, cnt)
        /\ bufs' = Advance(bufs, cnt)
        /\ UNCHANGED <<body, trailers, phase, task, woken, script, taken>>
  BY <1>1
<1>3. bufs \in Seq(Seq(Byte))
  BY DEF CollectedInv, CollectedTypes, Buffers
<1>4. slices \in Seq(Byte) /\ \E others \in Seq(Byte) : AllBytes(bufs) = slices \o others
  <2>1. room \in Nat
    OBVIOUS
  <2> QED BY <1>3, <2>1, SlicesFirst
<1> HIDE DEF slices
<1>5. PICK others \in Seq(Byte) : AllBytes(bufs) = slices \o others
  BY <1>4
<1>6. cnt \in 0..Len(AllBytes(bufs))
  <2>1. Len(AllBytes(bufs)) = Len(slices) + Len(others)
    BY <1>4, <1>5, ConcatProperties
  <2>2. Len(slices) \in Nat /\ Len(others) \in Nat
    BY <1>4, LenProperties
  <2> QED BY <2>1, <2>2
<1>7. SubSeq(AllBytes(bufs), 1, cnt) = SubSeq(slices, 1, cnt)
  BY <1>4, <1>5, CutFirst
<1> QED BY <1>2, <1>6, <1>7, AdvanceOn

LEMMA CopyStep == CollectedInv /\ CopyToBytes => CollectedInv'
<1> SUFFICES ASSUME CollectedInv, CopyToBytes PROVE CollectedInv'
  OBVIOUS
<1>1. PICK len \in 0..Remaining :
        /\ phase = "buf"
        /\ IF bufs # <<>> /\ len <= Len(Chunk)
           THEN /\ read' = read \o SubSeq(Chunk, 1, len)
                /\ bufs' = IF len = Len(Chunk) THEN Tail(bufs)
                           ELSE <<SubSeq(Chunk, len + 1, Len(Chunk))>>
                                  \o Tail(bufs)
           ELSE /\ read' = read \o SubSeq(AllBytes(bufs), 1, len)
                /\ bufs' = Advance(bufs, len)
        /\ UNCHANGED <<body, trailers, phase, task, woken, script, taken>>
  BY DEF CopyToBytes
<1>2. bufs \in Buffers
  BY DEF CollectedInv, CollectedTypes
<1>3. len \in 0..Len(AllBytes(bufs))
  BY DEF Remaining
<1>4. CASE ~(bufs # <<>> /\ len <= Len(Chunk))
  BY <1>1, <1>3, <1>4, AdvanceOn
<1>5. CASE bufs # <<>> /\ len <= Len(Chunk)
  <2> DEFINE c == Head(bufs)
             t == Tail(bufs)
             x == SubSeq(c, 1, len)
             y == SubSeq(c, len + 1, Len(c))
  <2>1. /\ c \in Seq(Byte) /\ c # <<>> /\ t \in Buffers
        /\ AllBytes(t) \in Seq(Byte) /\ AllBytes(bufs) = c \o AllBytes(t)
    BY <1>2, <1>5, Popped
  <2>2. /\ read' = read \o x
        /\ bufs' = IF len = Len(c) THEN t ELSE <<y>> \o t
    BY <1>1, <1>5 DEF Chunk
  <2>3. len \in 0..Len(c)
    <3>1. Len(c) \in Nat
      BY <2>1, LenProperties
    <3> QED BY <1>5, <3>1 DEF Chunk
  <2> HIDE DEF c, t
  <2>4. /\ x \in Seq(Byte) /\ y \in Seq(Byte) /\ c = x \o y
        /\ Len(y) = Len(c) - len
    BY <2>1, <2>3, CutInTwo
  <2>5. bufs' \in Buffers /\ x \o AllBytes(bufs') = AllBytes(bufs)
    <3>1. CASE len = Len(c)
      <4>1. x = c
        BY <2>1, <3>1, SubSeqFull
      <4> QED BY <2>1, <2>2, <3>1, <4>1
    <3>2. CASE len # Len(c)
      <4>1. y # <<>>
        <5> HIDE DEF x, y
        <5>1. Len(c) \in Nat /\ Len(y) = Len(c) - len
          BY <2>1, <2>4, LenProperties
        <5>2. Len(y) # 0
          BY <2>3, <3>2, <5>1
        <5> QED BY <2>4, <5>2, EmptySeq
      <4> HIDE DEF x, y
      <4> DEFINE bs == <<y>> \o t
      <4>2. t \in Seq(Seq(Byte)) /\ NoneEmpty(t) /\ Len(t) \in Nat
        BY <2>1, LenProperties DEF Buffers
      <4>3. /\ bs \in Seq(Seq(Byte)) /\ Len(bs) = Len(t) + 1 /\ bs[1] = y
            /\ \A i \in 1..Len(t) : bs[i + 1] = t[i]
        BY <2>4, <4>2
      <4>4. Head(bs) = y /\ Tail(bs) = t
        BY <2>4, <4>2
      <4>5. bs # <<>>
        <5> HIDE DEF bs
        <5> QED BY <4>2, <4>3, EmptySeq
      <4> HIDE DEF bs
      <4>6. NoneEmpty(bs)
        <5> SUFFICES ASSUME NEW i \in 1..Len(bs) PROVE bs[i] # <<>>
          BY DEF NoneEmpty
        <5>1. i = 1 \/ (i - 1 \in 1..Len(t) /\ (i - 1) + 1 = i)
          BY <4>2, <4>3
        <5>2. i # 1 => bs[i] = t[i - 1]
          BY <4>3, <5>1
        <5> QED BY <4>1, <4>2, <4>3, <5>1, <5>2 DEF NoneEmpty
      <4>7. AllBytes(bs) = y \o AllBytes(t)
        BY <4>3, <4>4, <4>5, FirstBytes
      <4>8. \A u, v, w \in Seq(Byte) : (u \o v) \o w = u \o (v \o w)
        BY ConcatAssociative
      <4>9. x \o (y \o AllBytes(t)) = (x \o y) \o AllBytes(t)
        BY <2>1, <2>4, <4>8
      <4>10. bufs' = bs
        BY <2>2, <3>2 DEF bs
      <4>11. bs \in Buffers
        BY <4>3, <4>6 DEF Buffers
      <4> QED BY <2>1, <2>4, <4>7, <4>9, <4>10, <4>11
    <3> QED BY <3>1, <3>2
  <2> HIDE DEF x
  <2> QED BY <1>1, <2>2, <2>4, <2>5, ReadOn
<1> QED BY <1>4, <1>5

LEMMA CollectedStep == CollectedInv /\ [Next]_vars => CollectedInv'
<1> SUFFICES ASSUME CollectedInv, [Next]_vars PROVE CollectedInv'
  OBVIOUS
<1>1. CASE PollCollect
  BY <1>1, PollStep
<1>2. CASE PollFrame
  BY <1>2, FrameStep
<1>3. CASE TakeTrailers
  BY <1>3, TakeStep
<1>4. CASE Aggregate
  BY <1>4, AggregateStep
<1>5. CASE ReadAndAdvance
  BY <1>5, ReadStep
<1>6. CASE ReadVectored
  BY <1>6, VectoredStep
<1>7. CASE CopyToBytes
  BY <1>7, CopyStep
<1>8. CASE Wake
  <2>1. /\ task' = "ready"
        /\ UNCHANGED <<body, bufs, trailers, phase, woken, script, read, taken>>
    BY <1>8 DEF Wake
  <2>2. CollectedTypes'
    BY <2>1 DEF CollectedInv, CollectedTypes
  <2> QED BY <2>1, <2>2
      DEF CollectedInv, CollectingAll, ReadingAll, TrailersOnce
<1>9. CASE UNCHANGED vars
  <2>1. UNCHANGED <<body, bufs, trailers, phase, task, woken, script, read, taken>>
    BY <1>9 DEF vars, collectVars
  <2>2. CollectedTypes'
    BY <2>1 DEF CollectedInv, CollectedTypes
  <2> QED BY <2>1, <2>2
      DEF CollectedInv, CollectingAll, ReadingAll, TrailersOnce
<1> QED BY <1>1, <1>2, <1>3, <1>4, <1>5, <1>6, <1>7, <1>8, <1>9 DEF Next, Failed

LEMMA CollectedAlways == Spec => []CollectedInv
BY CollectStarts, CollectedStep, PTL DEF Spec

\* The future, the list of buffers and what was read stay what they are said to
\* be.
THEOREM CollectTypes == Spec => []TypeOK
<1>1. CollectedInv => TypeOK
  BY DEF CollectedInv, CollectedTypes, TypeOK, Buffers, KeptTrailers
<1> QED BY <1>1, CollectedAlways, PTL

\* Every byte of every data frame is read once and in order: from any list of
\* bodies, through whichever of the readers, and however far each goes.
THEOREM EveryByteOnce == Spec => []BytesConserved
<1>1. CollectedInv => BytesConserved
  <2>1. TotalBytes = BytesAhead(script)
    BY DEF TotalBytes, BytesAhead, Contents, DataOf
  <2> QED BY <2>1 DEF CollectedInv, ReadingAll, BytesConserved
<1> QED BY <1>1, CollectedAlways, PTL

\* chunk() is empty only when nothing remains, so that a reader that loops until
\* then makes progress and ends; a vectored read with one slice sees the same.
THEOREM ChunkShowsRest == Spec => []ChunkShowsProgress
<1>1. CollectedInv => ChunkShowsProgress
  <2> SUFFICES ASSUME CollectedInv PROVE ChunkShowsProgress
    OBVIOUS
  <2>1. bufs \in Buffers /\ bufs \in Seq(Seq(Byte)) /\ Len(bufs) \in Nat
    BY LenProperties DEF CollectedInv, CollectedTypes, Buffers
  <2>2. ChunksVectored(0) = <<>>
    <3>1. ChunksVectored(0) = SubSeq(bufs, 1, 0)
      BY <2>1, VectoredIs
    <3> QED BY <3>1, SubSeqEmpty
  <2>3. CASE bufs = <<>>
    <3>1. Chunk = <<>> /\ Remaining = 0
      BY <2>3, NoBuffers DEF Chunk, Remaining
    <3>2. ChunksVectored(1) = SubSeq(bufs, 1, 0)
      BY <2>1, <2>3, VectoredIs
    <3>3. AllBytes(ChunksVectored(1)) = <<>>
      BY <3>2, SubSeqEmpty, NoBuffers
    <3> QED BY <2>2, <3>1, <3>3 DEF ChunkShowsProgress
  <2>4. CASE bufs # <<>>
    <3> DEFINE c == Head(bufs)
               t == AllBytes(Tail(bufs))
    <3>1. /\ Chunk = c /\ c \in Seq(Byte) /\ c # <<>> /\ t \in Seq(Byte)
          /\ AllBytes(bufs) = c \o t
      BY <2>1, <2>4, Popped DEF Chunk
    <3> HIDE DEF c, t
    <3>2. Remaining # 0
      <4>1. Len(c \o t) = Len(c) + Len(t)
        BY <3>1, ConcatProperties
      <4>2. Len(c) \in Nat /\ Len(t) \in Nat /\ Len(c) # 0
        BY <3>1, LenProperties, EmptySeq
      <4> QED BY <3>1, <4>1, <4>2 DEF Remaining
    <3>3. ChunksVectored(1) = <<c>>
      <4>1. Len(bufs) # 0 /\ c = bufs[1]
        BY <2>1, <2>4, EmptySeq, HeadTailProperties DEF c
      <4>2. ChunksVectored(1) = SubSeq(bufs, 1, 1)
        <5>1. ChunksVectored(1) =
                SubSeq(bufs, 1, IF Len(bufs) <= 1 THEN Len(bufs) ELSE 1)
          BY <2>1, VectoredIs
        <5>2. (IF Len(bufs) <= 1 THEN Len(bufs) ELSE 1) = 1
          <6> DEFINE n == Len(bufs)
          <6>1. n \in Nat /\ n # 0
            BY <2>1, <4>1
          <6> HIDE DEF n
          <6>2. (IF n <= 1 THEN n ELSE 1) = 1
            BY <6>1
          <6> QED BY <6>2 DEF n
        <5> QED BY <5>1, <5>2
      <4> QED BY <4>1, <4>2
    <3>4. AllBytes(<<c>>) = c
      <4>1. <<c>> \in Seq(Seq(Byte)) /\ <<c>> # <<>>
        BY <3>1
      <4>2. Head(<<c>>) = c /\ Tail(<<c>>) = <<>>
        OBVIOUS
      <4>3. AllBytes(<<c>>) = c \o <<>>
        BY <4>1, <4>2, FirstBytes, NoBuffers
      <4> QED BY <3>1, <4>3, ConcatEmptySeq
    <3> QED BY <2>2, <3>1, <3>2, <3>3, <3>4 DEF ChunkShowsProgress
  <2> QED BY <2>3, <2>4
<1> QED BY <1>1, CollectedAlways, PTL

\* The trailers of all frames, merged as they came, are read at most once, and
\* are lost only where aggregate() or to_bytes() drops them.
THEOREM TrailersReadOnce == Spec => []TrailersConserved
<1>1. CollectedInv => TrailersConserved
  <2>1. TotalTrailers = TrailersAhead(script)
    BY DEF TotalTrailers, TrailersAhead, Merged, TrailersIn, Having, TrailersOf
  <2> HIDE DEF TrailersAhead
  <2> QED BY <2>1 DEF CollectedInv, TrailersOnce, TrailersConserved
<1> QED BY <1>1, CollectedAlways, PTL

\* A reader that reads as long as something remains is done at last: with every
\* advance less remains. That there is something to advance over is what
\* ChunkShowsProgress says.
THEOREM ReadsShorten == Spec => [][ReadAndAdvance => Remaining' < Remaining]_vars
<1>1. CollectedInv /\ [Next]_vars => [ReadAndAdvance => Remaining' < Remaining]_vars
  <2> SUFFICES ASSUME CollectedInv, ReadAndAdvance PROVE Remaining' < Remaining
    OBVIOUS
  <2>1. PICK cnt \in 1..Remaining : bufs' = Advance(bufs, cnt)
    BY DEF ReadAndAdvance
  <2>2. bufs \in Buffers /\ cnt \in 0..Len(AllBytes(bufs))
    BY <2>1 DEF CollectedInv, CollectedTypes, Remaining
  <2>3. /\ bufs' \in Seq(Seq(Byte))
        /\ \E skipped \in Seq(Byte) :
             Len(skipped) = cnt /\ AllBytes(bufs) = skipped \o AllBytes(bufs')
    BY <2>1, <2>2, AdvanceSkips DEF Buffers
  <2>4. PICK skipped \in Seq(Byte) :
          Len(skipped) = cnt /\ AllBytes(bufs) = skipped \o AllBytes(bufs')
    BY <2>3
  <2>5. AllBytes(bufs') \in Seq(Byte)
    BY <2>3, AllBytesType
  <2>6. Len(AllBytes(bufs)) = cnt + Len(AllBytes(bufs'))
    BY <2>4, <2>5, ConcatProperties
  <2>7. Len(AllBytes(bufs')) \in Nat /\ cnt \in Nat \ {0}
    BY <2>1, <2>5, LenProperties
  <2> QED BY <2>6, <2>7 DEF Remaining
<1> QED BY <1>1, CollectedAlways, PTL DEF Spec

\* The future does not sleep without a waker: what it polled last was pending and
\* has kept it, since the loop stops at nothing else that leaves the future open.
THEOREM CollectWakeupsKept == Spec => [](task = "parked" => woken)
<1> DEFINE Wakes == task = "parked" => woken
<1>1. Init => Wakes
  BY DEF Init
<1>2. CollectedInv /\ Wakes /\ [Next]_vars => Wakes'
  <2> SUFFICES ASSUME CollectedInv, Wakes, [Next]_vars PROVE Wakes'
    OBVIOUS
  <2>1. CASE PollCollect
    <3> DEFINE last == Poll(SubSeq(body, ReadyFrames(body) + 1, Len(body)))
    <3>1. \/ last \notin {End, Failure} /\ woken' = (last = Pending)
          \/ task' = task /\ woken' = woken
      BY <2>1 DEF PollCollect, Polls
    <3>2. last \in {Pending, End, Failure}
      BY FailureStays DEF CollectedInv, CollectedTypes
    <3> HIDE DEF last
    <3> QED BY <3>1, <3>2
  <2>2. CASE Wake
    BY <2>2 DEF Wake
  <2>3. CASE UNCHANGED <<task, woken>>
    BY <2>3
  <2> QED BY <2>1, <2>2, <2>3
      DEF Next, Failed, PollFrame, TakeTrailers, Aggregate, ReadAndAdvance,
        ReadVectored, CopyToBytes, vars, collectVars
<1> HIDE DEF Wakes
<1>3. Spec => []Wakes
  BY <1>1, <1>2, CollectedAlways, PTL DEF Spec
<1> QED BY <1>3 DEF Wakes

\* Every poll of the future resolves it or leaves less of the body: with the
\* waker kept, it cannot be polled for ever.
THEOREM PollsShorten ==
  Spec => [][PollCollect => phase' # "collecting" \/ Len(body') < Len(body)]_vars
<1>1. CollectedInv /\ [Next]_vars =>
        [PollCollect => phase' # "collecting" \/ Len(body') < Len(body)]_vars
  <2> SUFFICES ASSUME CollectedInv, PollCollect, phase' = "collecting"
               PROVE  Len(body') < Len(body)
    OBVIOUS
  <2> DEFINE n == ReadyFrames(body) + 1
             m == Len(body)
             last == Poll(SubSeq(body, n, m))
  <2>1. /\ body' = SubSeq(body, n + 1, m) /\ phase = "collecting"
        /\ \/ last \notin {End, Failure}
           \/ phase' = IF last = End THEN "body" ELSE "failed"
    BY DEF PollCollect, Polls, Resolved
  <2>2. body \in Seq(Result) /\ m \in Nat /\ n \in 1..(m + 1)
    BY LoopStops, LenProperties DEF CollectedInv, CollectedTypes
  <2>3. n <= m
    <3> SUFFICES ASSUME n > m PROVE FALSE
      BY <2>2
    <3>1. SubSeq(body, n, m) = <<>>
      BY <2>2, SubSeqEmpty
    <3>2. last = End
      BY <3>1 DEF Poll
    <3> HIDE DEF last
    <3> QED BY <2>1, <3>2
  <2>4. n \in 0..Len(body)
    BY <2>2, <2>3
  <2> HIDE DEF n
  <2>5. Len(SubSeq(body, n + 1, Len(body))) = Len(body) - n
    BY <2>2, <2>4, CutInTwo
  <2> QED BY <2>1, <2>2, <2>5
<1> QED BY <1>1, CollectedAlways, PTL DEF Spec
=============================================================================
