---------------------------- MODULE BodiesProofs ----------------------------
(***************************************************************************)
(* What the operators of Bodies compute, for bodies of every length. Each   *)
(* induction is over numbers, by the least-number principle: the least     *)
(* number that is no instance.                                             *)
(***************************************************************************)
EXTENDS Bodies, SequenceTheorems, WellFoundedInduction, TLAPS

-----------------------------------------------------------------------------
(* Results and scripts.                                                    *)

LEMMA FrameTypes ==
  /\ \A f \in DataFrame : f = Data(f.size) /\ f.size \in U64
  /\ \A f \in TrailerFrame : f = Trailers(f.map) /\ f.map \in HeaderMap
  /\ DataFrame \cup TrailerFrame \subseteq AnyFrame
BY FrameAssumption DEF Data, Trailers, AnyFrame

\* A result is a frame of a type, or one of the three that carry none.
LEMMA ResultKinds ==
  ASSUME NEW r \in Result
  PROVE  /\ IsFrame(r) => r \in AnyFrame
         /\ IsData(r) => r \in DataFrame
         /\ ~IsFrame(r) => r \in {Pending, End, Failure}
         /\ IsFrame(r) => r \notin {Pending, End, Failure}
<1>1. CASE r \in DataFrame
  BY <1>1, FrameTypes
  DEF Data, IsFrame, IsData, Pending, End, Failure
<1>2. CASE r \in TrailerFrame
  BY <1>2, FrameTypes
  DEF Trailers, IsFrame, IsData, Pending, End, Failure
<1>3. CASE r \in {Pending, End, Failure}
  BY <1>3 DEF IsFrame, IsData, Pending, End, Failure
<1> QED BY <1>1, <1>2, <1>3 DEF Result

\* The three results without a frame are told apart.
LEMMA ResultsDiffer ==
  /\ Pending # End /\ Pending # Failure /\ End # Failure
  /\ End.kind = "end" /\ Failure.kind = "error"
  /\ ~IsFrame(Pending) /\ ~IsFrame(End) /\ ~IsFrame(Failure)
BY DEF Pending, End, Failure, IsFrame

LEMMA ScriptTypes ==
  ASSUME NEW s \in Seq(Result)
  PROVE  /\ Poll(s) \in Result
         /\ Rest(s) \in Seq(Result)
BY HeadTailProperties DEF Poll, Rest, Result

-----------------------------------------------------------------------------
(* Induction and recursion on numbers.                                     *)

\* The least of a set of numbers is one of them.
LEMMA LeastOfSome ==
  ASSUME NEW S, S \subseteq Nat, S # {}
  PROVE  /\ Min(S) \in S
         /\ \A y \in S : Min(S) <= y
<1> DEFINE R == {ss \in Nat \X Nat : ss[1] < ss[2]}
<1>1. IsWellFoundedOn(R, Nat)
  BY NatLessThanWellFounded DEF OpToRel
<1> HIDE DEF R
<1>2. PICK x \in S : \A y \in S : ~(<<y, x>> \in R)
  BY <1>1, WFMin
<1>3. ASSUME NEW y \in S PROVE x <= y
  <2>1. x \in Nat /\ y \in Nat
    OBVIOUS
  <2>2. y < x => <<y, x>> \in R
    BY <2>1 DEF R
  <2>3. ~(y < x)
    BY <1>2, <2>2
  <2> QED BY <2>1, <2>3
<1> QED BY <1>3 DEF Min

\* The largest of a set of numbers below another is one of them.
LEMMA MostOfSome ==
  ASSUME NEW n \in Nat, NEW S, S \subseteq 0..n, S # {}
  PROVE  /\ Max(S) \in S
         /\ \A y \in S : y <= Max(S)
<1> DEFINE T == {n - x : x \in S}
<1>1. T \subseteq Nat /\ T # {}
  <2>1. \A x \in S : x \in 0..n
    OBVIOUS
  <2>2. \A x \in S : n - x \in Nat
    BY <2>1
  <2> QED BY <2>2
<1>2. Min(T) \in T /\ \A y \in T : Min(T) <= y
  <2> HIDE DEF T
  <2> QED BY <1>1, LeastOfSome
<1>3. PICK x \in S : Min(T) = n - x
  BY <1>2
<1>4. ASSUME NEW y \in S PROVE x >= y
  <2>1. n - y \in T /\ n - x <= n - y
    BY <1>2, <1>3
  <2>2. x \in 0..n /\ y \in 0..n
    OBVIOUS
  <2> QED BY <2>1, <2>2
<1>5. Max(S) \in S /\ \A y \in S : Max(S) >= y
  BY <1>4 DEF Max
<1>6. \A y \in S : y \in Nat
  OBVIOUS
<1> QED BY <1>5, <1>6

\* The largest number is the one that is at least as large as all.
LEMMA MostIs ==
  ASSUME NEW n \in Nat, NEW S, S \subseteq 0..n,
         NEW x \in S, \A y \in S : y <= x
  PROVE  Max(S) = x
<1>1. Max(S) \in S /\ \A y \in S : y <= Max(S)
  BY MostOfSome
<1>2. x <= Max(S) /\ Max(S) <= x
  BY <1>1
<1>3. x \in 0..n /\ Max(S) \in 0..n
  BY <1>1
<1> HIDE DEF Max
<1> QED BY <1>2, <1>3

\* What is handed on from each number to the next holds of all.
LEMMA HandedOn ==
  ASSUME NEW n \in Nat, NEW Good, 0 \in Good,
         \A k \in 1..n : k - 1 \in Good => k \in Good
  PROVE  0..n \subseteq Good
<1> SUFFICES ASSUME ~(0..n \subseteq Good) PROVE FALSE
  OBVIOUS
<1> DEFINE Bad == (0..n) \ Good
<1>1. Bad \subseteq Nat /\ Bad # {}
  OBVIOUS
<1> HIDE DEF Bad
<1>2. PICK k \in Bad : \A j \in Bad : k <= j
  BY <1>1, LeastOfSome
<1>3. k \in 1..n /\ k \notin Good
  BY <1>2 DEF Bad
<1>4. k - 1 \in Bad
  BY <1>3 DEF Bad
<1> QED BY <1>2, <1>3, <1>4

\* How a value in V is made of the one before it, n times.
Steps(n, V) == [1..n -> [V -> V]]

\* The values g from a first one on are made by the steps.
Follows(g, n, base, step) ==
  g[0] = base /\ \A k \in 1..n : g[k] = step[k][g[k - 1]]

\* A value can be computed from a first one by any steps.
LEMMA Computable ==
  ASSUME NEW n \in Nat, NEW V, NEW base \in V,
         NEW step \in Steps(n, V)
  PROVE  \E g \in [0..n -> V] : Follows(g, n, base, step)
<1> DEFINE Reaches(m, g) == Follows(g, m, base, step)
    Good == {m \in 0..n : \E g \in [0..m -> V] : Reaches(m, g)}
<1>1. 0 \in Good
  <2>1. Reaches(0, [k \in 0..0 |-> base])
    BY DEF Follows
  <2>2. [k \in 0..0 |-> base] \in [0..0 -> V]
    OBVIOUS
  <2> HIDE DEF Reaches
  <2>3. \E g \in [0..0 -> V] : Reaches(0, g)
    BY <2>1, <2>2
  <2> QED BY <2>3
<1>2. ASSUME NEW m \in 1..n, m - 1 \in Good
      PROVE  m \in Good
  <2>1. PICK g \in [0..(m - 1) -> V] : Reaches(m - 1, g)
    BY <1>2
  <2> DEFINE h == [k \in 0..m |-> IF k = m THEN step[m][g[m - 1]] ELSE g[k]]
  <2>2. g[m - 1] \in V
    BY <2>1
  <2>3. h \in [0..m -> V]
    BY <2>1, <2>2 DEF Steps
  <2>4. Reaches(m, h)
    <3>1. h[0] = base
      BY <2>1 DEF Follows
    <3>2. ASSUME NEW k \in 1..m PROVE h[k] = step[k][h[k - 1]]
      <4>1. h[k - 1] = g[k - 1]
        OBVIOUS
      <4>2. CASE k = m
        BY <4>1, <4>2
      <4>3. CASE k # m
        <5>1. k \in 1..(m - 1) /\ h[k] = g[k]
          BY <4>3
        <5> QED BY <2>1, <4>1, <5>1 DEF Follows
      <4> QED BY <4>2, <4>3
    <3> QED BY <3>1, <3>2 DEF Follows
  <2> HIDE DEF Reaches, h
  <2>5. \E f \in [0..m -> V] : Reaches(m, f)
    BY <2>3, <2>4
  <2> QED BY <2>5
<1>3. n \in Good
  <2>1. \A m \in 1..n : m - 1 \in Good => m \in Good
    BY <1>2
  <2> HIDE DEF Good
  <2>2. 0..n \subseteq Good
    BY <1>1, <2>1, HandedOn
  <2> QED BY <2>2
<1> QED BY <1>3 DEF Good

-----------------------------------------------------------------------------
(* The frames that are left of a body, by the result that comes next.       *)

Before(r, rest, kinds) ==
  IF r \in {End, Failure} THEN <<>>
  ELSE IF r.kind \in kinds THEN <<r>> \o rest
  ELSE rest

LEMMA BeforeType ==
  ASSUME NEW r \in Result, NEW rest \in Seq(AnyFrame),
         NEW kinds, kinds \subseteq {"data", "trailers"}
  PROVE  Before(r, rest, kinds) \in Seq(AnyFrame)
<1>1. r.kind \in kinds => r \in AnyFrame
  BY ResultKinds DEF IsFrame
<1> QED BY <1>1, EmptySeq DEF Before

\* The function that LeftOf is the last value of.
LEMMA LeftOfComputes ==
  ASSUME NEW s \in Seq(Result),
         NEW kinds, kinds \subseteq {"data", "trailers"}
  PROVE  \E g \in [0..Len(s) -> Seq(AnyFrame)] :
           /\ g[0] = <<>> /\ LeftOf(s, kinds) = g[Len(s)]
           /\ \A k \in 1..Len(s) :
                g[k] = Before(s[Len(s) - k + 1], g[k - 1], kinds)
<1> DEFINE n == Len(s)
    V == Seq(AnyFrame)
    step == [k \in 1..n |-> [v \in V |-> Before(s[n - k + 1], v, kinds)]]
    Is(f) == f = [k \in 0..n |-> IF k = 0 THEN <<>>
                   ELSE Before(s[n - k + 1], f[k - 1], kinds)]
    left == CHOOSE f : Is(f)
<1>1. n \in Nat /\ \A k \in 1..n : s[n - k + 1] \in Result
  BY LenProperties
<1>2. step \in Steps(n, V)
  <2>1. \A k \in 1..n, v \in V : Before(s[n - k + 1], v, kinds) \in V
    BY <1>1, BeforeType
  <2> QED BY <2>1 DEF Steps
<1>3. <<>> \in V
  BY EmptySeq
<1>4. PICK g \in [0..n -> V] :
        g[0] = <<>> /\ \A k \in 1..n : g[k] = step[k][g[k - 1]]
  <2> HIDE DEF n, V, step
  <2>1. \E g \in [0..n -> V] : Follows(g, n, <<>>, step)
    <3>1. n \in Nat
      BY <1>1
    <3> QED BY <3>1, <1>2, <1>3, Computable, Zenon
  <2> QED BY <2>1 DEF Follows
<1>5. \A k \in 1..n : g[k] = Before(s[n - k + 1], g[k - 1], kinds)
  <2> SUFFICES ASSUME NEW k \in 1..n
               PROVE  g[k] = Before(s[n - k + 1], g[k - 1], kinds)
    OBVIOUS
  <2>1. g[k - 1] \in V
    BY <1>1, <1>4
  <2> QED BY <1>4, <2>1
<1>6. Is(g)
  <2>1. \A k \in 0..n : k = 0 \/ k \in 1..n
    BY <1>1
  <2>2. g = [k \in 0..n |-> g[k]]
    OBVIOUS
  <2> QED BY <1>4, <1>5, <2>1, <2>2
<1>7. Is(left)
  BY <1>6
<1>8. LeftOf(s, kinds) = left[n]
  BY DEF LeftOf, Before
<1> HIDE DEF left, V, n
<1>9. /\ left[0] = <<>>
      /\ \A k \in 1..n : left[k] = Before(s[n - k + 1], left[k - 1], kinds)
  <2>1. 0 \in 0..n /\ \A k \in 1..n : k \in 0..n /\ k # 0
    BY <1>1
  <2> QED BY <1>7, <2>1
<1>10. left \in [0..n -> V]
  <2> DEFINE Good == {k \in 0..n : left[k] \in V}
  <2>1. 0 \in Good
    BY <1>1, <1>3, <1>9
  <2>2. ASSUME NEW k \in 1..n, k - 1 \in Good PROVE k \in Good
    <3>1. s[n - k + 1] \in Result /\ left[k - 1] \in V
      BY <1>1, <2>2
    <3>2. Before(s[n - k + 1], left[k - 1], kinds) \in V
      BY <3>1, BeforeType DEF V
    <3> QED BY <1>1, <1>9, <3>2
  <2> HIDE DEF Good
  <2>3. 0..n \subseteq Good
    BY <1>1, <2>1, <2>2, HandedOn
  <2>4. \A k \in 0..n : left[k] \in V
    BY <2>3 DEF Good
  <2> QED BY <1>7, <2>4
<1> QED BY <1>8, <1>9, <1>10 DEF V, n

LEMMA LeftOfType ==
  ASSUME NEW s \in Seq(Result),
         NEW kinds, kinds \subseteq {"data", "trailers"}
  PROVE  LeftOf(s, kinds) \in Seq(AnyFrame)
<1>1. Len(s) \in 0..Len(s)
  BY LenProperties
<1>2. PICK g \in [0..Len(s) -> Seq(AnyFrame)] : LeftOf(s, kinds) = g[Len(s)]
  BY LeftOfComputes
<1> QED BY <1>1, <1>2

\* The frames left are those of the next result and of the rest.
LEMMA LeftOfUnfolds ==
  ASSUME NEW s \in Seq(Result), s # <<>>,
         NEW kinds, kinds \subseteq {"data", "trailers"}
  PROVE  LeftOf(s, kinds) = Before(Head(s), LeftOf(Tail(s), kinds), kinds)
<1> DEFINE n == Len(s)
           t == Tail(s)
<1>1. /\ n \in Nat \ {0} /\ t \in Seq(Result) /\ Len(t) = n - 1
      /\ Head(s) = s[1] /\ \A i \in 1..(n - 1) : t[i] = s[i + 1]
  BY EmptySeq, HeadTailProperties
<1>2. PICK g \in [0..n -> Seq(AnyFrame)] :
        /\ g[0] = <<>> /\ LeftOf(s, kinds) = g[n]
        /\ \A k \in 1..n : g[k] = Before(s[n - k + 1], g[k - 1], kinds)
  BY LeftOfComputes
<1>3. PICK h \in [0..(n - 1) -> Seq(AnyFrame)] :
        /\ h[0] = <<>> /\ LeftOf(t, kinds) = h[n - 1]
        /\ \A k \in 1..(n - 1) :
             h[k] = Before(t[(n - 1) - k + 1], h[k - 1], kinds)
  <2> HIDE DEF t
  <2> QED BY <1>1, LeftOfComputes
<1> HIDE DEF n, t
<1> DEFINE Good == {k \in 0..(n - 1) : g[k] = h[k]}
<1>4. 0 \in Good
  BY <1>1, <1>2, <1>3
<1>5. ASSUME NEW k \in 1..(n - 1), k - 1 \in Good PROVE k \in Good
  <2>1. t[(n - 1) - k + 1] = s[n - k + 1]
    BY <1>1
  <2> QED BY <1>1, <1>2, <1>3, <1>5, <2>1
<1>6. n - 1 \in Good
  <2> HIDE DEF Good
  <2> DEFINE m == n - 1
  <2>1. m \in Nat
    BY <1>1
  <2>2. \A k \in 1..m : k - 1 \in Good => k \in Good
    BY <1>5
  <2> HIDE DEF m
  <2>3. 0..m \subseteq Good
    BY <1>4, <2>1, <2>2, HandedOn
  <2> QED BY <2>1, <2>3 DEF m
<1>7. g[n] = Before(s[1], g[n - 1], kinds)
  BY <1>1, <1>2
<1> QED BY <1>1, <1>2, <1>3, <1>6, <1>7 DEF t

LEMMA NothingLeft ==
  ASSUME NEW kinds, kinds \subseteq {"data", "trailers"}
  PROVE  LeftOf(<<>>, kinds) = <<>>
<1>1. <<>> \in Seq(Result) /\ Len(<<>>) = 0
  BY EmptySeq
<1>2. PICK g \in [0..Len(<<>>) -> Seq(AnyFrame)] :
        g[0] = <<>> /\ LeftOf(<<>>, kinds) = g[Len(<<>>)]
  BY <1>1, LeftOfComputes
<1> QED BY <1>1, <1>2

\* No frame comes before the first Ready(None) or error.
Stopped(s, kinds) ==
  \A i \in 1..Len(s) :
    s[i].kind \in kinds => \E k \in 1..i : s[k] \in {End, Failure}

LEMMA StoppedLeavesNothing ==
  ASSUME NEW s \in Seq(Result), NEW kinds, kinds \subseteq {"data", "trailers"},
         Stopped(s, kinds)
  PROVE  LeftOf(s, kinds) = <<>>
<1> DEFINE Holds(m) ==
      \A t \in Seq(Result) :
        Len(t) = m /\ Stopped(t, kinds) => LeftOf(t, kinds) = <<>>
    Good == {m \in 0..Len(s) : Holds(m)}
<1>1. Len(s) \in Nat
  BY LenProperties
<1>2. Holds(0)
  BY EmptySeq, NothingLeft
<1>3. ASSUME NEW m \in 1..Len(s), Holds(m - 1)
      PROVE  Holds(m)
  <2> SUFFICES ASSUME NEW t \in Seq(Result), Len(t) = m, Stopped(t, kinds)
               PROVE  LeftOf(t, kinds) = <<>>
    OBVIOUS
  <2>1. /\ t # <<>> /\ Head(t) = t[1]
        /\ Tail(t) \in Seq(Result) /\ Len(Tail(t)) = m - 1
        /\ \A i \in 1..(m - 1) : Tail(t)[i] = t[i + 1]
    BY <1>1, EmptySeq, HeadTailProperties
  <2>2. LeftOf(t, kinds) = Before(t[1], LeftOf(Tail(t), kinds), kinds)
    BY <2>1, LeftOfUnfolds
  <2>3. CASE t[1] \in {End, Failure}
    BY <2>2, <2>3 DEF Before
  <2>4. CASE t[1] \notin {End, Failure}
    <3>1. t[1].kind \notin kinds
      BY <1>1, <2>4 DEF Stopped
    <3>2. Stopped(Tail(t), kinds)
      <4> SUFFICES ASSUME NEW i \in 1..(m - 1), Tail(t)[i].kind \in kinds
                   PROVE  \E k \in 1..i : Tail(t)[k] \in {End, Failure}
        BY <2>1 DEF Stopped
      <4>1. i + 1 \in 1..Len(t) /\ t[i + 1].kind \in kinds
        BY <1>1, <2>1
      <4>2. PICK k \in 1..(i + 1) : t[k] \in {End, Failure}
        BY <4>1 DEF Stopped
      <4>3. k # 1
        BY <2>4, <4>2
      <4>4. k - 1 \in 1..i /\ Tail(t)[k - 1] = t[k]
        BY <1>1, <2>1, <4>3
      <4> QED BY <4>2, <4>4
    <3>3. LeftOf(Tail(t), kinds) = <<>>
      BY <1>3, <2>1, <3>2
    <3> QED BY <2>2, <2>4, <3>1, <3>3 DEF Before
  <2> QED BY <2>3, <2>4
<1> HIDE DEF Holds
<1>4. 0 \in Good
  BY <1>1, <1>2
<1>5. \A m \in 1..Len(s) : m - 1 \in Good => m \in Good
  BY <1>1, <1>3
<1>6. 0..Len(s) \subseteq Good
  <2> HIDE DEF Good
  <2> QED BY <1>1, <1>4, <1>5, HandedOn
<1> QED BY <1>1, <1>6 DEF Holds

LEMMA FailsUnfolds ==
  ASSUME NEW s \in Seq(Result), s # <<>>
  PROVE  FailsLater(s) <=>
           Head(s) = Failure \/ (Head(s) # End /\ FailsLater(Tail(s)))
<1> DEFINE n == Len(s)
<1>1. /\ n \in Nat \ {0} /\ Head(s) = s[1] /\ DOMAIN s = 1..n
      /\ DOMAIN Tail(s) = 1..(n - 1)
      /\ \A i \in 1..(n - 1) : Tail(s)[i] = s[i + 1]
  BY EmptySeq, HeadTailProperties, LenProperties
<1> HIDE DEF n
<1>2. ASSUME FailsLater(s), Head(s) # Failure
      PROVE  Head(s) # End /\ FailsLater(Tail(s))
  <2>1. PICK i \in 1..n : s[i] = Failure /\ \A j \in 1..(i - 1) : s[j] # End
    BY <1>1, <1>2 DEF FailsLater
  <2>2. i - 1 \in 1..(n - 1) /\ 1 \in 1..(i - 1)
    BY <1>1, <1>2, <2>1
  <2>3. Tail(s)[i - 1] = Failure
    BY <1>1, <2>1, <2>2
  <2>4. \A j \in 1..((i - 1) - 1) : Tail(s)[j] # End
    BY <1>1, <2>1, <2>2
  <2> QED BY <1>1, <2>1, <2>2, <2>3, <2>4 DEF FailsLater
<1>3. ASSUME Head(s) = Failure PROVE FailsLater(s)
  BY <1>1, <1>3 DEF FailsLater
<1>4. ASSUME Head(s) # End, FailsLater(Tail(s)) PROVE FailsLater(s)
  <2>1. PICK i \in 1..(n - 1) :
          Tail(s)[i] = Failure /\ \A j \in 1..(i - 1) : Tail(s)[j] # End
    BY <1>1, <1>4 DEF FailsLater
  <2>2. i + 1 \in 1..n /\ s[i + 1] = Failure
    BY <1>1, <2>1
  <2>3. ASSUME NEW j \in 1..((i + 1) - 1) PROVE s[j] # End
    <3>1. CASE j = 1
      BY <1>1, <1>4, <3>1
    <3>2. CASE j # 1
      <4>1. j - 1 \in 1..(i - 1) /\ Tail(s)[j - 1] = s[j]
        BY <1>1, <3>2
      <4> QED BY <2>1, <4>1
    <3> QED BY <3>1, <3>2
  <2> QED BY <1>1, <2>2, <2>3 DEF FailsLater
<1> QED BY <1>2, <1>3, <1>4

LEMMA NothingFails == ~FailsLater(<<>>)
BY EmptySeq DEF FailsLater

-----------------------------------------------------------------------------
(* What a body has left, after the result that a poll of it gives.          *)

\* An end is the end of nothing, or the result that ends a body.
LEMMA PollUnfolds ==
  ASSUME NEW s \in Seq(Result), NEW kinds, kinds \subseteq {"data", "trailers"}
  PROVE  /\ LeftOf(s, kinds) = Before(Poll(s), LeftOf(Rest(s), kinds), kinds)
         /\ FailsLater(s) <=>
              Poll(s) = Failure \/ (Poll(s) # End /\ FailsLater(Rest(s)))
<1>1. CASE s = <<>>
  <2>1. Poll(s) = End /\ LeftOf(s, kinds) = <<>> /\ ~FailsLater(s)
    BY <1>1, NothingLeft, NothingFails DEF Poll
  <2> QED BY <2>1, ResultsDiffer DEF Before
<1>2. CASE s # <<>>
  <2>1. Poll(s) = Head(s) /\ Rest(s) = Tail(s)
    BY <1>2 DEF Poll, Rest
  <2> QED BY <1>2, <2>1, LeftOfUnfolds, FailsUnfolds
<1> QED BY <1>1, <1>2

LEMMA FramesLeftUnfolds ==
  ASSUME NEW s \in Seq(Result)
  PROVE  LET r == Poll(s)
             t == Rest(s)
         IN /\ IsFrame(r) => FramesLeft(s) = <<r>> \o FramesLeft(t)
            /\ r = Pending => FramesLeft(s) = FramesLeft(t)
            /\ r \in {End, Failure} => FramesLeft(s) = <<>>
            /\ IsFrame(r) \/ r = Pending => (FailsLater(s) <=> FailsLater(t))
            /\ r = End => ~FailsLater(s)
            /\ r = Failure => FailsLater(s)
            /\ FramesLeft(s) \in Seq(AnyFrame)
<1> DEFINE kinds == {"data", "trailers"}
<1>1. /\ LeftOf(s, kinds) = Before(Poll(s), LeftOf(Rest(s), kinds), kinds)
      /\ FailsLater(s) <=>
           Poll(s) = Failure \/ (Poll(s) # End /\ FailsLater(Rest(s)))
  BY PollUnfolds
<1>2. LeftOf(s, kinds) \in Seq(AnyFrame)
  BY LeftOfType
<1>3. IsFrame(Poll(s)) => Poll(s) \notin {Pending, End, Failure}
  BY ScriptTypes, ResultKinds
<1> QED BY <1>1, <1>2, <1>3, ResultsDiffer DEF FramesLeft, Before, IsFrame

LEMMA DataLeftUnfolds ==
  ASSUME NEW s \in Seq(Result)
  PROVE  LET r == Poll(s)
             t == Rest(s)
         IN /\ IsData(r) => DataLeft(s) = <<r>> \o DataLeft(t)
            /\ r = Pending => DataLeft(s) = DataLeft(t)
            /\ r \in {End, Failure} => DataLeft(s) = <<>>
            /\ r.kind = "trailers" => DataLeft(s) = DataLeft(t)
            /\ DataLeft(s) \in Seq(AnyFrame)
<1>1. LeftOf(s, {"data"}) = Before(Poll(s), LeftOf(Rest(s), {"data"}), {"data"})
  BY PollUnfolds
<1>2. LeftOf(s, {"data"}) \in Seq(AnyFrame)
  BY LeftOfType
<1>3. /\ IsData(Poll(s)) => Poll(s) \notin {Pending, End, Failure}
      /\ Poll(s).kind = "trailers" => Poll(s) \notin {Pending, End, Failure}
  BY ScriptTypes, ResultKinds DEF IsFrame, IsData
<1> QED BY <1>1, <1>2, <1>3, ResultsDiffer DEF DataLeft, Before, IsData, IsFrame

\* The frames of a sequence but the last are not its last.
LEMMA TrailersLeftUnfolds ==
  ASSUME NEW s \in Seq(Result)
  PROVE  LET r == Poll(s)
             t == Rest(s)
         IN /\ IsData(r) \/ r = Pending => TrailersLeft(s) = TrailersLeft(t)
            /\ r \in {End, Failure} => TrailersLeft(s) = End
            /\ r.kind = "trailers" /\ FramesLeft(t) = <<>> => TrailersLeft(s) = r
            /\ TrailersLeft(s) = End \/
                 (TrailersLeft(s) \in AnyFrame /\ ~IsData(TrailersLeft(s)))
<1> DEFINE r == Poll(s)
           t == Rest(s)
<1>1. r \in Result /\ t \in Seq(Result)
  BY ScriptTypes
<1>2. FramesLeft(s) \in Seq(AnyFrame) /\ FramesLeft(t) \in Seq(AnyFrame)
  BY <1>1, FramesLeftUnfolds
<1>3. r = Pending => TrailersLeft(s) = TrailersLeft(t)
  BY FramesLeftUnfolds DEF TrailersLeft
<1>4. r \in {End, Failure} => TrailersLeft(s) = End
  BY FramesLeftUnfolds DEF TrailersLeft
<1>5. ASSUME IsFrame(r)
      PROVE  /\ FramesLeft(s) # <<>>
             /\ Last(FramesLeft(s)) = IF FramesLeft(t) = <<>> THEN r
                                      ELSE Last(FramesLeft(t))
  <2>1. FramesLeft(s) = <<r>> \o FramesLeft(t)
    BY <1>5, FramesLeftUnfolds
  <2>2. r \in AnyFrame
    BY <1>1, <1>5, ResultKinds
  <2>3. <<r>> \in Seq(AnyFrame) /\ Len(<<r>>) = 1
    BY <2>2
  <2>4. /\ Len(FramesLeft(s)) = 1 + Len(FramesLeft(t))
        /\ \A i \in 1..(1 + Len(FramesLeft(t))) :
             FramesLeft(s)[i] = IF i <= 1 THEN <<r>>[i]
                                ELSE FramesLeft(t)[i - 1]
    BY <1>2, <2>1, <2>3, ConcatProperties
  <2>5. Len(FramesLeft(t)) \in Nat /\ (FramesLeft(t) = <<>> <=> Len(FramesLeft(t)) = 0)
    BY <1>2, EmptySeq, LenProperties
  <2> HIDE DEF r, t
  <2>6. FramesLeft(s) # <<>>
    BY <2>4, <2>5, EmptySeq
  <2>7. CASE FramesLeft(t) = <<>>
    BY <2>4, <2>5, <2>6, <2>7 DEF Last
  <2>8. CASE FramesLeft(t) # <<>>
    BY <2>4, <2>5, <2>6, <2>8 DEF Last
  <2> QED BY <2>6, <2>7, <2>8
<1>6. IsData(r) => TrailersLeft(s) = TrailersLeft(t)
  BY <1>5 DEF TrailersLeft, IsData, IsFrame
<1>7. r.kind = "trailers" /\ FramesLeft(t) = <<>> => TrailersLeft(s) = r
  BY <1>5 DEF TrailersLeft, IsData, IsFrame
<1>8. TrailersLeft(s) = End \/
        (TrailersLeft(s) \in AnyFrame /\ ~IsData(TrailersLeft(s)))
  <2>1. FramesLeft(s) # <<>> => Last(FramesLeft(s)) \in AnyFrame
    BY <1>2, EmptySeq, ElementOfSeq, LenProperties DEF Last
  <2> QED BY <2>1 DEF TrailersLeft
<1> QED BY <1>3, <1>4, <1>6, <1>7, <1>8

\* Trailers are the last frame of a body, and the rest of a body is such a body.
LEMMA TrailersComplete ==
  ASSUME NEW s \in Seq(Result), TrailersLast(s)
  PROVE  /\ TrailersLast(Rest(s))
         /\ Poll(s).kind = "trailers" =>
              FramesLeft(Rest(s)) = <<>> /\ DataLeft(Rest(s)) = <<>>
<1>1. CASE s = <<>>
  BY <1>1 DEF Rest, Poll, End
<1>2. CASE s # <<>>
  <2> DEFINE n == Len(s)
             t == Tail(s)
  <2>1. /\ n \in Nat \ {0} /\ Head(s) = s[1] /\ DOMAIN s = 1..n
        /\ t \in Seq(Result) /\ Len(t) = n - 1 /\ DOMAIN t = 1..(n - 1)
        /\ \A i \in 1..(n - 1) : t[i] = s[i + 1]
    BY <1>2, EmptySeq, HeadTailProperties, LenProperties
  <2>2. Poll(s) = s[1] /\ Rest(s) = t
    BY <1>2, <2>1 DEF Poll, Rest
  <2> HIDE DEF n, t
  <2>3. TrailersLast(t)
    <3> SUFFICES ASSUME NEW i \in 1..(n - 1), NEW j \in 1..(n - 1), i < j,
                        t[i].kind = "trailers", IsFrame(t[j])
                 PROVE  \E k \in i..j : t[k] \in {End, Failure}
      BY <2>1 DEF TrailersLast
    <3>1. /\ i + 1 \in 1..n /\ j + 1 \in 1..n /\ i + 1 < j + 1
          /\ s[i + 1].kind = "trailers" /\ IsFrame(s[j + 1])
      BY <2>1
    <3>2. PICK k \in (i + 1)..(j + 1) : s[k] \in {End, Failure}
      BY <2>1, <3>1 DEF TrailersLast
    <3>3. k - 1 \in i..j /\ k - 1 \in 1..(n - 1) /\ t[k - 1] = s[k]
      BY <2>1
    <3> QED BY <3>2, <3>3
  <2>4. ASSUME s[1].kind = "trailers", NEW kinds, kinds \subseteq {"data", "trailers"}
        PROVE  LeftOf(t, kinds) = <<>>
    <3>1. s[1] \notin {End, Failure}
      BY <2>4 DEF End, Failure
    <3>2. Stopped(t, kinds)
      <4> SUFFICES ASSUME NEW i \in 1..(n - 1), t[i].kind \in kinds
                   PROVE  \E k \in 1..i : t[k] \in {End, Failure}
        BY <2>1 DEF Stopped
      <4>1. i + 1 \in 1..n /\ 1 < i + 1 /\ IsFrame(s[i + 1])
        <5>1. t[i].kind \in {"data", "trailers"} /\ t[i] = s[i + 1]
          BY <2>1, <2>4
        <5> QED BY <2>1, <5>1 DEF IsFrame
      <4>2. PICK k \in 1..(i + 1) : s[k] \in {End, Failure}
        BY <2>1, <2>4, <4>1 DEF TrailersLast
      <4>3. k # 1
        BY <3>1, <4>2
      <4>4. k - 1 \in 1..i /\ k - 1 \in 1..(n - 1) /\ t[k - 1] = s[k]
        BY <2>1, <4>3
      <4> QED BY <4>2, <4>4
    <3> QED BY <2>1, <2>4, <3>2, StoppedLeavesNothing
  <2>5. {"data", "trailers"} \subseteq {"data", "trailers"} /\
        {"data"} \subseteq {"data", "trailers"}
    OBVIOUS
  <2> QED BY <2>2, <2>3, <2>4, <2>5 DEF FramesLeft, DataLeft
<1> QED BY <1>1, <1>2

\* All a combinator goes by that lets trailers complete a body.
LEMMA BodyUnfolds ==
  ASSUME NEW s \in Seq(Result), TrailersLast(s)
  PROVE  LET r == Poll(s)
             t == Rest(s)
         IN /\ r = Pending =>
                 /\ DataLeft(s) = DataLeft(t)
                 /\ TrailersLeft(s) = TrailersLeft(t)
                 /\ CutShort(s) <=> CutShort(t)
            /\ IsData(r) =>
                 /\ DataLeft(s) = <<r>> \o DataLeft(t)
                 /\ TrailersLeft(s) = TrailersLeft(t)
                 /\ CutShort(s) <=> CutShort(t)
            /\ r = Failure => DataLeft(s) = <<>> /\ CutShort(s)
            /\ r = End \/ r.kind = "trailers" =>
                 /\ DataLeft(s) = <<>>
                 /\ TrailersLeft(s) = r
                 /\ ~CutShort(s)
<1> DEFINE r == Poll(s)
           t == Rest(s)
<1>1. t \in Seq(Result) /\ r \in Result
  BY ScriptTypes
<1>2. /\ r = Pending \/ IsData(r) =>
           /\ TrailersLeft(s) = TrailersLeft(t)
           /\ FailsLater(s) <=> FailsLater(t)
      /\ r = Pending => DataLeft(s) = DataLeft(t)
      /\ IsData(r) => DataLeft(s) = <<r>> \o DataLeft(t)
  BY FramesLeftUnfolds, DataLeftUnfolds, TrailersLeftUnfolds DEF IsData, IsFrame
<1>3. r = Failure => DataLeft(s) = <<>> /\ TrailersLeft(s) = End /\ FailsLater(s)
  BY FramesLeftUnfolds, DataLeftUnfolds, TrailersLeftUnfolds
<1>4. r = End => DataLeft(s) = <<>> /\ TrailersLeft(s) = End /\ ~FailsLater(s)
  BY FramesLeftUnfolds, DataLeftUnfolds, TrailersLeftUnfolds
<1>5. r.kind = "trailers" => DataLeft(s) = <<>> /\ TrailersLeft(s) = r /\ r # End
  <2>1. r.kind = "trailers" => FramesLeft(t) = <<>> /\ DataLeft(t) = <<>>
    BY TrailersComplete
  <2>2. r.kind = "trailers" => DataLeft(s) = DataLeft(t)
    BY DataLeftUnfolds
  <2>3. r.kind = "trailers" /\ FramesLeft(t) = <<>> => TrailersLeft(s) = r
    BY TrailersLeftUnfolds
  <2>4. r.kind = "trailers" => r # End
    BY DEF End
  <2> HIDE DEF r, t
  <2> QED BY <2>1, <2>2, <2>3, <2>4
<1> QED BY <1>2, <1>3, <1>4, <1>5 DEF CutShort

-----------------------------------------------------------------------------
(* The trailers of two sources.                                            *)

\* What a combinator keeps of a source that is complete.
KeptTrailers == {End} \cup {f \in AnyFrame : ~IsData(f)}

LEMMA KeptKinds ==
  ASSUME NEW a \in KeptTrailers, a # End
  PROVE  /\ a.map \in HeaderMap /\ a = Trailers(a.map)
         /\ IsFrame(a) /\ a.kind = "trailers"
         /\ a \notin {Pending, End, Failure}
BY FrameTypes DEF KeptTrailers, AnyFrame, IsData, IsFrame, Data, Trailers,
  Pending, End, Failure

LEMMA JoinedAsOwed ==
  ASSUME NEW a \in KeptTrailers, NEW b \in KeptTrailers
  PROVE  /\ Join(a, b) \in KeptTrailers
         /\ OwedTrailers(a, b) = Join(a, b)
<1>1. CASE a = End \/ b = End
  BY <1>1 DEF Join, OwedTrailers
<1>2. CASE a # End /\ b # End
  <2>1. a.map \in HeaderMap /\ b.map \in HeaderMap
    BY <1>2, KeptKinds
  <2>2. Merge(a.map, b.map) \in HeaderMap
    <3>1. PICK x \in SUBSET Name : a.map \in [x -> Value]
      BY <2>1 DEF HeaderMap
    <3>2. PICK y \in SUBSET Name : b.map \in [y -> Value]
      BY <2>1 DEF HeaderMap
    <3>3. Merge(a.map, b.map) \in [x \cup y -> Value]
      BY <3>1, <3>2 DEF Merge
    <3>4. x \cup y \in SUBSET Name
      OBVIOUS
    <3> QED BY <3>3, <3>4 DEF HeaderMap
  <2>3. Join(a, b) = Trailers(Merge(a.map, b.map))
    BY <1>2 DEF Join
  <2>4. Trailers(Merge(a.map, b.map)) \in KeptTrailers
    BY <2>2 DEF KeptTrailers, AnyFrame, Trailers, IsData
  <2> QED BY <1>2, <2>3, <2>4 DEF OwedTrailers, Merge
<1> QED BY <1>1, <1>2

\* The trailers of a body are such trailers.
LEMMA TrailersLeftType ==
  ASSUME NEW s \in Seq(Result)
  PROVE  TrailersLeft(s) \in KeptTrailers
BY TrailersLeftUnfolds DEF KeptTrailers

\* The results that the polls of a combinator tell apart.
LEMMA Kinds ==
  ASSUME NEW r \in Result
  PROVE  /\ IsData(r) => r \in AnyFrame /\ IsFrame(r) /\ r # Failure /\ r # Pending
         /\ r = End \/ r.kind = "trailers" => r \in KeptTrailers
         /\ r.kind = "end" <=> r = End
         /\ r.kind = "trailers" => IsFrame(r)
         /\ r.kind = "trailers" => r \notin {Pending, End, Failure}
         /\ r.kind = "trailers" => ~IsData(r)
<1>1. /\ IsFrame(r) => r \in AnyFrame /\ r \notin {Pending, End, Failure}
      /\ ~IsFrame(r) => r \in {Pending, End, Failure}
  BY ResultKinds
<1> QED BY <1>1, ResultsDiffer
  DEF IsFrame, IsData, KeptTrailers, Pending, End, Failure

LEMMA Kept ==
  ASSUME NEW a \in KeptTrailers
  PROVE  a \in AnyFrame \cup {End}
BY DEF KeptTrailers

-----------------------------------------------------------------------------
(* What a combinator owes that goes on after a body, with its trailers.     *)

Followed(s, after) ==
  DataLeft(s) \o (IF CutShort(s) THEN <<>> ELSE after[TrailersLeft(s)])

\* What comes after a frame that is owed first.
LEMMA MovedOut ==
  ASSUME NEW f \in AnyFrame, NEW a \in Seq(AnyFrame), NEW b \in Seq(AnyFrame)
  PROVE  (<<f>> \o a) \o b = <<f>> \o (a \o b)
<1>1. <<f>> \in Seq(AnyFrame)
  OBVIOUS
<1> QED BY <1>1, ConcatAssociative

LEMMA FollowedUnfolds ==
  ASSUME NEW s \in Seq(Result), TrailersLast(s),
         NEW after \in [KeptTrailers -> Seq(AnyFrame)]
  PROVE  LET r == Poll(s)
             u == Rest(s)
         IN /\ Followed(s, after) \in Seq(AnyFrame)
            /\ r = Pending => Followed(s, after) = Followed(u, after)
            /\ IsData(r) => Followed(s, after) = <<r>> \o Followed(u, after)
            /\ r = Failure => Followed(s, after) = <<>>
            /\ r = End \/ r.kind = "trailers" => Followed(s, after) = after[r]
<1> DEFINE r == Poll(s)
           u == Rest(s)
           more(v) == IF CutShort(v) THEN <<>> ELSE after[TrailersLeft(v)]
<1>1. r \in Result /\ u \in Seq(Result)
  BY ScriptTypes
<1>2. \A v \in Seq(Result) :
        more(v) \in Seq(AnyFrame) /\ DataLeft(v) \in Seq(AnyFrame)
  BY TrailersLeftType, EmptySeq, DataLeftUnfolds
<1>3. Followed(s, after) \in Seq(AnyFrame)
  BY <1>2 DEF Followed
<1>4. r = Pending => Followed(s, after) = Followed(u, after)
  BY BodyUnfolds DEF Followed
<1>5. ASSUME IsData(r) PROVE Followed(s, after) = <<r>> \o Followed(u, after)
  <2>1. DataLeft(s) = <<r>> \o DataLeft(u) /\ more(s) = more(u)
    BY <1>5, BodyUnfolds
  <2>2. r \in AnyFrame
    BY <1>1, <1>5, Kinds
  <2>3. Followed(s, after) = (<<r>> \o DataLeft(u)) \o more(u)
    BY <2>1 DEF Followed
  <2>4. Followed(u, after) = DataLeft(u) \o more(u)
    BY DEF Followed
  <2>5. DataLeft(u) \in Seq(AnyFrame) /\ more(u) \in Seq(AnyFrame)
    BY <1>1, <1>2
  <2> HIDE DEF more, r, u
  <2> QED BY <2>2, <2>3, <2>4, <2>5, MovedOut
<1>6. ASSUME r = Failure PROVE Followed(s, after) = <<>>
  <2>1. DataLeft(s) = <<>> /\ CutShort(s)
    BY <1>6, BodyUnfolds
  <2>2. <<>> \o <<>> = <<>>
    OBVIOUS
  <2> QED BY <2>1, <2>2 DEF Followed
<1>7. ASSUME r = End \/ r.kind = "trailers" PROVE Followed(s, after) = after[r]
  <2>1. DataLeft(s) = <<>> /\ TrailersLeft(s) = r /\ ~CutShort(s)
    BY <1>7, BodyUnfolds
  <2>2. after[r] \in Seq(AnyFrame)
    BY <1>1, <1>7, Kinds
  <2>3. Followed(s, after) = <<>> \o after[r]
    BY <2>1 DEF Followed
  <2> QED BY <2>2, <2>3, ConcatEmptySeq
<1> QED BY <1>3, <1>4, <1>5, <1>6, <1>7

-----------------------------------------------------------------------------
(* A stream that owes frames, as the one before and the one after a step.   *)

\* A frame that is returned is taken from the frames that are owed.
LEMMA OneReturned ==
  ASSUME NEW had \in Seq(AnyFrame), NEW f \in AnyFrame, NEW rest \in Seq(AnyFrame)
  PROVE  /\ Append(had, f) \o rest = had \o (<<f>> \o rest)
         /\ Append(had, f) \in Seq(AnyFrame)
         /\ Len(had) < Len(had \o (<<f>> \o rest))
         /\ (had \o (<<f>> \o rest))[Len(had) + 1] = f
<1>1. <<f>> \in Seq(AnyFrame) /\ Append(had, f) = had \o <<f>>
  OBVIOUS
<1>2. (had \o <<f>>) \o rest = had \o (<<f>> \o rest)
  BY <1>1, ConcatAssociative
<1>3. <<f>> \o rest \in Seq(AnyFrame) /\ Len(<<f>> \o rest) = 1 + Len(rest)
      /\ (<<f>> \o rest)[1] = f
  BY <1>1, ConcatProperties, LenProperties
<1>4. Len(had) \in Nat /\ Len(rest) \in Nat
  BY LenProperties
<1>5. /\ Len(had \o (<<f>> \o rest)) = Len(had) + (1 + Len(rest))
      /\ (had \o (<<f>> \o rest))[Len(had) + 1] = f
  BY <1>3, <1>4, ConcatProperties
<1> QED BY <1>1, <1>2, <1>4, <1>5

-----------------------------------------------------------------------------
(* The bytes of a sequence of frames.                                      *)

LEMMA SizeOfType ==
  ASSUME NEW f \in AnyFrame
  PROVE  SizeOf(f) \in Nat
BY FrameTypes, WidthAssumption DEF AnyFrame, SizeOf, IsData, Trailers, U64

\* The function that Bytes is the last value of.
LEMMA BytesCompute ==
  ASSUME NEW s \in Seq(AnyFrame)
  PROVE  \E g \in [0..Len(s) -> Nat] :
           /\ g[0] = 0 /\ Bytes(s) = g[Len(s)]
           /\ \A k \in 1..Len(s) : g[k] = g[k - 1] + SizeOf(s[k])
<1> DEFINE n == Len(s)
    step == [k \in 1..n |-> [v \in Nat |-> v + SizeOf(s[k])]]
    Is(f) == f = [k \in 0..n |-> IF k = 0 THEN 0 ELSE f[k - 1] + SizeOf(s[k])]
    total == CHOOSE f : Is(f)
<1>1. n \in Nat /\ \A k \in 1..n : SizeOf(s[k]) \in Nat
  BY LenProperties, ElementOfSeq, SizeOfType
<1>2. step \in Steps(n, Nat)
  BY <1>1 DEF Steps
<1>3. PICK g \in [0..n -> Nat] :
        g[0] = 0 /\ \A k \in 1..n : g[k] = step[k][g[k - 1]]
  <2> HIDE DEF n, step
  <2>1. \E g \in [0..n -> Nat] : Follows(g, n, 0, step)
    <3>1. n \in Nat /\ 0 \in Nat
      BY <1>1
    <3> QED BY <3>1, <1>2, Computable, Zenon
  <2> QED BY <2>1 DEF Follows
<1>4. \A k \in 1..n : g[k] = g[k - 1] + SizeOf(s[k])
  <2> SUFFICES ASSUME NEW k \in 1..n PROVE g[k] = g[k - 1] + SizeOf(s[k])
    OBVIOUS
  <2>1. g[k - 1] \in Nat
    <3> HIDE DEF n, step
    <3>1. k - 1 \in 0..n
      BY <1>1
    <3> QED BY <1>3, <3>1
  <2> QED BY <1>3, <2>1
<1>5. Is(g)
  <2>1. \A k \in 0..n : k = 0 \/ k \in 1..n
    BY <1>1
  <2>2. g = [k \in 0..n |-> g[k]]
    OBVIOUS
  <2> QED BY <1>3, <1>4, <2>1, <2>2
<1>6. Is(total)
  BY <1>5
<1>7. Bytes(s) = total[n]
  BY DEF Bytes
<1> HIDE DEF total
<1>8. /\ total[0] = 0
      /\ \A k \in 1..n : total[k] = total[k - 1] + SizeOf(s[k])
  <2>1. 0 \in 0..n /\ \A k \in 1..n : k \in 0..n /\ k # 0
    BY <1>1
  <2> QED BY <1>6, <2>1
<1>9. total \in [0..n -> Nat]
  <2> DEFINE Good == {k \in 0..n : total[k] \in Nat}
  <2>1. 0 \in Good
    BY <1>1, <1>8
  <2>2. \A k \in 1..n : k - 1 \in Good => k \in Good
    BY <1>1, <1>8
  <2> HIDE DEF Good
  <2>3. 0..n \subseteq Good
    BY <1>1, <2>1, <2>2, HandedOn
  <2>4. \A k \in 0..n : total[k] \in Nat
    BY <2>3 DEF Good
  <2> QED BY <1>6, <2>4
<1> QED BY <1>7, <1>8, <1>9

LEMMA BytesType ==
  ASSUME NEW s \in Seq(AnyFrame)
  PROVE  Bytes(s) \in Nat
<1>1. Len(s) \in 0..Len(s)
  BY LenProperties
<1> QED BY <1>1, BytesCompute

LEMMA NoBytes == Bytes(<<>>) = 0
<1>1. <<>> \in Seq(AnyFrame) /\ Len(<<>>) = 0
  BY EmptySeq
<1>2. PICK g \in [0..Len(<<>>) -> Nat] : g[0] = 0 /\ Bytes(<<>>) = g[Len(<<>>)]
  BY <1>1, BytesCompute
<1> QED BY <1>1, <1>2

\* A frame that is appended adds its bytes.
LEMMA BytesAppend ==
  ASSUME NEW s \in Seq(AnyFrame), NEW f \in AnyFrame
  PROVE  Bytes(Append(s, f)) = Bytes(s) + SizeOf(f)
<1> DEFINE n == Len(s)
           t == Append(s, f)
<1>1. /\ n \in Nat /\ t \in Seq(AnyFrame) /\ Len(t) = n + 1 /\ t[n + 1] = f
      /\ \A k \in 1..n : t[k] = s[k]
  BY LenProperties, AppendProperties
<1>2. PICK g \in [0..n -> Nat] :
        /\ g[0] = 0 /\ Bytes(s) = g[n]
        /\ \A k \in 1..n : g[k] = g[k - 1] + SizeOf(s[k])
  BY BytesCompute
<1>3. PICK h \in [0..(n + 1) -> Nat] :
        /\ h[0] = 0 /\ Bytes(t) = h[n + 1]
        /\ \A k \in 1..(n + 1) : h[k] = h[k - 1] + SizeOf(t[k])
  <2> HIDE DEF t
  <2> QED BY <1>1, BytesCompute
<1> HIDE DEF n, t
<1> DEFINE Good == {k \in 0..n : g[k] = h[k]}
<1>4. 0 \in Good
  BY <1>1, <1>2, <1>3
<1>5. \A k \in 1..n : k - 1 \in Good => k \in Good
  BY <1>1, <1>2, <1>3
<1>6. n \in Good
  <2> HIDE DEF Good
  <2>1. 0..n \subseteq Good
    BY <1>1, <1>4, <1>5, HandedOn
  <2> QED BY <1>1, <2>1
<1>7. h[n + 1] = h[n] + SizeOf(f)
  BY <1>1, <1>3
<1>8. Bytes(t) = Bytes(s) + SizeOf(f)
  BY <1>1, <1>2, <1>3, <1>6, <1>7
<1> QED BY <1>8 DEF t

\* Frames after frames add their bytes.
LEMMA BytesConcat ==
  ASSUME NEW s \in Seq(AnyFrame), NEW t \in Seq(AnyFrame)
  PROVE  Bytes(s \o t) = Bytes(s) + Bytes(t)
<1> DEFINE n == Len(s)
           m == Len(t)
           st == s \o t
<1>1. /\ n \in Nat /\ m \in Nat /\ st \in Seq(AnyFrame) /\ Len(st) = n + m
      /\ \A k \in 1..n : st[k] = s[k]
      /\ \A k \in 1..m : st[n + k] = t[k]
  <2>1. /\ n \in Nat /\ m \in Nat /\ st \in Seq(AnyFrame) /\ Len(st) = n + m
        /\ \A k \in 1..(n + m) : st[k] = IF k <= n THEN s[k] ELSE t[k - n]
    BY LenProperties, ConcatProperties
  <2> HIDE DEF n, m, st
  <2>2. \A k \in 1..m : n + k \in 1..(n + m) /\ ~(n + k <= n) /\ (n + k) - n = k
    BY <2>1
  <2> QED BY <2>1, <2>2
<1>2. PICK g \in [0..n -> Nat] :
        /\ g[0] = 0 /\ Bytes(s) = g[n]
        /\ \A k \in 1..n : g[k] = g[k - 1] + SizeOf(s[k])
  BY BytesCompute
<1>3. PICK h \in [0..m -> Nat] :
        /\ h[0] = 0 /\ Bytes(t) = h[m]
        /\ \A k \in 1..m : h[k] = h[k - 1] + SizeOf(t[k])
  BY BytesCompute
<1>4. PICK c \in [0..(n + m) -> Nat] :
        /\ c[0] = 0 /\ Bytes(st) = c[n + m]
        /\ \A k \in 1..(n + m) : c[k] = c[k - 1] + SizeOf(st[k])
  <2> HIDE DEF st, n, m
  <2>1. \E c \in [0..Len(st) -> Nat] :
          /\ c[0] = 0 /\ Bytes(st) = c[Len(st)]
          /\ \A k \in 1..Len(st) : c[k] = c[k - 1] + SizeOf(st[k])
    BY <1>1, BytesCompute
  <2>2. Len(st) = n + m
    BY <1>1
  <2> QED BY <2>1, <2>2, Zenon
<1> HIDE DEF n, m, st
<1>5. c[n] = g[n]
  <2> DEFINE Good == {k \in 0..n : c[k] = g[k]}
  <2>1. 0 \in Good
    BY <1>1, <1>2, <1>4
  <2>2. \A k \in 1..n : k - 1 \in Good => k \in Good
    BY <1>1, <1>2, <1>4
  <2> HIDE DEF Good
  <2>3. 0..n \subseteq Good
    BY <1>1, <2>1, <2>2, HandedOn
  <2> QED BY <1>1, <2>3 DEF Good
<1>6. c[n + m] = g[n] + h[m]
  <2> DEFINE Good == {k \in 0..m : c[n + k] = g[n] + h[k]}
  <2>1. 0 \in Good
    BY <1>1, <1>2, <1>3, <1>5
  <2>2. ASSUME NEW k \in 1..m, k - 1 \in Good PROVE k \in Good
    <3>1. c[n + (k - 1)] = g[n] + h[k - 1]
      BY <2>2
    <3>2. c[n + k] = c[n + (k - 1)] + SizeOf(t[k])
      <4>1. n + k \in 1..(n + m) /\ (n + k) - 1 = n + (k - 1)
        BY <1>1
      <4>2. st[n + k] = t[k]
        BY <1>1
      <4>3. c[n + k] = c[(n + k) - 1] + SizeOf(st[n + k])
        BY <1>4, <4>1
      <4> QED BY <4>1, <4>2, <4>3
    <3>3. h[k] = h[k - 1] + SizeOf(t[k])
      BY <1>3
    <3>4. t[k] \in AnyFrame
      BY ElementOfSeq DEF m
    <3>5. SizeOf(t[k]) \in Nat /\ h[k - 1] \in Nat /\ g[n] \in Nat
      <4>1. k - 1 \in 0..m /\ n \in 0..n
        BY <1>1
      <4>2. h[k - 1] \in Nat /\ g[n] \in Nat
        BY <1>2, <1>3, <4>1
      <4> QED BY <3>4, <4>2, SizeOfType
    <3> HIDE DEF Good
    <3>6. c[n + k] = g[n] + h[k]
      BY <3>1, <3>2, <3>3, <3>5
    <3> QED BY <1>1, <3>6 DEF Good
  <2> HIDE DEF Good
  <2>3. 0..m \subseteq Good
    BY <1>1, <2>1, <2>2, HandedOn
  <2> QED BY <1>1, <2>3 DEF Good
<1>7. Bytes(st) = Bytes(s) + Bytes(t)
  BY <1>2, <1>3, <1>4, <1>6
<1> QED BY <1>7 DEF st

LEMMA BytesOfOne ==
  ASSUME NEW f \in AnyFrame
  PROVE  <<f>> \in Seq(AnyFrame) /\ Bytes(<<f>>) = SizeOf(f)
<1>1. <<>> \in Seq(AnyFrame) /\ Append(<<>>, f) = <<f>>
  BY EmptySeq
<1>2. Bytes(Append(<<>>, f)) = Bytes(<<>>) + SizeOf(f)
  BY <1>1, BytesAppend
<1> QED BY <1>1, <1>2, NoBytes, SizeOfType

-----------------------------------------------------------------------------
(* Hints.                                                                  *)

\* Trailers carry no bytes, wherever they are.
LEMMA BytesAreData ==
  ASSUME NEW s \in Seq(Result)
  PROVE  /\ Bytes(FramesLeft(s)) = Bytes(DataLeft(s))
         /\ Bytes(DataLeft(s)) \in Nat
<1> DEFINE Holds(m) ==
      \A t \in Seq(Result) :
        Len(t) = m => Bytes(FramesLeft(t)) = Bytes(DataLeft(t))
    Good == {m \in 0..Len(s) : Holds(m)}
<1>1. Len(s) \in Nat
  BY LenProperties
<1>2. Holds(0)
  <2> SUFFICES ASSUME NEW t \in Seq(Result), Len(t) = 0
               PROVE  Bytes(FramesLeft(t)) = Bytes(DataLeft(t))
    OBVIOUS
  <2>1. t = <<>>
    BY EmptySeq
  <2> QED BY <2>1, NothingLeft DEF FramesLeft, DataLeft
<1>3. ASSUME NEW m \in 1..Len(s), Holds(m - 1)
      PROVE  Holds(m)
  <2> SUFFICES ASSUME NEW t \in Seq(Result), Len(t) = m
               PROVE  Bytes(FramesLeft(t)) = Bytes(DataLeft(t))
    OBVIOUS
  <2> DEFINE r == Poll(t)
             u == Rest(t)
  <2>1. /\ r \in Result /\ u \in Seq(Result) /\ Len(u) = m - 1
    <3>1. t # <<>>
      BY <1>1, EmptySeq
    <3> QED BY <3>1, ScriptTypes, HeadTailProperties DEF Rest
  <2>2. /\ Bytes(FramesLeft(u)) = Bytes(DataLeft(u))
        /\ FramesLeft(u) \in Seq(AnyFrame) /\ DataLeft(u) \in Seq(AnyFrame)
    BY <1>3, <2>1, FramesLeftUnfolds, DataLeftUnfolds
  <2>3. CASE IsFrame(r)
    <3>1. r \in AnyFrame
      BY <2>1, <2>3, ResultKinds
    <3>2. FramesLeft(t) = <<r>> \o FramesLeft(u)
      BY <2>3, FramesLeftUnfolds
    <3>3. Bytes(FramesLeft(t)) = SizeOf(r) + Bytes(FramesLeft(u))
      <4> HIDE DEF r, u
      <4> QED BY <2>2, <3>1, <3>2, BytesOfOne, BytesConcat
    <3>4. CASE IsData(r)
      <4>1. DataLeft(t) = <<r>> \o DataLeft(u)
        BY <3>4, DataLeftUnfolds
      <4> HIDE DEF r, u
      <4>2. Bytes(DataLeft(t)) = SizeOf(r) + Bytes(DataLeft(u))
        BY <2>2, <3>1, <4>1, BytesOfOne, BytesConcat
      <4> QED BY <2>2, <3>3, <4>2
    <3>5. CASE ~IsData(r)
      <4>1. DataLeft(t) = DataLeft(u)
        BY <2>3, <3>5, DataLeftUnfolds DEF IsFrame, IsData
      <4>2. SizeOf(r) = 0
        BY <3>5 DEF SizeOf
      <4> HIDE DEF r, u
      <4> QED BY <2>2, <3>3, <4>1, <4>2, BytesType
    <3> QED BY <3>4, <3>5
  <2>4. CASE r = Pending
    BY <2>2, <2>4, FramesLeftUnfolds, DataLeftUnfolds
  <2>5. CASE r \in {End, Failure}
    BY <2>5, FramesLeftUnfolds, DataLeftUnfolds
  <2> QED BY <2>1, <2>3, <2>4, <2>5, ResultKinds
<1> HIDE DEF Holds
<1>4. 0 \in Good
  BY <1>1, <1>2
<1>5. \A m \in 1..Len(s) : m - 1 \in Good => m \in Good
  BY <1>1, <1>3
<1>6. 0..Len(s) \subseteq Good
  <2> HIDE DEF Good
  <2> QED BY <1>1, <1>4, <1>5, HandedOn
<1>7. Bytes(FramesLeft(s)) = Bytes(DataLeft(s))
  BY <1>1, <1>6 DEF Holds
<1> QED BY <1>7, BytesType, DataLeftUnfolds

\* Every hint about a body is a number of the width.
Representable(s) == Bytes(FramesLeft(s)) + 2 <= MaxU64

\* A hint of a body bounds what it has left, and its bounds do not cross.
LEMMA HintsHold ==
  ASSUME NEW s \in Seq(Result), NEW hinting \in Hinting,
         hinting = "max" => Representable(s)
  PROVE  LET h == HintOf(s, hinting)
             n == Bytes(DataLeft(s))
         IN /\ n \in Nat /\ h.lower \in Nat /\ h.upper \subseteq Nat
            /\ h.upper = {} \/ \E m \in Nat : h.upper = {m}
            /\ \A m \in h.upper : n <= m /\ h.lower <= m
            /\ CutShort(s) \/ h.lower <= n
            /\ h.lower <= n + 1
            /\ hinting # "max" => \A m \in h.upper : m <= n + 2
<1>1. /\ Bytes(FramesLeft(s)) = Bytes(DataLeft(s))
      /\ Bytes(DataLeft(s)) \in Nat
  BY BytesAreData
<1>2. MaxU64 \in Nat
  BY WidthAssumption
<1> DEFINE n == Bytes(DataLeft(s)) + (IF CutShort(s) THEN 1 ELSE 0)
<1>3. HintOf(s, hinting) =
        CASE hinting = "none" -> NoHint
          [] hinting = "exact" -> Exactly(n)
          [] hinting = "upper" -> WithUpper(NoHint, n + 1)
          [] hinting = "max" -> [lower |-> n, upper |-> {MaxU64}]
  BY <1>1 DEF HintOf
<1>4. /\ n \in Nat /\ n <= Bytes(DataLeft(s)) + 1 /\ Bytes(DataLeft(s)) <= n
      /\ CutShort(s) \/ n = Bytes(DataLeft(s))
  BY <1>1
<1>5. hinting = "max" => n <= MaxU64
  BY <1>1, <1>2, <1>4 DEF Representable
<1> HIDE DEF n
<1>6. CASE hinting = "none"
  BY <1>1, <1>3, <1>6 DEF NoHint
<1>7. CASE hinting = "exact"
  BY <1>1, <1>3, <1>4, <1>7 DEF Exactly
<1>8. CASE hinting = "upper"
  <2>1. HintOf(s, hinting) = WithUpper(NoHint, n + 1)
    BY <1>3, <1>8
  <2>2. HintOf(s, hinting).lower = 0 /\ HintOf(s, hinting).upper = {n + 1}
    BY <2>1 DEF WithUpper, NoHint
  <2> QED BY <1>1, <1>4, <1>8, <2>2
<1>9. CASE hinting = "max"
  BY <1>1, <1>2, <1>3, <1>4, <1>5, <1>9
<1> QED BY <1>6, <1>7, <1>8, <1>9 DEF Hinting

\* The bounds are numbers, whatever the body.
LEMMA HintsAreNumbers ==
  ASSUME NEW s \in Seq(Result), NEW hinting \in Hinting
  PROVE  LET h == HintOf(s, hinting)
         IN h.lower \in Nat /\ h.upper \subseteq Nat
<1>1. Bytes(FramesLeft(s)) \in Nat /\ MaxU64 \in Nat
  BY BytesAreData, WidthAssumption
<1> QED BY <1>1 DEF HintOf, Hinting, NoHint, Exactly, WithUpper

\* What a poll that does not end a body leaves has no longer hints.
LEMMA RepresentableRest ==
  ASSUME NEW s \in Seq(Result), Poll(s) = Pending \/ IsFrame(Poll(s))
  PROVE  /\ Bytes(DataLeft(Rest(s))) \in Nat
         /\ Bytes(DataLeft(Rest(s))) <= Bytes(DataLeft(s))
         /\ Representable(s) => Representable(Rest(s))
<1> DEFINE r == Poll(s)
           u == Rest(s)
<1>1. u \in Seq(Result) /\ r \in Result
  BY ScriptTypes
<1>2. /\ Bytes(FramesLeft(s)) = Bytes(DataLeft(s)) /\ Bytes(DataLeft(s)) \in Nat
      /\ Bytes(FramesLeft(u)) = Bytes(DataLeft(u)) /\ Bytes(DataLeft(u)) \in Nat
  BY <1>1, BytesAreData
<1>3. Bytes(FramesLeft(u)) <= Bytes(FramesLeft(s))
  <2>1. CASE r = Pending
    <3>1. FramesLeft(u) = FramesLeft(s)
      BY <2>1, FramesLeftUnfolds
    <3> QED BY <1>2, <3>1
  <2>2. CASE IsFrame(r)
    <3>1. FramesLeft(s) = <<r>> \o FramesLeft(u)
      BY <2>2, FramesLeftUnfolds
    <3>2. r \in AnyFrame /\ FramesLeft(u) \in Seq(AnyFrame)
      BY <1>1, <2>2, ResultKinds, FramesLeftUnfolds
    <3> HIDE DEF r, u
    <3>3. Bytes(FramesLeft(s)) = SizeOf(r) + Bytes(FramesLeft(u))
      BY <3>1, <3>2, BytesOfOne, BytesConcat
    <3> QED BY <1>2, <3>2, <3>3, SizeOfType
  <2> QED BY <2>1, <2>2
<1>4. MaxU64 \in Nat
  BY WidthAssumption
<1> HIDE DEF r, u
<1>5. Bytes(DataLeft(u)) <= Bytes(DataLeft(s))
  BY <1>2, <1>3
<1>6. Representable(s) => Representable(u)
  BY <1>2, <1>3, <1>4 DEF Representable
<1> QED BY <1>2, <1>5, <1>6 DEF u

\* The data that is owed, then trailers or nothing.
LEMMA BytesOwed ==
  ASSUME NEW d \in Seq(AnyFrame), NEW final \in KeptTrailers
  PROVE  Bytes(d \o (IF final = End THEN <<>> ELSE <<final>>)) = Bytes(d)
<1> DEFINE rest == IF final = End THEN <<>> ELSE <<final>>
<1>1. rest \in Seq(AnyFrame) /\ Bytes(rest) = 0
  <2>1. CASE final = End
    BY <2>1, NoBytes, EmptySeq
  <2>2. CASE final # End
    <3>1. final \in AnyFrame /\ SizeOf(final) = 0
      BY <2>2 DEF KeptTrailers, SizeOf
    <3> QED BY <2>2, <3>1, BytesOfOne
  <2> QED BY <2>1, <2>2
<1> HIDE DEF rest
<1>2. Bytes(d \o rest) = Bytes(d)
  BY <1>1, BytesConcat, BytesType
<1> QED BY <1>2 DEF rest
=============================================================================
