--------------------------- MODULE SizeHintProofs ---------------------------
(***************************************************************************)
(* Proofs about SizeHintOps, for every width and every set of variables.   *)
(* The inductive invariant is Ordered with the type invariant and that     *)
(* nothing is skewed in a build with overflow checks; Ordered is what      *)
(* makes sums perfect.                                                     *)
(***************************************************************************)
EXTENDS SizeHintOps, TLAPS

IInv == TypeOK /\ Ordered /\ (overflowChecks => skewed = {})

LEMMA HintType ==
  ASSUME NEW h \in Hint
  PROVE  /\ h = [lower |-> h.lower, upper |-> h.upper]
         /\ h.lower \in 0..MaxU64
         /\ h.upper = {} \/ \E n \in 0..MaxU64 : h.upper = {n}
BY DEF Hint, U64

LEMMA WrapFits ==
  ASSUME NEW n \in Nat, n <= MaxU64
  PROVE  Wrap(n) = n
BY WidthAssumption DEF Wrap

\* A sum that has the width of the bounds is exact in both.
LEMMA PlusFits ==
  ASSUME NEW a \in Hint, NEW b \in Hint, Fits(a, b)
  PROVE  Plus(a, b) = [lower |-> a.lower + b.lower,
                       upper |-> {x + y : x \in a.upper, y \in b.upper}]
<1>1. a.lower \in Nat /\ b.lower \in Nat /\ a.upper \subseteq Nat /\ b.upper \subseteq Nat
  BY HintType, WidthAssumption
<1>2. Wrap(a.lower + b.lower) = a.lower + b.lower
  BY <1>1, WrapFits DEF Fits, LowerFits, UpperFits
<1>3. \A x \in a.upper, y \in b.upper : Wrap(x + y) = x + y
  BY <1>1, WrapFits DEF Fits, LowerFits, UpperFits
<1> QED
  BY <1>2, <1>3 DEF Plus

\* What wraps around loses the width once.
LEMMA WrapOver ==
  ASSUME NEW n \in Nat, n > MaxU64, n <= 2 * MaxU64
  PROVE  Wrap(n) = n - (MaxU64 + 1)
BY WidthAssumption DEF Wrap

LEMMA PlusType ==
  ASSUME NEW a \in Hint, NEW b \in Hint
  PROVE  Plus(a, b) \in Hint
<1> DEFINE upper == {Wrap(x + y) : x \in a.upper, y \in b.upper}
<1>1. \A n \in Nat : Wrap(n) \in U64
  BY WidthAssumption DEF Wrap, U64
<1>2. Wrap(a.lower + b.lower) \in U64
  BY <1>1, HintType, WidthAssumption
<1>3. upper \in {{}} \cup {{n} : n \in U64}
  <2>1. CASE a.upper = {} \/ b.upper = {}
    <3>1. upper = {}
      BY <2>1
    <3> QED
      BY <3>1
  <2>2. CASE a.upper # {} /\ b.upper # {}
    <3>1. PICK m \in 0..MaxU64 : a.upper = {m}
      BY <2>2, HintType
    <3>2. PICK n \in 0..MaxU64 : b.upper = {n}
      BY <2>2, HintType
    <3>3. upper = {Wrap(m + n)}
      BY <3>1, <3>2
    <3>4. Wrap(m + n) \in U64
      BY <1>1, <3>1, <3>2, WidthAssumption
    <3> HIDE DEF upper
    <3> QED
      BY <3>3, <3>4
  <2> HIDE DEF upper
  <2> QED
    BY <2>1, <2>2
<1> HIDE DEF upper
<1>4. Plus(a, b) = [lower |-> Wrap(a.lower + b.lower), upper |-> upper]
  BY DEF Plus, upper
<1> QED
  BY <1>2, <1>3, <1>4 DEF Hint

\* The sum of consistent hints is consistent unless the upper bound alone
\* overflows: if both do, both lose the width.
LEMMA PlusIsConsistent ==
  ASSUME NEW a \in Hint, NEW b \in Hint, Consistent(a), Consistent(b),
         UpperFits(a, b) \/ ~LowerFits(a, b)
  PROVE  Consistent(Plus(a, b))
<1> SUFFICES ASSUME NEW x \in a.upper, NEW y \in b.upper
             PROVE  Wrap(a.lower + b.lower) <= Wrap(x + y)
  BY DEF Consistent, Plus
<1> DEFINE l == a.lower + b.lower
           u == x + y
<1>1. /\ l \in Nat /\ u \in Nat /\ l <= u /\ u <= 2 * MaxU64
      /\ u <= MaxU64 \/ l > MaxU64
  <2>1. /\ a.lower \in 0..MaxU64 /\ b.lower \in 0..MaxU64
        /\ x \in 0..MaxU64 /\ y \in 0..MaxU64
    BY HintType
  <2>2. a.lower <= x /\ b.lower <= y
    BY DEF Consistent
  <2>3. u <= MaxU64 \/ l > MaxU64
    BY <2>1, WidthAssumption DEF UpperFits, LowerFits
  <2> QED
    BY <2>1, <2>2, <2>3, WidthAssumption
<1> HIDE DEF l, u
<1>2. CASE u <= MaxU64
  BY <1>1, <1>2, WrapFits, WidthAssumption DEF l, u
<1>3. CASE l > MaxU64
  <2>1. Wrap(l) = l - (MaxU64 + 1) /\ Wrap(u) = u - (MaxU64 + 1)
    BY <1>1, <1>3, WrapOver, WidthAssumption
  <2> QED
    BY <1>1, <2>1, WidthAssumption DEF l, u
<1> QED
  BY <1>1, <1>2, <1>3

\* Every length the sum allows splits in two that the summands allow: the first
\* takes its lower bound and what the lower bound of the second leaves over, up
\* to its upper bound.
LEMMA PlusIsPerfect ==
  ASSUME NEW a \in Hint, NEW b \in Hint, Fits(a, b),
         \A max \in a.upper : a.lower <= max,
         \A max \in b.upper : b.lower <= max,
         NEW n \in Nat
  PROVE  Allows(Plus(a, b), n)
           <=> \E k \in 0..n : Allows(a, k) /\ Allows(b, n - k)
<1> DEFINE sums == {x + y : x \in a.upper, y \in b.upper}
<1>1. a.lower \in Nat /\ b.lower \in Nat /\ a.upper \subseteq Nat /\ b.upper \subseteq Nat
  BY HintType, WidthAssumption
<1>2. Allows(Plus(a, b), n) <=>
        a.lower + b.lower <= n /\ \A max \in sums : n <= max
  BY PlusFits DEF Allows
<1>3. ASSUME NEW k \in 0..n, Allows(a, k), Allows(b, n - k)
      PROVE  a.lower + b.lower <= n /\ \A max \in sums : n <= max
  <2>1. a.lower + b.lower <= n
    BY <1>1, <1>3 DEF Allows
  <2>2. ASSUME NEW x \in a.upper, NEW y \in b.upper
        PROVE  n <= x + y
    BY <1>1, <1>3 DEF Allows
  <2> QED
    BY <2>1, <2>2
<1>4. ASSUME a.lower + b.lower <= n, \A max \in sums : n <= max
      PROVE  \E k \in 0..n : Allows(a, k) /\ Allows(b, n - k)
  <2>1. \A x \in a.upper, y \in b.upper : n <= x + y
    BY <1>4
  <2>2. CASE a.upper = {}
    <3>1. n - b.lower \in 0..n /\ n - (n - b.lower) = b.lower
      BY <1>1, <1>4
    <3>2. Allows(a, n - b.lower) /\ Allows(b, b.lower)
      BY <1>1, <1>4, <2>2 DEF Allows
    <3> QED
      BY <3>1, <3>2
  <2>3. CASE a.upper # {}
    <3>1. PICK m \in 0..MaxU64 : a.upper = {m}
      BY <2>3, HintType
    <3>2. m \in Nat /\ a.lower <= m
      BY <3>1, WidthAssumption
    <3>3. CASE n - b.lower <= m
      <4>1. n - b.lower \in 0..n /\ n - (n - b.lower) = b.lower
        BY <1>1, <1>4
      <4>2. Allows(a, n - b.lower) /\ Allows(b, b.lower)
        BY <1>1, <1>4, <3>1, <3>3 DEF Allows
      <4> QED
        BY <4>1, <4>2
    <3>4. CASE m < n - b.lower
      <4>1. m \in 0..n /\ Allows(a, m)
        BY <1>1, <3>1, <3>2, <3>4 DEF Allows
      <4>2. b.lower <= n - m
        BY <1>1, <3>2, <3>4
      <4>3. \A y \in b.upper : n - m <= y
        BY <1>1, <2>1, <3>1, <3>2
      <4> QED
        BY <4>1, <4>2, <4>3 DEF Allows
    <3> QED
      BY <1>1, <3>2, <3>3, <3>4
  <2> QED
    BY <2>2, <2>3
<1> QED
  BY <1>2, <1>3, <1>4

-----------------------------------------------------------------------------
LEMMA InitIInv == Init => IInv
BY WidthAssumption DEF Init, IInv, TypeOK, Ordered, Consistent, NoHint, Hint, U64

\* A hint that is consistent itself may be assigned to any variable.
LEMMA AssignIInv ==
  ASSUME IInv, NEW r \in Reg, NEW h \in Hint, Consistent(h), Assign(r, h)
  PROVE  IInv'
<1>1. /\ hint' = [hint EXCEPT ![r] = h] /\ skewed' = skewed \ {r}
      /\ overflowChecks' = overflowChecks
  BY DEF Assign
<1>2. \A q \in Reg : hint'[q] = IF q = r THEN h ELSE hint[q]
  BY <1>1 DEF IInv, TypeOK
<1>3. Ordered'
  BY <1>1, <1>2 DEF IInv, Ordered, Consistent
<1> QED
  BY <1>1, <1>3 DEF IInv, TypeOK

\* A sum is skewed, or consistent.
LEMMA AddIInv ==
  ASSUME IInv, NEW r \in Reg, NEW a \in Reg, NEW b \in Reg, Add(r, a, b),
         overflowChecks => Fits(hint[a], hint[b])
  PROVE  IInv'
<1> DEFINE h == Plus(hint[a], hint[b])
<1>1. hint[a] \in Hint /\ hint[b] \in Hint /\ h \in Hint
  BY PlusType DEF IInv, TypeOK
<1>2. CASE Panic
  BY <1>2 DEF Panic, vars, IInv, TypeOK, Ordered
<1>3. CASE /\ hint' = [hint EXCEPT ![r] = h]
           /\ skewed' = IF Skews(a, b) THEN skewed \cup {r} ELSE skewed \ {r}
           /\ UNCHANGED overflowChecks
  <2>1. overflowChecks => ~Skews(a, b)
    BY DEF IInv, Skews, Fits
  <2>2. ~Skews(a, b) => Consistent(h)
    <3> SUFFICES ASSUME ~Skews(a, b) PROVE Consistent(h)
      OBVIOUS
    <3>1. Consistent(hint[a]) /\ Consistent(hint[b])
      BY DEF Skews, IInv, Ordered
    <3>2. UpperFits(hint[a], hint[b]) \/ ~LowerFits(hint[a], hint[b])
      BY DEF Skews
    <3> QED
      BY <1>1, <3>1, <3>2, PlusIsConsistent
  <2> HIDE DEF h
  <2>3. \A q \in Reg : hint'[q] = IF q = r THEN h ELSE hint[q]
    BY <1>3 DEF IInv, TypeOK
  <2>4. Ordered'
    BY <1>3, <2>1, <2>2, <2>3 DEF IInv, Ordered, Consistent
  <2> QED
    BY <1>1, <1>3, <2>1, <2>4 DEF IInv, TypeOK
<1> QED
  BY <1>2, <1>3 DEF Add

LEMMA NextIInv == IInv /\ [Next]_vars => IInv'
<1> SUFFICES ASSUME IInv, [Next]_vars PROVE IInv'
  OBVIOUS
<1> USE DEF U64
<1>1. CASE UNCHANGED vars
  BY <1>1 DEF vars, IInv, TypeOK, Ordered
<1>2. ASSUME NEW r \in Reg, New(r) PROVE IInv'
  BY <1>2, AssignIInv, WidthAssumption DEF New, NoHint, Hint, Consistent
<1>3. ASSUME NEW r \in Reg, NEW v \in U64, WithExact(r, v) \/ SetExact(r, v)
      PROVE  IInv'
  BY <1>3, AssignIInv, WidthAssumption
    DEF WithExact, SetExact, Exactly, Hint, Consistent
<1>4. ASSUME NEW r \in Reg, NEW v \in U64, SetLower(r, v) PROVE IInv'
  <2>1. CASE LowerAllowed(hint[r], v)
    <3> DEFINE h == [hint[r] EXCEPT !.lower = v]
    <3>1. h \in Hint /\ h.lower = v /\ h.upper = hint[r].upper
      BY DEF IInv, TypeOK, Hint
    <3>2. Assign(r, h)
      BY <1>4, <2>1 DEF SetLower
    <3> QED
      BY <2>1, <3>1, <3>2, AssignIInv DEF LowerAllowed, Consistent
  <2> QED
    BY <1>1, <1>4, <2>1 DEF SetLower, Panic
<1>5. ASSUME NEW r \in Reg, NEW v \in U64, SetUpper(r, v) PROVE IInv'
  <2>1. CASE UpperAllowed(hint[r], v)
    <3> DEFINE h == [hint[r] EXCEPT !.upper = {v}]
    <3>1. h \in Hint /\ h.lower = hint[r].lower /\ h.upper = {v}
      BY DEF IInv, TypeOK, Hint
    <3>2. Assign(r, h)
      BY <1>5, <2>1 DEF SetUpper, WithUpper
    <3>3. h.lower <= v
      BY <2>1, <3>1, WidthAssumption, HintType DEF UpperAllowed
    <3> QED
      BY <3>1, <3>2, <3>3, AssignIInv DEF Consistent
  <2> QED
    BY <1>1, <1>5, <2>1 DEF SetUpper, Panic
<1>6. ASSUME NEW r \in Reg, NEW a \in Reg, NEW b \in Reg, Add(r, a, b)
      PROVE  IInv'
  <2>1. CASE overflowChecks => Fits(hint[a], hint[b])
    BY <1>6, <2>1, AddIInv
  <2>2. CASE overflowChecks /\ ~Fits(hint[a], hint[b])
    BY <1>1, <1>6, <2>2 DEF Add, Panic
  <2> QED
    BY <2>1, <2>2
<1> QED
  BY <1>1, <1>2, <1>3, <1>4, <1>5, <1>6 DEF Next

\* The inductive invariant holds always.
THEOREM HintInvariance == Spec => []IInv
BY InitIInv, NextIInv, PTL DEF Spec

\* Of a sum whose upper bound overflows and whose lower bound does not the bounds
\* may cross in a release build; no other sequence of calls makes a hint on which
\* they do, and in a build with overflow checks none does. The sum that does it is
\* an action of the model. (set_lower, set_upper, set_exact, Add)
THEOREM HintsOrdered == Spec => []Ordered
<1>1. IInv => Ordered
  BY DEF IInv
<1> QED
  BY <1>1, HintInvariance, PTL

\* A sum of hints that does not overflow allows exactly the sums of the lengths
\* that the two allow, for every width (impl Add for SizeHint).
THEOREM SumsArePerfect == Spec => []AddsPerfectly
<1>1. IInv => AddsPerfectly
  <2> SUFFICES ASSUME IInv, NEW a \in Reg, NEW b \in Reg, Fits(hint[a], hint[b]),
                      a \notin skewed, b \notin skewed,
                      NEW n \in 0..(2 * MaxU64)
               PROVE  Allows(Plus(hint[a], hint[b]), n)
                        <=> \E k \in 0..n :
                              Allows(hint[a], k) /\ Allows(hint[b], n - k)
    BY DEF AddsPerfectly
  <2>1. hint[a] \in Hint /\ hint[b] \in Hint /\ n \in Nat
    BY WidthAssumption DEF IInv, TypeOK
  <2>2. /\ \A max \in hint[a].upper : hint[a].lower <= max
        /\ \A max \in hint[b].upper : hint[b].lower <= max
    BY DEF IInv, Ordered, Consistent
  <2> QED
    BY <2>1, <2>2, PlusIsPerfect
<1> QED
  BY <1>1, HintInvariance, PTL
=============================================================================
