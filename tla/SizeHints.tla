----------------------------- MODULE SizeHints -----------------------------
(***************************************************************************)
(* Bounds on the bytes a body has left (http-body/src/size_hint.rs). The   *)
(* optional upper bound is a set of at most one number. The bounds are     *)
(* unsigned integers of a fixed width whose sums wrap around, as they do   *)
(* in a release build (a debug build panics instead).                      *)
(***************************************************************************)
EXTENDS Naturals

CONSTANT MaxU64      \* the largest value of the width, u64::MAX

ASSUME WidthAssumption == MaxU64 \in Nat \ {0}

U64 == 0..MaxU64
Hint == [lower : U64, upper : {{}} \cup {{n} : n \in U64}]

NoHint == [lower |-> 0, upper |-> {}]
Exactly(n) == [lower |-> n, upper |-> {n}]

\* set_upper, whose caller has to keep the upper bound above the lower one.
WithUpper(h, n) == [h EXCEPT !.upper = {n}]

Wrap(n) == n % (MaxU64 + 1)

\* Mutant: an upper bound that is not known counts for nothing.
PlusKnownUpper(a, b) ==
  [lower |-> Wrap(a.lower + b.lower),
   upper |-> IF a.upper = {} THEN b.upper
             ELSE IF b.upper = {} THEN a.upper
             ELSE {Wrap(x + y) : x \in a.upper, y \in b.upper}]

\* impl Add: an upper bound only when both have one.
Plus(a, b) ==
  [lower |-> Wrap(a.lower + b.lower),
   upper |-> {Wrap(x + y) : x \in a.upper, y \in b.upper}]
=============================================================================
