---------------------------- MODULE SizeHintOps ----------------------------
(***************************************************************************)
(* The size hints of a program that builds them with the calls of          *)
(* http-body/src/size_hint.rs, in any order, on several variables. A call  *)
(* that panics leaves its hint as it was: one whose assertion fails and,   *)
(* in a build with overflow checks, a sum that overflows. Without them the *)
(* sum wraps around.                                                       *)
(***************************************************************************)
EXTENDS SizeHints

CONSTANT Reg    \* the program's variables

VARIABLES
  hint,             \* the SizeHint in each
  overflowChecks,   \* the build panics on overflow: debug, not release
  skewed            \* history: what was assigned last comes from a sum of
                    \* which only the upper bound overflowed

vars == <<hint, overflowChecks, skewed>>

TypeOK ==
  /\ hint \in [Reg -> Hint]
  /\ overflowChecks \in BOOLEAN
  /\ skewed \subseteq Reg

\* SizeHint::new, default
Init ==
  /\ hint = [r \in Reg |-> NoHint]
  /\ overflowChecks \in BOOLEAN
  /\ skewed = {}

Assign(r, h) ==
  /\ hint' = [hint EXCEPT ![r] = h]
  /\ skewed' = skewed \ {r}
  /\ UNCHANGED overflowChecks

Panic == UNCHANGED vars

New(r) == Assign(r, NoHint)

WithExact(r, v) == Assign(r, Exactly(v))

\* Mutant: set_lower does not look at the upper bound.
LowerAllowedAlways(h, v) == v <= MaxU64

\* The assertions of set_lower and set_upper.
LowerAllowed(h, v) == \A max \in h.upper : v <= max
UpperAllowed(h, v) == v >= h.lower

SetLower(r, v) ==
  IF LowerAllowed(hint[r], v) THEN Assign(r, [hint[r] EXCEPT !.lower = v])
  ELSE Panic

SetUpper(r, v) ==
  IF UpperAllowed(hint[r], v) THEN Assign(r, WithUpper(hint[r], v))
  ELSE Panic

SetExact(r, v) == Assign(r, [lower |-> v, upper |-> {v}])

LowerFits(a, b) == a.lower + b.lower <= MaxU64
UpperFits(a, b) == \A x \in a.upper, y \in b.upper : x + y <= MaxU64
Fits(a, b) == LowerFits(a, b) /\ UpperFits(a, b)

\* The sum of the hints in a and b is kept in r. If a bound overflows, it panics
\* or wraps.
Skews(a, b) ==
  \/ a \in skewed \/ b \in skewed
  \/ LowerFits(hint[a], hint[b]) /\ ~UpperFits(hint[a], hint[b])

Add(r, a, b) ==
  \/ /\ overflowChecks /\ ~Fits(hint[a], hint[b])
     /\ Panic
  \/ /\ overflowChecks => Fits(hint[a], hint[b])
     /\ hint' = [hint EXCEPT ![r] = Plus(hint[a], hint[b])]
     /\ skewed' = IF Skews(a, b) THEN skewed \cup {r} ELSE skewed \ {r}
     /\ UNCHANGED overflowChecks

Next ==
  \E r \in Reg :
    \/ New(r)
    \/ \E v \in U64 : WithExact(r, v) \/ SetLower(r, v) \/ SetUpper(r, v)
                        \/ SetExact(r, v)
    \/ \E a, b \in Reg : Add(r, a, b)

Spec == Init /\ [][Next]_vars
-----------------------------------------------------------------------------
\* The lengths a hint allows a body to have.
Allows(h, n) == h.lower <= n /\ \A max \in h.upper : n <= max

Consistent(h) == \A max \in h.upper : h.lower <= max

\* A sequence of calls makes a hint that no body can keep in one way only: in a
\* build without overflow checks it adds hints of which the upper bounds overflow
\* and the lower ones do not, and sets neither bound afterwards. Setters look
\* at one bound each, set_exact at none, and a sum of which both bounds wrap is
\* wrong but not inconsistent. (set_lower, set_upper, set_exact, Add)
Ordered ==
  \A r \in (IF overflowChecks THEN Reg ELSE Reg \ skewed) : Consistent(hint[r])

\* "Perfectly adds two `SizeHint'`s" (size_hint.rs:86): a sum that fits allows the
\* sums of the lengths that the two allow, and no other length, unless the bounds
\* of a summand have crossed.
AddsPerfectly ==
  \A a, b \in Reg \ skewed :
    Fits(hint[a], hint[b]) =>
      \A n \in 0..(2 * MaxU64) :
        Allows(Plus(hint[a], hint[b]), n)
          <=> \E k \in 0..n : Allows(hint[a], k) /\ Allows(hint[b], n - k)
=============================================================================
