------------------------------ MODULE RayMath ------------------------------
(***************************************************************************)
(* Fixed-point arithmetic of core/src/math.rs.  RAY stands for one; every  *)
(* product and quotient rounds half up, in 256 bits, so that nothing       *)
(* overflows between the two operations, and is then cut to a u128: what   *)
(* does not fit loses its upper half without a word.                       *)
(***************************************************************************)
EXTENDS Integers

CONSTANTS
  RAY,
  WORD    \* number of values of a u128

ASSUME RayAssumption == RAY \in Nat \ {0} /\ RAY % 2 = 0

ASSUME WordAssumption == WORD \in Nat /\ WORD > RAY

HALF_RAY == RAY \div 2

\* Mutated: the product is not scaled back.
WideProductUnscaled(a, b) == a * b + HALF_RAY

\* The results in 256 bits.
WideProduct(a, b) == (a * b + HALF_RAY) \div RAY

WideQuotient(a, b) == (a * RAY + b \div 2) \div b

ray_mul(a, b) == WideProduct(a, b) % WORD

ray_div(a, b) == WideQuotient(a, b) % WORD

=============================================================================
