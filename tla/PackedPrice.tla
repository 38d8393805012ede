------------------------------ MODULE PackedPrice ------------------------------
(***************************************************************************)
(* What the packed EVM format makes of a price (lane/packed_price.rs): the *)
(* mantissa cut to MaxMantissa, the exponent to 0..-MaxNegExponent, and    *)
(* one reserved pair that says there is no price.  Here is what the packed *)
(* price is; the loop that computes it is in PackPrice.                    *)
(***************************************************************************)
EXTENDS Integers

CONSTANTS MaxMantissa,      \* U27::MAX_VALUE
          MaxNegExponent    \* U5::MAX_VALUE

ASSUME PackedAssumption ==
  /\ MaxMantissa \in Nat \ {0} /\ MaxNegExponent \in Nat

Unavailable == [neg |-> MaxNegExponent, mantissa |-> MaxMantissa]

(* U5::new, U27::new and U64x27::new: the pair fits and is not reserved. *)
Packable(neg, mantissa) ==
  /\ neg \in 0..MaxNegExponent /\ mantissa \in 0..MaxMantissa
  /\ neg # MaxNegExponent \/ mantissa # MaxMantissa

(* m / unit to the nearest integer, and to the even one in the middle. *)
Nearest(m, unit) ==
  LET q == m \div unit
      r == m % unit IN
  IF 2 * r > unit \/ (2 * r = unit /\ q % 2 = 1) THEN q + 1 ELSE q

Pow10[k \in Nat] == IF k = 0 THEN 1 ELSE 10 * Pow10[k - 1]

(* The numbers of digits that can be cut off m * 10^e so that it packs. *)
Cuts(m, e) ==
  {k \in 0..(-e) : m \div Pow10[k] > 0 /\ Packable(-(e + k), Nearest(m, Pow10[k]))}

(* The price m * 10^e with the fewest digits cut off that can be packed. *)
RoundedPrice(m, e) ==
  IF m <= 0 \/ e > 0 \/ Cuts(m, e) = {} THEN Unavailable
  ELSE LET k == CHOOSE k \in Cuts(m, e) : \A j \in Cuts(m, e) : k <= j IN
       [neg |-> -(e + k), mantissa |-> Nearest(m, Pow10[k])]

=============================================================================
