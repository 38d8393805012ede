------------------------------- MODULE PackPrice -------------------------------
(***************************************************************************)
(* pack_price_inner of lane/packed_price.rs: the loop that drops decimal   *)
(* digits until a price can be packed, and remembers of all the digits it  *)
(* dropped only which way they round.                                      *)
(***************************************************************************)
EXTENDS PackedPrice

CONSTANTS Mantissas, Exponents    \* prices given to pack_price

ASSUME InputsAssumption == Mantissas \subseteq Int /\ Exponents \subseteq Int

VARIABLES price,      \* the arguments of pack_price
          mantissa, exponent, rounding_method,   \* the loop's variables
          state,      \* "loop", "packed", "unavailable"
          divisor     \* 10 to the number of digits dropped; only in the comments of the code

packvars == <<price, mantissa, exponent, rounding_method, state, divisor>>

Methods == {"Up", "Down", "NearestEven", "Unnecessary"}

update_from_remainder(method, remainder) ==
  CASE remainder \in 1..4 -> "Down"
    [] remainder \in 6..9 -> "Up"
    [] remainder = 0 /\ method = "Unnecessary" -> "Unnecessary"
    [] remainder = 0 /\ method # "Unnecessary" -> "Down"
    [] remainder = 5 /\ method = "Unnecessary" -> "NearestEven"
    [] remainder = 5 /\ method # "Unnecessary" -> "Up"

(* Mutant: halves go up. *)
round_half_up(method, target) ==
  IF method \in {"Up", "NearestEven"} THEN target + 1 ELSE target

round(method, target) ==
  IF method = "Up" \/ (method = "NearestEven" /\ target % 2 = 1) THEN target + 1 ELSE target

PackInit ==
  /\ price \in [mantissa : Mantissas, exponent : Exponents]
  /\ mantissa = price.mantissa /\ exponent = price.exponent
  /\ rounding_method = "Unnecessary" /\ divisor = 1
  /\ state = IF mantissa <= 0 \/ exponent > 0 THEN "unavailable" ELSE "loop"

Return ==
  /\ state = "loop"
  /\ Packable(-exponent, round(rounding_method, mantissa))
  /\ state' = "packed"
  /\ UNCHANGED <<price, mantissa, exponent, rounding_method, divisor>>

DropDigitEarlyEnd ==
  /\ state = "loop"
  /\ ~Packable(-exponent, round(rounding_method, mantissa))
  /\ mantissa' = mantissa \div 10 /\ exponent' = exponent + 1
  /\ rounding_method' = update_from_remainder(rounding_method, mantissa % 10)
  /\ divisor' = 10 * divisor
  /\ state' = IF mantissa' = 0 \/ exponent' >= 0 THEN "unavailable" ELSE "loop"
  /\ UNCHANGED price

DropDigit ==
  /\ state = "loop"
  /\ ~Packable(-exponent, round(rounding_method, mantissa))
  /\ mantissa' = mantissa \div 10 /\ exponent' = exponent + 1
  /\ rounding_method' = update_from_remainder(rounding_method, mantissa % 10)
  /\ divisor' = 10 * divisor
  /\ state' = IF mantissa' = 0 \/ exponent' > 0 THEN "unavailable" ELSE "loop"
  /\ UNCHANGED price

PackNext == Return \/ DropDigit

PackSpec == PackInit /\ [][PackNext]_packvars

-----------------------------------------------------------------------------
(* Properties                                                              *)

PackTypeOK ==
  /\ price \in [mantissa : Int, exponent : Int]
  /\ mantissa \in Int /\ exponent \in Int /\ divisor \in Nat \ {0}
  /\ rounding_method \in Methods /\ state \in {"loop", "packed", "unavailable"}
  /\ state # "unavailable" => mantissa > 0 /\ exponent <= 0

(* The part of the price the loop has dropped, in units of its last digit. *)
Dropped == price.mantissa - mantissa * divisor

(* The loop's invariant, of which the code's comment has the first half:   *)
(* the digits dropped are less than one unit, and the rounding method says *)
(* whether they are nothing, less than half a unit, half of it, or more. *)
MethodTellsDropped ==
  state # "unavailable" =>
    /\ 0 <= Dropped /\ Dropped < divisor
    /\ rounding_method = "Unnecessary" <=> Dropped = 0
    /\ rounding_method = "Down" <=> 0 < Dropped /\ 2 * Dropped < divisor
    /\ rounding_method = "NearestEven" <=> 2 * Dropped = divisor
    /\ rounding_method = "Up" <=> 2 * Dropped > divisor

(* A packed price is as near to the price as its digits allow, half a unit *)
(* of its last digit at most, although the loop rounds once for all the    *)
(* digits it dropped one at a time; and a tie goes to the even neighbour. *)
PackedIsNearest ==
  state = "packed" =>
    LET packed == round(rounding_method, mantissa)
        error  == packed * divisor - price.mantissa IN
    /\ -divisor <= 2 * error /\ 2 * error <= divisor
    /\ 2 * error = divisor \/ 2 * error = -divisor => packed % 2 = 0

(* The loop gives exactly the price with the fewest digits cut off that    *)
(* fits, rounded from the full price, and none when no cut fits. *)
PackedAsSpecified ==
  /\ state = "packed" =>
       RoundedPrice(price.mantissa, price.exponent)
         = [neg |-> -exponent, mantissa |-> round(rounding_method, mantissa)]
  /\ state = "unavailable" =>
       RoundedPrice(price.mantissa, price.exponent) = Unavailable

=============================================================================
