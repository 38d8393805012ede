--------------------------- MODULE LazerArithmetic ---------------------------
(***************************************************************************)
(* The checked arithmetic of the protocol crate: prices and rates          *)
(* (price.rs, rate.rs), the powers of ten between a value and its mantissa *)
(* (ExponentFactor of lib.rs), timestamps and durations (time.rs), and the *)
(* bid and ask the agent makes of a legacy quote (legacy_handle.rs).       *)
(*                                                                         *)
(* Words keep their shape and lose their size: an i64 is                   *)
(* -(I64Max+1)..I64Max for a small I64Max, the u64 and the i128 follow,    *)
(* 1000 is Kilo and 10 is Ten.  A behaviour makes one call with any        *)
(* arguments and returns; the properties compare the result with exact     *)
(* arithmetic over the integers.                                           *)
(***************************************************************************)
EXTENDS Integers, Sequences, FiniteSetsExt

CONSTANTS I64Max,      \* i64::MAX
          Kilo,        \* 1000: nanos in a micro, micros in a milli
          Ten,         \* the base of the exponents
          MaxExponent, \* exponents tried, on both sides of zero
          ChronoMax,   \* the last microsecond chrono can name, below I64Max
          ALL          \* FixedRate::ALL, the intervals in microseconds

VARIABLE last          \* the call that returned: operation, arguments, result

I64 == -(I64Max + 1)..I64Max
U64Max == 2 * I64Max + 1
U64 == 0..U64Max
I128Max == 2 * (I64Max + 1) * (I64Max + 1) - 1
I128 == -(I128Max + 1)..I128Max
Mega == Kilo * Kilo
SmallExponents == -MaxExponent..MaxExponent

(* What the words have to be.  The rates divide a second, and the first    *)
(* divides the others. *)
ASSUME WordsAssumption ==
  /\ {I64Max, Kilo, Ten, MaxExponent} \subseteq Nat \ {0}
  /\ Kilo > 1 /\ Ten > 1 /\ ChronoMax \in 0..I64Max
  /\ ALL \in Seq(1..U64Max) /\ ALL # <<>>
  /\ \A i \in DOMAIN ALL : Mega % ALL[i] = 0 /\ ALL[i] % ALL[1] = 0

Ok(v) == [kind |-> "ok", value |-> v]
Overflow == [kind |-> "overflow", value |-> 0]
ZeroPriceUnsupported == [kind |-> "zero", value |-> 0]
TooPrecise == [kind |-> "precise", value |-> 0]
Invalid == [kind |-> "invalid", value |-> 0]

(* A result that fits its word, or the error of the checked operation. *)
Checked(v, word, error) == IF v \in word THEN Ok(v) ELSE error

Abs(v) == IF v < 0 THEN -v ELSE v

(* Integer division of the machine, towards zero. *)
Quotient(a, b) ==
  LET q == Abs(a) \div Abs(b) IN IF (a < 0) = (b < 0) THEN q ELSE -q

-----------------------------------------------------------------------------
(* Prices and rates.                                                       *)

Power[k \in Nat] == IF k = 0 THEN 1 ELSE Ten * Power[k - 1]

(* ExponentFactor::get: the power of ten, absent when it is no i64. *)
ExponentFactor(exponent) == Checked(Power[Abs(exponent)], I64, Overflow)

NonZero(r) == IF r = Ok(0) THEN ZeroPriceUnsupported ELSE r

rate_from_integer(v, exponent) ==
  LET coef == ExponentFactor(exponent) IN
  IF coef = Overflow THEN Overflow
  ELSE Checked(IF exponent >= 0 THEN Quotient(v, coef.value) ELSE v * coef.value,
               I64, Overflow)

price_from_integer(v, exponent) == NonZero(rate_from_integer(v, exponent))

(* A Decimal is digits / Ten^scale.  Scaled by the factor it is            *)
(* numerator / denominator, kept exact here as Decimal keeps it for the    *)
(* 28 digits it holds. *)
Scaled(d, exponent) ==
  IF exponent >= 0 THEN <<d.digits, Power[d.scale + exponent]>>
  ELSE <<d.digits * Power[-exponent], Power[d.scale]>>

rate_parse_str(d, exponent) ==
  LET s == Scaled(d, exponent) IN
  IF ExponentFactor(exponent) = Overflow THEN Overflow
  ELSE IF Abs(s[1]) % s[2] # 0 THEN TooPrecise
  ELSE Checked(Quotient(s[1], s[2]), I64, Overflow)

price_parse_str(d, exponent) ==
  LET r == rate_parse_str(d, exponent) IN IF r = Ok(0) THEN Overflow ELSE r

(* from_f64 cuts what the exponent cannot hold.                            *)
rate_from_f64(d, exponent) ==
  LET s == Scaled(d, exponent) IN
  IF ExponentFactor(exponent) = Overflow THEN Overflow
  ELSE Checked(Quotient(s[1], s[2]), I64, Overflow)

price_from_f64(d, exponent) == NonZero(rate_from_f64(d, exponent))

add_with_same_exponent(a, b) == NonZero(Checked(a + b, I64, Overflow))
sub_with_same_exponent(a, b) == NonZero(Checked(a - b, I64, Overflow))
mul_integer(a, factor) == NonZero(Checked(a * factor, I64, Overflow))
div_integer(a, factor) ==
  IF factor = 0 THEN Overflow ELSE NonZero(Checked(Quotient(a, factor), I64, Overflow))

(* The product is an i128, which every product of two i64 fits; scaled up  *)
(* it may leave even that. *)
mul_decimal(a, mantissa, exponent) ==
  LET product == a * mantissa
      coef    == ExponentFactor(exponent)
      scaled  == IF exponent >= 0 THEN Checked(product * coef.value, I128, Overflow)
                 ELSE Ok(Quotient(product, coef.value)) IN
  IF coef = Overflow \/ scaled = Overflow THEN Overflow
  ELSE NonZero(Checked(scaled.value, I64, Overflow))

(* Mutant: the products saturate instead of widening to u128. *)
has_moved_saturating(a, b, threshold_ppm) ==
  LET lhs == Abs(a - b) * Mega
      rhs == Abs(a) * threshold_ppm IN
  Min({lhs, U64Max}) > Min({rhs, U64Max})

has_moved_with_same_exponent(a, b, threshold_ppm) ==
  LET lhs == Abs(a - b) * Mega
      rhs == Abs(a) * threshold_ppm IN
  \/ lhs \in U64 /\ rhs \in U64 /\ lhs > rhs
  \/ lhs \notin U64 /\ rhs \in U64
  \/ lhs \notin U64 /\ rhs \notin U64 /\ lhs > rhs

(* handle_update_price: bid and ask saturate around the price. *)
legacy_quote(price, conf) ==
  LET conf_i64 == IF conf \in I64 THEN conf ELSE I64Max IN
  <<Max({price - conf_i64, -(I64Max + 1)}), Min({price + conf_i64, I64Max})>>

-----------------------------------------------------------------------------
(* Timestamps and durations.                                               *)

as_nanos(t) == t * Kilo
from_nanos(n) == Checked(Quotient(n, Kilo), U64, Invalid)
as_millis(t) == t \div Kilo
from_millis(m) == Checked(m * Kilo, U64, Overflow)
as_secs(t) == t \div Mega
from_secs(s) == Checked(s * Mega, U64, Overflow)

checked_add(t, d) == Checked(t + d, U64, Overflow)
checked_sub(t, d) == Checked(t - d, U64, Overflow)
saturating_add(t, d) == Min({t + d, U64Max})
saturating_sub(t, d) == Max({t - d, 0})
duration_since(t, u) == checked_sub(t, u)
saturating_duration_since(t, u) == saturating_sub(t, u)

is_multiple_of(t, d) == d = 0 \/ t % d = 0

next_multiple_of(t, d) ==
  IF d = 0 THEN Invalid
  ELSE IF t % d = 0 THEN Ok(t)
  ELSE Checked(t + (d - (t % d)), U64, Overflow)

previous_multiple_of(t, d) == IF d = 0 THEN Invalid ELSE Ok((t \div d) * d)

duration_checked_mul(d, n) == Checked(d * n, U64, Overflow)
duration_checked_div(d, n) == IF n = 0 THEN Invalid ELSE Ok(d \div n)

(* The protobuf form: i64 seconds and i32 nanoseconds.  The seconds become *)
(* microseconds as an i64, before the sign is checked. *)
timestamp_from_proto(p) ==
  LET seconds_in_micros == Checked(p.seconds * Mega, I64, Overflow)
      nanos_in_micros   == Quotient(p.nanos, Kilo) IN
  IF seconds_in_micros = Overflow THEN Overflow
  ELSE IF seconds_in_micros.value < 0 \/ nanos_in_micros < 0 THEN Invalid
  ELSE Checked(seconds_in_micros.value + nanos_in_micros, U64, Overflow)

timestamp_into_proto(t) == [seconds |-> t \div Mega, nanos |-> (t % Mega) * Kilo]

duration_from_proto(p) == timestamp_from_proto(p)
duration_into_proto(d) == timestamp_into_proto(d)

(* A SystemTime is nanoseconds around the epoch, a chrono time microseconds. *)
timestamp_from_system_time(n) ==
  IF n < 0 THEN Invalid ELSE Checked(n \div Kilo, U64, Invalid)
timestamp_into_system_time(t) == Ok(as_nanos(t))

timestamp_from_chrono(micros) == IF micros < 0 THEN Invalid ELSE Ok(micros)
timestamp_into_chrono(t) == IF t \in I64 /\ t <= ChronoMax THEN Ok(t) ELSE Invalid

(* A std Duration is unsigned nanoseconds. *)
duration_from_std(n) == Checked(n \div Kilo, U64, Invalid)
duration_into_std(d) == d * Kilo

FixedRates == {ALL[i] : i \in DOMAIN ALL}
fixed_rate_from_millis(m) ==
  LET fits == {r \in FixedRates : as_millis(r) = m} IN
  IF fits = {} THEN Invalid ELSE Ok(Min(fits))
fixed_rate_from_duration(d) == IF d \in FixedRates THEN Ok(d) ELSE Invalid
fixed_rate_from_proto(p) ==
  LET d == duration_from_proto(p) IN
  IF d.kind = "ok" THEN fixed_rate_from_duration(d.value) ELSE d

-----------------------------------------------------------------------------
NoCall == [op |-> "none", args |-> <<>>, res |-> <<>>]

ArithmeticInit == last = NoCall

Call(op, args, res) == last' = [op |-> op, args |-> args, res |-> res]

Prices == I64 \ {0}
Decimals == [digits : I64, scale : 0..MaxExponent]
Protos == [seconds : I64, nanos : -(2 * Kilo)..(Mega * Kilo - 1)]

PriceCalls ==
  \/ \E v \in I64, e \in SmallExponents : Call("price_from_integer", <<v, e>>, price_from_integer(v, e))
  \/ \E d \in Decimals, e \in SmallExponents : Call("price_parse_str", <<d, e>>, price_parse_str(d, e))
  \/ \E d \in Decimals, e \in SmallExponents : Call("price_from_f64", <<d, e>>, price_from_f64(d, e))
  \/ \E a, b \in Prices : \/ Call("add", <<a, b>>, add_with_same_exponent(a, b))
                          \/ Call("sub", <<a, b>>, sub_with_same_exponent(a, b))
  \/ \E a \in Prices, f \in I64 : \/ Call("mul_integer", <<a, f>>, mul_integer(a, f))
                                  \/ Call("div_integer", <<a, f>>, div_integer(a, f))
  \/ \E a \in Prices, m \in I64, e \in SmallExponents :
       Call("mul_decimal", <<a, m, e>>, mul_decimal(a, m, e))

RateCalls ==
  \/ \E v \in I64, e \in SmallExponents : Call("rate_from_integer", <<v, e>>, rate_from_integer(v, e))
  \/ \E d \in Decimals, e \in SmallExponents : Call("rate_parse_str", <<d, e>>, rate_parse_str(d, e))
  \/ \E d \in Decimals, e \in SmallExponents : Call("rate_from_f64", <<d, e>>, rate_from_f64(d, e))

HasMoved == \E a, b \in Prices, ppm \in U64 :
  Call("has_moved", <<a, b, ppm>>, has_moved_with_same_exponent(a, b, ppm))

Quote == \E price \in I64, conf \in U64 :
  Call("quote", <<price, conf>>, legacy_quote(price, conf))

(* Each call of a pair runs a value through a conversion and back. *)
TimestampCalls ==
  \/ \E t, d \in U64 :
       Call("multiples", <<t, d>>,
            [is |-> is_multiple_of(t, d), next |-> next_multiple_of(t, d),
             previous |-> previous_multiple_of(t, d)])
  \/ \E t, d \in U64 :
       Call("sums", <<t, d>>,
            [add |-> checked_add(t, d), sub |-> checked_sub(t, d),
             since |-> duration_since(t, d), satadd |-> saturating_add(t, d),
             satsub |-> saturating_sub(t, d), satsince |-> saturating_duration_since(t, d)])
  \/ \E t \in U64 :
       Call("units", <<t>>,
            [nanos |-> from_nanos(as_nanos(t)), millis |-> from_millis(as_millis(t)),
             secs |-> from_secs(as_secs(t))])
  \/ \E t \in U64 :
       Call("proto_back", <<t>>, timestamp_from_proto(timestamp_into_proto(t)))
  \/ \E p \in Protos : Call("proto", <<p>>, timestamp_from_proto(p))
  \/ \E t \in U64 : Call("system_back", <<t>>,
       timestamp_from_system_time(timestamp_into_system_time(t).value))
  \/ \E n \in -(2 * Kilo)..((U64Max + 2) * Kilo) :
       Call("system", <<n>>, timestamp_from_system_time(n))
  \/ \E t \in U64 : Call("chrono_back", <<t>>,
       LET c == timestamp_into_chrono(t) IN
       IF c.kind = "ok" THEN timestamp_from_chrono(c.value) ELSE c)
  \/ \E c \in -(ChronoMax + 1)..ChronoMax : Call("chrono", <<c>>, timestamp_from_chrono(c))

DurationCalls ==
  \/ \E d, n \in U64 :
       Call("scale", <<d, n>>,
            [mul |-> duration_checked_mul(d, n), div |-> duration_checked_div(d, n)])
  \/ \E d \in U64 :
       Call("proto_back", <<d>>, duration_from_proto(duration_into_proto(d)))
  \/ \E d \in U64 : Call("system_back", <<d>>, duration_from_std(duration_into_std(d)))
  \/ \E m \in U64 : Call("rate_millis", <<m>>, fixed_rate_from_millis(m))
  \/ \E p \in Protos : Call("rate_proto", <<p>>, fixed_rate_from_proto(p))

ArithmeticReturn == last # NoCall /\ last' = NoCall

ArithmeticCalls ==
  /\ last = NoCall
  /\ PriceCalls \/ RateCalls \/ HasMoved \/ Quote \/ TimestampCalls \/ DurationCalls

ArithmeticNext == ArithmeticCalls \/ ArithmeticReturn

ArithmeticSpec == ArithmeticInit /\ [][ArithmeticNext]_last

-----------------------------------------------------------------------------
(* Properties                                                              *)

(* num / den exactly, cut towards zero; the error when it is no i64. *)
Exact(num, den) == Checked(Quotient(num, den), I64, Overflow)
PowerFits(e) == Power[Abs(e)] <= I64Max

(* What the value with exponent e has for a mantissa: value * Ten^-e. *)
ExactMantissa(digits, scale, e) ==
  Exact(digits * Power[Max({-e, 0})], Power[scale + Max({e, 0})])
DividesEvenly(digits, scale, e) ==
  (Abs(digits) * Power[Max({-e, 0})]) % Power[scale + Max({e, 0})] = 0

(* Whatever the order of checks, multiplications and divisions in          *)
(* price.rs and rate.rs, a price or rate that comes back is the exact      *)
(* value cut towards zero; parse_str gives it only when nothing is cut; a  *)
(* price is never zero; and an error comes back only when the exact value  *)
(* is no i64, is zero, or its power of ten is no i64. *)
PricesExact(call) ==
  LET a == call.args
      r == call.res
      Price(exact) == r \in {exact, ZeroPriceUnsupported} /\ (exact = Ok(0) <=> r # exact)
      Powered(e, good) == IF PowerFits(e) THEN good ELSE r = Overflow IN
  /\ call.op = "rate_from_integer" => Powered(a[2], r = ExactMantissa(a[1], 0, a[2]))
  /\ call.op = "price_from_integer" => Powered(a[2], Price(ExactMantissa(a[1], 0, a[2])))
  /\ call.op = "rate_from_f64" => Powered(a[2], r = ExactMantissa(a[1].digits, a[1].scale, a[2]))
  /\ call.op = "price_from_f64" => Powered(a[2], Price(ExactMantissa(a[1].digits, a[1].scale, a[2])))
  /\ call.op \in {"rate_parse_str", "price_parse_str"} =>
       /\ r.kind = "ok" => /\ r = ExactMantissa(a[1].digits, a[1].scale, a[2])
                           /\ r.value * Power[a[1].scale + Max({a[2], 0})]
                                = a[1].digits * Power[Max({-a[2], 0})]
                           /\ call.op = "price_parse_str" => r.value # 0
       /\ r = TooPrecise => ~DividesEvenly(a[1].digits, a[1].scale, a[2])
  /\ call.op = "add" => Price(Exact(a[1] + a[2], 1))
  /\ call.op = "sub" => Price(Exact(a[1] - a[2], 1))
  /\ call.op = "mul_integer" => Price(Exact(a[1] * a[2], 1))
  /\ call.op = "div_integer" => IF a[2] = 0 THEN r = Overflow ELSE Price(Exact(a[1], a[2]))
  /\ call.op = "mul_decimal" =>
       Powered(a[3], Price(Exact(a[1] * a[2] * Power[Max({a[3], 0})], Power[Max({-a[3], 0})])))

(* has_moved_with_same_exponent answers whether |other - self| / |self|    *)
(* exceeds ppm / 10^6 exactly, whichever of its two u64 products           *)
(* overflows. *)
HasMovedExact(call) ==
  call.op = "has_moved" =>
    LET a == call.args IN call.res <=> Abs(a[1] - a[2]) * Mega > Abs(a[1]) * a[3]

(* The quote the agent publishes for a legacy update surrounds the price,  *)
(* for every confidence, also one no i64 can hold. *)
QuoteSurrounds(call) ==
  call.op = "quote" => /\ call.res[1] <= call.args[1] /\ call.args[1] <= call.res[2]
                       /\ call.res[1] \in I64 /\ call.res[2] \in I64

(* next_multiple_of and previous_multiple_of bracket a timestamp: the      *)
(* smallest multiple from it on, when a u64 holds it, and the greatest up  *)
(* to it; both are the timestamp itself exactly for a multiple, and agree  *)
(* with is_multiple_of except for a zero interval. *)
MultiplesBracket(call) ==
  call.op = "multiples" =>
    LET t == call.args[1]
        d == call.args[2]
        from == {m \in t..U64Max : m % d = 0} IN
    IF d = 0 THEN call.res = [is |-> TRUE, next |-> Invalid, previous |-> Invalid]
    ELSE /\ call.res.next = IF from = {} THEN Overflow ELSE Ok(Min(from))
         /\ call.res.previous = Ok(Max({m \in 0..t : m % d = 0}))
         /\ call.res.is <=> call.res.next = call.res.previous

(* A timestamp or duration that goes out as protobuf, SystemTime, chrono   *)
(* or std Duration comes back as itself or not at all, and as itself up to *)
(* i64::MAX microseconds (chrono: its last one); what comes in is the      *)
(* microsecond it falls in, and nothing before the epoch comes in. *)
TimesSurvive(call) ==
  LET a == call.args
      r == call.res IN
  /\ call.op = "proto_back" => \/ r = Ok(a[1])
                               \/ r.kind # "ok" /\ a[1] > I64Max - Mega
  /\ call.op = "system_back" => r = Ok(a[1])
  /\ call.op = "chrono_back" => IF a[1] <= ChronoMax THEN r = Ok(a[1]) ELSE r.kind # "ok"
  /\ call.op = "proto" /\ r.kind = "ok" =>
       /\ a[1].seconds >= 0 /\ a[1].nanos > -Kilo
       /\ r.value * Kilo <= a[1].seconds * Mega * Kilo + Max({a[1].nanos, 0})
       /\ a[1].seconds * Mega * Kilo + a[1].nanos < (r.value + 1) * Kilo
  /\ call.op = "system" /\ r.kind = "ok" =>
       a[1] >= 0 /\ r.value * Kilo <= a[1] /\ a[1] < (r.value + 1) * Kilo
  /\ call.op = "chrono" /\ r.kind = "ok" => r.value = a[1]
  /\ call.op = "units" =>
       /\ r.nanos = Ok(a[1])
       /\ r.millis.value <= a[1] /\ a[1] < r.millis.value + Kilo
       /\ r.secs.value <= r.millis.value /\ a[1] < r.secs.value + Mega
  /\ call.op = "sums" =>
       /\ r.add.kind = "ok" => checked_sub(r.add.value, a[2]) = Ok(a[1]) /\ r.satadd = r.add.value
       /\ r.sub.kind = "ok" => checked_add(r.sub.value, a[2]) = Ok(a[1]) /\ r.satsub = r.sub.value
       /\ r.since = r.sub /\ r.satsince = r.satsub /\ r.satsub <= a[1] /\ a[1] <= r.satadd
  /\ call.op = "scale" =>
       /\ r.mul.kind = "ok" /\ a[2] # 0 => duration_checked_div(r.mul.value, a[2]) = Ok(a[1])
       /\ r.div.kind = "ok" => r.div.value * a[2] <= a[1] /\ a[1] < (r.div.value + 1) * a[2]
  /\ call.op \in {"rate_millis", "rate_proto"} /\ r.kind = "ok" =>
       r.value \in FixedRates /\ Mega % r.value = 0 /\ r.value % ALL[1] = 0

(* All of it, whichever intermediate value overflows and whatever is       *)
(* checked first: what price.rs, rate.rs and time.rs return is what exact  *)
(* integers say, rounded towards zero where the code divides, or an error  *)
(* where a word cannot hold it; a move is told although a product of it    *)
(* overflows; a quote and a pair of multiples have the value between them; *)
(* and a time that was converted comes back. *)
ArithmeticExact ==
  /\ PricesExact(last) /\ HasMovedExact(last) /\ QuoteSurrounds(last)
  /\ MultiplesBracket(last) /\ TimesSurvive(last)
=============================================================================
