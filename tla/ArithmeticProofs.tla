-------------------------- MODULE ArithmeticProofs --------------------------
(***************************************************************************)
(* Prices, rates and times are exact: the invariant the arithmetic part of *)
(* the protocol run checks, for every width of the machine words, every    *)
(* scale and every value.                                                  *)
(*                                                                         *)
(* Each call of the crate is a step that computes its result from          *)
(* arguments chosen freely, so the theorem needs no invariant over earlier *)
(* states. What it needs is one lemma for each function of the crate, and  *)
(* under those the facts on powers, quotients and words they rest on. The  *)
(* powers are a recursive function: that they exist and obey their         *)
(* recursion is shown by induction over the naturals, from the             *)
(* well-foundedness of <.                                                  *)
(***************************************************************************)
EXTENDS LazerArithmetic, WellFoundedInduction, TLAPS

USE ZenonT(30)

-----------------------------------------------------------------------------
(* Induction, powers and division *)

\* A set of naturals that is not empty has a least element.
LEMMA LeastNatural ==
    ASSUME NEW T \in SUBSET Nat, T # {}
    PROVE  \E x \in T : \A y \in T : x <= y
<1>1. IsWellFoundedOn(OpToRel(<, Nat), Nat)
  BY NatLessThanWellFounded, Zenon
<1>2. PICK x \in T : \A y \in T : ~ (<<y, x>> \in OpToRel(<, Nat))
  BY <1>1, WFMin, Zenon
<1>3. \A y \in T : ~ (y < x)
  BY <1>2, Zenon DEF OpToRel
<1> QED BY <1>3, SMT

\* A set of naturals with 0 and, with every number, the next one has them all.
LEMMA Inductive ==
    ASSUME NEW T, 0 \in T, \A n \in Nat : n \in T => n + 1 \in T
    PROVE  \A n \in Nat : n \in T
<1> DEFINE U == {n \in Nat : n \notin T}
<1>1. SUFFICES ASSUME U # {} PROVE FALSE
  OBVIOUS
<1>2. PICK n \in U : \A y \in U : n <= y
  BY <1>1, LeastNatural, Zenon
<1>3. n \in Nat /\ n \notin T /\ n # 0
  BY <1>2, Zenon
<1>4. n - 1 \in Nat /\ ~(n <= n - 1) /\ (n - 1) + 1 = n
  BY <1>3, SMT
<1>5. n - 1 \in T
  BY <1>2, <1>4, Zenon
<1> QED BY <1>3, <1>4, <1>5, Zenon

\* Quotient and remainder are determined by the division they solve.
LEMMA DivisionUnique ==
    ASSUME NEW m \in Int, NEW u \in Int, u > 0, NEW q \in Int, 0 <= m - q * u, m - q * u < u
    PROVE  m \div u = q /\ m % u = m - q * u
<1> DEFINE d == m \div u
           r == m % u
<1>1. d \in Int /\ r \in Int /\ 0 <= r /\ r < u /\ m = u * d + r
  BY SMT
<1> HIDE DEF d, r
<1>2. (q - d) * u = q * u - u * d /\ q * u \in Int /\ u * d \in Int
  BY <1>1, SMT
<1>3. ~(q - d >= 1)
  <2>1. SUFFICES ASSUME q - d >= 1 PROVE FALSE
    OBVIOUS
  <2>2. (q - d) * u >= u
    BY <1>1, <2>1, SMT
  <2> QED BY <1>1, <1>2, <2>2, SMT
<1>4. ~(q - d <= -1)
  <2>1. SUFFICES ASSUME q - d <= -1 PROVE FALSE
    OBVIOUS
  <2>2. (q - d) * u <= -u
    BY <1>1, <2>1, SMT
  <2> QED BY <1>1, <1>2, <2>2, SMT
<1>5. q = d
  BY <1>1, <1>3, <1>4, SMT
<1>6. u * d = q * u
  BY <1>1, <1>5, SMT
<1>7. r = m - q * u
  BY <1>1, <1>2, <1>6, SMT
<1> QED BY <1>5, <1>7 DEF d, r

\* The first powers of b, up to the n-th.
Powers(b, n) == {g \in [0..n -> Nat] : g[0] = 1 /\ \A k \in 1..n : g[k] = b * g[k - 1]}

\* There are powers up to every n.
LEMMA PowersExist ==
    ASSUME NEW b \in Nat
    PROVE  \A n \in Nat : Powers(b, n) # {}
<1> DEFINE T == {n \in Nat : Powers(b, n) # {}}
<1>1. 0 \in T
  <2>1. [k \in 0..0 |-> 1] \in Powers(b, 0)
    BY SMT DEF Powers
  <2> QED BY <2>1, Zenon
<1>2. ASSUME NEW n \in Nat, n \in T PROVE n + 1 \in T
  <2>1. PICK g : g \in Powers(b, n)
    BY <1>2, Zenon
  <2>2. g \in [0..n -> Nat] /\ g[0] = 1 /\ \A k \in 1..n : g[k] = b * g[k - 1]
    BY <2>1, Zenon DEF Powers
  <2> DEFINE h == [k \in 0..(n + 1) |-> IF k = n + 1 THEN b * g[n] ELSE g[k]]
  <2>3. h \in [0..(n + 1) -> Nat]
    <3>1. n \in 0..n /\ \A k \in 0..(n + 1) : k # n + 1 => k \in 0..n
      BY SMT
    <3>2. b * g[n] \in Nat
      BY <2>2, <3>1, SMT
    <3> QED BY <2>2, <3>1, <3>2, Zenon
  <2>4. h[0] = 1
    BY <2>2, SMT
  <2>5. ASSUME NEW k \in 1..(n + 1) PROVE h[k] = b * h[k - 1]
    <3>1. CASE k = n + 1
      BY <3>1, SMT
    <3>2. CASE k # n + 1
      <4>1. k \in 1..n /\ k \in 0..(n + 1) /\ k - 1 \in 0..(n + 1) /\ k - 1 # n + 1
        BY <3>2, SMT
      <4>2. h[k] = g[k] /\ h[k - 1] = g[k - 1]
        BY <3>2, <4>1, Zenon
      <4> QED BY <2>2, <4>1, <4>2, Zenon
    <3> QED BY <3>1, <3>2
  <2>6. h \in Powers(b, n + 1)
    <3> HIDE DEF h
    <3> QED BY <2>3, <2>4, <2>5, Zenon DEF Powers
  <2>7. n + 1 \in Nat
    BY SMT
  <2> QED BY <2>6, <2>7, Zenon
<1> HIDE DEF T
<1>3. \A n \in Nat : n \in T
  BY <1>1, <1>2, Inductive, Zenon
<1> QED BY <1>3, Zenon DEF T

\* They are the same up to whichever power.
LEMMA PowersAgree ==
    ASSUME NEW b, NEW n \in Nat, NEW m \in Nat, NEW g \in Powers(b, n), NEW h \in Powers(b, m)
    PROVE  \A k \in Nat : k <= n /\ k <= m => g[k] = h[k]
<1>0. /\ g[0] = 1 /\ \A k \in 1..n : g[k] = b * g[k - 1]
      /\ h[0] = 1 /\ \A k \in 1..m : h[k] = b * h[k - 1]
  BY Zenon DEF Powers
<1> DEFINE T == {k \in Nat : k <= n /\ k <= m => g[k] = h[k]}
<1>1. 0 \in T
  BY <1>0, Zenon
<1>2. ASSUME NEW k \in Nat, k \in T PROVE k + 1 \in T
  <2>1. SUFFICES ASSUME k + 1 <= n, k + 1 <= m PROVE g[k + 1] = h[k + 1]
    <3>1. k + 1 \in Nat
      BY SMT
    <3> QED BY <3>1, Zenon
  <2>2. k <= n /\ k <= m /\ k + 1 \in 1..n /\ k + 1 \in 1..m /\ (k + 1) - 1 = k
    BY <2>1, SMT
  <2>3. g[k] = h[k]
    BY <1>2, <2>2, Zenon
  <2>4. g[k + 1] = b * g[(k + 1) - 1] /\ h[k + 1] = b * h[(k + 1) - 1]
    BY <1>0, <2>2, Zenon
  <2> QED BY <2>2, <2>3, <2>4, Zenon
<1> HIDE DEF T
<1>3. \A k \in Nat : k \in T
  BY <1>1, <1>2, Inductive, Zenon
<1> QED BY <1>3, Zenon DEF T

\* So a function meets the equations: 1 for 0, and b times the power before.
LEMMA PowersAreAFunction ==
    ASSUME NEW b \in Nat
    PROVE  \E f : f = [k \in Nat |-> IF k = 0 THEN 1 ELSE b * f[k - 1]]
<1> DEFINE g(k) == CHOOSE g \in Powers(b, k) : TRUE
           F == [k \in Nat |-> g(k)[k]]
<1>1. \A k \in Nat : g(k) \in Powers(b, k)
  BY PowersExist, Zenon
<1>2. \A k \in Nat : /\ g(k) \in [0..k -> Nat] /\ g(k)[0] = 1
                     /\ \A i \in 1..k : g(k)[i] = b * g(k)[i - 1]
  BY <1>1, Zenon DEF Powers
<1> HIDE DEF g
<1>3. F[0] = 1
  BY <1>2, SMT
<1>4. ASSUME NEW k \in Nat, k # 0 PROVE F[k] = b * F[k - 1]
  <2>1. k - 1 \in Nat /\ k \in 1..k /\ k - 1 <= k /\ k - 1 <= k - 1
    BY <1>4, SMT
  <2>2. g(k)[k] = b * g(k)[k - 1]
    BY <1>2, <2>1, Zenon
  <2>3. g(k)[k - 1] = g(k - 1)[k - 1]
    <3> DEFINE j == k - 1
               u == g(k)
               v == g(j)
    <3>1. j \in Nat /\ u \in Powers(b, k) /\ v \in Powers(b, j)
      BY <1>1, <2>1, Zenon
    <3>2. j <= k /\ j <= j
      BY <2>1, Zenon
    <3> HIDE DEF j, u, v
    <3>3. \A i \in Nat : i <= k /\ i <= j => u[i] = v[i]
      BY <3>1, PowersAgree, SMT
    <3>4. u[j] = v[j]
      BY <3>1, <3>2, <3>3, Zenon
    <3> QED BY <3>4, Zenon DEF j, u, v
  <2> QED BY <2>1, <2>2, <2>3, Zenon
<1>5. F = [k \in Nat |-> IF k = 0 THEN 1 ELSE b * F[k - 1]]
  <2>1. \A k \in Nat : F[k] = IF k = 0 THEN 1 ELSE b * F[k - 1]
    BY <1>3, <1>4, Zenon
  <2>2. F = [k \in Nat |-> F[k]]
    BY Zenon
  <2> HIDE DEF F
  <2> QED BY <2>1, <2>2, Zenon
<1> HIDE DEF F
<1> QED BY <1>5, Zenon

\* What a function that meets them returns.
LEMMA PowersOf ==
    ASSUME NEW b \in Nat, NEW f, f = [k \in Nat |-> IF k = 0 THEN 1 ELSE b * f[k - 1]]
    PROVE  /\ f[0] = 1
           /\ \A k \in Nat : f[k] \in Nat /\ f[k + 1] = b * f[k]
<1>1. f[0] = 1
  BY Zenon
<1>2. ASSUME NEW k \in Nat PROVE f[k + 1] = b * f[k]
  <2>1. k + 1 \in Nat /\ k + 1 # 0 /\ (k + 1) - 1 = k
    BY SMT
  <2>2. f[k + 1] = b * f[(k + 1) - 1]
    BY <2>1, Zenon
  <2> QED BY <2>1, <2>2, Zenon
<1> DEFINE T == {k \in Nat : f[k] \in Nat}
<1>3. 0 \in T
  BY <1>1, SMT
<1>4. ASSUME NEW k \in Nat, k \in T PROVE k + 1 \in T
  <2>1. \A x \in Nat : b * x \in Nat
    BY SMT
  <2>2. k + 1 \in Nat
    BY SMT
  <2> QED BY <1>2, <1>4, <2>1, <2>2, Zenon
<1> HIDE DEF T
<1>5. \A k \in Nat : k \in T
  BY <1>3, <1>4, Inductive, Zenon
<1> QED BY <1>1, <1>2, <1>5, Zenon DEF T

-----------------------------------------------------------------------------
(* Words, quotients and powers *)

\* What the widths assume of the numbers the words are made of.
LEMMA Words ==
    /\ I64Max \in Nat /\ I64Max >= 1 /\ Kilo \in Nat /\ Kilo > 1 /\ Ten \in Nat /\ Ten > 1
    /\ MaxExponent \in Nat /\ ChronoMax \in Nat /\ ChronoMax <= I64Max
    /\ Mega \in Nat /\ Mega >= Kilo /\ Mega = Kilo * Kilo
    /\ U64Max \in Nat /\ U64Max = 2 * I64Max + 1
    /\ I128Max \in Nat /\ I128Max >= I64Max
<1>1. /\ I64Max \in Nat /\ I64Max >= 1 /\ Kilo \in Nat /\ Kilo > 1 /\ Ten \in Nat /\ Ten > 1
      /\ MaxExponent \in Nat /\ ChronoMax \in Nat /\ ChronoMax <= I64Max
  BY WordsAssumption, SMT DEF WordsAssumption
<1>2. Mega \in Nat /\ Mega >= Kilo /\ Mega = Kilo * Kilo
  BY <1>1, SMT DEF Mega
<1>3. U64Max \in Nat /\ U64Max = 2 * I64Max + 1
  BY <1>1, SMT DEF U64Max
<1>4. I128Max \in Nat /\ I128Max >= I64Max
  BY <1>1, SMT DEF I128Max
<1> QED
  BY <1>1, <1>2, <1>3, <1>4

\* A member of an i64, a u64 or an i128.
LEMMA WordIs ==
    ASSUME NEW v \in Int
    PROVE  /\ v \in I64 <=> -(I64Max + 1) <= v /\ v <= I64Max
           /\ v \in U64 <=> 0 <= v /\ v <= U64Max
           /\ v \in I128 <=> -(I128Max + 1) <= v /\ v <= I128Max
BY Words, SMT DEF I64, U64, I128

\* Every word is a set of integers.
LEMMA WordsAreIntegers == I64 \subseteq Int /\ U64 \subseteq Nat /\ I128 \subseteq Int
BY Words, SMT DEF I64, U64, I128

\* The results tell themselves apart.
LEMMA Results ==
    ASSUME NEW v
    PROVE  /\ Ok(v) # Overflow /\ Ok(v) # Invalid /\ Ok(v) # TooPrecise /\ Ok(v) # ZeroPriceUnsupported
           /\ Ok(v).kind = "ok" /\ Ok(v).value = v
           /\ Overflow.kind # "ok" /\ Invalid.kind # "ok" /\ TooPrecise.kind # "ok"
           /\ ZeroPriceUnsupported.kind # "ok"
           /\ Overflow # TooPrecise /\ Overflow # ZeroPriceUnsupported /\ Overflow # Invalid
           /\ \A w : Ok(v) = Ok(w) => v = w
<1>1. Ok(v).kind = "ok" /\ Ok(v).value = v
  BY SMT DEF Ok
<1>2. /\ Overflow.kind = "overflow" /\ Invalid.kind = "invalid" /\ TooPrecise.kind = "precise"
      /\ ZeroPriceUnsupported.kind = "zero"
  BY SMT DEF Overflow, Invalid, TooPrecise, ZeroPriceUnsupported
<1>3. \A w : Ok(w).value = w
  BY SMT DEF Ok
<1> QED
  BY <1>1, <1>2, <1>3

\* An absolute value is natural, and one of the value and its negation.
LEMMA AbsFacts ==
    ASSUME NEW v \in Int
    PROVE  /\ Abs(v) \in Nat
           /\ v >= 0 => Abs(v) = v
           /\ v < 0 => Abs(v) = -v
BY SMT DEF Abs

\* Division towards zero, of both signs, by a positive number.
LEMMA QuotientFacts ==
    ASSUME NEW n \in Int, NEW d \in Nat, d > 0
    PROVE  /\ Quotient(n, d) \in Int
           /\ n >= 0 => Quotient(n, d) = n \div d
           /\ n < 0 => Quotient(n, d) = -((-n) \div d)
<1>1. CASE n >= 0
  <2>1. Abs(n) = n /\ Abs(d) = d /\ ~(n < 0) /\ ~(d < 0)
    BY <1>1, SMT DEF Abs
  <2>2. (n < 0) = (d < 0)
    BY <2>1, SMT
  <2>3. Quotient(n, d) = n \div d
    BY <2>1, <2>2 DEF Quotient
  <2> QED
    BY <1>1, <2>3, SMT
<1>2. CASE n < 0
  <2>1. Abs(n) = -n /\ Abs(d) = d /\ ~(d < 0)
    BY <1>2, SMT DEF Abs
  <2>2. Quotient(n, d) = -((-n) \div d)
    BY <1>2, <2>1 DEF Quotient
  <2> QED
    BY <1>2, <2>2, SMT
<1> QED
  BY <1>1, <1>2, SMT

\* What division leaves.
LEMMA DivisionFacts ==
    ASSUME NEW n \in Nat, NEW d \in Nat, d > 0
    PROVE  /\ n \div d \in Nat /\ n % d \in Nat /\ n % d < d
           /\ (n \div d) * d \in Nat /\ n = (n \div d) * d + (n % d)
           /\ (n \div d) * d <= n /\ n < (n \div d) * d + d
<1> DEFINE q == n \div d
           r == n % d
<1>1. q \in Int /\ r \in Int /\ 0 <= r /\ r < d /\ n = d * q + r
  BY SMT
<1> HIDE DEF q, r
<1>2. q >= 0
  <2>1. SUFFICES ASSUME q <= -1 PROVE FALSE
    BY <1>1, SMT
  <2>2. d * q <= d * (-1)
    BY <2>1, <1>1, SMT
  <2> QED
    BY <2>2, <1>1, SMT
<1>3. d * q = q * d /\ q * d \in Nat
  BY <1>1, <1>2, SMT
<1>4. q \in Nat /\ r \in Nat /\ r < d /\ q * d \in Nat
  BY <1>1, <1>2, <1>3, SMT
<1>5. n = q * d + r
  BY <1>1, <1>2, <1>3, SMT
<1>6. q * d <= n /\ n < q * d + d
  BY <1>1, <1>2, <1>3, SMT
<1>7. n \div d \in Nat /\ n % d \in Nat /\ n % d < d /\ (n \div d) * d \in Nat
  BY <1>4 DEF q, r
<1>8. n = (n \div d) * d + (n % d)
  BY <1>5 DEF q, r
<1>9. (n \div d) * d <= n /\ n < (n \div d) * d + d
  BY <1>6 DEF q, r
<1> QED
  BY <1>7, <1>8, <1>9

\* A multiple divided by its factor.
LEMMA ExactDivision ==
    ASSUME NEW q \in Int, NEW d \in Nat, d > 0
    PROVE  (q * d) \div d = q /\ (q * d) % d = 0
<1> DEFINE m == q * d
<1>1. m \in Int /\ m - q * d = 0 /\ d \in Int
  BY SMT
<1> HIDE DEF m
<1>2. 0 <= m - q * d /\ m - q * d < d
  BY <1>1, SMT
<1>3. m \div d = q /\ m % d = m - q * d
  BY <1>1, <1>2, DivisionUnique
<1> QED
  BY <1>1, <1>3 DEF m

\* Dividing a multiple gives the factor back.
LEMMA QuotientOfMultiple ==
    ASSUME NEW q \in Int, NEW d \in Nat, d > 0
    PROVE  Quotient(q * d, d) = q
<1> DEFINE m == q * d
<1>1. m \in Int /\ (q >= 0 => m >= 0) /\ (q < 0 => m < 0) /\ -m = (-q) * d /\ -q \in Int /\ -(-q) = q
  BY SMT
<1>2. m \div d = q /\ ((-q) * d) \div d = -q
  BY <1>1, ExactDivision
<1> HIDE DEF m
<1>3. CASE q >= 0
  BY <1>1, <1>2, <1>3, QuotientFacts DEF m
<1>4. CASE q < 0
  <2>1. Quotient(m, d) = -((-m) \div d)
    BY <1>1, <1>4, QuotientFacts
  <2> QED
    BY <2>1, <1>1, <1>2 DEF m
<1> QED
  BY <1>3, <1>4, SMT

\* Dividing by one changes nothing.
LEMMA QuotientByOne ==
    ASSUME NEW n \in Int
    PROVE  Quotient(n, 1) = n
<1>1. n * 1 = n /\ 1 \in Nat /\ 1 > 0
  BY SMT
<1> QED
  BY <1>1, QuotientOfMultiple

\* The power function is the one its equations define.
LEMMA PowerFacts ==
    /\ Power[0] = 1
    /\ \A k \in Nat : Power[k] \in Nat /\ Power[k] > 0
<1>1. Ten \in Nat /\ Ten > 0
  BY Words, SMT
<1>2. \E f : f = [k \in Nat |-> IF k = 0 THEN 1 ELSE Ten * f[k - 1]]
  BY <1>1, PowersAreAFunction
<1>3. Power = [k \in Nat |-> IF k = 0 THEN 1 ELSE Ten * Power[k - 1]]
  BY <1>2 DEF Power
<1>4. Power[0] = 1 /\ \A k \in Nat : Power[k] \in Nat /\ Power[k + 1] = Ten * Power[k]
  BY <1>1, <1>3, PowersOf, SMT
<1> DEFINE T == {k \in Nat : Power[k] > 0}
<1>5. 0 \in T
  BY <1>4, SMT
<1>6. ASSUME NEW k \in Nat, k \in T PROVE k + 1 \in T
  <2>1. Power[k] \in Nat /\ Power[k] > 0 /\ Power[k + 1] = Ten * Power[k]
    BY <1>4, <1>6
  <2>2. k + 1 \in Nat /\ Power[k + 1] > 0
    BY <1>1, <2>1, SMT
  <2> QED
    BY <2>2
<1> HIDE DEF T
<1>7. \A k \in Nat : k \in T
  BY <1>5, <1>6, Inductive
<1> QED
  BY <1>4, <1>7 DEF T

\* The greater and the smaller of two numbers.
LEMMA MaxIs ==
    ASSUME NEW S, S \subseteq Int, NEW x \in S, \A y \in S : y <= x
    PROVE  Max(S) = x
<1>1. \A z \in S : (\A y \in S : z >= y) => z = x
  BY SMT
<1>2. \A y \in S : x >= y
  BY SMT
<1> QED
  BY <1>1, <1>2 DEF Max

\* The least element of a set of integers is its Min.
LEMMA MinIs ==
    ASSUME NEW S, S \subseteq Int, NEW x \in S, \A y \in S : x <= y
    PROVE  Min(S) = x
<1>1. \A z \in S : (\A y \in S : z <= y) => z = x
  BY SMT
<1> QED
  BY <1>1 DEF Min

\* The greater of two integers.
LEMMA MaxOfTwo ==
    ASSUME NEW a \in Int, NEW b \in Int
    PROVE  Max({a, b}) = IF a <= b THEN b ELSE a
<1> DEFINE S == {a, b}
<1>1. CASE a <= b
  <2>1. S \subseteq Int /\ b \in S /\ \A y \in S : y <= b
    BY <1>1, SMT
  <2> HIDE DEF S
  <2>2. Max(S) = b
    BY <2>1, MaxIs
  <2> QED
    BY <1>1, <2>2 DEF S
<1>2. CASE ~(a <= b)
  <2>1. S \subseteq Int /\ a \in S /\ \A y \in S : y <= a
    BY <1>2, SMT
  <2> HIDE DEF S
  <2>2. Max(S) = a
    BY <2>1, MaxIs
  <2> QED
    BY <1>2, <2>2 DEF S
<1> QED
  BY <1>1, <1>2

\* The lesser of two integers.
LEMMA MinOfTwo ==
    ASSUME NEW a \in Int, NEW b \in Int
    PROVE  Min({a, b}) = IF a <= b THEN a ELSE b
<1> DEFINE S == {a, b}
<1>1. CASE a <= b
  <2>1. S \subseteq Int /\ a \in S /\ \A y \in S : a <= y
    BY <1>1, SMT
  <2> HIDE DEF S
  <2>2. Min(S) = a
    BY <2>1, MinIs
  <2> QED
    BY <1>1, <2>2 DEF S
<1>2. CASE ~(a <= b)
  <2>1. S \subseteq Int /\ b \in S /\ \A y \in S : b <= y
    BY <1>2, SMT
  <2> HIDE DEF S
  <2>2. Min(S) = b
    BY <2>1, MinIs
  <2> QED
    BY <1>2, <2>2 DEF S
<1> QED
  BY <1>1, <1>2

-----------------------------------------------------------------------------
(* Prices and rates *)

\* An exponent on either side of zero.
LEMMA Shifts ==
    ASSUME NEW e \in Int
    PROVE  /\ e >= 0 => Max({-e, 0}) = 0 /\ Max({e, 0}) = e /\ Abs(e) = e
           /\ ~(e >= 0) => Max({-e, 0}) = -e /\ Max({e, 0}) = 0 /\ Abs(e) = -e
<1>1. -e \in Int /\ 0 \in Int
  BY SMT
<1>2. /\ Max({-e, 0}) = IF -e <= 0 THEN 0 ELSE -e
      /\ Max({e, 0}) = IF e <= 0 THEN 0 ELSE e
  BY <1>1, MaxOfTwo
<1> QED
  BY <1>2, AbsFacts, SMT

\* ExponentFactor::get gives the power of ten exactly when an i64 holds it.
LEMMA FactorOf ==
    ASSUME NEW e \in Int
    PROVE  /\ Power[Abs(e)] \in Nat /\ Power[Abs(e)] > 0
           /\ PowerFits(e) => ExponentFactor(e) = Ok(Power[Abs(e)])
           /\ ~PowerFits(e) => ExponentFactor(e) = Overflow
<1> DEFINE p == Power[Abs(e)]
<1>1. p \in Nat /\ p > 0
  BY AbsFacts, PowerFacts
<1> HIDE DEF p
<1>2. p \in Int /\ (p \in I64 <=> p <= I64Max)
  BY <1>1, Words, WordIs, SMT
<1>3. PowerFits(e) <=> p <= I64Max
  BY DEF PowerFits, p
<1>4. ExponentFactor(e) = IF p \in I64 THEN Ok(p) ELSE Overflow
  BY DEF ExponentFactor, Checked, p
<1> QED
  BY <1>1, <1>2, <1>3, <1>4 DEF p

\* The exact mantissa with the power above or below the line.
LEMMA MantissaOf ==
    ASSUME NEW digits \in Int, NEW scale \in Nat, NEW e \in Int
    PROVE  /\ e >= 0 => ExactMantissa(digits, scale, e) = Exact(digits, Power[scale + e])
           /\ ~(e >= 0) => ExactMantissa(digits, scale, e) = Exact(digits * Power[-e], Power[scale])
<1>1. digits * 1 = digits /\ scale + 0 = scale
  BY SMT
<1>2. CASE e >= 0
  BY <1>1, <1>2, Shifts, PowerFacts DEF ExactMantissa
<1>3. CASE ~(e >= 0)
  BY <1>1, <1>3, Shifts DEF ExactMantissa
<1> QED
  BY <1>2, <1>3

\* The two forms of a result that is one for every power of ten an i64 holds.
Powered(e, good, r) == IF PowerFits(e) THEN good ELSE r = Overflow
PriceOf(exact, r) == r \in {exact, ZeroPriceUnsupported} /\ (exact = Ok(0) <=> r # exact)

\* Price::from_mantissa: a mantissa of zero is refused, any other is kept.
LEMMA NonZeroIsPrice ==
    ASSUME NEW exact
    PROVE  PriceOf(exact, NonZero(exact))
<1>1. ZeroPriceUnsupported # Ok(0)
  BY Results
<1> QED
  BY <1>1 DEF PriceOf, NonZero

\* Rate::from_integer gives the exact mantissa, cut towards zero, or says that
\* it overflows.
LEMMA RateFromInteger ==
    ASSUME NEW v \in Int, NEW e \in Int
    PROVE  LET r == rate_from_integer(v, e) IN Powered(e, r = ExactMantissa(v, 0, e), r)
<1> DEFINE p == Power[Abs(e)]
           r == rate_from_integer(v, e)
<1>1. p \in Nat /\ p > 0
  BY FactorOf
<1>2. CASE ~PowerFits(e)
  <2>1. ExponentFactor(e) = Overflow
    BY <1>2, FactorOf
  <2> QED
    BY <1>2, <2>1 DEF Powered, rate_from_integer
<1>3. CASE PowerFits(e)
  <2>1. ExponentFactor(e) = Ok(p) /\ Ok(p) # Overflow /\ Ok(p).value = p
    BY <1>3, FactorOf, Results
  <2>2. 0 + e = e /\ 0 \in Nat
    BY SMT
  <2>3. CASE e >= 0
    <3>1. r = Checked(Quotient(v, p), I64, Overflow)
      BY <2>1, <2>3 DEF rate_from_integer
    <3>0. ExactMantissa(v, 0, e) = Exact(v, Power[0 + e])
      BY <2>2, <2>3, MantissaOf
    <3>2. ExactMantissa(v, 0, e) = Exact(v, Power[e])
      BY <2>2, <3>0
    <3>3. Abs(e) = e
      BY <2>3, Shifts
    <3> QED
      BY <1>3, <3>1, <3>2, <3>3 DEF Exact, Powered
  <2>4. CASE ~(e >= 0)
    <3>1. r = Checked(v * p, I64, Overflow)
      BY <2>1, <2>4 DEF rate_from_integer
    <3>2. ExactMantissa(v, 0, e) = Exact(v * Power[-e], Power[0])
      BY <2>2, <2>4, MantissaOf
    <3>3. Abs(e) = -e /\ Power[0] = 1
      BY <2>4, Shifts, PowerFacts
    <3>4. v * p \in Int
      BY <1>1, SMT
    <3>5. Quotient(v * p, 1) = v * p
      BY <3>4, QuotientByOne
    <3> QED
      BY <1>3, <3>1, <3>2, <3>3, <3>5 DEF Exact, Powered
  <2> QED
    BY <2>3, <2>4
<1> QED
  BY <1>2, <1>3

\* So does Rate::from_f64.
LEMMA RateFromF64 ==
    ASSUME NEW d, d.digits \in Int, d.scale \in Nat, NEW e \in Int
    PROVE  LET r == rate_from_f64(d, e) IN
           Powered(e, r = ExactMantissa(d.digits, d.scale, e), r)
<1>1. CASE ~PowerFits(e)
  <2>1. ExponentFactor(e) = Overflow
    BY <1>1, FactorOf
  <2> QED
    BY <1>1, <2>1 DEF Powered, rate_from_f64
<1>2. CASE PowerFits(e)
  <2>1. ExponentFactor(e) # Overflow
    <3>1. ExponentFactor(e) = Ok(Power[Abs(e)])
      BY <1>2, FactorOf
    <3> QED
      BY <3>1, Results
  <2>2. rate_from_f64(d, e) = Exact(Scaled(d, e)[1], Scaled(d, e)[2])
    BY <2>1 DEF rate_from_f64, Exact
  <2>3. CASE e >= 0
    <3>1. Scaled(d, e)[1] = d.digits /\ Scaled(d, e)[2] = Power[d.scale + e]
      BY <2>3 DEF Scaled
    <3>2. ExactMantissa(d.digits, d.scale, e) = Exact(d.digits, Power[d.scale + e])
      BY <2>3, MantissaOf
    <3> QED
      BY <1>2, <2>2, <3>1, <3>2 DEF Powered
  <2>4. CASE ~(e >= 0)
    <3>1. Scaled(d, e)[1] = d.digits * Power[-e] /\ Scaled(d, e)[2] = Power[d.scale]
      BY <2>4 DEF Scaled
    <3>2. ExactMantissa(d.digits, d.scale, e) = Exact(d.digits * Power[-e], Power[d.scale])
      BY <2>4, MantissaOf
    <3> QED
      BY <1>2, <2>2, <3>1, <3>2 DEF Powered
  <2> QED
    BY <2>3, <2>4
<1> QED
  BY <1>1, <1>2

\* A price made of a rate is that rate, or refused as zero.
LEMMA PoweredPrice ==
    ASSUME NEW e, NEW exact, NEW r, Powered(e, r = exact, r)
    PROVE  Powered(e, PriceOf(exact, NonZero(r)), NonZero(r))
<1>1. NonZero(Overflow) = Overflow
  BY Results DEF NonZero
<1> QED
  BY <1>1, NonZeroIsPrice DEF Powered

\* A division without remainder gives the dividend back.
LEMMA EvenQuotient ==
    ASSUME NEW n \in Int, NEW d \in Nat, d > 0, Abs(n) % d = 0
    PROVE  Quotient(n, d) * d = n
<1> DEFINE q == Abs(n) \div d
<1>1. Abs(n) \in Nat
  BY AbsFacts
<1>2. q \in Nat /\ Abs(n) = q * d
  <2>1. q \in Nat /\ Abs(n) = q * d + (Abs(n) % d) /\ q * d \in Nat
    BY <1>1, DivisionFacts
  <2> HIDE DEF q
  <2> QED
    BY <2>1, SMT
<1>3. CASE n >= 0
  <2>1. Abs(n) = n /\ Quotient(n, d) = n \div d
    BY <1>3, AbsFacts, QuotientFacts
  <2> QED
    BY <1>2, <2>1
<1>4. CASE n < 0
  <2>1. Abs(n) = -n /\ Quotient(n, d) = -((-n) \div d)
    BY <1>4, AbsFacts, QuotientFacts
  <2>2. Quotient(n, d) = -q /\ -n = q * d
    BY <1>2, <2>1
  <2> HIDE DEF q
  <2>3. (-q) * d = n
    BY <1>2, <2>2, SMT
  <2> QED
    BY <2>2, <2>3
<1> QED
  BY <1>3, <1>4, SMT

\* The numerator and the denominator of a scaled Decimal.
LEMMA ScaledIs ==
    ASSUME NEW d, d.digits \in Int, d.scale \in Nat, NEW e \in Int
    PROVE  /\ Scaled(d, e)[1] = d.digits * Power[Max({-e, 0})]
           /\ Scaled(d, e)[2] = Power[d.scale + Max({e, 0})]
           /\ Power[Max({-e, 0})] \in Nat /\ Scaled(d, e)[1] \in Int
           /\ Scaled(d, e)[2] \in Nat /\ Scaled(d, e)[2] > 0
<1>1. CASE e >= 0
  <2>1. Scaled(d, e)[1] = d.digits /\ Scaled(d, e)[2] = Power[d.scale + e]
    BY <1>1 DEF Scaled
  <2>2. d.digits * 1 = d.digits /\ d.scale + e \in Nat /\ 1 \in Nat
    BY <1>1, SMT
  <2>3. Max({-e, 0}) = 0 /\ Max({e, 0}) = e /\ Power[0] = 1
    BY <1>1, Shifts, PowerFacts
  <2>4. Power[d.scale + e] \in Nat /\ Power[d.scale + e] > 0
    BY <2>2, PowerFacts
  <2> QED
    BY <2>1, <2>2, <2>3, <2>4
<1>2. CASE ~(e >= 0)
  <2>1. Scaled(d, e)[1] = d.digits * Power[-e] /\ Scaled(d, e)[2] = Power[d.scale]
    BY <1>2 DEF Scaled
  <2>2. d.scale + 0 = d.scale /\ -e \in Nat
    BY <1>2, SMT
  <2>3. Max({-e, 0}) = -e /\ Max({e, 0}) = 0
    BY <1>2, Shifts
  <2>4. Power[-e] \in Nat /\ Power[d.scale] \in Nat /\ Power[d.scale] > 0
    BY <2>2, PowerFacts
  <2> DEFINE p == Power[-e]
  <2>5. d.digits * p \in Int
    <3> HIDE DEF p
    <3>1. p \in Nat
      BY <2>4 DEF p
    <3> QED
      BY <3>1, SMT
  <2> QED
    BY <2>1, <2>2, <2>3, <2>4, <2>5
<1> QED
  BY <1>1, <1>2

\* A parsed rate is the exact value with nothing cut, and one is called too
\* precise only when something would be.
ParsedExactly(d, e, r) ==
    /\ r.kind = "ok" => /\ r = ExactMantissa(d.digits, d.scale, e)
                        /\ r.value * Power[d.scale + Max({e, 0})] = d.digits * Power[Max({-e, 0})]
    /\ r = TooPrecise => ~DividesEvenly(d.digits, d.scale, e)

\* Rate::parse_str gives the exact mantissa, and only when nothing is cut.
LEMMA RateParsed ==
    ASSUME NEW d, d.digits \in Int, d.scale \in Nat, NEW e \in Int
    PROVE  ParsedExactly(d, e, rate_parse_str(d, e))
<1> DEFINE r == rate_parse_str(d, e)
           n == Scaled(d, e)[1]
           u == Scaled(d, e)[2]
           p == Power[Max({-e, 0})]
<1>1. /\ n = d.digits * p /\ u = Power[d.scale + Max({e, 0})]
      /\ p \in Nat /\ n \in Int /\ u \in Nat /\ u > 0
  BY ScaledIs
<1>2. ExactMantissa(d.digits, d.scale, e) = Exact(n, u)
  BY <1>1 DEF ExactMantissa
<1>3. DividesEvenly(d.digits, d.scale, e) <=> (Abs(d.digits) * p) % u = 0
  BY <1>1 DEF DividesEvenly
<1>4. Abs(d.digits) * p = Abs(n)
  <2> HIDE DEF n, p
  <2>1. CASE d.digits >= 0
    <3>1. n >= 0 /\ Abs(d.digits) = d.digits
      BY <1>1, <2>1, AbsFacts, SMT
    <3> QED
      BY <1>1, <3>1, AbsFacts
  <2>2. CASE d.digits < 0
    <3>1. Abs(d.digits) = -d.digits
      BY <2>2, AbsFacts
    <3>2. n <= 0 /\ (-d.digits) * p = -n
      BY <1>1, <2>2, SMT
    <3>3. Abs(n) = -n
      BY <1>1, <3>2, SMT DEF Abs
    <3> QED
      BY <3>1, <3>2, <3>3
  <2> QED
    BY <2>1, <2>2, SMT
<1>5. r = IF ExponentFactor(e) = Overflow THEN Overflow
          ELSE IF Abs(n) % u # 0 THEN TooPrecise ELSE Exact(n, u)
  BY DEF rate_parse_str, Exact
<1> HIDE DEF r, n, u, p
<1>6. ASSUME r.kind = "ok"
      PROVE  r = Exact(n, u) /\ r.value * u = n
  <2>1. r # Overflow /\ r # TooPrecise
    BY <1>6, Results
  <2>2. Abs(n) % u = 0 /\ r = Exact(n, u)
    BY <1>5, <2>1
  <2>3. r = Ok(Quotient(n, u))
    BY <2>1, <2>2 DEF Exact, Checked
  <2>4. r.value = Quotient(n, u)
    BY <2>3, Results
  <2>5. Quotient(n, u) * u = n
    BY <1>1, <2>2, EvenQuotient
  <2> QED
    BY <2>2, <2>4, <2>5
<1>7. ASSUME r = TooPrecise
      PROVE  ~DividesEvenly(d.digits, d.scale, e)
  <2>1. r # Overflow /\ \A v : r # Ok(v)
    BY <1>7, Results
  <2>2. Exact(n, u) # r
    BY <2>1 DEF Exact, Checked
  <2>3. Abs(n) % u # 0
    BY <1>5, <2>1, <2>2
  <2> QED
    BY <1>3, <1>4, <2>3
<1>8. ParsedExactly(d, e, r)
  BY <1>1, <1>2, <1>6, <1>7 DEF ParsedExactly, u, p
<1> QED
  BY <1>8 DEF r

\* Price::parse_str does too, and never gives zero.
LEMMA PriceParsed ==
    ASSUME NEW d, d.digits \in Int, d.scale \in Nat, NEW e \in Int
    PROVE  LET r == price_parse_str(d, e) IN
           ParsedExactly(d, e, r) /\ (r.kind = "ok" => r.value # 0)
<1> DEFINE r == price_parse_str(d, e)
           x == rate_parse_str(d, e)
<1>1. ParsedExactly(d, e, x)
  BY RateParsed
<1>2. r = IF x = Ok(0) THEN Overflow ELSE x
  BY DEF price_parse_str
<1>3. x.kind = "ok" => x = Ok(x.value)
  BY DEF rate_parse_str, Checked, Ok, Overflow, TooPrecise
<1> HIDE DEF r, x
<1>4. CASE x = Ok(0)
  <2>1. r = Overflow /\ r.kind # "ok" /\ r # TooPrecise
    BY <1>2, <1>4, Results
  <2>2. ParsedExactly(d, e, r)
    BY <2>1 DEF ParsedExactly
  <2> QED
    BY <2>1, <2>2 DEF r
<1>5. CASE x # Ok(0)
  <2>1. r = x
    BY <1>2, <1>5
  <2>2. r.kind = "ok" => r.value # 0
    BY <1>3, <1>5, <2>1
  <2> QED
    BY <1>1, <2>1, <2>2 DEF r
<1> QED
  BY <1>4, <1>5

\* add, sub and mul_integer: the sum, difference or product, as an i64.
LEMMA WholePrice ==
    ASSUME NEW v \in Int
    PROVE  PriceOf(Exact(v, 1), NonZero(Checked(v, I64, Overflow)))
<1>1. Exact(v, 1) = Checked(v, I64, Overflow)
  BY QuotientByOne DEF Exact
<1> QED
  BY <1>1, NonZeroIsPrice

\* mul_decimal: the product scaled in an i128, then as an i64.
LEMMA DecimalProduct ==
    ASSUME NEW a \in Int, NEW m \in Int, NEW e \in Int
    PROVE  LET r == mul_decimal(a, m, e) IN
           Powered(e, PriceOf(Exact(a * m * Power[Max({e, 0})], Power[Max({-e, 0})]), r), r)
<1> DEFINE p == Power[Abs(e)]
           n == a * m
           r == mul_decimal(a, m, e)
           exact == Exact(a * m * Power[Max({e, 0})], Power[Max({-e, 0})])
<1>1. p \in Nat /\ p > 0 /\ n \in Int
  BY FactorOf, SMT
<1>2. CASE ~PowerFits(e)
  <2>1. ExponentFactor(e) = Overflow
    BY <1>2, FactorOf
  <2> QED
    BY <1>2, <2>1 DEF Powered, mul_decimal
<1>3. CASE PowerFits(e)
  <2>1. ExponentFactor(e) = Ok(p) /\ Ok(p) # Overflow /\ Ok(p).value = p
    BY <1>3, FactorOf, Results
  <2>2. CASE e >= 0
    <3>1. Max({-e, 0}) = 0 /\ Max({e, 0}) = Abs(e) /\ Power[0] = 1
      BY <2>2, Shifts, PowerFacts
    <3>2. exact = Exact(n * p, 1)
      BY <3>1
    <3>3. n * p \in Int
      BY <1>1, SMT
    <3>4. exact = Checked(n * p, I64, Overflow)
      BY <3>2, <3>3, QuotientByOne DEF Exact
    <3>5. r = IF Checked(n * p, I128, Overflow) = Overflow THEN Overflow
              ELSE NonZero(Checked(Checked(n * p, I128, Overflow).value, I64, Overflow))
      BY <2>1, <2>2 DEF mul_decimal
    <3>6. PriceOf(exact, r)
      <4>1. CASE n * p \in I128
        <5>1. Checked(n * p, I128, Overflow) = Ok(n * p) /\ Ok(n * p) # Overflow /\ Ok(n * p).value = n * p
          BY <4>1, Results DEF Checked
        <5>2. r = NonZero(exact)
          BY <3>4, <3>5, <5>1
        <5> QED
          BY <5>2, NonZeroIsPrice
      <4>2. CASE n * p \notin I128
        <5>1. n * p \notin I64
          <6> DEFINE v == n * p
          <6>1. v \in Int /\ v \notin I128
            BY <3>3, <4>2
          <6> HIDE DEF v
          <6>2. v \notin I64
            BY <6>1, Words, WordIs, SMT
          <6> QED
            BY <6>2 DEF v
        <5>2. r = Overflow /\ exact = Overflow /\ Overflow # Ok(0)
          BY <3>4, <3>5, <4>2, <5>1, Results DEF Checked
        <5> QED
          BY <5>2 DEF PriceOf
      <4> QED
        BY <4>1, <4>2
    <3> QED
      BY <1>3, <3>6 DEF Powered
  <2>3. CASE ~(e >= 0)
    <3>1. Max({-e, 0}) = Abs(e) /\ Max({e, 0}) = 0 /\ Power[0] = 1
      BY <2>3, Shifts, PowerFacts
    <3>2. n * 1 = n
      BY <1>1, SMT
    <3>3. exact = Exact(n, p)
      BY <3>1, <3>2
    <3>4. Ok(Quotient(n, p)) # Overflow /\ Ok(Quotient(n, p)).value = Quotient(n, p)
      BY Results
    <3>5. r = NonZero(Checked(Quotient(n, p), I64, Overflow))
      BY <2>1, <2>3, <3>4 DEF mul_decimal
    <3>6. PriceOf(exact, r)
      BY <3>3, <3>5, NonZeroIsPrice DEF Exact
    <3> QED
      BY <1>3, <3>6 DEF Powered
  <2> QED
    BY <2>2, <2>3
<1> QED
  BY <1>2, <1>3

-----------------------------------------------------------------------------
(* Moves, quotes and multiples *)

\* has_moved_with_same_exponent compares the products also when one or both
\* are no u64.
LEMMA MovedExactly ==
    ASSUME NEW a \in Int, NEW b \in Int, NEW ppm \in Nat
    PROVE  has_moved_with_same_exponent(a, b, ppm) <=> Abs(a - b) * Mega > Abs(a) * ppm
<1> DEFINE x == Abs(a - b) * Mega
           y == Abs(a) * ppm
<1>1. x \in Nat /\ y \in Nat
  <2>1. a - b \in Int
    BY SMT
  <2>2. Abs(a - b) \in Nat /\ Abs(a) \in Nat /\ Mega \in Nat
    BY <2>1, AbsFacts, Words
  <2> QED
    BY <2>2, SMT
<1>2. has_moved_with_same_exponent(a, b, ppm) <=>
        \/ x \in U64 /\ y \in U64 /\ x > y
        \/ x \notin U64 /\ y \in U64
        \/ x \notin U64 /\ y \notin U64 /\ x > y
  BY DEF has_moved_with_same_exponent
<1> HIDE DEF x, y
<1>3. (x \in U64 <=> x <= U64Max) /\ (y \in U64 <=> y <= U64Max)
  BY <1>1, WordIs, SMT
<1>4. has_moved_with_same_exponent(a, b, ppm) <=> x > y
  BY <1>1, <1>2, <1>3, Words, SMT
<1> QED
  BY <1>4 DEF x, y

\* The saturated quote of a legacy update.
LEMMA QuoteAround ==
    ASSUME NEW offer \in I64, NEW conf \in U64
    PROVE  LET q == legacy_quote(offer, conf) IN
           q[1] <= offer /\ offer <= q[2] /\ q[1] \in I64 /\ q[2] \in I64
<1> DEFINE c == IF conf \in I64 THEN conf ELSE I64Max
           low == -(I64Max + 1)
<1>1. offer \in Int /\ conf \in Nat
  BY WordsAreIntegers
<1>2. c \in Nat /\ I64Max \in Nat /\ low \in Int
  BY <1>1, Words, SMT
<1>3. low <= offer /\ offer <= I64Max
  BY <1>1, WordIs
<1>4. legacy_quote(offer, conf) = <<Max({offer - c, low}), Min({offer + c, I64Max})>>
  BY DEF legacy_quote
<1> HIDE DEF c, low
<1>5. offer - c \in Int /\ offer + c \in Int /\ I64Max \in Int
  BY <1>1, <1>2, SMT
<1>6. /\ Max({offer - c, low}) = IF offer - c <= low THEN low ELSE offer - c
      /\ Min({offer + c, I64Max}) = IF offer + c <= I64Max THEN offer + c ELSE I64Max
  BY <1>2, <1>5, MaxOfTwo, MinOfTwo
<1> DEFINE x == Max({offer - c, low})
           y == Min({offer + c, I64Max})
<1>7. legacy_quote(offer, conf)[1] = x /\ legacy_quote(offer, conf)[2] = y
  <2>1. legacy_quote(offer, conf) = <<x, y>>
    BY <1>4
  <2> HIDE DEF x, y
  <2> QED
    BY <2>1, SMT
<1> HIDE DEF x, y
<1>8. /\ x = IF offer - c <= low THEN low ELSE offer - c
      /\ y = IF offer + c <= I64Max THEN offer + c ELSE I64Max
  BY <1>6 DEF x, y
<1>9. x \in Int /\ y \in Int /\ low <= x /\ x <= offer /\ offer <= y /\ y <= I64Max /\ x <= I64Max /\ low <= y
  BY <1>1, <1>2, <1>3, <1>8, SMT
<1>10. x \in I64 /\ y \in I64
  BY <1>9, WordIs DEF low
<1> QED
  BY <1>7, <1>9, <1>10

\* The multiples of d on both sides of t.
LEMMA MultiplesAround ==
    ASSUME NEW t \in Nat, NEW d \in Nat, d > 0
    PROVE  LET low == (t \div d) * d
               next == t + (d - (t % d)) IN
           /\ low \in Nat /\ low % d = 0 /\ low <= t
           /\ next \in Nat /\ next % d = 0 /\ next > t
           /\ \A m \in Nat : m % d = 0 => m <= low \/ m >= next
           /\ t % d = 0 => low = t
<1> DEFINE q == t \div d
           r == t % d
           low == q * d
           next == t + (d - r)
<1>1. q \in Nat /\ r \in Nat /\ r < d /\ low \in Nat /\ t = low + r
  BY DivisionFacts
<1>2. low % d = 0
  BY <1>1, ExactDivision, SMT
<1>3. (q + 1) * d = low + d /\ q + 1 \in Int
  BY <1>1, SMT
<1> HIDE DEF r
<1>4. next = (q + 1) * d /\ next \in Nat /\ next > t /\ low <= t /\ (r = 0 => low = t)
  <2> HIDE DEF low
  <2> QED
    BY <1>1, <1>3, SMT
<1>5. next % d = 0
  BY <1>3, <1>4, ExactDivision
<1>6. ASSUME NEW m \in Nat, m % d = 0 PROVE m <= low \/ m >= next
  <2> DEFINE k == m \div d
  <2>1. k \in Nat /\ m = k * d + (m % d)
    BY DivisionFacts
  <2> HIDE DEF k
  <2>2. m = k * d
    BY <1>6, <2>1, SMT
  <2> HIDE DEF q, next
  <2>3. CASE k <= q
    <3>1. k * d <= q * d
      BY <1>1, <2>1, <2>3, SMT
    <3> QED
      BY <2>2, <3>1
  <2>4. CASE ~(k <= q)
    <3>1. k - (q + 1) \in Nat
      BY <1>1, <2>1, <2>4, SMT
    <3>2. k * d = (k - (q + 1)) * d + (q + 1) * d
      BY <1>1, <2>1, SMT
    <3>3. (k - (q + 1)) * d \in Nat /\ (q + 1) * d \in Int
      BY <1>1, <3>1, SMT
    <3>4. k * d >= (q + 1) * d
      BY <3>2, <3>3, SMT
    <3> QED
      BY <1>4, <2>2, <3>4
  <2> QED
    BY <2>3, <2>4
<1> QED
  BY <1>1, <1>2, <1>4, <1>5, <1>6 DEF r

\* next_multiple_of and previous_multiple_of against the sets of multiples.
LEMMA MultiplesGiven ==
    ASSUME NEW t \in U64, NEW d \in U64
    PROVE  LET from == {m \in t..U64Max : m % d = 0} IN
           IF d = 0 THEN /\ is_multiple_of(t, d) /\ next_multiple_of(t, d) = Invalid
                         /\ previous_multiple_of(t, d) = Invalid
           ELSE /\ next_multiple_of(t, d) = IF from = {} THEN Overflow ELSE Ok(Min(from))
                /\ previous_multiple_of(t, d) = Ok(Max({m \in 0..t : m % d = 0}))
                /\ is_multiple_of(t, d) <=> next_multiple_of(t, d) = previous_multiple_of(t, d)
<1>1. CASE d = 0
  BY <1>1 DEF is_multiple_of, next_multiple_of, previous_multiple_of
<1>2. CASE d # 0
  <2> DEFINE from == {m \in t..U64Max : m % d = 0}
             upto == {m \in 0..t : m % d = 0}
             low == (t \div d) * d
             next == t + (d - (t % d))
  <2>1. t \in Nat /\ d \in Nat /\ d > 0 /\ t <= U64Max /\ U64Max \in Nat
    <3>1. t \in Nat /\ d \in Nat
      BY WordsAreIntegers
    <3> QED
      BY <1>2, <3>1, Words, WordIs, SMT
  <2>2. /\ low \in Nat /\ low % d = 0 /\ low <= t
        /\ next \in Nat /\ next % d = 0 /\ next > t
        /\ \A m \in Nat : m % d = 0 => m <= low \/ m >= next
        /\ t % d = 0 => low = t
    BY <2>1, MultiplesAround
  <2>3. previous_multiple_of(t, d) = Ok(low)
    BY <1>2 DEF previous_multiple_of
  <2>4. next_multiple_of(t, d) = IF t % d = 0 THEN Ok(t) ELSE Checked(next, U64, Overflow)
    BY <1>2 DEF next_multiple_of
  <2>5. is_multiple_of(t, d) <=> t % d = 0
    BY <1>2 DEF is_multiple_of
  <2> HIDE DEF low, next
  <2>6. \A m : m \in from <=> m \in Nat /\ t <= m /\ m <= U64Max /\ m % d = 0
    BY <2>1, SMT
  <2>7. \A m : m \in upto <=> m \in Nat /\ m <= t /\ m % d = 0
    BY <2>1, SMT
  <2>8. from \subseteq Int /\ upto \subseteq Int
    BY <2>1, SMT
  <2> HIDE DEF from, upto
  <2>9. Max(upto) = low
    <3>1. low \in upto
      BY <2>2, <2>7
    <3>2. \A m \in upto : m <= low
      <4>1. SUFFICES ASSUME NEW m \in upto PROVE m <= low
        OBVIOUS
      <4>2. m \in Nat /\ m <= t /\ (m <= low \/ m >= next)
        BY <2>2, <2>7
      <4> QED
        BY <2>1, <2>2, <4>2, SMT
    <3> QED
      BY <2>8, <3>1, <3>2, MaxIs
  <2>10. CASE t % d = 0
    <3>1. next_multiple_of(t, d) = Ok(t) /\ low = t
      BY <2>2, <2>4, <2>10
    <3>2. t \in from /\ \A m \in from : t <= m
      BY <2>1, <2>6, <2>10, SMT
    <3>3. Min(from) = t /\ from # {}
      BY <2>8, <3>2, MinIs
    <3> QED
      BY <1>2, <2>3, <2>5, <2>9, <2>10, <3>1, <3>3 DEF from, upto
  <2>11. CASE t % d # 0
    <3>1. \A m \in from : m >= next
      <4>1. SUFFICES ASSUME NEW m \in from PROVE m >= next
        OBVIOUS
      <4>2. m \in Nat /\ t <= m /\ m % d = 0 /\ (m <= low \/ m >= next)
        BY <2>2, <2>6
      <4>3. m # t
        BY <2>11, <4>2
      <4> QED
        BY <2>1, <2>2, <4>2, <4>3, SMT
    <3>2. CASE next <= U64Max
      <4>1. next \in from
        BY <2>1, <2>2, <2>6, <3>2, SMT
      <4>2. next \in U64
        BY <2>2, <3>2, WordIs, SMT
      <4>3. \A m \in from : next <= m
        BY <3>1, <2>2, <2>8, SMT
      <4>4. Min(from) = next /\ from # {}
        BY <2>8, <4>1, <4>3, MinIs
      <4>5. next_multiple_of(t, d) = Ok(next)
        BY <2>4, <2>11, <4>2 DEF Checked
      <4>6. low # next
        BY <2>1, <2>2, SMT
      <4>7. Ok(low) # Ok(next)
        BY <4>6, Results
      <4> QED
        BY <1>2, <2>3, <2>5, <2>9, <2>11, <4>4, <4>5, <4>7 DEF from, upto
    <3>3. CASE ~(next <= U64Max)
      <4>1. from = {}
        <5>1. SUFFICES ASSUME NEW m \in from PROVE FALSE
          OBVIOUS
        <5>2. m \in Nat /\ m <= U64Max /\ m >= next
          BY <2>6, <3>1
        <5> QED
          BY <2>1, <2>2, <3>3, <5>2, SMT
      <4>2. next \notin U64
        BY <2>2, <3>3, WordIs, SMT
      <4>3. next_multiple_of(t, d) = Overflow
        BY <2>4, <2>11, <4>2 DEF Checked
      <4>4. Ok(low) # Overflow
        BY Results
      <4> QED
        BY <1>2, <2>3, <2>5, <2>9, <2>11, <4>1, <4>3, <4>4 DEF from, upto
    <3> QED
      BY <3>2, <3>3
  <2> QED
    BY <2>10, <2>11
<1> QED
  BY <1>1, <1>2

-----------------------------------------------------------------------------
(* Times and durations *)

\* A u64 in the protobuf form and back: refused only when the microseconds of
\* its seconds are no i64.
LEMMA ProtoBack ==
    ASSUME NEW t \in U64
    PROVE  LET r == timestamp_from_proto(timestamp_into_proto(t)) IN
           r = Ok(t) \/ (r.kind # "ok" /\ t > I64Max - Mega)
<1> DEFINE p == timestamp_into_proto(t)
           s == (t \div Mega) * Mega
           n == t % Mega
           r == timestamp_from_proto(p)
<1>0. t \in Nat /\ Kilo \in Nat /\ Kilo > 0 /\ Mega \in Nat /\ Mega > 0 /\ I64Max \in Nat
  BY Words, WordsAreIntegers, SMT
<1>1. p.seconds * Mega = s /\ p.nanos = n * Kilo
  BY DEF timestamp_into_proto
<1>2. s \in Nat /\ n \in Nat /\ t = s + n
  BY <1>0, DivisionFacts
<1>3. Quotient(p.nanos, Kilo) = n
  <2> HIDE DEF n, p
  <2>1. n \in Int
    BY <1>2, SMT
  <2> QED
    BY <1>0, <1>1, <2>1, QuotientOfMultiple
<1>4. r = IF Checked(s, I64, Overflow) = Overflow THEN Overflow
          ELSE IF Checked(s, I64, Overflow).value < 0 \/ n < 0 THEN Invalid
          ELSE Checked(Checked(s, I64, Overflow).value + n, U64, Overflow)
  <2> HIDE DEF s, n, p
  <2> QED
    BY <1>1, <1>3 DEF timestamp_from_proto
<1> HIDE DEF s, n, r
<1>5. CASE s \in I64
  <2>1. Checked(s, I64, Overflow) = Ok(s) /\ Ok(s) # Overflow /\ Ok(s).value = s
    BY <1>5, Results DEF Checked
  <2>2. ~(s < 0) /\ ~(n < 0)
    BY <1>2, SMT
  <2>3. r = Checked(t, U64, Overflow)
    BY <1>2, <1>4, <2>1, <2>2
  <2>4. r = Ok(t)
    BY <2>3 DEF Checked
  <2> QED
    BY <2>4 DEF r
<1>6. CASE s \notin I64
  <2>1. r = Overflow /\ r.kind # "ok"
    BY <1>4, <1>6, Results DEF Checked
  <2>2. s > I64Max
    BY <1>0, <1>2, <1>6, WordIs, SMT
  <2>3. t > I64Max - Mega
    BY <1>0, <1>2, <2>2, SMT
  <2> QED
    BY <2>1, <2>3 DEF r
<1> QED
  BY <1>5, <1>6

\* A u64 of microseconds as nanoseconds and back.
LEMMA NanosBack ==
    ASSUME NEW t \in U64
    PROVE  /\ timestamp_from_system_time(timestamp_into_system_time(t).value) = Ok(t)
           /\ duration_from_std(duration_into_std(t)) = Ok(t)
           /\ from_nanos(as_nanos(t)) = Ok(t)
<1>0. t \in Int /\ t \in Nat /\ Kilo \in Nat /\ Kilo > 0
  BY Words, WordsAreIntegers, SMT
<1>1. (t * Kilo) \div Kilo = t /\ Quotient(t * Kilo, Kilo) = t /\ ~(t * Kilo < 0)
  <2>1. ~(t * Kilo < 0)
    BY <1>0, SMT
  <2> QED
    BY <1>0, <2>1, ExactDivision, QuotientOfMultiple
<1>2. timestamp_into_system_time(t).value = t * Kilo
  BY Results DEF timestamp_into_system_time, as_nanos
<1>3. timestamp_from_system_time(t * Kilo) = Ok(t)
  BY <1>1 DEF timestamp_from_system_time, Checked
<1>4. duration_from_std(duration_into_std(t)) = Ok(t)
  BY <1>1 DEF duration_from_std, duration_into_std, Checked
<1>5. from_nanos(as_nanos(t)) = Ok(t)
  BY <1>1 DEF from_nanos, as_nanos, Checked
<1> QED
  BY <1>2, <1>3, <1>4, <1>5

\* A u64 as a chrono time and back.
LEMMA ChronoBack ==
    ASSUME NEW t \in U64
    PROVE  LET c == timestamp_into_chrono(t)
               r == IF c.kind = "ok" THEN timestamp_from_chrono(c.value) ELSE c IN
           IF t <= ChronoMax THEN r = Ok(t) ELSE r.kind # "ok"
<1>0. t \in Nat /\ ChronoMax \in Nat /\ ChronoMax <= I64Max /\ I64Max \in Nat
  BY Words, WordsAreIntegers
<1>1. (t \in I64 /\ t <= ChronoMax) <=> t <= ChronoMax
  BY <1>0, WordIs, SMT
<1>2. ~(t < 0)
  BY <1>0, SMT
<1>3. Ok(t).kind = "ok" /\ Ok(t).value = t /\ Invalid.kind # "ok"
  BY Results
<1> QED
  BY <1>1, <1>2, <1>3 DEF timestamp_into_chrono, timestamp_from_chrono

\* What a protobuf time becomes: the microsecond it falls in.
LEMMA ProtoTaken ==
    ASSUME NEW p, p.seconds \in Int, p.nanos \in Int, timestamp_from_proto(p).kind = "ok"
    PROVE  LET v == timestamp_from_proto(p).value IN
           /\ p.seconds >= 0 /\ p.nanos > -Kilo /\ v \in Nat
           /\ v * Kilo <= p.seconds * Mega * Kilo + Max({p.nanos, 0})
           /\ p.seconds * Mega * Kilo + p.nanos < (v + 1) * Kilo
<1> DEFINE s == p.seconds * Mega
           n == Quotient(p.nanos, Kilo)
           r == timestamp_from_proto(p)
<1>0. Kilo \in Nat /\ Kilo > 0 /\ Mega \in Nat /\ Mega > 0
  BY Words, SMT
<1>1. r = IF Checked(s, I64, Overflow) = Overflow THEN Overflow
          ELSE IF Checked(s, I64, Overflow).value < 0 \/ n < 0 THEN Invalid
          ELSE Checked(Checked(s, I64, Overflow).value + n, U64, Overflow)
  BY DEF timestamp_from_proto
<1>2. r # Overflow /\ r # Invalid
  BY Results
<1>3. s \in Int /\ n \in Int
  <2>1. s \in Int
    BY <1>0, SMT
  <2> QED
    BY <1>0, <2>1, QuotientFacts
<1> HIDE DEF r, s, n
<1>4. s \in I64
  BY <1>1, <1>2 DEF Checked
<1>5. Checked(s, I64, Overflow) = Ok(s) /\ Ok(s).value = s
  BY <1>4, Results DEF Checked
<1>6. ~(s < 0) /\ ~(n < 0) /\ r = Checked(s + n, U64, Overflow)
  BY <1>1, <1>2, <1>5
<1>7. r = Ok(s + n)
  BY <1>2, <1>6 DEF Checked
<1>8. r.value = s + n
  BY <1>7, Results
<1>9. p.seconds >= 0
  <2>1. SUFFICES ASSUME p.seconds <= -1 PROVE FALSE
    BY SMT
  <2>2. p.seconds * Mega <= (-1) * Mega
    BY <1>0, <2>1, SMT
  <2>3. s < 0
    BY <1>0, <2>2, SMT DEF s
  <2> QED
    BY <1>6, <2>3
<1>10. Max({p.nanos, 0}) = IF p.nanos <= 0 THEN 0 ELSE p.nanos
  <2>1. 0 \in Int
    BY SMT
  <2> QED
    BY <2>1, MaxOfTwo
<1>11. p.nanos > -Kilo /\ n * Kilo <= Max({p.nanos, 0}) /\ p.nanos < n * Kilo + Kilo
  <2> DEFINE x == p.nanos
  <2>1. CASE x >= 0
    <3>1. n = x \div Kilo
      BY <1>0, <2>1, QuotientFacts DEF n
    <3>2. x \in Nat
      BY <2>1, SMT
    <3>3. n \in Nat /\ n * Kilo <= x /\ x < n * Kilo + Kilo /\ n * Kilo \in Nat
      BY <1>0, <3>1, <3>2, DivisionFacts
    <3>4. Max({x, 0}) = x
      BY <1>10, <2>1, SMT
    <3>5. x > -Kilo
      BY <1>0, <2>1, SMT
    <3> QED
      BY <3>3, <3>4, <3>5
  <2>2. CASE x < 0
    <3> DEFINE q == (-x) \div Kilo
    <3>1. n = -q
      BY <1>0, <2>2, QuotientFacts DEF n
    <3>2. -x \in Nat
      BY <2>2, SMT
    <3>3. q \in Nat /\ q * Kilo <= -x /\ -x < q * Kilo + Kilo /\ q * Kilo \in Nat
      BY <1>0, <3>2, DivisionFacts
    <3> HIDE DEF q
    <3>4. q = 0 /\ n = 0
      BY <1>3, <1>6, <3>1, <3>3, SMT
    <3>5. Max({x, 0}) = 0
      BY <1>10, <2>2, SMT
    <3>6. 0 * Kilo = 0
      BY <1>0, SMT
    <3> QED
      BY <1>0, <2>2, <3>3, <3>4, <3>5, <3>6, SMT
  <2> QED
    BY <2>1, <2>2, SMT
<1>12. /\ (s + n) * Kilo = s * Kilo + n * Kilo /\ (s + n + 1) * Kilo = s * Kilo + n * Kilo + Kilo
       /\ s * Kilo \in Int /\ n * Kilo \in Int /\ s + n \in Nat
  BY <1>0, <1>3, <1>6, SMT
<1>13. s * Kilo = p.seconds * Mega * Kilo
  BY DEF s
<1> DEFINE hi == Max({p.nanos, 0})
<1>14. hi \in Int
  BY <1>10, SMT
<1> HIDE DEF hi
<1>15. n * Kilo <= hi /\ p.nanos < n * Kilo + Kilo
  BY <1>11 DEF hi
<1>16. (s + n) * Kilo <= s * Kilo + hi /\ s * Kilo + p.nanos < (s + n + 1) * Kilo
  BY <1>12, <1>14, <1>15, <1>0, SMT
<1> QED
  BY <1>8, <1>9, <1>11, <1>12, <1>13, <1>16 DEF hi, r

\* What a SystemTime or a chrono time becomes.
LEMMA SystemTaken ==
    ASSUME NEW n \in Int, timestamp_from_system_time(n).kind = "ok"
    PROVE  LET v == timestamp_from_system_time(n).value IN
           n >= 0 /\ v * Kilo <= n /\ n < (v + 1) * Kilo
<1> DEFINE r == timestamp_from_system_time(n)
<1>0. Kilo \in Nat /\ Kilo > 0
  BY Words, SMT
<1>1. r # Invalid
  BY Results
<1>2. ~(n < 0) /\ r = Ok(n \div Kilo)
  BY <1>1 DEF timestamp_from_system_time, Checked
<1>3. r.value = n \div Kilo
  BY <1>2, Results
<1>4. n \in Nat /\ n >= 0
  BY <1>2, SMT
<1> DEFINE q == n \div Kilo
<1>5. q \in Nat /\ q * Kilo <= n /\ n < q * Kilo + Kilo
  BY <1>0, <1>4, DivisionFacts
<1> HIDE DEF q, r
<1>6. (q + 1) * Kilo = q * Kilo + Kilo
  BY <1>0, <1>5, SMT
<1> QED
  BY <1>3, <1>4, <1>5, <1>6 DEF q, r

\* A u64 in milliseconds or seconds and back: cut to the unit.
LEMMA UnitsBack ==
    ASSUME NEW t \in U64
    PROVE  LET m == from_millis(as_millis(t))
               s == from_secs(as_secs(t)) IN
           /\ m.value <= t /\ t < m.value + Kilo
           /\ s.value <= m.value /\ t < s.value + Mega
<1> DEFINE k == t \div Kilo
           q == t \div Mega
<1>0. /\ t \in Nat /\ Kilo \in Nat /\ Kilo > 0 /\ Mega \in Nat /\ Mega > 0 /\ Mega = Kilo * Kilo
      /\ U64Max \in Nat /\ t <= U64Max
  BY Words, WordsAreIntegers, WordIs, SMT
<1>1. k \in Nat /\ k * Kilo \in Nat /\ k * Kilo <= t /\ t < k * Kilo + Kilo
  BY <1>0, DivisionFacts
<1>2. q \in Nat /\ q * Mega \in Nat /\ q * Mega <= t /\ t < q * Mega + Mega
  BY <1>0, DivisionFacts
<1>3. from_millis(as_millis(t)) = Checked(k * Kilo, U64, Overflow)
  BY DEF from_millis, as_millis
<1>4. from_secs(as_secs(t)) = Checked(q * Mega, U64, Overflow)
  BY DEF from_secs, as_secs
<1> HIDE DEF k, q
<1> DEFINE x == k * Kilo
           y == q * Mega
<1>5. x \in U64 /\ y \in U64
  <2>1. x \in Int /\ 0 <= x /\ x <= U64Max /\ y \in Int /\ 0 <= y /\ y <= U64Max
    <3> HIDE DEF x, y
    <3>1. x \in Nat /\ x <= t /\ y \in Nat /\ y <= t
      BY <1>1, <1>2 DEF x, y
    <3> QED
      BY <1>0, <3>1, SMT
  <2> HIDE DEF x, y
  <2> QED
    BY <2>1, WordIs
<1>6. from_millis(as_millis(t)).value = x /\ from_secs(as_secs(t)).value = y
  BY <1>3, <1>4, <1>5, Results DEF Checked
<1>7. y <= x
  <2>1. y = (q * Kilo) * Kilo /\ q * Kilo \in Nat
    BY <1>0, <1>2, SMT
  <2> DEFINE j == q * Kilo
  <2>2. y = j * Kilo /\ j \in Nat
    BY <2>1
  <2> HIDE DEF j, y
  <2>3. ~(j >= k + 1)
    <3>1. SUFFICES ASSUME j >= k + 1 PROVE FALSE
      OBVIOUS
    <3>2. j * Kilo >= (k + 1) * Kilo /\ (k + 1) * Kilo = k * Kilo + Kilo
      BY <1>0, <1>1, <2>2, <3>1, SMT
    <3>3. y <= t
      BY <1>2 DEF y
    <3> QED
      BY <1>0, <1>1, <2>2, <3>2, <3>3, SMT
  <2>4. j <= k
    BY <1>1, <2>2, <2>3, SMT
  <2>5. j * Kilo <= k * Kilo
    BY <1>0, <1>1, <2>2, <2>4, SMT
  <2> QED
    BY <2>2, <2>5
<1> QED
  BY <1>1, <1>2, <1>6, <1>7

\* Sums and differences of two u64, checked and saturating.
LEMMA SumsAgree ==
    ASSUME NEW t \in U64, NEW d \in U64
    PROVE  LET add == checked_add(t, d)
               sub == checked_sub(t, d) IN
           /\ add.kind = "ok" => checked_sub(add.value, d) = Ok(t) /\ saturating_add(t, d) = add.value
           /\ sub.kind = "ok" => checked_add(sub.value, d) = Ok(t) /\ saturating_sub(t, d) = sub.value
           /\ saturating_sub(t, d) <= t /\ t <= saturating_add(t, d)
<1>0. t \in Nat /\ d \in Nat /\ U64Max \in Nat /\ t <= U64Max
  BY Words, WordsAreIntegers, WordIs, SMT
<1>1. t + d \in Int /\ t - d \in Int /\ U64Max \in Int /\ 0 \in Int
  BY <1>0, SMT
<1>2. /\ saturating_add(t, d) = IF t + d <= U64Max THEN t + d ELSE U64Max
      /\ saturating_sub(t, d) = IF t - d <= 0 THEN 0 ELSE t - d
  BY <1>1, MinOfTwo, MaxOfTwo DEF saturating_add, saturating_sub
<1>3. (t + d) - d = t /\ (t - d) + d = t
  BY <1>0, SMT
<1>4. ASSUME checked_add(t, d).kind = "ok"
      PROVE  /\ checked_sub(checked_add(t, d).value, d) = Ok(t)
             /\ saturating_add(t, d) = checked_add(t, d).value
  <2>1. t + d \in U64 /\ checked_add(t, d) = Ok(t + d)
    BY <1>4, Results DEF checked_add, Checked
  <2>2. checked_add(t, d).value = t + d
    BY <2>1, Results
  <2>3. t + d <= U64Max
    BY <1>1, <2>1, WordIs
  <2> QED
    BY <1>2, <1>3, <2>2, <2>3 DEF checked_sub, Checked
<1>5. ASSUME checked_sub(t, d).kind = "ok"
      PROVE  /\ checked_add(checked_sub(t, d).value, d) = Ok(t)
             /\ saturating_sub(t, d) = checked_sub(t, d).value
  <2>1. t - d \in U64 /\ checked_sub(t, d) = Ok(t - d)
    BY <1>5, Results DEF checked_sub, Checked
  <2>2. checked_sub(t, d).value = t - d
    BY <2>1, Results
  <2>3. 0 <= t - d
    BY <1>1, <2>1, WordIs
  <2>4. saturating_sub(t, d) = t - d
    BY <1>1, <1>2, <2>3, SMT
  <2> QED
    BY <1>3, <2>2, <2>4 DEF checked_add, Checked
<1>6. saturating_sub(t, d) <= t /\ t <= saturating_add(t, d)
  BY <1>0, <1>2, SMT
<1> QED
  BY <1>4, <1>5, <1>6

\* A duration times a number, and divided by it.
LEMMA ScaleBack ==
    ASSUME NEW d \in U64, NEW n \in U64
    PROVE  LET mul == duration_checked_mul(d, n)
               div == duration_checked_div(d, n) IN
           /\ mul.kind = "ok" /\ n # 0 => duration_checked_div(mul.value, n) = Ok(d)
           /\ div.kind = "ok" => div.value * n <= d /\ d < (div.value + 1) * n
<1>0. d \in Nat /\ n \in Nat /\ d \in Int
  BY WordsAreIntegers, SMT
<1>1. ASSUME duration_checked_mul(d, n).kind = "ok", n # 0
      PROVE  duration_checked_div(duration_checked_mul(d, n).value, n) = Ok(d)
  <2>1. duration_checked_mul(d, n) = Ok(d * n)
    BY <1>1, Results DEF duration_checked_mul, Checked
  <2>2. duration_checked_mul(d, n).value = d * n
    BY <2>1, Results
  <2>3. n > 0
    BY <1>0, <1>1, SMT
  <2>4. (d * n) \div n = d
    BY <1>0, <2>3, ExactDivision
  <2> QED
    BY <1>1, <2>2, <2>4 DEF duration_checked_div
<1>2. ASSUME duration_checked_div(d, n).kind = "ok"
      PROVE  LET v == duration_checked_div(d, n).value IN v * n <= d /\ d < (v + 1) * n
  <2> DEFINE q == d \div n
  <2>1. n # 0 /\ duration_checked_div(d, n) = Ok(q)
    BY <1>2, Results DEF duration_checked_div
  <2>2. duration_checked_div(d, n).value = q
    BY <2>1, Results
  <2>3. n > 0
    BY <1>0, <2>1, SMT
  <2>4. q \in Nat /\ q * n <= d /\ d < q * n + n
    BY <1>0, <2>3, DivisionFacts
  <2> HIDE DEF q
  <2>5. (q + 1) * n = q * n + n
    BY <1>0, <2>4, SMT
  <2> QED
    BY <2>2, <2>4, <2>5
<1> QED
  BY <1>1, <1>2

-----------------------------------------------------------------------------
(* Every call *)

\* An element of a list.
LEMMA RateElement ==
    ASSUME NEW S, NEW s \in Seq(S), NEW i \in DOMAIN s
    PROVE  s[i] \in S
BY SMT

\* A fixed rate found for milliseconds or for a duration is one of them all,
\* so it divides a second and the first divides it.
LEMMA RateFound ==
    /\ \A m : fixed_rate_from_millis(m).kind = "ok" => fixed_rate_from_millis(m).value \in FixedRates
    /\ \A p : fixed_rate_from_proto(p).kind = "ok" => fixed_rate_from_proto(p).value \in FixedRates
    /\ \A r \in FixedRates : Mega % r = 0 /\ r % ALL[1] = 0
<1>1. FixedRates \subseteq Nat /\ \A r \in FixedRates : Mega % r = 0 /\ r % ALL[1] = 0
  <2>1. SUFFICES ASSUME NEW i \in DOMAIN ALL
                 PROVE  ALL[i] \in Nat /\ Mega % ALL[i] = 0 /\ ALL[i] % ALL[1] = 0
    BY DEF FixedRates
  <2>2. ALL \in Seq(1..U64Max)
    BY WordsAssumption DEF WordsAssumption
  <2>3. ALL[i] \in 1..U64Max
    BY <2>2, RateElement
  <2>4. ALL[i] \in Nat
    BY <2>3, Words, SMT
  <2> QED
    BY <2>4, WordsAssumption DEF WordsAssumption
<1>2. ASSUME NEW m, fixed_rate_from_millis(m).kind = "ok"
      PROVE  fixed_rate_from_millis(m).value \in FixedRates
  <2> DEFINE fits == {r \in FixedRates : as_millis(r) = m}
  <2>1. fits # {} /\ fixed_rate_from_millis(m) = Ok(Min(fits))
    BY <1>2, Results DEF fixed_rate_from_millis
  <2>2. fixed_rate_from_millis(m).value = Min(fits)
    BY <2>1, Results
  <2>3. fits \subseteq FixedRates /\ fits \subseteq Nat
    BY <1>1
  <2> HIDE DEF fits
  <2>4. \E x \in fits : \A y \in fits : x <= y
    BY <2>1, <2>3, LeastNatural
  <2>5. Min(fits) \in fits
    BY <2>4 DEF Min
  <2> QED
    BY <2>2, <2>3, <2>5
<1>3. ASSUME NEW d, fixed_rate_from_duration(d).kind = "ok"
      PROVE  fixed_rate_from_duration(d).value \in FixedRates
  BY <1>3, Results DEF fixed_rate_from_duration
<1>4. ASSUME NEW p, fixed_rate_from_proto(p).kind = "ok"
      PROVE  fixed_rate_from_proto(p).value \in FixedRates
  BY <1>3, <1>4 DEF fixed_rate_from_proto
<1> QED
  BY <1>1, <1>2, <1>4

PriceOps == {"rate_from_integer", "price_from_integer", "rate_from_f64", "price_from_f64",
             "rate_parse_str", "price_parse_str", "add", "sub", "mul_integer", "div_integer",
             "mul_decimal"}
TimeOps == {"proto_back", "system_back", "chrono_back", "proto", "system", "chrono", "units",
            "sums", "scale", "rate_millis", "rate_proto"}

\* What a call leaves behind, its only argument included.
LEMMA CallOfOne ==
    ASSUME NEW op, NEW x, NEW r, Call(op, <<x>>, r)
    PROVE  last'.op = op /\ last'.res = r /\ last'.args[1] = x
BY SMT DEF Call

\* The same for two arguments.
LEMMA CallOfTwo ==
    ASSUME NEW op, NEW x, NEW y, NEW r, Call(op, <<x, y>>, r)
    PROVE  last'.op = op /\ last'.res = r /\ last'.args[1] = x /\ last'.args[2] = y
BY SMT DEF Call

\* The same for three arguments.
LEMMA CallOfThree ==
    ASSUME NEW op, NEW x, NEW y, NEW z, NEW r, Call(op, <<x, y, z>>, r)
    PROVE  /\ last'.op = op /\ last'.res = r
           /\ last'.args[1] = x /\ last'.args[2] = y /\ last'.args[3] = z
BY SMT DEF Call

\* A property of one operation holds after every other.
LEMMA OtherCalls ==
    /\ last'.op \notin PriceOps => PricesExact(last')
    /\ last'.op \notin TimeOps => TimesSurvive(last')
    /\ last'.op # "has_moved" => HasMovedExact(last')
    /\ last'.op # "quote" => QuoteSurrounds(last')
    /\ last'.op # "multiples" => MultiplesBracket(last')
<1>1. last'.op \notin PriceOps => PricesExact(last')
  BY DEF PriceOps, PricesExact
<1>2. last'.op \notin TimeOps => TimesSurvive(last')
  BY DEF TimeOps, TimesSurvive
<1>3. last'.op # "has_moved" => HasMovedExact(last')
  BY DEF HasMovedExact
<1>4. last'.op # "quote" => QuoteSurrounds(last')
  BY DEF QuoteSurrounds
<1>5. last'.op # "multiples" => MultiplesBracket(last')
  BY DEF MultiplesBracket
<1> QED
  BY <1>1, <1>2, <1>3, <1>4, <1>5

\* After a call on a price or a rate, only PricesExact says something.
LEMMA AfterPrice ==
    ASSUME last'.op \in PriceOps, PricesExact(last')
    PROVE  ArithmeticExact'
<1>1. /\ last'.op \notin TimeOps /\ last'.op # "has_moved" /\ last'.op # "quote"
      /\ last'.op # "multiples"
  BY SMT DEF PriceOps, TimeOps
<1> QED
  BY <1>1, OtherCalls DEF ArithmeticExact

\* After a call on a time, only TimesSurvive says something.
LEMMA AfterTime ==
    ASSUME last'.op \in TimeOps, TimesSurvive(last')
    PROVE  ArithmeticExact'
<1>1. /\ last'.op \notin PriceOps /\ last'.op # "has_moved" /\ last'.op # "quote"
      /\ last'.op # "multiples"
  BY SMT DEF PriceOps, TimeOps
<1> QED
  BY <1>1, OtherCalls DEF ArithmeticExact

\* The fields of a Decimal, and the exponents.
LEMMA DecimalFields ==
    /\ \A d \in Decimals : d.digits \in Int /\ d.scale \in Nat
    /\ \A e \in SmallExponents : e \in Int
<1>1. \A d \in Decimals : d.digits \in I64 /\ d.scale \in 0..MaxExponent
  BY DEF Decimals
<1>2. 0..MaxExponent \subseteq Nat
  BY SMT
<1>3. \A e \in SmallExponents : e \in Int
  BY Words, SMT DEF SmallExponents
<1> QED
  BY <1>1, <1>2, <1>3, WordsAreIntegers

\* Every call on a rate.
LEMMA RateCallsExact == RateCalls => ArithmeticExact'
<1>1. ASSUME NEW v \in I64, NEW e \in SmallExponents,
             Call("rate_from_integer", <<v, e>>, rate_from_integer(v, e))
      PROVE  ArithmeticExact'
  <2>1. v \in Int /\ e \in Int
    BY Words, WordsAreIntegers, SMT DEF SmallExponents
  <2> DEFINE r == rate_from_integer(v, e)
  <2>2. Powered(e, r = ExactMantissa(v, 0, e), r)
    BY <2>1, RateFromInteger
  <2>3. /\ last'.op = "rate_from_integer" /\ last'.res = r
        /\ last'.args[1] = v /\ last'.args[2] = e
    BY <1>1, CallOfTwo
  <2> HIDE DEF r
  <2>4. PricesExact(last')
    BY <2>2, <2>3 DEF PricesExact, Powered
  <2> QED
    BY <2>3, <2>4, AfterPrice DEF PriceOps
<1>2. ASSUME NEW d \in Decimals, NEW e \in SmallExponents,
             Call("rate_parse_str", <<d, e>>, rate_parse_str(d, e))
      PROVE  ArithmeticExact'
  <2>1. d.digits \in Int /\ d.scale \in Nat /\ e \in Int
    BY DecimalFields
  <2> DEFINE r == rate_parse_str(d, e)
  <2>2. ParsedExactly(d, e, r)
    BY <2>1, RateParsed
  <2>3. /\ last'.op = "rate_parse_str" /\ last'.res = r
        /\ last'.args[1] = d /\ last'.args[2] = e
    BY <1>2, CallOfTwo
  <2> HIDE DEF r
  <2>4. PricesExact(last')
    BY <2>2, <2>3 DEF PricesExact, ParsedExactly
  <2> QED
    BY <2>3, <2>4, AfterPrice DEF PriceOps
<1>3. ASSUME NEW d \in Decimals, NEW e \in SmallExponents,
             Call("rate_from_f64", <<d, e>>, rate_from_f64(d, e))
      PROVE  ArithmeticExact'
  <2>1. d.digits \in Int /\ d.scale \in Nat /\ e \in Int
    BY DecimalFields
  <2> DEFINE r == rate_from_f64(d, e)
  <2>2. Powered(e, r = ExactMantissa(d.digits, d.scale, e), r)
    BY <2>1, RateFromF64
  <2>3. /\ last'.op = "rate_from_f64" /\ last'.res = r
        /\ last'.args[1] = d /\ last'.args[2] = e
    BY <1>3, CallOfTwo
  <2> HIDE DEF r
  <2>4. PricesExact(last')
    BY <2>2, <2>3 DEF PricesExact, Powered
  <2> QED
    BY <2>3, <2>4, AfterPrice DEF PriceOps
<1> QED
  BY <1>1, <1>2, <1>3 DEF RateCalls

\* Every call on a price.
LEMMA PriceCallsExact == PriceCalls => ArithmeticExact'
<1>1. ASSUME NEW v \in I64, NEW e \in SmallExponents,
             Call("price_from_integer", <<v, e>>, price_from_integer(v, e))
      PROVE  ArithmeticExact'
  <2> DEFINE r == price_from_integer(v, e)
  <2>1. v \in Int /\ e \in Int
    BY WordsAreIntegers, DecimalFields
  <2>2. Powered(e, rate_from_integer(v, e) = ExactMantissa(v, 0, e), rate_from_integer(v, e))
    BY <2>1, RateFromInteger
  <2>3. Powered(e, PriceOf(ExactMantissa(v, 0, e), r), r)
    BY <2>2, PoweredPrice DEF price_from_integer
  <2>8. /\ last'.op = "price_from_integer" /\ last'.res = r
        /\ last'.args[1] = v /\ last'.args[2] = e
    BY <1>1, CallOfTwo
  <2> HIDE DEF r
  <2>9. PricesExact(last')
    BY <2>3, <2>8 DEF PricesExact, Powered, PriceOf
  <2> QED
    BY <2>8, <2>9, AfterPrice DEF PriceOps
<1>2. ASSUME NEW d \in Decimals, NEW e \in SmallExponents,
             Call("price_parse_str", <<d, e>>, price_parse_str(d, e))
      PROVE  ArithmeticExact'
  <2> DEFINE r == price_parse_str(d, e)
  <2>1. d.digits \in Int /\ d.scale \in Nat /\ e \in Int
    BY DecimalFields
  <2>2. ParsedExactly(d, e, r) /\ (r.kind = "ok" => r.value # 0)
    BY <2>1, PriceParsed
  <2>8. /\ last'.op = "price_parse_str" /\ last'.res = r
        /\ last'.args[1] = d /\ last'.args[2] = e
    BY <1>2, CallOfTwo
  <2> HIDE DEF r
  <2>9. PricesExact(last')
    BY <2>2, <2>8 DEF PricesExact, ParsedExactly
  <2> QED
    BY <2>8, <2>9, AfterPrice DEF PriceOps
<1>3. ASSUME NEW d \in Decimals, NEW e \in SmallExponents,
             Call("price_from_f64", <<d, e>>, price_from_f64(d, e))
      PROVE  ArithmeticExact'
  <2> DEFINE r == price_from_f64(d, e)
  <2> DEFINE exact == ExactMantissa(d.digits, d.scale, e)
  <2>1. d.digits \in Int /\ d.scale \in Nat /\ e \in Int
    BY DecimalFields
  <2>2. Powered(e, rate_from_f64(d, e) = exact, rate_from_f64(d, e))
    BY <2>1, RateFromF64
  <2>3. Powered(e, PriceOf(exact, r), r)
    BY <2>2, PoweredPrice DEF price_from_f64
  <2>8. /\ last'.op = "price_from_f64" /\ last'.res = r
        /\ last'.args[1] = d /\ last'.args[2] = e
    BY <1>3, CallOfTwo
  <2> HIDE DEF r
  <2>9. PricesExact(last')
    BY <2>3, <2>8 DEF PricesExact, Powered, PriceOf
  <2> QED
    BY <2>8, <2>9, AfterPrice DEF PriceOps
<1>4. ASSUME NEW a \in Prices, NEW b \in Prices,
             Call("add", <<a, b>>, add_with_same_exponent(a, b))
      PROVE  ArithmeticExact'
  <2> DEFINE r == add_with_same_exponent(a, b)
  <2>1. a \in Int /\ b \in Int
    BY WordsAreIntegers DEF Prices
  <2>2. a + b \in Int
    BY <2>1, SMT
  <2>3. PriceOf(Exact(a + b, 1), r)
    BY <2>2, WholePrice DEF add_with_same_exponent
  <2>8. /\ last'.op = "add" /\ last'.res = r
        /\ last'.args[1] = a /\ last'.args[2] = b
    BY <1>4, CallOfTwo
  <2> HIDE DEF r
  <2>9. PricesExact(last')
    BY <2>3, <2>8 DEF PricesExact, PriceOf
  <2> QED
    BY <2>8, <2>9, AfterPrice DEF PriceOps
<1>5. ASSUME NEW a \in Prices, NEW b \in Prices,
             Call("sub", <<a, b>>, sub_with_same_exponent(a, b))
      PROVE  ArithmeticExact'
  <2> DEFINE r == sub_with_same_exponent(a, b)
  <2>1. a \in Int /\ b \in Int
    BY WordsAreIntegers DEF Prices
  <2>2. a - b \in Int
    BY <2>1, SMT
  <2>3. PriceOf(Exact(a - b, 1), r)
    BY <2>2, WholePrice DEF sub_with_same_exponent
  <2>8. /\ last'.op = "sub" /\ last'.res = r
        /\ last'.args[1] = a /\ last'.args[2] = b
    BY <1>5, CallOfTwo
  <2> HIDE DEF r
  <2>9. PricesExact(last')
    BY <2>3, <2>8 DEF PricesExact, PriceOf
  <2> QED
    BY <2>8, <2>9, AfterPrice DEF PriceOps
<1>6. ASSUME NEW a \in Prices, NEW f \in I64,
             Call("mul_integer", <<a, f>>, mul_integer(a, f))
      PROVE  ArithmeticExact'
  <2> DEFINE r == mul_integer(a, f)
  <2>1. a \in Int /\ f \in Int
    BY WordsAreIntegers DEF Prices
  <2>2. a * f \in Int
    BY <2>1, SMT
  <2>3. PriceOf(Exact(a * f, 1), r)
    BY <2>2, WholePrice DEF mul_integer
  <2>8. /\ last'.op = "mul_integer" /\ last'.res = r
        /\ last'.args[1] = a /\ last'.args[2] = f
    BY <1>6, CallOfTwo
  <2> HIDE DEF r
  <2>9. PricesExact(last')
    BY <2>3, <2>8 DEF PricesExact, PriceOf
  <2> QED
    BY <2>8, <2>9, AfterPrice DEF PriceOps
<1>7. ASSUME NEW a \in Prices, NEW f \in I64,
             Call("div_integer", <<a, f>>, div_integer(a, f))
      PROVE  ArithmeticExact'
  <2> DEFINE r == div_integer(a, f)
  <2>3. IF f = 0 THEN r = Overflow ELSE PriceOf(Exact(a, f), r)
    BY NonZeroIsPrice DEF div_integer, Exact
  <2>8. /\ last'.op = "div_integer" /\ last'.res = r
        /\ last'.args[1] = a /\ last'.args[2] = f
    BY <1>7, CallOfTwo
  <2> HIDE DEF r
  <2>9. PricesExact(last')
    BY <2>3, <2>8 DEF PricesExact, PriceOf
  <2> QED
    BY <2>8, <2>9, AfterPrice DEF PriceOps
<1>8. ASSUME NEW a \in Prices, NEW m \in I64, NEW e \in SmallExponents,
             Call("mul_decimal", <<a, m, e>>, mul_decimal(a, m, e))
      PROVE  ArithmeticExact'
  <2> DEFINE r == mul_decimal(a, m, e)
  <2>1. a \in Int /\ m \in Int /\ e \in Int
    BY WordsAreIntegers, DecimalFields DEF Prices
  <2>2. Powered(e, PriceOf(Exact(a * m * Power[Max({e, 0})], Power[Max({-e, 0})]), r), r)
    BY <2>1, DecimalProduct
  <2>8. /\ last'.op = "mul_decimal" /\ last'.res = r
        /\ last'.args[1] = a /\ last'.args[2] = m /\ last'.args[3] = e
    BY <1>8, CallOfThree
  <2> HIDE DEF r
  <2>9. PricesExact(last')
    BY <2>2, <2>8 DEF PricesExact, Powered, PriceOf
  <2> QED
    BY <2>8, <2>9, AfterPrice DEF PriceOps
<1> QED
  BY <1>1, <1>2, <1>3, <1>4, <1>5, <1>6, <1>7, <1>8 DEF PriceCalls

\* has_moved_with_same_exponent, with any two prices and any threshold.
LEMMA HasMovedCallExact == HasMoved => ArithmeticExact'
<1>1. ASSUME NEW a \in Prices, NEW b \in Prices, NEW ppm \in U64,
             Call("has_moved", <<a, b, ppm>>, has_moved_with_same_exponent(a, b, ppm))
      PROVE  ArithmeticExact'
  <2> DEFINE r == has_moved_with_same_exponent(a, b, ppm)
  <2>1. a \in Int /\ b \in Int /\ ppm \in Nat
    BY WordsAreIntegers DEF Prices
  <2>2. r <=> Abs(a - b) * Mega > Abs(a) * ppm
    BY <2>1, MovedExactly
  <2>3. /\ last'.op = "has_moved" /\ last'.res = r
        /\ last'.args[1] = a /\ last'.args[2] = b /\ last'.args[3] = ppm
    BY <1>1, CallOfThree
  <2> HIDE DEF r
  <2>4. HasMovedExact(last')
    BY <2>2, <2>3 DEF HasMovedExact
  <2>5. last'.op \notin PriceOps /\ last'.op \notin TimeOps
    BY <2>3 DEF PriceOps, TimeOps
  <2> QED
    BY <2>3, <2>4, <2>5, OtherCalls DEF ArithmeticExact
<1> QED
  BY <1>1 DEF HasMoved

\* The quote of a legacy update, with any price and any confidence.
LEMMA QuoteCallExact == Quote => ArithmeticExact'
<1>1. ASSUME NEW offer \in I64, NEW conf \in U64,
             Call("quote", <<offer, conf>>, legacy_quote(offer, conf))
      PROVE  ArithmeticExact'
  <2> DEFINE r == legacy_quote(offer, conf)
  <2>2. r[1] <= offer /\ offer <= r[2] /\ r[1] \in I64 /\ r[2] \in I64
    BY QuoteAround
  <2>3. last'.op = "quote" /\ last'.res = r /\ last'.args[1] = offer
    BY <1>1, CallOfTwo
  <2> HIDE DEF r
  <2>4. QuoteSurrounds(last')
    BY <2>2, <2>3 DEF QuoteSurrounds
  <2>5. last'.op \notin PriceOps /\ last'.op \notin TimeOps
    BY <2>3 DEF PriceOps, TimeOps
  <2> QED
    BY <2>3, <2>4, <2>5, OtherCalls DEF ArithmeticExact
<1> QED
  BY <1>1 DEF Quote

\* The fields of a protobuf timestamp or duration.
LEMMA ProtoFields == \A p \in Protos : p.seconds \in Int /\ p.nanos \in Int
<1>1. \A p \in Protos : p.seconds \in I64 /\ p.nanos \in -(2 * Kilo)..(Mega * Kilo - 1)
  BY DEF Protos
<1>2. -(2 * Kilo)..(Mega * Kilo - 1) \subseteq Int
  BY Words, SMT
<1> QED
  BY <1>1, <1>2, WordsAreIntegers

\* Every call on a timestamp.
LEMMA TimestampCallsExact == TimestampCalls => ArithmeticExact'
<1>1. ASSUME NEW t \in U64, NEW d \in U64,
             Call("multiples", <<t, d>>,
                  [is |-> is_multiple_of(t, d), next |-> next_multiple_of(t, d),
                   previous |-> previous_multiple_of(t, d)])
      PROVE  ArithmeticExact'
  <2> DEFINE next == next_multiple_of(t, d)
             previous == previous_multiple_of(t, d)
             is == is_multiple_of(t, d)
             from == {m \in t..U64Max : m % d = 0}
             to == {m \in 0..t : m % d = 0}
  <2>1. IF d = 0 THEN is /\ next = Invalid /\ previous = Invalid
        ELSE /\ next = IF from = {} THEN Overflow ELSE Ok(Min(from))
             /\ previous = Ok(Max(to))
             /\ is <=> next = previous
    BY MultiplesGiven
  <2>2. is \in BOOLEAN
    BY DEF is_multiple_of
  <2>3. /\ last'.op = "multiples" /\ last'.args[1] = t /\ last'.args[2] = d
        /\ last'.res = [is |-> is, next |-> next, previous |-> previous]
    BY <1>1, CallOfTwo
  <2> HIDE DEF is, next, previous
  <2>4. last'.res.is = is /\ last'.res.next = next /\ last'.res.previous = previous
    BY <2>3, SMT
  <2>5. d = 0 => last'.res = [is |-> TRUE, next |-> Invalid, previous |-> Invalid]
    BY <2>1, <2>2, <2>3
  <2>6. MultiplesBracket(last')
    BY <2>1, <2>3, <2>4, <2>5 DEF MultiplesBracket
  <2>7. last'.op \notin PriceOps /\ last'.op \notin TimeOps
    BY <2>3 DEF PriceOps, TimeOps
  <2> QED
    BY <2>3, <2>6, <2>7, OtherCalls DEF ArithmeticExact
<1>2. ASSUME NEW t \in U64, NEW d \in U64,
             Call("sums", <<t, d>>,
                  [add |-> checked_add(t, d), sub |-> checked_sub(t, d),
                   since |-> duration_since(t, d), satadd |-> saturating_add(t, d),
                   satsub |-> saturating_sub(t, d), satsince |-> saturating_duration_since(t, d)])
      PROVE  ArithmeticExact'
  <2> DEFINE add == checked_add(t, d)
             sub == checked_sub(t, d)
             satadd == saturating_add(t, d)
             satsub == saturating_sub(t, d)
  <2>1. /\ add.kind = "ok" => checked_sub(add.value, d) = Ok(t) /\ satadd = add.value
        /\ sub.kind = "ok" => checked_add(sub.value, d) = Ok(t) /\ satsub = sub.value
        /\ satsub <= t /\ t <= satadd
    BY SumsAgree
  <2>3. /\ last'.op = "sums" /\ last'.args[1] = t /\ last'.args[2] = d
        /\ last'.res = [add |-> add, sub |-> sub, since |-> sub, satadd |-> satadd,
                        satsub |-> satsub, satsince |-> satsub]
    BY <1>2, CallOfTwo DEF duration_since, saturating_duration_since
  <2> HIDE DEF add, sub, satadd, satsub
  <2>4. /\ last'.res.add = add /\ last'.res.sub = sub /\ last'.res.since = sub
        /\ last'.res.satadd = satadd /\ last'.res.satsub = satsub /\ last'.res.satsince = satsub
    BY <2>3, SMT
  <2>5. TimesSurvive(last')
    BY <2>1, <2>3, <2>4 DEF TimesSurvive
  <2> QED
    BY <2>3, <2>5, AfterTime DEF TimeOps
<1>3. ASSUME NEW t \in U64,
             Call("units", <<t>>,
                  [nanos |-> from_nanos(as_nanos(t)), millis |-> from_millis(as_millis(t)),
                   secs |-> from_secs(as_secs(t))])
      PROVE  ArithmeticExact'
  <2> DEFINE nanos == from_nanos(as_nanos(t))
             millis == from_millis(as_millis(t))
             secs == from_secs(as_secs(t))
  <2>1. /\ nanos = Ok(t)
        /\ millis.value <= t /\ t < millis.value + Kilo
        /\ secs.value <= millis.value /\ t < secs.value + Mega
    BY NanosBack, UnitsBack
  <2>3. /\ last'.op = "units" /\ last'.args[1] = t
        /\ last'.res = [nanos |-> nanos, millis |-> millis, secs |-> secs]
    BY <1>3, CallOfOne
  <2> HIDE DEF nanos, millis, secs
  <2>4. last'.res.nanos = nanos /\ last'.res.millis = millis /\ last'.res.secs = secs
    BY <2>3, SMT
  <2>5. TimesSurvive(last')
    BY <2>1, <2>3, <2>4 DEF TimesSurvive
  <2> QED
    BY <2>3, <2>5, AfterTime DEF TimeOps
<1>4. ASSUME NEW t \in U64,
             Call("proto_back", <<t>>, timestamp_from_proto(timestamp_into_proto(t)))
      PROVE  ArithmeticExact'
  <2> DEFINE r == timestamp_from_proto(timestamp_into_proto(t))
  <2>1. r = Ok(t) \/ (r.kind # "ok" /\ t > I64Max - Mega)
    BY ProtoBack
  <2>8. /\ last'.op = "proto_back" /\ last'.res = r
        /\ last'.args[1] = t
    BY <1>4, CallOfOne
  <2> HIDE DEF r
  <2>9. TimesSurvive(last')
    BY <2>1, <2>8 DEF TimesSurvive
  <2> QED
    BY <2>8, <2>9, AfterTime DEF TimeOps
<1>5. ASSUME NEW p \in Protos,
             Call("proto", <<p>>, timestamp_from_proto(p))
      PROVE  ArithmeticExact'
  <2> DEFINE r == timestamp_from_proto(p)
  <2>1. p.seconds \in Int /\ p.nanos \in Int
    BY ProtoFields
  <2>2. r.kind = "ok" =>
          /\ p.seconds >= 0 /\ p.nanos > -Kilo
          /\ r.value * Kilo <= p.seconds * Mega * Kilo + Max({p.nanos, 0})
          /\ p.seconds * Mega * Kilo + p.nanos < (r.value + 1) * Kilo
    BY <2>1, ProtoTaken
  <2>8. /\ last'.op = "proto" /\ last'.res = r
        /\ last'.args[1] = p
    BY <1>5, CallOfOne
  <2> HIDE DEF r
  <2>9. TimesSurvive(last')
    BY <2>2, <2>8 DEF TimesSurvive
  <2> QED
    BY <2>8, <2>9, AfterTime DEF TimeOps
<1>6. ASSUME NEW t \in U64,
             Call("system_back", <<t>>, timestamp_from_system_time(timestamp_into_system_time(t).value))
      PROVE  ArithmeticExact'
  <2> DEFINE r == timestamp_from_system_time(timestamp_into_system_time(t).value)
  <2>1. r = Ok(t)
    BY NanosBack
  <2>8. /\ last'.op = "system_back" /\ last'.res = r
        /\ last'.args[1] = t
    BY <1>6, CallOfOne
  <2> HIDE DEF r
  <2>9. TimesSurvive(last')
    BY <2>1, <2>8 DEF TimesSurvive
  <2> QED
    BY <2>8, <2>9, AfterTime DEF TimeOps
<1>7. ASSUME NEW n \in -(2 * Kilo)..((U64Max + 2) * Kilo),
             Call("system", <<n>>, timestamp_from_system_time(n))
      PROVE  ArithmeticExact'
  <2> DEFINE r == timestamp_from_system_time(n)
  <2>1. n \in Int
    BY Words, SMT DEF U64Max
  <2>2. r.kind = "ok" => n >= 0 /\ r.value * Kilo <= n /\ n < (r.value + 1) * Kilo
    BY <2>1, SystemTaken
  <2>8. /\ last'.op = "system" /\ last'.res = r
        /\ last'.args[1] = n
    BY <1>7, CallOfOne
  <2> HIDE DEF r
  <2>9. TimesSurvive(last')
    BY <2>2, <2>8 DEF TimesSurvive
  <2> QED
    BY <2>8, <2>9, AfterTime DEF TimeOps
<1>8. ASSUME NEW t \in U64,
             Call("chrono_back", <<t>>,
                  LET c == timestamp_into_chrono(t) IN
                  IF c.kind = "ok" THEN timestamp_from_chrono(c.value) ELSE c)
      PROVE  ArithmeticExact'
  <2> DEFINE c == timestamp_into_chrono(t)
             r == IF c.kind = "ok" THEN timestamp_from_chrono(c.value) ELSE c
  <2>1. IF t <= ChronoMax THEN r = Ok(t) ELSE r.kind # "ok"
    BY ChronoBack
  <2>8. last'.op = "chrono_back" /\ last'.res = r /\ last'.args[1] = t
    BY <1>8, CallOfOne
  <2> HIDE DEF r
  <2>9. TimesSurvive(last')
    BY <2>1, <2>8 DEF TimesSurvive
  <2> QED
    BY <2>8, <2>9, AfterTime DEF TimeOps
<1>9. ASSUME NEW c \in -(ChronoMax + 1)..ChronoMax,
             Call("chrono", <<c>>, timestamp_from_chrono(c))
      PROVE  ArithmeticExact'
  <2> DEFINE r == timestamp_from_chrono(c)
  <2>1. r.kind = "ok" => r.value = c
    BY DEF timestamp_from_chrono, Ok, Invalid
  <2>8. /\ last'.op = "chrono" /\ last'.res = r
        /\ last'.args[1] = c
    BY <1>9, CallOfOne
  <2> HIDE DEF r
  <2>9. TimesSurvive(last')
    BY <2>1, <2>8 DEF TimesSurvive
  <2> QED
    BY <2>8, <2>9, AfterTime DEF TimeOps
<1> QED
  BY <1>1, <1>2, <1>3, <1>4, <1>5, <1>6, <1>7, <1>8, <1>9 DEF TimestampCalls

\* Every call on a duration or a fixed rate.
LEMMA DurationCallsExact == DurationCalls => ArithmeticExact'
<1>1. ASSUME NEW d \in U64, NEW n \in U64,
             Call("scale", <<d, n>>,
                  [mul |-> duration_checked_mul(d, n), div |-> duration_checked_div(d, n)])
      PROVE  ArithmeticExact'
  <2> DEFINE mul == duration_checked_mul(d, n)
             div == duration_checked_div(d, n)
  <2>1. /\ mul.kind = "ok" /\ n # 0 => duration_checked_div(mul.value, n) = Ok(d)
        /\ div.kind = "ok" => div.value * n <= d /\ d < (div.value + 1) * n
    BY ScaleBack
  <2>3. /\ last'.op = "scale" /\ last'.args[1] = d /\ last'.args[2] = n
        /\ last'.res = [mul |-> mul, div |-> div]
    BY <1>1, CallOfTwo
  <2> HIDE DEF mul, div
  <2>4. last'.res.mul = mul /\ last'.res.div = div
    BY <2>3, SMT
  <2>5. TimesSurvive(last')
    BY <2>1, <2>3, <2>4 DEF TimesSurvive
  <2> QED
    BY <2>3, <2>5, AfterTime DEF TimeOps
<1>2. ASSUME NEW d \in U64,
             Call("proto_back", <<d>>, duration_from_proto(duration_into_proto(d)))
      PROVE  ArithmeticExact'
  <2> DEFINE r == duration_from_proto(duration_into_proto(d))
  <2>1. r = Ok(d) \/ (r.kind # "ok" /\ d > I64Max - Mega)
    BY ProtoBack DEF duration_from_proto, duration_into_proto
  <2>8. /\ last'.op = "proto_back" /\ last'.res = r
        /\ last'.args[1] = d
    BY <1>2, CallOfOne
  <2> HIDE DEF r
  <2>9. TimesSurvive(last')
    BY <2>1, <2>8 DEF TimesSurvive
  <2> QED
    BY <2>8, <2>9, AfterTime DEF TimeOps
<1>3. ASSUME NEW d \in U64,
             Call("system_back", <<d>>, duration_from_std(duration_into_std(d)))
      PROVE  ArithmeticExact'
  <2> DEFINE r == duration_from_std(duration_into_std(d))
  <2>1. r = Ok(d)
    BY NanosBack
  <2>8. /\ last'.op = "system_back" /\ last'.res = r
        /\ last'.args[1] = d
    BY <1>3, CallOfOne
  <2> HIDE DEF r
  <2>9. TimesSurvive(last')
    BY <2>1, <2>8 DEF TimesSurvive
  <2> QED
    BY <2>8, <2>9, AfterTime DEF TimeOps
<1>4. ASSUME NEW m \in U64,
             Call("rate_millis", <<m>>, fixed_rate_from_millis(m))
      PROVE  ArithmeticExact'
  <2> DEFINE r == fixed_rate_from_millis(m)
  <2>1. r.kind = "ok" => r.value \in FixedRates /\ Mega % r.value = 0 /\ r.value % ALL[1] = 0
    BY RateFound
  <2>8. /\ last'.op = "rate_millis" /\ last'.res = r
        /\ last'.args[1] = m
    BY <1>4, CallOfOne
  <2> HIDE DEF r
  <2>9. TimesSurvive(last')
    BY <2>1, <2>8 DEF TimesSurvive
  <2> QED
    BY <2>8, <2>9, AfterTime DEF TimeOps
<1>5. ASSUME NEW p \in Protos,
             Call("rate_proto", <<p>>, fixed_rate_from_proto(p))
      PROVE  ArithmeticExact'
  <2> DEFINE r == fixed_rate_from_proto(p)
  <2>1. r.kind = "ok" => r.value \in FixedRates /\ Mega % r.value = 0 /\ r.value % ALL[1] = 0
    BY RateFound
  <2>8. /\ last'.op = "rate_proto" /\ last'.res = r
        /\ last'.args[1] = p
    BY <1>5, CallOfOne
  <2> HIDE DEF r
  <2>9. TimesSurvive(last')
    BY <2>1, <2>8 DEF TimesSurvive
  <2> QED
    BY <2>8, <2>9, AfterTime DEF TimeOps
<1> QED
  BY <1>1, <1>2, <1>3, <1>4, <1>5 DEF DurationCalls

\* THEOREM: every call of the protocol crate's arithmetic returns what exact
\* integers say, for every width of the words.  ArithmeticExact speaks of the
\* call that returned last and needs no strengthening: each call establishes
\* it whatever came before.
THEOREM ArithmeticIsExact == ArithmeticSpec => []ArithmeticExact
<1>1. ASSUME last.op = "none" PROVE ArithmeticExact
  BY <1>1 DEF ArithmeticExact, PricesExact, HasMovedExact, QuoteSurrounds, MultiplesBracket,
              TimesSurvive
<1>2. ArithmeticInit => ArithmeticExact
  <2>1. ArithmeticInit => last.op = "none"
    BY SMT DEF ArithmeticInit, NoCall
  <2> QED
    BY <2>1, <1>1
<1>3. ArithmeticExact /\ [ArithmeticNext]_last => ArithmeticExact'
  <2> SUFFICES ASSUME ArithmeticExact, [ArithmeticNext]_last PROVE ArithmeticExact'
    OBVIOUS
  <2>1. CASE ArithmeticCalls
    BY <2>1, PriceCallsExact, RateCallsExact, HasMovedCallExact, QuoteCallExact,
       TimestampCallsExact, DurationCallsExact DEF ArithmeticCalls
  <2>2. CASE ArithmeticReturn
    <3>1. last'.op = "none"
      BY <2>2 DEF ArithmeticReturn, NoCall
    <3> QED
      BY <3>1, OtherCalls DEF ArithmeticExact, PriceOps, TimeOps
  <2>3. CASE UNCHANGED last
    BY <2>3 DEF ArithmeticExact
  <2> QED
    BY <2>1, <2>2, <2>3 DEF ArithmeticNext
<1> QED
  BY <1>2, <1>3, PTL DEF ArithmeticSpec
=============================================================================
