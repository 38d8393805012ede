--------------------------- MODULE ProtocolProofs ---------------------------
(***************************************************************************)
(* The pure parts of the protocol crate and of the Solana contract, one    *)
(* call at a time.                                                         *)
(*                                                                         *)
(* The loop of pack_price_inner rounds correctly for every price and every *)
(* width of the packed mantissa and exponent. A verified message was       *)
(* signed, whatever the lengths, the offsets and the transaction. A        *)
(* request is served as its client meant it, whatever its lists, its rates *)
(* and its spelling.                                                       *)
(***************************************************************************)
EXTENDS PackPrice, RequestValidation, Ed25519Layout, WellFoundedInduction, TLAPS

USE ZenonT(30)

-----------------------------------------------------------------------------
(* The rounding loop of pack_price_inner *)

\* The loop's types, and that its rounding method tells what was dropped.
IInv == PackTypeOK /\ MethodTellsDropped

(* A number is ten times its quotient plus a digit. *)
LEMMA TenDigits ==
  ASSUME NEW m \in Int, m > 0
  PROVE  /\ m \div 10 \in Int /\ m \div 10 >= 0 /\ m % 10 \in 0..9
         /\ m = 10 * (m \div 10) + (m % 10)
BY SMT

(* What dropping one more digit does to the dropped part. *)
LEMMA DroppedGrows ==
  ASSUME NEW p \in Int, NEW q \in Int, NEW d \in 0..9, NEW u \in Int
  PROVE  p - q * (10 * u) = (p - (10 * q + d) * u) + d * u
<1>1. (10 * q + d) * u = (10 * q) * u + d * u
  BY SMT
<1>2. (10 * q) * u = q * (10 * u)
  BY SMT
<1>3. /\ (10 * q + d) * u \in Int /\ (10 * q) * u \in Int /\ d * u \in Int
      /\ q * (10 * u) \in Int
  BY SMT
<1> QED BY <1>1, <1>2, <1>3, SMT

(* Which way the dropped part rounds after one more digit d, where r was   *)
(* dropped before, in units of u. *)
LEMMA MethodUpdated ==
  ASSUME NEW u \in Int, u > 0, NEW r \in Int, 0 <= r, r < u, NEW d \in 0..9,
         NEW method \in Methods,
         method = "Unnecessary" <=> r = 0,
         NEW s, s = r + d * u, NEW m, m = update_from_remainder(method, d)
  PROVE  /\ 0 <= s /\ s < 10 * u
         /\ m \in Methods
         /\ m = "Unnecessary" <=> s = 0
         /\ m = "Down" <=> 0 < s /\ 2 * s < 10 * u
         /\ m = "NearestEven" <=> 2 * s = 10 * u
         /\ m = "Up" <=> 2 * s > 10 * u
<1>0. CASE d = 0
  <2>1. r + d * u = r
    BY <1>0, SMT
  <2>2. m = IF method = "Unnecessary" THEN "Unnecessary" ELSE "Down"
    BY <1>0, SMT DEF update_from_remainder
  <2> QED BY <2>1, <2>2, SMT DEF Methods
<1>1. CASE d \in 1..4
  <2>1. m = "Down"
    BY <1>1, SMT DEF update_from_remainder
  <2>2. u <= d * u /\ d * u <= 4 * u
    BY <1>1, SMT
  <2>3. d * u \in Int
    BY SMT
  <2> QED BY <2>1, <2>2, <2>3, SMT DEF Methods
<1>2. CASE d = 5
  <2>1. m = IF method = "Unnecessary" THEN "NearestEven" ELSE "Up"
    BY <1>2, SMT DEF update_from_remainder
  <2>2. d * u = 5 * u
    BY <1>2
  <2> QED BY <2>1, <2>2, SMT DEF Methods
<1>3. CASE d \in 6..9
  <2>1. m = "Up"
    BY <1>3, SMT DEF update_from_remainder
  <2>2. 6 * u <= d * u /\ d * u <= 9 * u
    BY <1>3, SMT
  <2>3. d * u \in Int
    BY SMT
  <2> QED BY <2>1, <2>2, <2>3, SMT DEF Methods
<1> QED BY <1>0, <1>1, <1>2, <1>3, SMT

\* Before the first digit nothing is dropped.
LEMMA InitIInv == PackInit => IInv
<1> SUFFICES ASSUME PackInit PROVE IInv
  OBVIOUS
<1> USE InputsAssumption
<1>1. price.mantissa \in Int /\ price.exponent \in Int
  BY DEF PackInit
<1>2. PackTypeOK
  BY <1>1, SMT DEF PackInit, PackTypeOK, Methods
<1>3. MethodTellsDropped
  <2>1. Dropped = 0
    BY <1>1, SMT DEF PackInit, Dropped
  <2> QED BY <2>1, SMT DEF PackInit, MethodTellsDropped
<1> QED BY <1>2, <1>3 DEF IInv

(* One more digit dropped. *)
LEMMA DropDigitKeeps == IInv /\ DropDigit => IInv'
<1> SUFFICES ASSUME IInv, DropDigit PROVE IInv'
  OBVIOUS
<1> DEFINE q == mantissa \div 10
           d == mantissa % 10
<1>1. /\ mantissa \in Int /\ mantissa > 0 /\ exponent \in Int /\ divisor \in Int /\ divisor > 0
      /\ rounding_method \in Methods /\ state = "loop"
  BY SMT DEF IInv, PackTypeOK, DropDigit
<1>2. price \in [mantissa : Int, exponent : Int] /\ price.mantissa \in Int
  BY DEF IInv, PackTypeOK
<1>3. /\ q \in Int /\ q >= 0 /\ d \in 0..9 /\ mantissa = 10 * q + d
  BY <1>1, TenDigits
<1>4. /\ Dropped \in Int /\ 0 <= Dropped /\ Dropped < divisor
      /\ rounding_method = "Unnecessary" <=> Dropped = 0
  <2>1. mantissa * divisor \in Int
    BY <1>1, SMT
  <2>2. Dropped \in Int
    BY <2>1, <1>2, SMT DEF Dropped
  <2> QED BY <1>1, <2>2 DEF IInv, MethodTellsDropped
<1>5. /\ mantissa' = q /\ divisor' = 10 * divisor /\ price' = price /\ exponent' = exponent + 1
      /\ rounding_method' = update_from_remainder(rounding_method, d)
      /\ state' = IF mantissa' = 0 \/ exponent' > 0 THEN "unavailable" ELSE "loop"
  BY DEF DropDigit
<1>6. Dropped' = Dropped + d * divisor
  <2>1. price.mantissa - q * (10 * divisor) = (price.mantissa - (10 * q + d) * divisor) + d * divisor
    <3> HIDE DEF q, d
    <3> QED BY <1>1, <1>2, <1>3, DroppedGrows, SMT
  <2> QED BY <2>1, <1>3, <1>5 DEF Dropped
<1>7. /\ 0 <= Dropped' /\ Dropped' < 10 * divisor
      /\ rounding_method' \in Methods
      /\ rounding_method' = "Unnecessary" <=> Dropped' = 0
      /\ rounding_method' = "Down" <=> 0 < Dropped' /\ 2 * Dropped' < 10 * divisor
      /\ rounding_method' = "NearestEven" <=> 2 * Dropped' = 10 * divisor
      /\ rounding_method' = "Up" <=> 2 * Dropped' > 10 * divisor
  <2> DEFINE r == Dropped
             r1 == Dropped'
             method == rounding_method
             method1 == rounding_method'
  <2>1. r1 = r + d * divisor /\ method1 = update_from_remainder(method, d)
    BY <1>5, <1>6
  <2>2. /\ r \in Int /\ 0 <= r /\ r < divisor /\ method \in Methods
        /\ method = "Unnecessary" <=> r = 0
    BY <1>1, <1>4
  <2>0. divisor \in Int /\ divisor > 0 /\ d \in 0..9
    BY <1>1, <1>3
  <2> HIDE DEF r, r1, method, method1, d
  <2>3. /\ 0 <= r1 /\ r1 < 10 * divisor
        /\ method1 \in Methods
        /\ method1 = "Unnecessary" <=> r1 = 0
        /\ method1 = "Down" <=> 0 < r1 /\ 2 * r1 < 10 * divisor
        /\ method1 = "NearestEven" <=> 2 * r1 = 10 * divisor
        /\ method1 = "Up" <=> 2 * r1 > 10 * divisor
    BY <2>0, <2>1, <2>2, MethodUpdated, SMTT(30)
  <2> QED BY <2>3 DEF r1, method1
<1>8. MethodTellsDropped'
  BY <1>5, <1>7 DEF MethodTellsDropped
<1>9. PackTypeOK'
  <2> HIDE DEF q
  <2> QED BY <1>1, <1>2, <1>3, <1>5, <1>7, SMT DEF PackTypeOK
<1> QED BY <1>8, <1>9 DEF IInv

\* Every step keeps the invariant.
LEMMA NextKeeps == IInv /\ [PackNext]_packvars => IInv'
<1> SUFFICES ASSUME IInv, [PackNext]_packvars PROVE IInv'
  OBVIOUS
<1>1. CASE Return
  <2>1. /\ state = "loop" /\ state' = "packed" /\ price' = price /\ mantissa' = mantissa
        /\ exponent' = exponent /\ rounding_method' = rounding_method /\ divisor' = divisor
    BY <1>1 DEF Return
  <2>2. Dropped' = Dropped
    BY <2>1 DEF Dropped
  <2>3. MethodTellsDropped'
    BY <2>1, <2>2 DEF IInv, MethodTellsDropped
  <2>4. PackTypeOK'
    BY <2>1 DEF IInv, PackTypeOK
  <2> QED BY <2>3, <2>4 DEF IInv
<1>2. CASE DropDigit
  BY <1>2, DropDigitKeeps
<1>3. CASE UNCHANGED packvars
  <2>1. Dropped' = Dropped
    BY <1>3 DEF packvars, Dropped
  <2> QED BY <1>3, <2>1 DEF packvars, IInv, PackTypeOK, MethodTellsDropped
<1> QED BY <1>1, <1>2, <1>3 DEF PackNext

(* The rounding method always tells what the dropped digits amount to: the *)
(* loop's invariant, for every price and every width. *)
THEOREM MethodCorrect == PackSpec => [](PackTypeOK /\ MethodTellsDropped)
<1>1. PackInit => IInv
  BY InitIInv
<1>2. IInv /\ [PackNext]_packvars => IInv'
  BY NextKeeps
<1> QED BY <1>1, <1>2, PTL DEF PackSpec, IInv

(* Rounding q and the part r dropped from it, in units of u. *)
LEMMA RoundNearest ==
  ASSUME NEW q \in Int, NEW u \in Int, u > 0, NEW p \in Int, NEW method \in Methods,
         0 <= p - q * u, p - q * u < u,
         method = "Unnecessary" <=> p - q * u = 0,
         method = "Down" <=> 0 < p - q * u /\ 2 * (p - q * u) < u,
         method = "NearestEven" <=> 2 * (p - q * u) = u,
         method = "Up" <=> 2 * (p - q * u) > u
  PROVE  LET packed == round(method, q)
             error  == packed * u - p IN
         /\ -u <= 2 * error /\ 2 * error <= u
         /\ 2 * error = u \/ 2 * error = -u => packed % 2 = 0
<1> DEFINE w == q * u
           packed == round(method, q)
<1>1. w \in Int
  BY SMT
<1>2. (q + 1) * u = w + u
  BY SMT
<1>3. CASE method = "Up" \/ (method = "NearestEven" /\ q % 2 = 1)
  <2>1. packed = q + 1
    BY <1>3 DEF round
  <2>2. packed * u = w + u
    BY <2>1, <1>2
  <2>3. method = "NearestEven" => packed % 2 = 0
    <3>1. q % 2 = 1 => (q + 1) % 2 = 0
      BY SMT
    <3> QED BY <3>1, <1>3, <2>1
  <2> HIDE DEF packed
  <2>4. (p - w >= 0 /\ p - w < u /\ 2 * (p - w) >= u /\ (2 * (p - w) = u <=> method = "NearestEven"))
    BY <1>1, <1>3, SMT
  <2> HIDE DEF w
  <2> QED BY <1>1, <2>2, <2>3, <2>4, SMT DEF packed
<1>4. CASE ~(method = "Up" \/ (method = "NearestEven" /\ q % 2 = 1))
  <2>1. packed = q
    BY <1>4 DEF round
  <2>2. packed * u = w
    BY <2>1
  <2>3. method = "NearestEven" => packed % 2 = 0
    <3>1. q % 2 \in {0, 1}
      BY SMT
    <3> QED BY <3>1, <1>4, <2>1
  <2>4. p - w >= 0 /\ 2 * (p - w) <= u /\ (2 * (p - w) = u <=> method = "NearestEven")
    BY <1>1, <1>4, SMT DEF Methods
  <2> HIDE DEF packed, w
  <2> QED BY <1>1, <2>2, <2>3, <2>4, SMT DEF packed
<1> QED BY <1>3, <1>4

\* What the loop returns in a state of the invariant is the nearest price.
LEMMA IInvNearest == IInv => PackedIsNearest
<1> SUFFICES ASSUME IInv, state = "packed" PROVE PackedIsNearest
  BY DEF PackedIsNearest
<1>1. /\ mantissa \in Int /\ divisor \in Int /\ divisor > 0 /\ rounding_method \in Methods
      /\ price \in [mantissa : Int, exponent : Int]
  BY SMT DEF IInv, PackTypeOK
<1>2. price.mantissa \in Int
  BY <1>1
<1>3. /\ 0 <= Dropped /\ Dropped < divisor
      /\ rounding_method = "Unnecessary" <=> Dropped = 0
      /\ rounding_method = "Down" <=> 0 < Dropped /\ 2 * Dropped < divisor
      /\ rounding_method = "NearestEven" <=> 2 * Dropped = divisor
      /\ rounding_method = "Up" <=> 2 * Dropped > divisor
  BY DEF IInv, MethodTellsDropped
<1> QED BY <1>1, <1>2, <1>3, RoundNearest DEF Dropped, PackedIsNearest

(* A packed price is the nearest that its digits allow, for every price    *)
(* and every width: rounding once for digits dropped one by one is sound. *)
THEOREM PackedPriceNearest == PackSpec => []PackedIsNearest
BY MethodCorrect, IInvNearest, PTL DEF IInv

-----------------------------------------------------------------------------
(* The powers of ten *)

\* A set of naturals that is not empty has a least element.
LEMMA LeastNatural ==
    ASSUME NEW T \in SUBSET Nat, T # {}
    PROVE  \E x \in T : \A y \in T : x <= y
<1>1. IsWellFoundedOn(OpToRel(<, Nat), Nat)
  BY NatLessThanWellFounded, Zenon
<1>2. PICK x \in T : \A y \in T : ~ (<<y, x>> \in OpToRel(<, Nat))
  BY <1>1, WFMin, Zenon
<1>3. \A y \in T : ~ (y < x)
  BY <1>2, Zenon DEF OpToRel
<1> QED BY <1>3, SMT

\* A set of naturals with 0 and, with every number, the next one has them all.
LEMMA Inductive ==
    ASSUME NEW T, 0 \in T, \A n \in Nat : n \in T => n + 1 \in T
    PROVE  \A n \in Nat : n \in T
<1> DEFINE U == {n \in Nat : n \notin T}
<1>1. SUFFICES ASSUME U # {} PROVE FALSE
  OBVIOUS
<1>2. PICK n \in U : \A y \in U : n <= y
  BY <1>1, LeastNatural, Zenon
<1>3. n \in Nat /\ n \notin T /\ n # 0
  BY <1>2, Zenon
<1>4. n - 1 \in Nat /\ ~(n <= n - 1) /\ (n - 1) + 1 = n
  BY <1>3, SMT
<1>5. n - 1 \in T
  BY <1>2, <1>4, Zenon
<1> QED BY <1>3, <1>4, <1>5, Zenon

\* The first powers of ten, up to the n-th.
Powers(n) == {g \in [0..n -> Nat] : g[0] = 1 /\ \A k \in 1..n : g[k] = 10 * g[k - 1]}

\* There are powers up to every n.
LEMMA PowersExist == \A n \in Nat : Powers(n) # {}
<1> DEFINE T == {n \in Nat : Powers(n) # {}}
<1>1. 0 \in T
  <2>1. [k \in 0..0 |-> 1] \in Powers(0)
    BY SMT DEF Powers
  <2> QED BY <2>1, Zenon
<1>2. ASSUME NEW n \in Nat, n \in T PROVE n + 1 \in T
  <2>1. PICK g : g \in Powers(n)
    BY <1>2, Zenon
  <2>2. g \in [0..n -> Nat] /\ g[0] = 1 /\ \A k \in 1..n : g[k] = 10 * g[k - 1]
    BY <2>1, Zenon DEF Powers
  <2> DEFINE h == [k \in 0..(n + 1) |-> IF k = n + 1 THEN 10 * g[n] ELSE g[k]]
  <2>3. h \in [0..(n + 1) -> Nat]
    <3>1. n \in 0..n /\ \A k \in 0..(n + 1) : k # n + 1 => k \in 0..n
      BY SMT
    <3>2. 10 * g[n] \in Nat
      BY <2>2, <3>1, SMT
    <3> QED BY <2>2, <3>1, <3>2, Zenon
  <2>4. h[0] = 1
    BY <2>2, SMT
  <2>5. ASSUME NEW k \in 1..(n + 1) PROVE h[k] = 10 * h[k - 1]
    <3>1. CASE k = n + 1
      BY <3>1, SMT
    <3>2. CASE k # n + 1
      <4>1. k \in 1..n /\ k \in 0..(n + 1) /\ k - 1 \in 0..(n + 1) /\ k - 1 # n + 1
        BY <3>2, SMT
      <4>2. h[k] = g[k] /\ h[k - 1] = g[k - 1]
        BY <3>2, <4>1, Zenon
      <4> QED BY <2>2, <4>1, <4>2, Zenon
    <3> QED BY <3>1, <3>2
  <2>6. h \in Powers(n + 1)
    <3> HIDE DEF h
    <3> QED BY <2>3, <2>4, <2>5, Zenon DEF Powers
  <2>7. n + 1 \in Nat
    BY SMT
  <2> QED BY <2>6, <2>7, Zenon
<1> HIDE DEF T
<1>3. \A n \in Nat : n \in T
  BY <1>1, <1>2, Inductive, Zenon
<1> QED BY <1>3, Zenon DEF T

\* They are the same up to whichever power.
LEMMA PowersAgree ==
    ASSUME NEW n \in Nat, NEW m \in Nat, NEW g \in Powers(n), NEW h \in Powers(m)
    PROVE  \A k \in Nat : k <= n /\ k <= m => g[k] = h[k]
<1>0. /\ g[0] = 1 /\ \A k \in 1..n : g[k] = 10 * g[k - 1]
      /\ h[0] = 1 /\ \A k \in 1..m : h[k] = 10 * h[k - 1]
  BY Zenon DEF Powers
<1> DEFINE T == {k \in Nat : k <= n /\ k <= m => g[k] = h[k]}
<1>1. 0 \in T
  BY <1>0, Zenon
<1>2. ASSUME NEW k \in Nat, k \in T PROVE k + 1 \in T
  <2>1. SUFFICES ASSUME k + 1 <= n, k + 1 <= m PROVE g[k + 1] = h[k + 1]
    <3>1. k + 1 \in Nat
      BY SMT
    <3> QED BY <3>1, Zenon
  <2>2. k <= n /\ k <= m /\ k + 1 \in 1..n /\ k + 1 \in 1..m /\ (k + 1) - 1 = k
    BY <2>1, SMT
  <2>3. g[k] = h[k]
    BY <1>2, <2>2, Zenon
  <2>4. g[k + 1] = 10 * g[(k + 1) - 1] /\ h[k + 1] = 10 * h[(k + 1) - 1]
    BY <1>0, <2>2, Zenon
  <2> QED BY <2>2, <2>3, <2>4, Zenon
<1> HIDE DEF T
<1>3. \A k \in Nat : k \in T
  BY <1>1, <1>2, Inductive, Zenon
<1> QED BY <1>3, Zenon DEF T

\* The recursive definition is that of a function: 1 for 0, and ten times the
\* power before it.
LEMMA Pow10Recursion ==
    /\ Pow10[0] = 1
    /\ \A k \in Nat : Pow10[k] \in Nat /\ Pow10[k + 1] = 10 * Pow10[k]
<1> DEFINE g(k) == CHOOSE g \in Powers(k) : TRUE
           f == [k \in Nat |-> g(k)[k]]
<1>1. \A k \in Nat : g(k) \in Powers(k)
  BY PowersExist, Zenon
<1>2. \A k \in Nat : /\ g(k) \in [0..k -> Nat] /\ g(k)[0] = 1
                     /\ \A i \in 1..k : g(k)[i] = 10 * g(k)[i - 1]
  BY <1>1, Zenon DEF Powers
<1> HIDE DEF g
<1>3. f[0] = 1
  BY <1>2, SMT
<1>4. ASSUME NEW k \in Nat, k # 0 PROVE f[k] = 10 * f[k - 1]
  <2>1. k - 1 \in Nat /\ k \in 1..k /\ k - 1 <= k /\ k - 1 <= k - 1
    BY <1>4, SMT
  <2>2. g(k)[k] = 10 * g(k)[k - 1]
    BY <1>2, <2>1, Zenon
  <2>3. g(k)[k - 1] = g(k - 1)[k - 1]
    BY <1>1, <2>1, PowersAgree, Zenon
  <2> QED BY <2>1, <2>2, <2>3, Zenon
<1>5. f = [k \in Nat |-> IF k = 0 THEN 1 ELSE 10 * f[k - 1]]
  <2>1. \A k \in Nat : f[k] = IF k = 0 THEN 1 ELSE 10 * f[k - 1]
    BY <1>3, <1>4, Zenon
  <2>2. f = [k \in Nat |-> f[k]]
    BY Zenon
  <2> HIDE DEF f
  <2> QED BY <2>1, <2>2, Zenon
<1> HIDE DEF f
<1>6. Pow10 = [k \in Nat |-> IF k = 0 THEN 1 ELSE 10 * Pow10[k - 1]]
  BY <1>5, Zenon DEF Pow10
<1>7. Pow10[0] = 1
  BY <1>6, Zenon
<1>8. ASSUME NEW k \in Nat PROVE Pow10[k + 1] = 10 * Pow10[k]
  <2>1. k + 1 \in Nat /\ k + 1 # 0 /\ (k + 1) - 1 = k
    BY SMT
  <2>2. Pow10[k + 1] = 10 * Pow10[(k + 1) - 1]
    BY <1>6, <2>1, Zenon
  <2> QED BY <2>1, <2>2, Zenon
<1> DEFINE T == {k \in Nat : Pow10[k] \in Nat}
<1>9. 0 \in T
  BY <1>7, SMT
<1>10. ASSUME NEW k \in Nat, k \in T PROVE k + 1 \in T
  <2>1. \A x \in Nat : 10 * x \in Nat
    BY SMT
  <2>2. k + 1 \in Nat
    BY SMT
  <2> QED BY <1>8, <1>10, <2>1, <2>2, Zenon
<1> HIDE DEF T
<1>11. \A k \in Nat : k \in T
  BY <1>9, <1>10, Inductive, Zenon
<1> QED BY <1>7, <1>8, <1>11, Zenon DEF T
\* A power of ten is positive, and a higher one is not smaller.
LEMMA Pow10Grows ==
    /\ \A k \in Nat : Pow10[k] \in Nat /\ Pow10[k] > 0
    /\ \A k \in Nat, j \in Nat : k <= j => Pow10[k] <= Pow10[j]
<1> DEFINE T == {k \in Nat : Pow10[k] > 0}
           U == {d \in Nat : \A k \in Nat : Pow10[k] <= Pow10[k + d]}
<1>1. \A k \in Nat : Pow10[k] \in Nat /\ Pow10[k + 1] = 10 * Pow10[k]
  BY Pow10Recursion, Zenon
<1>2. 0 \in T
  BY Pow10Recursion, SMT
<1>3. ASSUME NEW n \in Nat, n \in T PROVE n + 1 \in T
  <2>1. Pow10[n] \in Nat /\ Pow10[n] > 0 /\ Pow10[n + 1] = 10 * Pow10[n]
    BY <1>1, <1>3, Zenon
  <2>2. n + 1 \in Nat /\ \A x \in Nat : x > 0 => 10 * x > 0
    BY SMT
  <2> QED BY <2>1, <2>2, Zenon
<1>4. 0 \in U
  <2>1. ASSUME NEW k \in Nat PROVE Pow10[k] <= Pow10[k + 0]
    <3>1. k + 0 = k /\ \A x \in Nat : x <= x
      BY SMT
    <3> QED BY <1>1, <3>1, Zenon
  <2> QED BY <2>1, Zenon
<1>5. ASSUME NEW n \in Nat, n \in U PROVE n + 1 \in U
  <2>1. ASSUME NEW k \in Nat PROVE Pow10[k] <= Pow10[k + (n + 1)]
    <3>1. k + n \in Nat /\ k + (n + 1) = (k + n) + 1
      BY SMT
    <3>2. /\ Pow10[k] \in Nat /\ Pow10[k + n] \in Nat /\ Pow10[k] <= Pow10[k + n]
          /\ Pow10[(k + n) + 1] = 10 * Pow10[k + n]
      BY <1>1, <1>5, <3>1, Zenon
    <3>3. \A x \in Nat, y \in Nat : x <= y => x <= 10 * y
      BY SMT
    <3> QED BY <3>1, <3>2, <3>3, Zenon
  <2>2. n + 1 \in Nat
    BY SMT
  <2> QED BY <2>1, <2>2, Zenon
<1> HIDE DEF T, U
<1>6. \A n \in Nat : n \in T
  BY <1>2, <1>3, Inductive, Zenon
<1>7. \A n \in Nat : n \in U
  BY <1>4, <1>5, Inductive, Zenon
<1>8. ASSUME NEW k \in Nat, NEW j \in Nat, k <= j PROVE Pow10[k] <= Pow10[j]
  <2>1. j - k \in Nat /\ k + (j - k) = j
    BY <1>8, SMT
  <2>2. Pow10[k] <= Pow10[k + (j - k)]
    BY <1>7, <2>1, Zenon DEF U
  <2> QED BY <2>1, <2>2, Zenon
<1> QED BY <1>1, <1>6, <1>8, Zenon DEF T

-----------------------------------------------------------------------------
(* The loop against what a packed price is *)

\* A quotient and what is left over are those of the division.
LEMMA DivisionUnique ==
    ASSUME NEW m \in Int, NEW u \in Int, u > 0, NEW q \in Int, 0 <= m - q * u, m - q * u < u
    PROVE  m \div u = q /\ m % u = m - q * u
<1> DEFINE d == m \div u
           r == m % u
<1>1. d \in Int /\ r \in Int /\ 0 <= r /\ r < u /\ m = u * d + r
  BY SMT
<1> HIDE DEF d, r
<1>2. (q - d) * u = q * u - u * d /\ q * u \in Int /\ u * d \in Int
  BY <1>1, SMT
<1>3. ~(q - d >= 1)
  <2>1. SUFFICES ASSUME q - d >= 1 PROVE FALSE
    OBVIOUS
  <2>2. (q - d) * u >= u
    BY <1>1, <2>1, SMT
  <2> QED BY <1>1, <1>2, <2>2, SMT
<1>4. ~(q - d <= -1)
  <2>1. SUFFICES ASSUME q - d <= -1 PROVE FALSE
    OBVIOUS
  <2>2. (q - d) * u <= -u
    BY <1>1, <2>1, SMT
  <2> QED BY <1>1, <1>2, <2>2, SMT
<1>5. q = d
  BY <1>1, <1>3, <1>4, SMT
<1>6. u * d = q * u
  BY <1>1, <1>5, SMT
<1>7. r = m - q * u
  BY <1>1, <1>2, <1>6, SMT
<1> QED BY <1>5, <1>7 DEF d, r

\* What the loop's rounding method makes of the mantissa is the whole price
\* divided and rounded once.
LEMMA RoundIsNearest ==
    ASSUME NEW q \in Int, NEW u \in Int, u > 0, NEW m \in Int, NEW method \in Methods,
           0 <= m - q * u, m - q * u < u,
           method = "NearestEven" <=> 2 * (m - q * u) = u,
           method = "Up" <=> 2 * (m - q * u) > u
    PROVE  round(method, q) = Nearest(m, u)
<1>1. m \div u = q /\ m % u = m - q * u
  BY DivisionUnique, Zenon
<1> QED BY <1>1, Zenon DEF round, Nearest

\* Without a digit left, no longer cut has one.
LEMMA NoDigitLeft ==
    ASSUME NEW m \in Int, m > 0, NEW u \in Nat, u > 0, m \div u = 0, NEW v \in Nat, u <= v
    PROVE  ~(m \div v > 0)
<1>1. m < u
  BY SMT
<1>2. 0 * v = 0 /\ 0 <= m - 0 * v /\ m - 0 * v < v /\ v > 0
  BY <1>1, SMT
<1>3. m \div v = 0
  BY <1>2, DivisionUnique, SMT
<1> QED BY <1>3, SMT
\* The digits dropped so far.
Cut == exponent - price.exponent

\* The loop's invariant for its result: the divisor is ten to the digits dropped,
\* no shorter cut packs, and a price given up has none that does.
CutInv ==
    /\ state # "unavailable" =>
          /\ Cut \in Nat /\ divisor = Pow10[Cut]
          /\ price.mantissa > 0 /\ price.exponent <= 0
          /\ \A j \in Cuts(price.mantissa, price.exponent) : Cut <= j
    /\ state = "packed" => Packable(-exponent, round(rounding_method, mantissa))
    /\ state = "unavailable" => RoundedPrice(price.mantissa, price.exponent) = Unavailable

\* The loop's variables as the division of the whole price.
LEMMA LoopDivides ==
    ASSUME IInv, CutInv, state # "unavailable"
    PROVE  /\ price.mantissa \in Int /\ price.exponent \in Int /\ Cut \in Nat
           /\ divisor = Pow10[Cut] /\ divisor \in Int /\ divisor > 0
           /\ exponent = price.exponent + Cut /\ exponent \in Int /\ exponent <= 0
           /\ mantissa \in Int /\ mantissa > 0
           /\ price.mantissa \div divisor = mantissa
           /\ round(rounding_method, mantissa) = Nearest(price.mantissa, divisor)
<1>1. /\ price \in [mantissa : Int, exponent : Int] /\ mantissa \in Int /\ mantissa > 0
      /\ exponent \in Int /\ exponent <= 0 /\ divisor \in Int /\ divisor > 0
      /\ rounding_method \in Methods
  BY SMT DEF IInv, PackTypeOK
<1>2. price.mantissa \in Int /\ price.exponent \in Int
  BY <1>1, Zenon
<1>3. Cut \in Nat /\ divisor = Pow10[Cut]
  BY Zenon DEF CutInv
<1>4. exponent = price.exponent + Cut
  BY <1>1, <1>2, SMT DEF Cut
<1>5. /\ 0 <= price.mantissa - mantissa * divisor /\ price.mantissa - mantissa * divisor < divisor
      /\ rounding_method = "NearestEven" <=> 2 * (price.mantissa - mantissa * divisor) = divisor
      /\ rounding_method = "Up" <=> 2 * (price.mantissa - mantissa * divisor) > divisor
  BY Zenon DEF IInv, MethodTellsDropped, Dropped
<1>6. price.mantissa \div divisor = mantissa
  BY <1>1, <1>2, <1>5, DivisionUnique, Zenon
<1>7. round(rounding_method, mantissa) = Nearest(price.mantissa, divisor)
  BY <1>1, <1>2, <1>5, RoundIsNearest, Zenon
<1> QED BY <1>1, <1>2, <1>3, <1>4, <1>6, <1>7, Zenon

\* The cut the loop looks at is one that packs exactly when it returns there.
LEMMA LoopCut ==
    ASSUME IInv, CutInv, state # "unavailable"
    PROVE  Cut \in Cuts(price.mantissa, price.exponent)
             <=> Packable(-exponent, round(rounding_method, mantissa))
<1>1. /\ price.mantissa \in Int /\ price.exponent \in Int /\ Cut \in Nat
      /\ divisor = Pow10[Cut] /\ exponent = price.exponent + Cut
      /\ exponent \in Int /\ exponent <= 0 /\ mantissa > 0
      /\ price.mantissa \div divisor = mantissa
      /\ round(rounding_method, mantissa) = Nearest(price.mantissa, divisor)
  BY LoopDivides, Zenon
<1>2. ASSUME NEW e \in Int, NEW k \in Nat, e + k <= 0 PROVE k \in 0..(-e)
  BY <1>2, SMT
<1>3. Cut \in 0..(-price.exponent)
  BY <1>1, <1>2, Zenon
<1> QED BY <1>1, <1>3, Zenon DEF Cuts

\* A returned price is the one specified.
LEMMA ReturnAsSpecified ==
    ASSUME IInv, CutInv, state = "packed"
    PROVE  RoundedPrice(price.mantissa, price.exponent)
             = [neg |-> -exponent, mantissa |-> round(rounding_method, mantissa)]
<1> DEFINE m == price.mantissa
           e == price.exponent
           first == CHOOSE k \in Cuts(m, e) : \A j \in Cuts(m, e) : k <= j
<1>0. state # "unavailable"
  OBVIOUS
<1>1. Packable(-exponent, round(rounding_method, mantissa)) /\ \A j \in Cuts(m, e) : Cut <= j
  BY <1>0, Zenon DEF CutInv
<1>2. Cut \in Cuts(m, e)
  BY <1>0, <1>1, LoopCut, Zenon
<1>3. m \in Int /\ e \in Int /\ m > 0 /\ e <= 0
  BY <1>0, LoopDivides, Zenon DEF CutInv
<1>4. first \in Cuts(m, e) /\ first <= Cut
  BY <1>1, <1>2, Zenon
<1>5. first \in Int /\ Cut \in Int
  <2>1. \A k \in Cuts(m, e) : k \in 0..(-e)
    BY Zenon DEF Cuts
  <2>2. \A k \in 0..(-e) : k \in Int
    BY SMT
  <2> QED BY <1>2, <1>4, <2>1, <2>2, Zenon
<1>6. first = Cut
  <2>1. Cut <= first
    BY <1>1, <1>4, Zenon
  <2> HIDE DEF first
  <2> QED BY <1>4, <1>5, <2>1, SMT
<1>7. ~(m <= 0 \/ e > 0) /\ Cuts(m, e) # {}
  BY <1>2, <1>3, SMT
<1>8. RoundedPrice(m, e) = [neg |-> -(e + first), mantissa |-> Nearest(m, Pow10[first])]
  BY <1>7, Zenon DEF RoundedPrice
<1>9. /\ exponent = e + Cut /\ divisor = Pow10[Cut]
      /\ round(rounding_method, mantissa) = Nearest(m, divisor)
  BY <1>0, LoopDivides, Zenon
<1> HIDE DEF first
<1> QED BY <1>6, <1>8, <1>9, Zenon
\* A price is given up when no cut packs it.
LEMMA GiveUpAsSpecified ==
    ASSUME NEW m \in Int, NEW e \in Int, NEW k \in Nat, m > 0,
           \A j \in Cuts(m, e) : k <= j, k \notin Cuts(m, e),
           m \div Pow10[k + 1] = 0 \/ e + k + 1 > 0
    PROVE  RoundedPrice(m, e) = Unavailable
<1>1. SUFFICES ASSUME NEW j \in Cuts(m, e) PROVE FALSE
  BY Zenon DEF RoundedPrice
<1>2. j \in 0..(-e) /\ m \div Pow10[j] > 0 /\ k <= j /\ j # k
  BY <1>1, Zenon DEF Cuts
<1>3. j \in Nat /\ k + 1 \in Nat /\ k + 1 <= j /\ ~(e + k + 1 > 0)
  BY <1>2, SMT
<1>4. /\ Pow10[k + 1] \in Nat /\ Pow10[k + 1] > 0 /\ Pow10[j] \in Nat
      /\ Pow10[k + 1] <= Pow10[j]
  BY <1>3, Pow10Grows, Zenon
<1>5. m \div Pow10[k + 1] = 0
  BY <1>3, Zenon
<1> QED BY <1>2, <1>4, <1>5, NoDigitLeft, Zenon

\* Before the first digit the mantissa is the whole price.
LEMMA InitCut == PackInit => CutInv
<1> SUFFICES ASSUME PackInit PROVE CutInv
  OBVIOUS
<1>1. price.mantissa \in Int /\ price.exponent \in Int
  BY InputsAssumption, Zenon DEF PackInit, InputsAssumption
<1>2. /\ exponent = price.exponent /\ divisor = 1 /\ state # "packed"
      /\ state = "unavailable" <=> price.mantissa <= 0 \/ price.exponent > 0
  BY Zenon DEF PackInit
<1>3. Cut = 0
  BY <1>1, <1>2, SMT DEF Cut
<1>4. ASSUME state = "unavailable" PROVE RoundedPrice(price.mantissa, price.exponent) = Unavailable
  BY <1>2, <1>4, Zenon DEF RoundedPrice
<1>5. ASSUME state # "unavailable" PROVE price.mantissa > 0 /\ price.exponent <= 0
  BY <1>1, <1>2, <1>5, SMT
<1>6. \A j \in Cuts(price.mantissa, price.exponent) : 0 <= j
  <2>1. \A j \in 0..(-price.exponent) : 0 <= j
    BY <1>1, SMT
  <2> QED BY <2>1, Zenon DEF Cuts
<1>7. divisor = Pow10[Cut] /\ Cut \in Nat
  BY <1>2, <1>3, Pow10Recursion, SMT
<1> QED BY <1>2, <1>3, <1>4, <1>5, <1>6, <1>7, Zenon DEF CutInv

\* One more digit dropped: the next cut, or none left to try.
LEMMA DropDigitCut == IInv /\ CutInv /\ DropDigit => CutInv'
<1> SUFFICES ASSUME IInv, CutInv, DropDigit PROVE CutInv'
  OBVIOUS
<1> DEFINE m == price.mantissa
           e == price.exponent
           k == Cut
<1>1. /\ state = "loop" /\ state # "unavailable" /\ price' = price /\ exponent' = exponent + 1
      /\ mantissa' = mantissa \div 10 /\ divisor' = 10 * divisor
      /\ ~Packable(-exponent, round(rounding_method, mantissa))
      /\ state' = IF mantissa' = 0 \/ exponent' > 0 THEN "unavailable" ELSE "loop"
  BY Zenon DEF DropDigit
<1>2. /\ m \in Int /\ e \in Int /\ k \in Nat /\ divisor = Pow10[k] /\ exponent = e + k
      /\ exponent \in Int
  BY <1>1, LoopDivides, Zenon
<1>3. m > 0 /\ e <= 0 /\ \A j \in Cuts(m, e) : k <= j
  BY <1>1, Zenon DEF CutInv
<1>4. k \notin Cuts(m, e)
  BY <1>1, LoopCut, Zenon
<1>5. Cut' = k + 1 /\ k + 1 \in Nat
  BY <1>1, <1>2, SMT DEF Cut
<1>6. divisor' = Pow10[k + 1]
  BY <1>1, <1>2, Pow10Recursion, Zenon
<1>7. \A j \in Cuts(m, e) : k + 1 <= j
  <2>1. \A j \in Cuts(m, e) : j \in 0..(-e)
    BY Zenon DEF Cuts
  <2>2. \A j \in 0..(-e) : k <= j /\ j # k => k + 1 <= j
    BY <1>2, SMT
  <2> QED BY <1>3, <1>4, <2>1, <2>2, Zenon
<1>8. CASE state' = "unavailable"
  <2>1. mantissa' = 0 \/ e + k + 1 > 0
    BY <1>1, <1>2, <1>8, SMT
  <2>2. mantissa' = 0 => m \div Pow10[k + 1] = 0
    <3>2. SUFFICES ASSUME mantissa' = 0 PROVE m \div Pow10[k + 1] = 0
      OBVIOUS
    <3>3. mantissa \in Int /\ mantissa > 0 /\ divisor \in Int /\ divisor > 0 /\ m \div divisor = mantissa
      BY <1>1, LoopDivides, Zenon
    <3>4. mantissa < 10
      BY <1>1, <3>2, <3>3, SMT
    <3>5. m < (mantissa + 1) * divisor
      BY <1>2, <3>3, SMT
    <3>6. (mantissa + 1) * divisor <= 10 * divisor
      BY <3>3, <3>4, SMT
    <3>7. /\ (mantissa + 1) * divisor \in Int /\ 10 * divisor \in Int /\ 10 * divisor > 0
      BY <3>3, SMT
    <3>8. 0 * (10 * divisor) = 0 /\ 0 <= m - 0 * (10 * divisor) /\ m - 0 * (10 * divisor) < 10 * divisor
      BY <1>2, <1>3, <3>5, <3>6, <3>7, SMT
    <3>9. m \div (10 * divisor) = 0
      BY <1>2, <3>7, <3>8, DivisionUnique, SMT
    <3> QED BY <1>1, <1>6, <3>9, Zenon
  <2>3. RoundedPrice(m, e) = Unavailable
    <3> HIDE DEF m, e, k
    <3> QED BY <1>2, <1>3, <1>4, <2>1, <2>2, GiveUpAsSpecified, Zenon
  <2> QED BY <1>1, <1>8, <2>3, Zenon DEF CutInv
<1>9. CASE state' = "loop"
  BY <1>1, <1>3, <1>5, <1>6, <1>7, <1>9, Zenon DEF CutInv
<1> QED BY <1>1, <1>8, <1>9, Zenon

\* Every step keeps the mantissa a cut of the price.
LEMMA NextCut == IInv /\ CutInv /\ [PackNext]_packvars => CutInv'
<1> SUFFICES ASSUME IInv, CutInv, [PackNext]_packvars PROVE CutInv'
  OBVIOUS
<1>1. CASE Return
  <2>1. /\ state = "loop" /\ state' = "packed" /\ price' = price /\ mantissa' = mantissa
        /\ exponent' = exponent /\ rounding_method' = rounding_method /\ divisor' = divisor
        /\ Packable(-exponent, round(rounding_method, mantissa))
    BY <1>1, Zenon DEF Return
  <2>2. Cut' = Cut
    BY <2>1, Zenon DEF Cut
  <2> QED BY <2>1, <2>2, Zenon DEF CutInv
<1>2. CASE DropDigit
  BY <1>2, DropDigitCut, Zenon
<1>3. CASE UNCHANGED packvars
  <2>1. Cut' = Cut
    BY <1>3, Zenon DEF Cut, packvars
  <2> QED BY <1>3, <2>1, Zenon DEF packvars, CutInv
<1> QED BY <1>1, <1>2, <1>3, Zenon DEF PackNext

(* The loop of pack_price_inner gives exactly the price with the fewest    *)
(* digits cut off that fits, rounded once from the full price, and no      *)
(* price exactly when no cut fits: for every price and every width.        *)
THEOREM PackedPriceAsSpecified == PackSpec => []PackedAsSpecified
<1>1. IInv /\ CutInv => PackedAsSpecified
  <2>1. IInv /\ CutInv /\ state = "packed" =>
          RoundedPrice(price.mantissa, price.exponent)
            = [neg |-> -exponent, mantissa |-> round(rounding_method, mantissa)]
    BY ReturnAsSpecified, Zenon
  <2>2. CutInv /\ state = "unavailable" => RoundedPrice(price.mantissa, price.exponent) = Unavailable
    BY Zenon DEF CutInv
  <2> QED BY <2>1, <2>2, Zenon DEF PackedAsSpecified
<1>2. PackInit => IInv /\ CutInv
  BY InitIInv, InitCut, Zenon
<1>3. IInv /\ CutInv /\ [PackNext]_packvars => IInv' /\ CutInv'
  BY NextKeeps, NextCut, Zenon
<1> QED BY <1>1, <1>2, <1>3, PTL DEF PackSpec

-----------------------------------------------------------------------------
(* Ed25519Layout: slices of the instruction's data and of the message *)

\* What the lemmas below use of sequences and of division.
LEMMA ListLength ==
    ASSUME NEW S, NEW s \in Seq(S)
    PROVE  Len(s) \in Nat /\ DOMAIN s = 1..Len(s) /\ s \in [1..Len(s) -> S]
BY SMT

\* An element of a list over S is one of S.
LEMMA ListElement ==
    ASSUME NEW S, NEW s \in Seq(S), NEW n \in 1..Len(s)
    PROVE  s[n] \in S
BY SMT

\* Two lists of the same length and the same elements are the same.
LEMMA ListEqual ==
    ASSUME NEW S, NEW s \in Seq(S), NEW t \in Seq(S), Len(s) = Len(t),
           \A i \in 1..Len(s) : s[i] = t[i]
    PROVE  s = t
BY SMT

\* One list after the other.
LEMMA ListConcat ==
    ASSUME NEW S, NEW s \in Seq(S), NEW t \in Seq(S)
    PROVE  /\ s \o t \in Seq(S)
           /\ Len(s \o t) = Len(s) + Len(t)
           /\ \A i \in 1..(Len(s) + Len(t)) :
                 (s \o t)[i] = IF i <= Len(s) THEN s[i] ELSE t[i - Len(s)]
BY SMT

\* A part of a list.
LEMMA ListSlice ==
    ASSUME NEW S, NEW s \in Seq(S), NEW m \in Int, NEW n \in Int,
           1 <= m, m <= n + 1, n <= Len(s)
    PROVE  /\ SubSeq(s, m, n) \in Seq(S) /\ Len(SubSeq(s, m, n)) = n - m + 1
           /\ \A i \in 1..(n - m + 1) : SubSeq(s, m, n)[i] = s[m + i - 1]
BY SMT

\* All of a list.
LEMMA ListWhole ==
    ASSUME NEW S, NEW s \in Seq(S)
    PROVE  SubSeq(s, 1, Len(s)) = s
BY SMT

\* A list over some values is one over more values.
LEMMA ListWider ==
    ASSUME NEW S, NEW T, NEW s \in Seq(S), S \subseteq T
    PROVE  s \in Seq(T)
BY SMT

\* A quotient and a remainder below the divisor are those of the division.
LEMMA DivisionIs ==
    ASSUME NEW n \in Int, NEW q \in Int, NEW r \in Int, NEW d \in Int,
           0 <= r, r < d, n = q * d + r
    PROVE  n \div d = q /\ n % d = r
BY SMT

Alphabet == 0..(ByteValues - 1)

\* data[a..b] has b - a bytes, those from a on.
LEMMA SliceFacts ==
    ASSUME NEW d \in Bytes, NEW a \in Nat, NEW b \in Nat, a <= b, b <= Len(d)
    PROVE  /\ Slice(d, a, b) \in Bytes /\ Len(Slice(d, a, b)) = b - a
           /\ \A i \in 1..(b - a) : Slice(d, a, b)[i] = d[a + i]
<1>1. d \in Seq(Alphabet)
  BY Zenon DEF Bytes, Alphabet
<1> DEFINE low == a + 1
           x == SubSeq(d, low, b)
<1>3. low \in Int /\ b \in Int /\ 1 <= low /\ low <= b + 1
  BY SMT
<1> HIDE DEF low
<1>4. /\ x \in Seq(Alphabet) /\ Len(x) = b - low + 1
      /\ \A i \in 1..(b - low + 1) : x[i] = d[low + i - 1]
  BY <1>1, <1>3, ListSlice
<1> HIDE DEF x
<1>5. Len(x) = b - a /\ \A i \in 1..(b - a) : x[i] = d[a + i]
  <2>1. Len(x) = b - a
    BY <1>4, SMT DEF low
  <2>2. b - low + 1 = b - a /\ \A i \in 1..(b - a) : low + i - 1 = a + i
    BY SMT DEF low
  <2> QED
    BY <2>1, <2>2, <1>4, Zenon
<1>6. x = Slice(d, a, b)
  BY Zenon DEF x, low, Slice
<1> QED
  BY <1>4, <1>5, <1>6, Zenon DEF Bytes, Alphabet

\* Two strings of bytes are the same when they have the same bytes.
LEMMA SameBytes ==
    ASSUME NEW x \in Bytes, NEW y \in Bytes, Len(x) = Len(y),
           \A i \in 1..Len(x) : x[i] = y[i]
    PROVE  x = y
BY ListEqual, Zenon DEF Bytes

\* data[a..b] followed by data[b..c] is data[a..c].
LEMMA SliceJoin ==
    ASSUME NEW d \in Bytes, NEW a \in Nat, NEW b \in Nat, NEW c \in Nat,
           a <= b, b <= c, c <= Len(d)
    PROVE  Slice(d, a, b) \o Slice(d, b, c) = Slice(d, a, c)
<1> DEFINE x == Slice(d, a, b)
           y == Slice(d, b, c)
           z == Slice(d, a, c)
<1>1. /\ x \in Bytes /\ Len(x) = b - a /\ \A i \in 1..(b - a) : x[i] = d[a + i]
      /\ y \in Bytes /\ Len(y) = c - b /\ \A i \in 1..(c - b) : y[i] = d[b + i]
      /\ z \in Bytes /\ Len(z) = c - a /\ \A i \in 1..(c - a) : z[i] = d[a + i]
  <2>1. a <= c /\ b <= Len(d)
    BY ListLength, SMT DEF Bytes
  <2> QED
    BY <2>1, SliceFacts
<1> HIDE DEF x, y, z
<1>2. /\ x \o y \in Bytes /\ Len(x \o y) = Len(x) + Len(y)
      /\ \A i \in 1..(Len(x) + Len(y)) :
            (x \o y)[i] = IF i <= Len(x) THEN x[i] ELSE y[i - Len(x)]
  BY <1>1, ListConcat DEF Bytes
<1>3. Len(x \o y) = Len(z)
  BY <1>1, <1>2, SMT
<1>4. ASSUME NEW i \in 1..Len(x \o y) PROVE (x \o y)[i] = z[i]
  <2>1. i \in 1..(Len(x) + Len(y)) /\ i \in 1..(c - a)
    BY <1>1, <1>2, SMT
  <2>2. CASE i <= Len(x)
    <3>1. i \in 1..(b - a)
      BY <1>1, <2>1, <2>2, SMT
    <3> QED
      BY <1>1, <1>2, <2>1, <2>2, <3>1
  <2>3. CASE ~(i <= Len(x))
    <3>1. i - Len(x) \in 1..(c - b) /\ b + (i - Len(x)) = a + i
      BY <1>1, <2>1, <2>3, SMT
    <3> QED
      BY <1>1, <1>2, <2>1, <2>3, <3>1
  <2> QED
    BY <2>2, <2>3
<1>5. x \o y = z
  BY <1>1, <1>2, <1>3, <1>4, SameBytes
<1> QED
  BY <1>5 DEF x, y, z

\* A slice of a slice is a slice.
LEMMA SliceOfSlice ==
    ASSUME NEW d \in Bytes, NEW a \in Nat, NEW b \in Nat, a <= b, b <= Len(d),
           NEW i \in Nat, NEW j \in Nat, i <= j, j <= b - a
    PROVE  Slice(Slice(d, a, b), i, j) = Slice(d, a + i, a + j)
<1> DEFINE e == Slice(d, a, b)
           x == Slice(e, i, j)
           y == Slice(d, a + i, a + j)
<1>1. e \in Bytes /\ Len(e) = b - a /\ \A k \in 1..(b - a) : e[k] = d[a + k]
  BY SliceFacts, Zenon
<1> HIDE DEF e
<1>2. x \in Bytes /\ Len(x) = j - i /\ \A k \in 1..(j - i) : x[k] = e[i + k]
  BY <1>1, SliceFacts, Zenon
<1>3. a + i \in Nat /\ a + j \in Nat /\ a + i <= a + j /\ a + j <= Len(d) /\ (a + j) - (a + i) = j - i
  <2>1. Len(d) \in Nat
    BY ListLength, Zenon DEF Bytes
  <2> QED
    BY <2>1, SMT
<1>4. y \in Bytes /\ Len(y) = (a + j) - (a + i) /\ \A k \in 1..((a + j) - (a + i)) : y[k] = d[a + i + k]
  BY <1>3, SliceFacts, Zenon
<1>5. \A k \in 1..(j - i) : i + k \in 1..(b - a) /\ a + (i + k) = a + i + k
  BY SMT
<1> HIDE DEF x, y
<1>6. Len(x) = Len(y) /\ \A k \in 1..Len(x) : x[k] = y[k]
  <2>1. \A k \in 1..(j - i) : x[k] = e[i + k] /\ e[i + k] = d[a + (i + k)] /\ y[k] = d[a + i + k]
    BY <1>1, <1>2, <1>3, <1>4, <1>5, Zenon
  <2>2. \A k \in 1..(j - i) : x[k] = y[k]
    BY <2>1, <1>5, Zenon
  <2> QED
    BY <2>2, <1>2, <1>3, <1>4, Zenon
<1>7. x = y
  BY <1>2, <1>4, <1>6, SameBytes, Zenon
<1> QED
  BY <1>7, Zenon DEF x, y, e

\* A number of two bytes is read back as it was written.
LEMMA ReadWritten ==
    ASSUME ByteValues \in Nat \ {0}, NEW n \in 0..(ByteValues * ByteValues - 1)
    PROVE  WriteU16(n) \in Bytes /\ Len(WriteU16(n)) = 2 /\ ReadU16(WriteU16(n)) = n
<1> DEFINE B == ByteValues
           r == n % B
           q == n \div B
<1>1. n \in Nat /\ B \in Nat /\ B > 0 /\ n < B * B
  BY SMT
<1>2. r \in Nat /\ r < B /\ q \in Int /\ n = B * q + r
  BY <1>1, SMT
<1> HIDE DEF r, q
<1>3. 0 <= q
  <2>1. SUFFICES ASSUME q <= -1 PROVE FALSE
    BY <1>2, SMT
  <2>2. B * q <= B * (-1)
    BY <2>1, <1>1, <1>2, SMT
  <2> QED
    BY <2>2, <1>1, <1>2, SMT
<1>4. q < B
  <2>1. SUFFICES ASSUME q >= B PROVE FALSE
    BY <1>1, <1>2, SMT
  <2>2. B * q >= B * B
    BY <2>1, <1>1, <1>2, SMT
  <2> QED
    BY <2>2, <1>1, <1>2, SMT
<1>5. r \in 0..(B - 1) /\ q \in 0..(B - 1)
  BY <1>1, <1>2, <1>3, <1>4, SMT
<1> HIDE DEF B
<1>6. /\ <<r, q>> \in Seq(0..(B - 1)) /\ Len(<<r, q>>) = 2 /\ <<r, q>>[1] = r /\ <<r, q>>[2] = q
  BY <1>5, SMT
<1>7. r + B * q = n
  BY <1>1, <1>2, SMT
<1>8. WriteU16(n) = <<r, q>> /\ Bytes = Seq(0..(B - 1))
  BY Zenon DEF WriteU16, Bytes, r, q, B
<1>9. ReadU16(<<r, q>>) = r + B * q
  BY <1>6, Zenon DEF ReadU16, B
<1> QED
  BY <1>6, <1>7, <1>8, <1>9, Zenon

\* A number that was read from two bytes is written as those bytes.
LEMMA WrittenRead ==
    ASSUME ByteValues \in Nat \ {0}, NEW z \in Bytes, Len(z) = 2
    PROVE  ReadU16(z) \in Nat /\ WriteU16(ReadU16(z)) = z
<1> DEFINE B == ByteValues
           x == z[1]
           y == z[2]
           n == x + B * y
<1>1. B \in Nat /\ B > 0 /\ x \in 0..(B - 1) /\ y \in 0..(B - 1) /\ z = <<x, y>>
  <2>1. 1 \in 1..Len(z) /\ 2 \in 1..Len(z)
    BY SMT
  <2>2. z \in Seq(0..(B - 1))
    BY Zenon DEF Bytes
  <2>3. x \in 0..(B - 1) /\ y \in 0..(B - 1)
    <3> DEFINE S == 0..(B - 1)
    <3>1. z \in Seq(S)
      BY <2>2
    <3> HIDE DEF S
    <3>2. \A i \in 1..Len(z) : z[i] \in S
      BY <3>1, ListElement
    <3>3. z[1] \in S /\ z[2] \in S
      BY <2>1, <3>2
    <3> QED
      BY <3>3 DEF S
  <2> HIDE DEF B
  <2>4. <<x, y>> \in Seq(0..(B - 1)) /\ Len(<<x, y>>) = 2
    BY <2>3, SMT
  <2>5. \A i \in 1..2 : z[i] = <<x, y>>[i]
    BY SMT
  <2>6. z = <<x, y>>
    BY <2>2, <2>4, <2>5, ListEqual, Zenon
  <2>7. B \in Nat /\ B > 0
    BY SMT DEF B
  <2> QED
    BY <2>3, <2>6, <2>7, Zenon
<1> HIDE DEF x, y, B
<1>2. n \in Int /\ n \in Nat /\ y * B = B * y /\ n - y * B = x
  BY <1>1, SMT
<1>3. 0 <= n - y * B /\ n - y * B < B /\ y \in Int /\ B \in Int
  BY <1>1, <1>2, SMT
<1> HIDE DEF n
<1>4. n \div B = y /\ n % B = x
  BY <1>1, <1>2, <1>3, DivisionIs, SMT
<1>5. ReadU16(z) = n
  BY Zenon DEF ReadU16, n, x, y, B
<1>6. WriteU16(n) = <<x, y>>
  BY <1>4, <1>2, Zenon DEF WriteU16, B
<1> QED
  BY <1>1, <1>2, <1>5, <1>6, Zenon

\* The bytes at the offsets of a signature.
SignatureAt(d, o) == Slice(d, o.signature_offset, o.signature_offset + SIGNATURE_LEN)
KeyAt(d, o) == Slice(d, o.public_key_offset, o.public_key_offset + PUBKEY_LEN)
PayloadAt(d, o) == Slice(d, o.message_data_offset, o.message_data_offset + o.message_data_size)

\* When the checks of verify_message on the offsets succeed, the message is the
\* magic, the signature, the key, the size and the payload one after another,
\* and these are the bytes that the offsets give the ed25519 program.
LEMMA MessageIsFields ==
    ASSUME NEW d \in Bytes, NEW c \in Calls,
           NEW o \in Ed25519SignatureOffsets, MessageInPlace(d, c, o), FieldsInPlace(c, o)
    PROVE  /\ c.message_data
                = Message(SOLANA_FORMAT_MAGIC, SignatureAt(d, o), KeyAt(d, o), PayloadAt(d, o))
           /\ KeyAt(d, o) = Slice(c.message_data, KeyStart, KeyStart + PUBKEY_LEN)
           /\ PayloadAt(d, o) = Slice(c.message_data, PayloadStart, PayloadStart + o.message_data_size)
<1> DEFINE so == o.signature_offset
           e == o.message_data_size
           m == c.message_data
           q == so - MAGIC_LEN
           pk == so + SIGNATURE_LEN
           ms == pk + PUBKEY_LEN
           md == ms + 2
           end == md + e
           z == Slice(m, ms - q, md - q)
           sig == SignatureAt(d, o)
           key == KeyAt(d, o)
           pay == PayloadAt(d, o)
<1>1. /\ MAGIC_LEN \in Nat /\ SIGNATURE_LEN \in Nat /\ PUBKEY_LEN \in Nat /\ ByteValues \in Nat \ {0}
      /\ so \in Nat /\ e \in Nat
  BY LayoutAssumption, SMT DEF LayoutAssumption, Ed25519SignatureOffsets
<1>2. m \in Bytes
  BY LayoutAssumption, SMT DEF LayoutAssumption
<1>3. o.public_key_offset = pk /\ o.message_data_offset = md
  BY Zenon DEF FieldsInPlace, MESSAGE_SIZE_LEN
<1>4. e = ReadU16(z)
  BY Zenon DEF FieldsInPlace, MESSAGE_SIZE_LEN
<1>5. /\ so >= MAGIC_LEN /\ q <= end /\ end <= Len(d) /\ Slice(d, q, end) = m
      /\ Slice(m, 0, MAGIC_LEN) = SOLANA_FORMAT_MAGIC
  BY <1>3, Zenon DEF MessageInPlace, InRange
<1>6. Slice(d, so, pk) = sig /\ Slice(d, pk, ms) = key /\ Slice(d, md, end) = pay
  BY <1>3, Zenon DEF SignatureAt, KeyAt, PayloadAt
<1>7. q = so - MAGIC_LEN /\ pk = so + SIGNATURE_LEN /\ ms = pk + PUBKEY_LEN /\ md = ms + 2 /\ end = md + e
  OBVIOUS
<1> HIDE DEF so, e, m, q, pk, ms, md, end, sig, key, pay
<1>8. /\ q \in Nat /\ pk \in Nat /\ ms \in Nat /\ md \in Nat /\ end \in Nat
      /\ q <= so /\ so <= pk /\ pk <= ms /\ ms <= md /\ md <= end
      /\ q <= pk /\ q <= ms /\ q <= md /\ so <= end /\ pk <= end /\ ms <= end
  BY <1>1, <1>5, <1>7, SMT DEF KeyStart, PayloadStart, MESSAGE_SIZE_LEN
<1>9. /\ q + 0 = q /\ q + MAGIC_LEN = so /\ q + (ms - q) = ms /\ q + (md - q) = md
      /\ q + KeyStart = pk /\ q + (KeyStart + PUBKEY_LEN) = ms
      /\ q + PayloadStart = md /\ q + (PayloadStart + e) = end
      /\ md - ms = 2 /\ end - md = e
  BY <1>1, <1>5, <1>7, SMT DEF KeyStart, PayloadStart, MESSAGE_SIZE_LEN
<1>10. /\ 0 \in Nat /\ ms - q \in Nat /\ md - q \in Nat /\ KeyStart \in Nat
      /\ KeyStart + PUBKEY_LEN \in Nat /\ PayloadStart \in Nat /\ PayloadStart + e \in Nat
      /\ 0 <= MAGIC_LEN /\ MAGIC_LEN <= end - q /\ ms - q <= md - q /\ md - q <= end - q
      /\ KeyStart <= KeyStart + PUBKEY_LEN /\ KeyStart + PUBKEY_LEN <= end - q
      /\ PayloadStart <= PayloadStart + e /\ PayloadStart + e <= end - q
  BY <1>1, <1>5, <1>7, SMT DEF KeyStart, PayloadStart, MESSAGE_SIZE_LEN
<1>11. Len(d) \in Nat /\ so \in Nat /\ so <= Len(d) /\ pk <= Len(d) /\ ms <= Len(d) /\ md <= Len(d)
  <2>1. Len(d) \in Nat
    BY ListLength, Zenon DEF Bytes
  <2> QED
    BY <2>1, <1>1, <1>5, <1>8, SMT
<1>12. \A i, j \in Nat : i <= j /\ j <= end - q => Slice(m, i, j) = Slice(d, q + i, q + j)
  <2>1. \A i, j \in Nat : i <= j /\ j <= end - q => Slice(Slice(d, q, end), i, j) = Slice(d, q + i, q + j)
    <3>1. q \in Nat /\ end \in Nat /\ q <= end /\ end <= Len(d)
      BY <1>5, <1>8, Zenon
    <3>2. SUFFICES ASSUME NEW i \in Nat, NEW j \in Nat, i <= j, j <= end - q
                   PROVE  Slice(Slice(d, q, end), i, j) = Slice(d, q + i, q + j)
      BY Zenon
    <3> QED
      BY <3>1, <3>2, SliceOfSlice, SMT
  <2>2. Slice(d, q, end) = m
    BY <1>5, Zenon
  <2> QED
    BY <2>1, <2>2, Zenon
<1>13. SOLANA_FORMAT_MAGIC = Slice(d, q, so)
  <2>1. Slice(m, 0, MAGIC_LEN) = Slice(d, q + 0, q + MAGIC_LEN)
    BY <1>1, <1>10, <1>12, Zenon
  <2> QED
    BY <2>1, <1>5, <1>9, Zenon
<1>14. z = Slice(d, ms, md)
  <2>1. Slice(m, ms - q, md - q) = Slice(d, q + (ms - q), q + (md - q))
    BY <1>10, <1>12, Zenon
  <2> QED
    BY <2>1, <1>9, Zenon
<1>15. Slice(m, KeyStart, KeyStart + PUBKEY_LEN) = Slice(d, pk, ms)
  <2>1. Slice(m, KeyStart, KeyStart + PUBKEY_LEN) = Slice(d, q + KeyStart, q + (KeyStart + PUBKEY_LEN))
    BY <1>10, <1>12, Zenon
  <2> QED
    BY <2>1, <1>9, Zenon
<1>16. Slice(m, PayloadStart, PayloadStart + e) = Slice(d, md, end)
  <2>1. Slice(m, PayloadStart, PayloadStart + e) = Slice(d, q + PayloadStart, q + (PayloadStart + e))
    BY <1>10, <1>12, Zenon
  <2> QED
    BY <2>1, <1>9, Zenon
<1> HIDE DEF z
<1>17. z \in Bytes /\ Len(z) = 2
  BY <1>8, <1>9, <1>11, <1>14, SliceFacts, Zenon
<1>18. WriteU16(e) = z
  BY <1>1, <1>4, <1>17, WrittenRead, Zenon
<1>19. Len(pay) = e
  <2>1. md \in Nat /\ end \in Nat /\ md <= end /\ end <= Len(d)
    BY <1>5, <1>8, Zenon
  <2>2. Len(Slice(d, md, end)) = end - md
    BY <2>1, SliceFacts, Zenon
  <2> QED
    BY <2>2, <1>6, <1>9, Zenon
<1>20. m = SOLANA_FORMAT_MAGIC \o sig \o key \o WriteU16(Len(pay)) \o pay
  <2>1. Slice(d, q, so) \o Slice(d, so, pk) = Slice(d, q, pk)
    BY <1>8, <1>11, SliceJoin, Zenon
  <2>2. Slice(d, q, pk) \o Slice(d, pk, ms) = Slice(d, q, ms)
    BY <1>8, <1>11, SliceJoin, Zenon
  <2>3. Slice(d, q, ms) \o Slice(d, ms, md) = Slice(d, q, md)
    BY <1>8, <1>11, SliceJoin, Zenon
  <2>4. Slice(d, q, md) \o Slice(d, md, end) = Slice(d, q, end)
    BY <1>5, <1>8, SliceJoin, Zenon
  <2> QED
    BY <2>1, <2>2, <2>3, <2>4, <1>5, <1>6, <1>13, <1>14, <1>18, <1>19, Zenon
<1> QED
  BY <1>6, <1>15, <1>16, <1>20, Zenon DEF Message, m, e, sig, key, pay

\* What the ed25519 program has accepted holds of the signature that was chosen.
LEMMA ChosenWasChecked ==
    ASSUME NEW t \in Transactions, NEW c \in Calls, RuntimeAccepts(t),
           c.self + 1 \in DOMAIN t, t[c.self + 1].program # "ed25519", SignatureChosen(t, c),
           NEW o, o = t[c.ed25519_instruction_index + 1].args[c.signature_index + 1],
           SameInstruction(c, o), NEW d, d = t[c.self + 1].data
    PROVE  /\ o \in Ed25519SignatureOffsets /\ d \in Bytes
           /\ <<SignatureAt(d, o), KeyAt(d, o), PayloadAt(d, o)>> \in Signed
<1> DEFINE n == c.ed25519_instruction_index + 1
           k == c.signature_index + 1
           ed == t[n]
<1>1. /\ c.ed25519_instruction_index \in Nat /\ c.signature_index \in Nat /\ c.self \in Nat
  BY LayoutAssumption, SMT DEF LayoutAssumption
<1>2. /\ t \in Seq(Instructions)
  BY LayoutAssumption, Zenon DEF LayoutAssumption
<1>3. DOMAIN t = 1..Len(t) /\ Len(t) \in Nat /\ \A i \in DOMAIN t : t[i] \in Instructions
  <2>1. DOMAIN t = 1..Len(t) /\ Len(t) \in Nat
    BY <1>2, ListLength, Zenon
  <2> QED
    BY <1>2, <2>1, ListElement, Zenon
<1>4. c.ed25519_instruction_index < c.self /\ ed.program = "ed25519"
      /\ c.signature_index < ed.num /\ c.signature_index < Len(ed.args)
  BY Zenon DEF SignatureChosen
<1>5. n \in DOMAIN t
  BY <1>1, <1>3, <1>4, SMT
<1>6. ed.num \in Nat /\ ed.args \in Seq(Ed25519SignatureOffsets)
  <2>1. ed \in Instructions
    BY <1>3, <1>5, Zenon
  <2> HIDE DEF ed
  <2> QED
    BY <2>1, <1>4, SMT DEF Instructions
<1>7. d \in Bytes
  <2> DEFINE own == t[c.self + 1]
  <2>1. own \in Instructions /\ own.program # "ed25519"
    BY <1>3, Zenon
  <2> HIDE DEF own
  <2>2. own.data \in Bytes
    BY <2>1, SMT DEF Instructions
  <2> QED
    BY <2>2, Zenon DEF own
<1>8. k \in 1..ed.num /\ k \in 1..Len(ed.args)
  <2>1. Len(ed.args) \in Nat
    BY <1>6, ListLength, Zenon
  <2> HIDE DEF ed
  <2> QED
    BY <2>1, <1>1, <1>4, <1>6, SMT
<1>9. o \in Ed25519SignatureOffsets
  BY <1>6, <1>8, ListElement, Zenon
<1>10. o = ed.args[k]
  BY Zenon
<1> HIDE DEF n, k
<1>11. <<SignatureAt(t[o.signature_instruction_index + 1].data, o),
         KeyAt(t[o.public_key_instruction_index + 1].data, o),
         PayloadAt(t[o.message_instruction_index + 1].data, o)>> \in Signed
  BY <1>4, <1>5, <1>8, <1>10, Zenon DEF RuntimeAccepts, SignatureAt, KeyAt, PayloadAt
<1> QED
  BY <1>7, <1>9, <1>11, Zenon DEF SameInstruction

\* The calls that have been judged: the runtime accepted the transaction and
\* out is the answer.
Judged ==
    out = [result |-> "none"] \/
        /\ tx \in Transactions /\ args \in Calls
        /\ RuntimeAccepts(tx)
        /\ args.self + 1 \in DOMAIN tx /\ tx[args.self + 1].program # "ed25519"
        /\ out = VerifyMessage(tx, args)

\* Every answer of verify_message is about a transaction the runtime accepted.
LEMMA AlwaysJudged == LayoutSpec => []Judged
<1>1. LayoutInit => Judged
  BY Zenon DEF LayoutInit, Judged
<1>2. Judged /\ [LayoutNext]_layoutvars => Judged'
  <2>1. SUFFICES ASSUME Judged, [LayoutNext]_layoutvars PROVE Judged'
    BY Zenon
  <2>2. CASE UNCHANGED layoutvars
    BY <2>1, <2>2, Zenon DEF Judged, layoutvars
  <2>3. CASE LayoutNext
    BY <2>3, Zenon DEF LayoutNext, Verify, Judged
  <2> QED
    BY <2>1, <2>2, <2>3, Zenon
<1> QED
  BY <1>1, <1>2, PTL DEF LayoutSpec

\* A message that is accepted is made of the fields the ed25519 program verified.
LEMMA JudgedSigned == Judged => AcceptedWasSigned
<1>1. SUFFICES ASSUME Judged, out.result = "ok"
               PROVE  \E s \in Signed :
                          /\ s[2] = out.public_key /\ s[3] = out.payload /\ out.public_key \in Trusted
                          /\ args.message_data = Message(SOLANA_FORMAT_MAGIC, s[1], s[2], s[3])
  BY Zenon DEF AcceptedWasSigned
<1> DEFINE d == tx[args.self + 1].data
           o == tx[args.ed25519_instruction_index + 1].args[args.signature_index + 1]
           sig == SignatureAt(d, o)
           key == KeyAt(d, o)
           pay == PayloadAt(d, o)
           public_key == Slice(args.message_data, KeyStart, KeyStart + PUBKEY_LEN)
           payload == Slice(args.message_data, PayloadStart, PayloadStart + o.message_data_size)
           good == /\ SignatureChosen(tx, args) /\ MessageInPlace(d, args, o)
                   /\ FieldsInPlace(args, o) /\ SameInstruction(args, o)
<1>2. out # [result |-> "none"]
  BY <1>1, SMT
<1>3. /\ tx \in Transactions /\ args \in Calls /\ RuntimeAccepts(tx)
      /\ args.self + 1 \in DOMAIN tx /\ tx[args.self + 1].program # "ed25519"
      /\ out = VerifyMessage(tx, args)
  BY <1>1, <1>2, Zenon DEF Judged
<1>4. out = IF ~good THEN [result |-> "InvalidInstructionData"]
            ELSE IF public_key \notin Trusted THEN [result |-> "MissingRequiredSignature"]
            ELSE [result |-> "ok", public_key |-> public_key, payload |-> payload]
  BY <1>3, Zenon DEF VerifyMessage
<1> HIDE DEF good, public_key, payload
<1>5. good /\ public_key \in Trusted /\ out.public_key = public_key /\ out.payload = payload
  BY <1>1, <1>4, SMT
<1>6. o \in Ed25519SignatureOffsets /\ d \in Bytes /\ <<sig, key, pay>> \in Signed
  BY <1>3, <1>5, ChosenWasChecked, Zenon DEF good
<1>7. MessageInPlace(d, args, o) /\ FieldsInPlace(args, o) /\ args \in Calls
  BY <1>3, <1>5, Zenon DEF good
<1> HIDE DEF d, o
<1>8. /\ args.message_data = Message(SOLANA_FORMAT_MAGIC, sig, key, pay)
      /\ key = Slice(args.message_data, KeyStart, KeyStart + PUBKEY_LEN)
      /\ pay = Slice(args.message_data, PayloadStart, PayloadStart + o.message_data_size)
  BY <1>6, <1>7, MessageIsFields, Zenon
<1> HIDE DEF sig, key, pay
<1>9. <<sig, key, pay>>[1] = sig /\ <<sig, key, pay>>[2] = key /\ <<sig, key, pay>>[3] = pay
  BY SMT
<1> QED
  BY <1>5, <1>6, <1>8, <1>9, Zenon DEF public_key, payload

\* A slice that ends in the first of two strings of bytes, and the second one
\* as a slice.
LEMMA SliceOfConcat ==
    ASSUME NEW x \in Bytes, NEW y \in Bytes
    PROVE  /\ x \o y \in Bytes /\ Len(x \o y) = Len(x) + Len(y) /\ Len(x) \in Nat /\ Len(y) \in Nat
           /\ \A i, j \in Nat : i <= j /\ j <= Len(x) => Slice(x \o y, i, j) = Slice(x, i, j)
           /\ Slice(x \o y, Len(x), Len(x) + Len(y)) = y
<1> DEFINE xy == x \o y
           n == Len(x)
           k == Len(y)
<1>1. n \in Nat /\ k \in Nat
  BY ListLength, Zenon DEF Bytes
<1>2. /\ xy \in Bytes /\ Len(xy) = n + k
      /\ \A i \in 1..(n + k) : xy[i] = IF i <= n THEN x[i] ELSE y[i - n]
  BY ListConcat, SMT DEF Bytes
<1> HIDE DEF xy, n, k
<1>3. /\ \A i \in 1..n : xy[i] = x[i]
      /\ \A i \in 1..k : xy[n + i] = y[i]
  <2>1. \A i \in 1..n : i \in 1..(n + k) /\ i <= n
    BY <1>1, SMT
  <2>2. \A i \in 1..k : n + i \in 1..(n + k) /\ ~(n + i <= n) /\ (n + i) - n = i
    BY <1>1, SMT
  <2> QED
    BY <2>1, <2>2, <1>2, Zenon
<1>4. ASSUME NEW i \in Nat, NEW j \in Nat, i <= j, j <= n
      PROVE  Slice(xy, i, j) = Slice(x, i, j)
  <2>1. j <= Len(xy) /\ j <= Len(x)
    BY <1>1, <1>2, <1>4, SMT DEF n
  <2> DEFINE u == Slice(xy, i, j)
             v == Slice(x, i, j)
  <2>2. /\ u \in Bytes /\ Len(u) = j - i
        /\ \A l \in 1..(j - i) : u[l] = xy[i + l]
    BY <2>1, <1>2, <1>4, SliceFacts, Zenon
  <2>3. /\ v \in Bytes /\ Len(v) = j - i
        /\ \A l \in 1..(j - i) : v[l] = x[i + l]
    BY <2>1, <1>4, SliceFacts, Zenon
  <2>4. \A l \in 1..(j - i) : i + l \in 1..n
    BY <1>1, <1>4, SMT
  <2> HIDE DEF u, v
  <2>5. Len(u) = Len(v) /\ \A l \in 1..Len(u) : u[l] = v[l]
    BY <2>2, <2>3, <2>4, <1>3, Zenon
  <2> QED
    <3>1. u = v
      BY <2>2, <2>3, <2>5, SameBytes, Zenon
    <3> QED
      BY <3>1, Zenon DEF u, v
<1>5. Slice(xy, n, n + k) = y
  <2> DEFINE top == n + k
             w == Slice(xy, n, top)
  <2>1. top \in Nat /\ n <= top /\ top <= Len(xy) /\ top - n = k
    BY <1>1, <1>2, SMT
  <2> HIDE DEF top
  <2>2. w \in Bytes /\ Len(w) = k /\ \A l \in 1..k : w[l] = xy[n + l]
    <3>1. w \in Bytes /\ Len(w) = top - n /\ \A l \in 1..(top - n) : w[l] = xy[n + l]
      BY <2>1, <1>1, <1>2, SliceFacts, Zenon
    <3> QED
      BY <3>1, <2>1, Zenon
  <2> HIDE DEF w
  <2>3. Len(w) = Len(y) /\ \A l \in 1..Len(w) : w[l] = y[l]
    BY <2>2, <1>3, Zenon DEF k
  <2> QED
    <3>1. w = y
      BY <2>2, <2>3, SameBytes, Zenon
    <3> QED
      BY <3>1, Zenon DEF w, top
<1>6. \A i, j \in Nat : i <= j /\ j <= n => Slice(xy, i, j) = Slice(x, i, j)
  BY <1>4, Zenon
<1> QED
  BY <1>1, <1>2, <1>5, <1>6, Zenon DEF xy, n, k

\* m is a message that has the magic g, this key, and this payload with its size.
HasFields(m, g, key, pay) ==
    /\ m \in Bytes /\ Len(m) = PayloadStart + Len(pay) /\ Len(pay) \in Nat
    /\ Slice(m, 0, MAGIC_LEN) = g
    /\ Slice(m, KeyStart, KeyStart + PUBKEY_LEN) = key
    /\ ReadU16(Slice(m, KeyStart + PUBKEY_LEN, PayloadStart)) = Len(pay)
    /\ Slice(m, PayloadStart, PayloadStart + Len(pay)) = pay

\* The fields of a message are where the format has them.
LEMMA FieldsOfMessage ==
    ASSUME NEW g \in Bytes, Len(g) = MAGIC_LEN,
           NEW sig \in Bytes, Len(sig) = SIGNATURE_LEN, NEW key \in Bytes, Len(key) = PUBKEY_LEN,
           NEW pay \in Bytes, Len(Message(g, sig, key, pay)) <= MaxU16
    PROVE  HasFields(Message(g, sig, key, pay), g, key, pay)
<1> DEFINE w == WriteU16(Len(pay))
           a == g \o sig
           b == a \o key
           c == b \o w
           m == c \o pay
           sized == KeyStart + PUBKEY_LEN
<1>1. /\ MAGIC_LEN \in Nat /\ SIGNATURE_LEN \in Nat /\ PUBKEY_LEN \in Nat /\ ByteValues \in Nat \ {0}
      /\ MaxU16 \in Nat /\ MaxU16 < ByteValues * ByteValues /\ ByteValues * ByteValues \in Nat
  BY LayoutAssumption, SMT DEF LayoutAssumption
<1>2. m = Message(g, sig, key, pay)
  BY Zenon DEF Message
<1>3. Len(m) <= MaxU16
  BY <1>2, Zenon
<1>4. a \in Bytes /\ Len(a) = MAGIC_LEN + SIGNATURE_LEN
  BY SliceOfConcat, Zenon
<1> HIDE DEF a
<1>5. b \in Bytes /\ Len(b) = (MAGIC_LEN + SIGNATURE_LEN) + PUBKEY_LEN
  BY <1>4, SliceOfConcat, Zenon
<1> HIDE DEF b
<1>7. w \in Bytes /\ Len(w) = 2 /\ ReadU16(w) = Len(pay) /\ Len(pay) \in Nat
  <2>1. Len(pay) \in Nat
    BY SliceOfConcat, Zenon
  <2>2. Len(pay) % ByteValues \in Int /\ Len(pay) \div ByteValues \in Int
    BY <2>1, <1>1, SMT
  <2>3. w \in Seq(Int)
    BY <2>2, SMT DEF WriteU16
  <2>4. pay \in Seq(Int) /\ b \in Seq(Int)
    <3>1. 0..(ByteValues - 1) \subseteq Int
      BY <1>1, SMT
    <3> QED
      BY <3>1, <1>5, ListWider, Zenon DEF Bytes
  <2>5. c \in Seq(Int)
    BY <2>3, <2>4, ListConcat, Zenon
  <2> HIDE DEF c, w
  <2>6. Len(m) = Len(c) + Len(pay)
    BY <2>4, <2>5, ListConcat, Zenon
  <2>7. Len(c) \in Nat
    BY <2>5, ListLength, Zenon
  <2>8. Len(pay) \in 0..(ByteValues * ByteValues - 1)
    <3> HIDE DEF m
    <3> QED BY <2>1, <2>6, <2>7, <1>1, <1>3, SMT
  <2>9. ByteValues \in Nat \ {0}
    BY <1>1, Zenon
  <2> QED
    BY <2>1, <2>8, <2>9, ReadWritten, Zenon DEF w
<1> HIDE DEF w
<1>8. c \in Bytes /\ Len(c) = ((MAGIC_LEN + SIGNATURE_LEN) + PUBKEY_LEN) + 2
  BY <1>5, <1>7, SliceOfConcat, Zenon
<1> HIDE DEF c
<1>9. /\ KeyStart = MAGIC_LEN + SIGNATURE_LEN /\ sized = (MAGIC_LEN + SIGNATURE_LEN) + PUBKEY_LEN
      /\ PayloadStart = ((MAGIC_LEN + SIGNATURE_LEN) + PUBKEY_LEN) + 2
      /\ KeyStart \in Nat /\ sized \in Nat /\ PayloadStart \in Nat /\ 0 \in Nat /\ 0 <= MAGIC_LEN
      /\ MAGIC_LEN <= KeyStart /\ MAGIC_LEN <= sized /\ MAGIC_LEN <= PayloadStart
      /\ KeyStart <= sized /\ sized <= PayloadStart
  BY <1>1, SMT DEF KeyStart, PayloadStart, MESSAGE_SIZE_LEN
<1>10. /\ KeyStart = Len(a) /\ sized = Len(b) /\ PayloadStart = Len(c)
       /\ sized = Len(a) + Len(key) /\ PayloadStart = Len(b) + Len(w)
  BY <1>4, <1>5, <1>7, <1>8, <1>9, Zenon
<1> HIDE DEF sized
<1>11. \A i, j \in Nat : i <= j /\ j <= Len(c) => Slice(m, i, j) = Slice(c, i, j)
  BY <1>8, SliceOfConcat, Zenon
<1>12. \A i, j \in Nat : i <= j /\ j <= Len(b) => Slice(c, i, j) = Slice(b, i, j)
  BY <1>5, <1>7, SliceOfConcat, Zenon DEF c
<1>13. \A i, j \in Nat : i <= j /\ j <= Len(a) => Slice(b, i, j) = Slice(a, i, j)
  BY <1>4, SliceOfConcat, Zenon DEF b
<1>14. Slice(m, 0, MAGIC_LEN) = g
  <2>1. Slice(a, 0, MAGIC_LEN) = Slice(g, 0, MAGIC_LEN)
    <3>1. MAGIC_LEN <= Len(g)
      BY <1>1, SMT
    <3>2. \A i, j \in Nat : i <= j /\ j <= Len(g) => Slice(a, i, j) = Slice(g, i, j)
      BY SliceOfConcat, Zenon DEF a
    <3> QED
      BY <3>1, <3>2, <1>1, <1>9, Zenon
  <2>2. Slice(g, 0, MAGIC_LEN) = g
    <3>1. SubSeq(g, 1, Len(g)) = g
      BY ListWhole, Zenon DEF Bytes
    <3>2. 0 + 1 = 1
      BY SMT
    <3> QED
      BY <3>1, <3>2, Zenon DEF Slice
  <2>3. Slice(m, 0, MAGIC_LEN) = Slice(c, 0, MAGIC_LEN)
    BY <1>1, <1>9, <1>10, <1>11, Zenon
  <2>4. Slice(c, 0, MAGIC_LEN) = Slice(b, 0, MAGIC_LEN)
    BY <1>1, <1>9, <1>10, <1>12, Zenon
  <2>5. Slice(b, 0, MAGIC_LEN) = Slice(a, 0, MAGIC_LEN)
    BY <1>1, <1>9, <1>10, <1>13, Zenon
  <2> QED
    BY <2>1, <2>2, <2>3, <2>4, <2>5, Zenon
<1>15. Slice(m, KeyStart, sized) = key
  <2>1. Slice(b, Len(a), Len(a) + Len(key)) = key
    BY <1>4, SliceOfConcat, Zenon DEF b
  <2>2. Slice(c, KeyStart, sized) = Slice(b, KeyStart, sized)
    <3>1. sized <= Len(b)
      BY <1>9, <1>10, SMT
    <3> QED
      BY <3>1, <1>9, <1>12, Zenon
  <2>3. Slice(m, KeyStart, sized) = Slice(c, KeyStart, sized)
    BY <1>9, <1>10, <1>11, Zenon
  <2> QED
    BY <2>1, <2>2, <2>3, <1>10, Zenon
<1>16. Slice(m, sized, PayloadStart) = w
  <2>1. Slice(c, Len(b), Len(b) + Len(w)) = w
    BY <1>5, <1>7, SliceOfConcat, Zenon DEF c
  <2>2. Slice(m, sized, PayloadStart) = Slice(c, sized, PayloadStart)
    <3>1. PayloadStart <= Len(c)
      BY <1>9, <1>10, SMT
    <3> QED
      BY <3>1, <1>9, <1>11, Zenon
  <2> QED
    BY <2>1, <2>2, <1>10, Zenon
<1>17. m \in Bytes /\ Len(m) = PayloadStart + Len(pay) /\ Slice(m, PayloadStart, PayloadStart + Len(pay)) = pay
  <2>1. m \in Bytes /\ Len(m) = Len(c) + Len(pay) /\ Slice(m, Len(c), Len(c) + Len(pay)) = pay
    BY <1>8, SliceOfConcat, Zenon
  <2> HIDE DEF m
  <2> QED
    BY <2>1, <1>10, Zenon
<1> HIDE DEF m
<1> QED
  BY <1>2, <1>7, <1>14, <1>15, <1>16, <1>17, Zenon DEF sized, HasFields

\* The instruction that the SDKs make for a signed message is accepted.
LEMMA JudgedSdk == Judged => SdkInstructionAccepted
<1> DEFINE M(s) == Message(SOLANA_FORMAT_MAGIC, s[1], s[2], s[3])
           data == tx[args.self + 1].data
           n == args.ed25519_instruction_index + 1
<1>1. SUFFICES ASSUME Judged, NEW s \in Signed, NEW start \in 0..MaxU16,
                      out.result # "none", s[2] \in Trusted,
                      args.message_data = M(s), args.signature_index = 0,
                      start + Len(M(s)) <= MaxU16,
                      InRange(data, start, start + Len(M(s))),
                      Slice(data, start, start + Len(M(s))) = M(s),
                      args.ed25519_instruction_index < args.self,
                      tx[n] = createEd25519Instruction(M(s), args.self, start)
               PROVE  out = [result |-> "ok", public_key |-> s[2], payload |-> s[3]]
  BY Zenon DEF SdkInstructionAccepted
<1> DEFINE m == M(s)
           sized == KeyStart + PUBKEY_LEN
           o == OffsetsNew(m, args.self, start)
           so == start + MAGIC_LEN
           pk == so + SIGNATURE_LEN
           ms == pk + PUBKEY_LEN
           md == ms + 2
           e == Len(s[3])
<1>2. /\ MAGIC_LEN \in Nat /\ SIGNATURE_LEN \in Nat /\ PUBKEY_LEN \in Nat /\ MaxU16 \in Nat
      /\ SOLANA_FORMAT_MAGIC \in Bytes /\ Len(SOLANA_FORMAT_MAGIC) = MAGIC_LEN
  BY LayoutAssumption, SMT DEF LayoutAssumption
<1>3. /\ s[1] \in Bytes /\ s[2] \in Bytes /\ s[3] \in Bytes
      /\ Len(s[1]) = SIGNATURE_LEN /\ Len(s[2]) = PUBKEY_LEN
  BY LayoutAssumption, SMT DEF LayoutAssumption
<1>4. start \in Nat
  BY <1>2, SMT
<1>5. Len(m) <= MaxU16
  <2>1. Len(m) \in Nat
    BY SMT
  <2> QED
    BY <2>1, <1>1, <1>2, <1>4, SMT
<1>6. /\ m \in Bytes /\ Len(m) = PayloadStart + e /\ e \in Nat
      /\ Slice(m, 0, MAGIC_LEN) = SOLANA_FORMAT_MAGIC /\ Slice(m, KeyStart, sized) = s[2]
      /\ ReadU16(Slice(m, sized, PayloadStart)) = e
      /\ Slice(m, PayloadStart, PayloadStart + e) = s[3]
  <2>1. HasFields(m, SOLANA_FORMAT_MAGIC, s[2], s[3])
    BY <1>2, <1>3, <1>5, FieldsOfMessage, Zenon
  <2> QED
    BY <2>1, Zenon DEF HasFields
<1>7. /\ tx[n].program = "ed25519" /\ tx[n].num = 1 /\ tx[n].args = <<o>>
  <2> HIDE DEF n, o, m
  <2>1. tx[n] = [program |-> "ed25519", num |-> Len(<<o>>), args |-> <<o>>]
    BY <1>1, Zenon DEF createEd25519Instruction, Ed25519ProgramArgs, o, m
  <2>2. Len(<<o>>) = 1
    BY SMT
  <2> QED
    BY <2>1, <2>2, SMT
<1>8. o = [signature_offset |-> so, signature_instruction_index |-> args.self,
           public_key_offset |-> pk, public_key_instruction_index |-> args.self,
           message_data_offset |-> md,
           message_data_size |-> ReadU16(Slice(m, ms - start, md - start)),
           message_instruction_index |-> args.self]
  BY Zenon DEF OffsetsNew, MESSAGE_SIZE_LEN
<1>9. so = start + MAGIC_LEN /\ pk = so + SIGNATURE_LEN /\ ms = pk + PUBKEY_LEN /\ md = ms + 2
      /\ sized = KeyStart + PUBKEY_LEN
  OBVIOUS
<1>10. /\ args.message_data = m /\ Slice(data, start, start + Len(m)) = m
       /\ InRange(data, start, start + Len(m)) /\ start + Len(m) <= MaxU16
  BY <1>1, Zenon
<1> HIDE DEF M, m, sized, o, so, pk, ms, md, e
<1>11. /\ ms - start = sized /\ md - start = PayloadStart /\ md + e = start + Len(m)
       /\ so - MAGIC_LEN = start /\ so >= MAGIC_LEN /\ Len(m) >= MAGIC_LEN /\ md <= MaxU16
       /\ sized <= PayloadStart /\ PayloadStart <= Len(m)
  BY <1>2, <1>4, <1>6, <1>9, <1>10, SMT DEF KeyStart, PayloadStart, MESSAGE_SIZE_LEN
<1>12. /\ o.signature_offset = so /\ o.public_key_offset = pk /\ o.message_data_offset = md
       /\ o.message_data_size = e /\ o.signature_instruction_index = args.self
       /\ o.public_key_instruction_index = args.self /\ o.message_instruction_index = args.self
  BY <1>6, <1>8, <1>11, SMT
<1>13. SignatureChosen(tx, args)
  <2>1. Len(tx[n].args) = 1
    BY <1>7, SMT
  <2>2. args.signature_index < 1
    BY <1>1, SMT
  <2> QED
    BY <2>1, <2>2, <1>1, <1>7, Zenon DEF SignatureChosen
<1>14. tx[n].args[args.signature_index + 1] = o
  <2>1. 0 + 1 = 1 /\ <<o>>[1] = o
    BY SMT
  <2> QED
    BY <2>1, <1>1, <1>7, Zenon
<1>15. MessageInPlace(data, args, o)
  <2>1. o.signature_offset - MAGIC_LEN = start
    BY <1>11, <1>12, Zenon
  <2>2. o.message_data_offset + o.message_data_size = start + Len(m)
    BY <1>11, <1>12, Zenon
  <2> QED
    BY <2>1, <2>2, <1>6, <1>10, <1>11, <1>12, Zenon DEF MessageInPlace
<1>16. FieldsInPlace(args, o)
  <2>1. /\ o.public_key_offset = o.signature_offset + SIGNATURE_LEN
        /\ o.message_data_offset = o.signature_offset + SIGNATURE_LEN + PUBKEY_LEN + MESSAGE_SIZE_LEN
    BY <1>9, <1>12, Zenon DEF MESSAGE_SIZE_LEN
  <2>2. /\ (o.signature_offset + SIGNATURE_LEN + PUBKEY_LEN) - (o.signature_offset - MAGIC_LEN) = sized
        /\ (o.signature_offset + SIGNATURE_LEN + PUBKEY_LEN + MESSAGE_SIZE_LEN)
              - (o.signature_offset - MAGIC_LEN) = PayloadStart
    BY <1>9, <1>11, <1>12, Zenon DEF MESSAGE_SIZE_LEN
  <2> QED
    BY <2>1, <2>2, <1>6, <1>10, <1>11, <1>12, Zenon DEF FieldsInPlace, InRange
<1>17. SameInstruction(args, o)
  BY <1>12, Zenon DEF SameInstruction
<1>18. out = VerifyMessage(tx, args)
  <2>1. out # [result |-> "none"]
    BY <1>1, SMT
  <2> QED
    BY <2>1, <1>1, Zenon DEF Judged
<1> DEFINE public_key == Slice(m, KeyStart, KeyStart + PUBKEY_LEN)
           payload == Slice(m, PayloadStart, PayloadStart + o.message_data_size)
<1>19. out = IF public_key \notin Trusted THEN [result |-> "MissingRequiredSignature"]
             ELSE [result |-> "ok", public_key |-> public_key, payload |-> payload]
  BY <1>10, <1>13, <1>14, <1>15, <1>16, <1>17, <1>18, Zenon DEF VerifyMessage
<1>20. public_key = s[2] /\ payload = s[3]
  BY <1>6, <1>9, <1>12, Zenon
<1> QED
  BY <1>1, <1>19, <1>20, Zenon

\* Whatever the sizes of the fields, the transactions and the place of the
\* message: a message that signature::verify_message accepts is made of the
\* magic, a signature, a key, a size and a payload that the ed25519 program has
\* verified together, and the key and the payload it returns are these.  And
\* the instruction that Ed25519SignatureOffsets::new and ed25519_program_args
\* of the Rust SDK, or createEd25519Instruction of the JavaScript SDK, make for
\* a signed message of a trusted key is accepted, with that key and payload.
THEOREM VerifiedWasSigned == LayoutSpec => []VerifiedMeansSigned
<1>1. Judged => VerifiedMeansSigned
  BY JudgedSigned, JudgedSdk, Zenon DEF VerifiedMeansSigned
<1> QED
  BY <1>1, AlwaysJudged, PTL

-----------------------------------------------------------------------------
(* RequestValidation *)

\* JSON values of the shape of a channel.
Jsons == [form : {"real_time", "fixed_rate@ms", "digits", "number", "other"}, n : Nat]

\* A sequence of one value is not the empty one.
LEMMA SomeIsNotNone ==
    ASSUME NEW x
    PROVE  Some(x) # None /\ Some(x)[1] = x
BY SMT DEF Some, None

\* The rates are numbers, each at an index of the list.
LEMMA RateFacts ==
    /\ DOMAIN Rates = 1..Len(Rates) /\ Len(Rates) \in Nat
    /\ \A r \in Range(Rates) : r \in Nat /\ \E i \in DOMAIN Rates : Rates[i] = r
    /\ \A i \in DOMAIN Rates : Rates[i] \in Range(Rates)
<1>1. Rates \in Seq(Nat)
  BY RequestAssumption, Zenon DEF RequestAssumption
<1>2. DOMAIN Rates = 1..Len(Rates) /\ Len(Rates) \in Nat
  BY <1>1, SMT
<1>3. \A i \in DOMAIN Rates : Rates[i] \in Nat
  BY <1>1, SMT
<1> QED
  BY <1>2, <1>3, Zenon DEF Range

\* A channel that is read is one of the channels.
LEMMA ChannelParsed ==
    ASSUME NEW json \in Jsons, ChannelFromJson(json) # None
    PROVE  \E channel \in Channels : ChannelFromJson(json) = Some(channel)
<1>1. json.form \in {"real_time", "fixed_rate@ms", "digits", "number", "other"}
  BY SMT DEF Jsons
<1>2. RealTime \in Channels /\ Range(Rates) \subseteq Channels
  BY Zenon DEF Channels
<1>3. CASE json.form = "real_time"
  <2>1. ChannelFromJson(json) = Some(RealTime)
    BY <1>3, SMT DEF ChannelFromJson
  <2> QED
    BY <2>1, <1>2, Zenon
<1>4. CASE json.form = "fixed_rate@ms"
  <2>1. ChannelFromJson(json) = IF json.n \in Range(Rates) THEN Some(json.n) ELSE None
    BY <1>4, SMT DEF ChannelFromJson
  <2> QED
    BY <2>1, <1>2, Zenon
<1>5. CASE json.form \in {"digits", "number"}
  <2>1. ChannelFromJson(json) = IF json.n < 256 THEN ChannelFromId(json.n) ELSE None
    BY <1>5, SMT DEF ChannelFromJson
  <2>2. ChannelFromJson(json) = ChannelFromId(json.n)
    BY <2>1, Zenon
  <2> QED
    BY <2>2, <1>2, RateFacts, Zenon DEF ChannelFromId
<1>6. CASE json.form = "other"
  <2>1. ChannelFromJson(json) = None
    BY <1>6, SMT DEF ChannelFromJson
  <2> QED
    BY <2>1, Zenon
<1> QED
  BY <1>1, <1>3, <1>4, <1>5, <1>6, Zenon

\* A channel comes back from its name, and from its id.
LEMMA ChannelNamed ==
    ASSUME NEW channel \in Channels
    PROVE  /\ ChannelName(channel) \in Jsons
           /\ ChannelFromJson(ChannelName(channel)) = Some(channel)
           /\ ChannelFromId(ChannelId(channel)) = Some(channel)
<1>1. CASE channel = RealTime
  <2>1. ChannelName(channel) = [form |-> "real_time", n |-> 0]
    BY <1>1, Zenon DEF ChannelName
  <2>2. ChannelFromJson([form |-> "real_time", n |-> 0]) = Some(RealTime)
    BY SMT DEF ChannelFromJson
  <2>3. [form |-> "real_time", n |-> 0] \in Jsons
    BY SMT DEF Jsons
  <2>4. ChannelId(channel) = 1 /\ ChannelFromId(1) = Some(RealTime)
    BY <1>1, Zenon DEF ChannelId, ChannelFromId
  <2> QED
    BY <1>1, <2>1, <2>2, <2>3, <2>4, Zenon
<1>2. CASE channel # RealTime
  <2> DEFINE name == [form |-> "fixed_rate@ms", n |-> channel]
             at == {i \in DOMAIN Rates : Rates[i] = channel}
             first == CHOOSE i \in at : TRUE
  <2>1. channel \in Range(Rates)
    BY <1>2, Zenon DEF Channels
  <2>2. channel \in Nat /\ \E i \in DOMAIN Rates : Rates[i] = channel
    BY <2>1, RateFacts, Zenon
  <2>3. ChannelName(channel) = name
    BY <1>2, Zenon DEF ChannelName
  <2>4. name \in Jsons /\ name.form = "fixed_rate@ms" /\ name.n = channel
    BY <2>2, SMT DEF Jsons
  <2>5. ChannelFromJson(name) = IF name.n \in Range(Rates) THEN Some(name.n) ELSE None
    <3> HIDE DEF name
    <3> QED BY <2>4, SMT DEF ChannelFromJson
  <2>6. at # {} /\ first \in at
    BY <2>2, Zenon
  <2>7. ChannelId(channel) = 1 + first
    BY <1>2, <2>6, Zenon DEF ChannelId
  <2> HIDE DEF first
  <2>8. first \in DOMAIN Rates /\ Rates[first] = channel
    BY <2>6, Zenon
  <2>9. first \in Nat /\ first >= 1
    BY <2>8, RateFacts, SMT
  <2>10. 1 + first # 1 /\ (1 + first) - 1 = first
    BY <2>9, SMT
  <2>11. ChannelFromId(1 + first) = Some(channel)
    BY <2>8, <2>10, Zenon DEF ChannelFromId
  <2> QED
    BY <2>1, <2>3, <2>4, <2>5, <2>7, <2>11, Zenon
<1> QED
  BY <1>1, <1>2, Zenon

\* A list of one format that has the packed format is that format.
LEMMA OnlyFormat ==
    ASSUME NEW l \in Seq(STRING), NEW f, f \in Range(l), Len(l) = 1
    PROVE  l = <<f>>
<1>1. DOMAIN l = 1..1
  BY SMT
<1>2. \A i \in DOMAIN l : i = 1
  BY <1>1, SMT
<1>3. l[1] = f
  BY <1>2, Zenon DEF Range
<1> QED
  BY <1>3, SMT

\* What a valid request asks for is what payload_layout gives.
ValidAnswer(r, l) ==
    /\ \E list \in {r.ids \o r.symbols} : Len(list) = 1 /\ list[1] # <<>> /\ IsInjective(list[1])
    /\ l.formats = r.formats /\ IsInjective(l.formats)
    /\ l.properties # <<>> /\ IsInjective(l.properties)
    /\ l.properties = r.properties \/ (r.formats = <<PackedEvmEcdsa>> /\ r.properties = <<>>)

\* A request the validation lets through is one a server can answer.
LEMMA ValidIsAnswered ==
    ASSUME NEW r \in PriceRequests(Channels), validate_price_request(r)
    PROVE  ValidAnswer(r, payload_layout(r))
<1> DEFINE l == payload_layout(r)
<1>1. /\ r.ids \in {None} \cup {Some(x) : x \in IdLists}
      /\ r.symbols \in {None} \cup {Some(x) : x \in SymbolLists}
      /\ r.properties \in PropertyLists /\ r.formats \in FormatLists
  BY SMT DEF PriceRequests
<1>2. r.formats \in Seq(STRING)
  BY <1>1, RequestAssumption, Zenon DEF RequestAssumption
<1>3. /\ (r.ids = None) # (r.symbols = None)
      /\ r.ids # None => r.ids[1] # <<>> /\ IsInjective(r.ids[1])
      /\ r.symbols # None => r.symbols[1] # <<>> /\ IsInjective(r.symbols[1])
      /\ IsInjective(r.formats)
      /\ IF PackedEvmEcdsa \in Range(r.formats) THEN Len(r.formats) = 1 /\ r.properties = <<>>
         ELSE r.properties # <<>> /\ IsInjective(r.properties)
  BY Zenon DEF validate_price_request, validate_price_feed_ids_or_symbols,
               validate_optional_nonempty_vec_has_unique_elements, validate_requested_payload
<1>4. \E list \in {r.ids \o r.symbols} : Len(list) = 1 /\ list[1] # <<>> /\ IsInjective(list[1])
  <2>1. \A x : None \o Some(x) = Some(x) /\ Some(x) \o None = Some(x) /\ Len(Some(x)) = 1
    <3>1. SUFFICES ASSUME NEW x
                   PROVE  None \o Some(x) = Some(x) /\ Some(x) \o None = Some(x) /\ Len(Some(x)) = 1
      BY Zenon
    <3>2. Some(x) \in Seq({x}) /\ Len(Some(x)) = 1
      BY SMT DEF Some
    <3> QED
      BY <3>2, SMT DEF None, Some
  <2>2. CASE r.ids = None
    <3>1. r.symbols # None
      BY <2>2, <1>3, Zenon
    <3>2. PICK x : r.symbols = Some(x)
      BY <3>1, <1>1, Zenon
    <3>3. r.ids \o r.symbols = Some(x) /\ Len(Some(x)) = 1
      BY <2>1, <2>2, <3>2, Zenon
    <3> QED
      BY <3>1, <3>2, <3>3, <1>3, Zenon
  <2>3. CASE r.ids # None
    <3>1. r.symbols = None
      BY <2>3, <1>3, Zenon
    <3>2. PICK x : r.ids = Some(x)
      BY <2>3, <1>1, Zenon
    <3>3. r.ids \o r.symbols = Some(x) /\ Len(Some(x)) = 1
      BY <2>1, <3>1, <3>2, Zenon
    <3> QED
      BY <2>3, <3>2, <3>3, <1>3, Zenon
  <2> QED
    BY <2>2, <2>3, Zenon
<1>5. CASE PackedEvmEcdsa \in Range(r.formats)
  <2>1. r.formats = <<PackedEvmEcdsa>> /\ r.properties = <<>>
    BY <1>2, <1>3, <1>5, OnlyFormat, Zenon
  <2>2. l = [layout |-> "PackedEvm", properties |-> PackedProperties, formats |-> <<PackedEvmEcdsa>>]
    BY <1>5, Zenon DEF payload_layout
  <2> HIDE DEF l
  <2>3. l.formats = r.formats /\ l.properties = PackedProperties
    BY <2>1, <2>2, SMT
  <2>4. PackedProperties # <<>> /\ IsInjective(PackedProperties)
    BY SMT DEF PackedProperties, IsInjective
  <2> QED
    BY <1>3, <1>4, <2>1, <2>3, <2>4, Zenon DEF ValidAnswer, l
<1>6. CASE PackedEvmEcdsa \notin Range(r.formats)
  <2>1. l = [layout |-> "Standard", properties |-> r.properties, formats |-> r.formats]
    BY <1>6, Zenon DEF payload_layout
  <2> HIDE DEF l
  <2>2. l.formats = r.formats /\ l.properties = r.properties
    BY <2>1, SMT
  <2> QED
    BY <1>3, <1>4, <1>6, <2>2, Zenon DEF ValidAnswer, l
<1> QED
  BY <1>5, <1>6, Zenon

\* Deserialize gives a valid request with the fields of the JSON, or nothing.
LEMMA Deserialized ==
    ASSUME NEW json \in PriceRequests(Jsons), Deserialize(json) # None
    PROVE  \E channel \in Channels :
              LET r == [json EXCEPT !.channel = channel]
              IN  /\ Deserialize(json) = Some(r) /\ validate_price_request(r)
                  /\ r \in PriceRequests(Channels) /\ r.channel = channel /\ r.formats = json.formats
<1>1. json.channel \in Jsons
  BY SMT DEF PriceRequests
<1>2. ChannelFromJson(json.channel) # None
  BY Zenon DEF Deserialize
<1>3. PICK channel \in Channels : ChannelFromJson(json.channel) = Some(channel)
  BY <1>1, <1>2, ChannelParsed, Zenon
<1> DEFINE r == [json EXCEPT !.channel = channel]
<1>4. r \in PriceRequests(Channels) /\ r.channel = channel /\ r.formats = json.formats
  BY SMT DEF PriceRequests
<1>5. Deserialize(json) = RequestNew(r)
  BY <1>2, <1>3, SomeIsNotNone, Zenon DEF Deserialize
<1> HIDE DEF r
<1>6. validate_price_request(r) /\ Deserialize(json) = Some(r)
  BY <1>5, Zenon DEF RequestNew
<1> QED
  BY <1>4, <1>6, Zenon DEF r

\* Another channel in a request, and the first one again.
LEMMA ChannelChanged ==
    ASSUME NEW C, NEW D, NEW r \in PriceRequests(C), NEW d \in D
    PROVE  /\ [r EXCEPT !.channel = d] \in PriceRequests(D)
           /\ [r EXCEPT !.channel = d].channel = d
           /\ [[r EXCEPT !.channel = d] EXCEPT !.channel = r.channel] = r
<1> DEFINE w == [r EXCEPT !.channel = d]
           I == {None} \cup {Some(l) : l \in IdLists}
           S == {None} \cup {Some(l) : l \in SymbolLists}
<1>1. r \in [ids : I, symbols : S, properties : PropertyLists, formats : FormatLists, channel : C]
  BY Zenon DEF PriceRequests
<1> HIDE DEF I, S
<1>2. /\ w \in [ids : I, symbols : S, properties : PropertyLists, formats : FormatLists, channel : D]
      /\ w.channel = d
  BY <1>1, SMT
<1>3. [w EXCEPT !.channel = r.channel] = r
  <2>1. r = [ids |-> r.ids, symbols |-> r.symbols, properties |-> r.properties,
             formats |-> r.formats, channel |-> r.channel]
    BY <1>1, SMT
  <2>2. w = [ids |-> r.ids, symbols |-> r.symbols, properties |-> r.properties,
             formats |-> r.formats, channel |-> d]
    BY <2>1, SMT
  <2> HIDE DEF w
  <2>3. [w EXCEPT !.channel = r.channel]
          = [ids |-> r.ids, symbols |-> r.symbols, properties |-> r.properties,
             formats |-> r.formats, channel |-> r.channel]
    BY <2>2, SMT
  <2> QED
    BY <2>1, <2>3, Zenon
<1> QED
  BY <1>2, <1>3, Zenon DEF PriceRequests, I, S

\* The JSON a client sends of its request is read as that request when it is valid.
WireOf(r) == [r EXCEPT !.channel = ChannelName(r.channel)]

\* What a client sends is read as what it meant.
LEMMA SentIsRead ==
    ASSUME NEW r \in PriceRequests(Channels)
    PROVE  /\ WireOf(r) \in PriceRequests(Jsons)
           /\ validate_price_request(r) => Deserialize(WireOf(r)) = Some(r)
<1> DEFINE w == WireOf(r)
           name == ChannelName(r.channel)
<1>1. r.channel \in Channels
  BY SMT DEF PriceRequests
<1>2. name \in Jsons /\ ChannelFromJson(name) = Some(r.channel)
  BY <1>1, ChannelNamed, Zenon
<1> HIDE DEF name
<1>3. w = [r EXCEPT !.channel = name]
  BY Zenon DEF WireOf, name
<1> HIDE DEF w
<1>4. w \in PriceRequests(Jsons) /\ w.channel = name /\ [w EXCEPT !.channel = r.channel] = r
  <2>1. /\ [r EXCEPT !.channel = name] \in PriceRequests(Jsons)
        /\ [r EXCEPT !.channel = name].channel = name
        /\ [[r EXCEPT !.channel = name] EXCEPT !.channel = r.channel] = r
    BY <1>2, ChannelChanged, Zenon
  <2> QED
    BY <2>1, <1>3, Zenon
<1>5. Deserialize(w) = RequestNew([w EXCEPT !.channel = r.channel])
  BY <1>2, <1>4, SomeIsNotNone, Zenon DEF Deserialize
<1>6. validate_price_request(r) => Deserialize(w) = Some(r)
  BY <1>4, <1>5, Zenon DEF RequestNew
<1> QED
  BY <1>4, <1>6, Zenon DEF w

\* What the server makes of JSON.
Answer(json) ==
    LET r == Deserialize(json)
    IN  IF r = None THEN Some([ok |-> FALSE])
        ELSE Some([ok |-> TRUE, request |-> r[1], layout |-> payload_layout(r[1]),
                   channel_id |-> ChannelId(r[1].channel)])

\* The request that is held has a channel, and is valid as long as it is as it
\* was built; the JSON is that request then; and the answer is to the JSON.
HeldOK ==
    held # None => /\ held = Some(held[1]) /\ held[1] \in PriceRequests(Channels)
                   /\ intact => validate_price_request(held[1])
WireOK ==
    wire # None => /\ wire[1] \in PriceRequests(Jsons)
                   /\ intact => held # None /\ wire[1] = WireOf(held[1])
AnswerOK == served # None => wire # None /\ served = Answer(wire[1])

RequestInv == HeldOK /\ WireOK /\ AnswerOK

\* Reading the channels of SendRaw: numbers of the JSON are numbers.
LEMMA RawIsJson ==
    ASSUME NEW r \in PriceRequests(ChannelJsons)
    PROVE  r \in PriceRequests(Jsons)
<1> DEFINE I == {None} \cup {Some(l) : l \in IdLists}
           S == {None} \cup {Some(l) : l \in SymbolLists}
<1>1. ChannelJsons \subseteq Jsons
  <2> DEFINE Forms == {"real_time", "fixed_rate@ms", "digits", "number", "other"}
  <2>1. Numbers \subseteq Nat
    BY RequestAssumption, Zenon DEF RequestAssumption
  <2> HIDE DEF Forms
  <2>2. ASSUME NEW j \in [form : Forms, n : Numbers] PROVE j \in [form : Forms, n : Nat]
    <3>1. j = [form |-> j.form, n |-> j.n] /\ j.form \in Forms /\ j.n \in Numbers
      BY <2>2, SMT
    <3>2. j.n \in Nat
      BY <3>1, <2>1, Zenon
    <3> QED
      BY <3>1, <3>2, SMT
  <2> QED
    BY <2>2, Zenon DEF ChannelJsons, Jsons, Forms
<1>2. r \in [ids : I, symbols : S, properties : PropertyLists, formats : FormatLists,
             channel : ChannelJsons]
  BY Zenon DEF PriceRequests
<1> HIDE DEF I, S
<1>3. r \in [ids : I, symbols : S, properties : PropertyLists, formats : FormatLists, channel : Jsons]
  <2>1. r = [ids |-> r.ids, symbols |-> r.symbols, properties |-> r.properties,
             formats |-> r.formats, channel |-> r.channel]
    BY <1>2, SMT
  <2>2. /\ r.ids \in I /\ r.symbols \in S /\ r.properties \in PropertyLists /\ r.formats \in FormatLists
        /\ r.channel \in ChannelJsons
    BY <1>2, SMT
  <2>3. r.channel \in Jsons
    BY <1>1, <2>2, Zenon
  <2> QED
    BY <2>1, <2>2, <2>3, SMT
<1> QED
  BY <1>3, Zenon DEF PriceRequests, I, S

\* Every step keeps the invariant.
LEMMA RequestStep ==
    ASSUME RequestInv, [RequestNext]_requestvars
    PROVE  RequestInv'
<1>1. HeldOK /\ WireOK /\ AnswerOK
  BY Zenon DEF RequestInv
<1>2. CASE UNCHANGED requestvars
  BY <1>1, <1>2, Zenon DEF requestvars, HeldOK, WireOK, AnswerOK, RequestInv
<1>3. CASE Build
  <2>1. PICK r \in PriceRequests(Channels) : held' = RequestNew(r)
    BY <1>3, Zenon DEF Build
  <2>2. HeldOK'
    BY <2>1, SomeIsNotNone, Zenon DEF HeldOK, RequestNew
  <2>3. WireOK'
    BY <1>3, Zenon DEF Build, WireOK
  <2>4. AnswerOK'
    BY <1>1, <1>3, Zenon DEF Build, AnswerOK
  <2> QED
    BY <2>2, <2>3, <2>4, Zenon DEF RequestInv
<1>4. CASE DerefMut
  <2>1. held # None /\ held[1] \in PriceRequests(Channels) /\ intact' = FALSE
        /\ wire = None /\ wire' = wire /\ served' = served
    BY <1>1, <1>4, Zenon DEF DerefMut, HeldOK
  <2>2. \E r \in PriceRequests(Channels) : held' = Some(r)
    <3> DEFINE h == held[1]
    <3>1. CASE \E l \in IdLists : held' = Some([held[1] EXCEPT !.ids = Some(l)])
      <4>1. PICK l \in IdLists : held' = Some([h EXCEPT !.ids = Some(l)])
        BY <3>1, Zenon
      <4> HIDE DEF h
      <4>2. [h EXCEPT !.ids = Some(l)] \in PriceRequests(Channels)
        BY <2>1, SMT DEF PriceRequests, h
      <4> QED
        BY <4>1, <4>2, Zenon
    <3>2. CASE \E l \in SymbolLists : held' = Some([held[1] EXCEPT !.symbols = Some(l)])
      <4>1. PICK l \in SymbolLists : held' = Some([h EXCEPT !.symbols = Some(l)])
        BY <3>2, Zenon
      <4> HIDE DEF h
      <4>2. [h EXCEPT !.symbols = Some(l)] \in PriceRequests(Channels)
        BY <2>1, SMT DEF PriceRequests, h
      <4> QED
        BY <4>1, <4>2, Zenon
    <3>3. CASE \E l \in PropertyLists : held' = Some([held[1] EXCEPT !.properties = l])
      <4>1. PICK l \in PropertyLists : held' = Some([h EXCEPT !.properties = l])
        BY <3>3, Zenon
      <4> HIDE DEF h
      <4>2. [h EXCEPT !.properties = l] \in PriceRequests(Channels)
        BY <2>1, SMT DEF PriceRequests, h
      <4> QED
        BY <4>1, <4>2, Zenon
    <3>4. CASE \E l \in FormatLists : held' = Some([held[1] EXCEPT !.formats = l])
      <4>1. PICK l \in FormatLists : held' = Some([h EXCEPT !.formats = l])
        BY <3>4, Zenon
      <4> HIDE DEF h
      <4>2. [h EXCEPT !.formats = l] \in PriceRequests(Channels)
        BY <2>1, SMT DEF PriceRequests, h
      <4> QED
        BY <4>1, <4>2, Zenon
    <3> QED
      BY <1>4, <3>1, <3>2, <3>3, <3>4, Zenon DEF DerefMut
  <2>3. HeldOK'
    BY <2>1, <2>2, SomeIsNotNone, Zenon DEF HeldOK
  <2>4. WireOK'
    BY <2>1, Zenon DEF WireOK
  <2>5. AnswerOK'
    BY <1>1, <2>1, Zenon DEF AnswerOK
  <2> QED
    BY <2>3, <2>4, <2>5, Zenon DEF RequestInv
<1>5. CASE Send
  <2>1. held # None /\ wire = None /\ UNCHANGED <<held, intact, served>>
        /\ wire' = Some([held[1] EXCEPT !.channel = ChannelName(@)])
    BY <1>5, Zenon DEF Send
  <2>2. wire' = Some(WireOf(held[1]))
    BY <2>1, Zenon DEF WireOf
  <2>3. wire'[1] = WireOf(held[1])
    BY <2>2, SomeIsNotNone, Zenon
  <2>4. held[1] \in PriceRequests(Channels)
    BY <1>1, <2>1, Zenon DEF HeldOK
  <2>5. WireOf(held[1]) \in PriceRequests(Jsons)
    BY <2>4, SentIsRead, Zenon
  <2>6. HeldOK'
    BY <1>1, <2>1, Zenon DEF HeldOK
  <2>7. WireOK'
    BY <2>1, <2>3, <2>5, Zenon DEF WireOK
  <2>8. AnswerOK'
    BY <1>1, <2>1, Zenon DEF AnswerOK
  <2> QED
    BY <2>6, <2>7, <2>8, Zenon DEF RequestInv
<1>6. CASE SendRaw
  <2>1. held = None /\ wire = None /\ ~intact /\ UNCHANGED <<held, intact, served>>
    BY <1>6, Zenon DEF SendRaw
  <2>2. PICK r \in PriceRequests(ChannelJsons) : wire' = Some(r)
    BY <1>6, Zenon DEF SendRaw
  <2>3. wire'[1] \in PriceRequests(Jsons)
    BY <2>2, RawIsJson, SomeIsNotNone, Zenon
  <2>4. HeldOK' /\ WireOK' /\ AnswerOK'
    BY <1>1, <2>1, <2>3, Zenon DEF HeldOK, WireOK, AnswerOK
  <2> QED
    BY <2>4, Zenon DEF RequestInv
<1>7. CASE Serve
  <2>1. wire # None /\ UNCHANGED <<held, wire, intact>> /\ served' = Answer(wire[1])
    BY <1>7, Zenon DEF Serve, Answer
  <2>2. HeldOK' /\ WireOK' /\ AnswerOK'
    BY <1>1, <2>1, Zenon DEF HeldOK, WireOK, AnswerOK
  <2> QED
    BY <2>2, Zenon DEF RequestInv
<1> QED
  BY <1>2, <1>3, <1>4, <1>5, <1>6, <1>7, Zenon DEF RequestNext

\* The invariant holds in every behaviour.
LEMMA AlwaysAnswered == RequestSpec => []RequestInv
<1>1. RequestInit => RequestInv
  BY Zenon DEF RequestInit, RequestInv, HeldOK, WireOK, AnswerOK
<1>2. RequestInv /\ [RequestNext]_requestvars => RequestInv'
  BY RequestStep, Zenon
<1> QED
  BY <1>1, <1>2, PTL DEF RequestSpec

\* What is known of an answer to JSON of the right shape.
LEMMA AnswerFacts ==
    ASSUME NEW json \in PriceRequests(Jsons), NEW a, a = Answer(json)
    PROVE  \/ ~a[1].ok /\ Deserialize(json) = None
           \/ \E r \in PriceRequests(Channels) :
                 /\ a[1].ok /\ Deserialize(json) = Some(r) /\ validate_price_request(r)
                 /\ a[1].request = r /\ a[1].layout = payload_layout(r)
                 /\ a[1].channel_id = ChannelId(r.channel) /\ r.channel \in Channels
                 /\ r.formats = json.formats
<1>1. CASE Deserialize(json) = None
  <2>1. a = Some([ok |-> FALSE])
    BY <1>1, Zenon DEF Answer
  <2>2. a[1] = [ok |-> FALSE]
    BY <2>1, SomeIsNotNone, Zenon
  <2>3. ~a[1].ok
    BY <2>2, SMT
  <2> QED
    BY <1>1, <2>3, Zenon
<1>2. CASE Deserialize(json) # None
  <2>1. PICK channel \in Channels :
           LET r == [json EXCEPT !.channel = channel]
           IN  /\ Deserialize(json) = Some(r) /\ validate_price_request(r)
               /\ r \in PriceRequests(Channels) /\ r.channel = channel /\ r.formats = json.formats
    BY <1>2, Deserialized, Zenon
  <2> DEFINE r == [json EXCEPT !.channel = channel]
             found == [ok |-> TRUE, request |-> r, layout |-> payload_layout(r),
                       channel_id |-> ChannelId(r.channel)]
  <2>2. /\ Deserialize(json) = Some(r) /\ validate_price_request(r) /\ r \in PriceRequests(Channels)
        /\ r.channel \in Channels /\ r.formats = json.formats
    BY <2>1, Zenon
  <2> HIDE DEF r
  <2>3. a = Some(found)
    BY <1>2, <2>2, SomeIsNotNone, Zenon DEF Answer
  <2>4. a[1] = found
    BY <2>3, SomeIsNotNone, Zenon
  <2>5. /\ a[1].ok = TRUE /\ a[1].request = r /\ a[1].layout = payload_layout(r)
        /\ a[1].channel_id = ChannelId(r.channel)
    BY <2>4, SMT
  <2> QED
    BY <2>2, <2>5, Zenon
<1> QED
  BY <1>1, <1>2, Zenon

\* Whatever lists, rates and numbers there are, and whatever a client does to a
\* request between new and sending it: a request that the server's Deserialize
\* accepts names its feeds in one way and once, is answered with the formats
\* and properties it asked for, and has a channel whose id names it; and one
\* that was built and not changed is accepted as what it was.
THEOREM RequestsServedAsAsked == RequestSpec => []ServedAsAsked
<1>1. RequestInv => ServedAsAsked
  <2>1. SUFFICES ASSUME RequestInv, served # None PROVE ServedAsAsked
    BY Zenon DEF ServedAsAsked, OnlyValidServed, BuiltIsServed, ChannelIdNamesIt, Accepted
  <2>2. HeldOK /\ WireOK /\ AnswerOK
    BY <2>1, Zenon DEF RequestInv
  <2>3. wire # None /\ wire[1] \in PriceRequests(Jsons) /\ served = Answer(wire[1])
    BY <2>1, <2>2, Zenon DEF WireOK, AnswerOK
  <2>4. CASE ~served[1].ok /\ Deserialize(wire[1]) = None
    <3>1. ~intact
      <4>1. SUFFICES ASSUME intact PROVE FALSE
        BY Zenon
      <4>2. /\ wire[1] = WireOf(held[1]) /\ held[1] \in PriceRequests(Channels)
            /\ validate_price_request(held[1])
        BY <4>1, <2>2, <2>3, Zenon DEF HeldOK, WireOK
      <4>3. Deserialize(wire[1]) = Some(held[1])
        BY <4>2, SentIsRead, Zenon
      <4> QED
        BY <4>3, <2>4, SomeIsNotNone, Zenon
    <3> QED
      BY <3>1, <2>4, Zenon DEF ServedAsAsked, OnlyValidServed, BuiltIsServed, ChannelIdNamesIt, Accepted
  <2>5. ASSUME NEW r \in PriceRequests(Channels),
               /\ served[1].ok /\ Deserialize(wire[1]) = Some(r) /\ validate_price_request(r)
               /\ served[1].request = r /\ served[1].layout = payload_layout(r)
               /\ served[1].channel_id = ChannelId(r.channel) /\ r.channel \in Channels
               /\ r.formats = wire[1].formats
        PROVE  ServedAsAsked
    <3>1. ValidAnswer(r, payload_layout(r))
      BY <2>5, ValidIsAnswered, Zenon
    <3>2. OnlyValidServed
      BY <3>1, <2>5, Zenon DEF ValidAnswer, OnlyValidServed
    <3>3. ChannelIdNamesIt
      BY <2>5, ChannelNamed, Zenon DEF ChannelIdNamesIt
    <3>4. BuiltIsServed
      <4>1. SUFFICES ASSUME intact PROVE served[1].ok /\ served[1].request = held[1]
        BY Zenon DEF BuiltIsServed
      <4>2. /\ wire[1] = WireOf(held[1]) /\ held[1] \in PriceRequests(Channels)
            /\ validate_price_request(held[1])
        BY <4>1, <2>2, <2>3, Zenon DEF HeldOK, WireOK
      <4>3. Deserialize(wire[1]) = Some(held[1])
        BY <4>2, SentIsRead, Zenon
      <4>4. r = held[1]
        BY <4>3, <2>5, SomeIsNotNone, Zenon
      <4> QED
        BY <4>4, <2>5, Zenon
    <3> QED
      BY <3>2, <3>3, <3>4, Zenon DEF ServedAsAsked
  <2> QED
    BY <2>3, <2>4, <2>5, AnswerFacts, Zenon
<1> QED
  BY <1>1, AlwaysAnswered, PTL
=============================================================================
