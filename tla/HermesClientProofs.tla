-------------------------- MODULE HermesClientProofs --------------------------
(* Proofs about HermesClient, for any connections, feeds, messages and       *)
(* capacities.                                                               *)
EXTENDS HermesClient, FiniteSetTheorems, WellFoundedInduction, TLAPS

USE ZenonT(30)

-----------------------------------------------------------------------------
(* What Vec::retain leaves of a list *)

\* A set of naturals that is not empty has a least element.
LEMMA LeastNatural ==
    ASSUME NEW T \in SUBSET Nat, T # {}
    PROVE  \E x \in T : \A y \in T : x <= y
<1>1. IsWellFoundedOn(OpToRel(<, Nat), Nat)
  BY NatLessThanWellFounded
<1>2. PICK x \in T : \A y \in T : ~ (<<y, x>> \in OpToRel(<, Nat))
  BY <1>1, WFMin
<1>3. \A y \in T : ~ (y < x)
  BY <1>2 DEF OpToRel
<1> QED BY <1>3, SMT

\* Enumerations of a set of indices in increasing order.
Increasing(S) ==
    {ix \in [1..Cardinality(S) -> S] : \A i, j \in 1..Cardinality(S) : i < j => ix[i] < ix[j]}

\* A finite set of indices can be enumerated in increasing order: its least
\* element, then the others.
LEMMA IncreasingExists ==
    ASSUME NEW S \in SUBSET Nat, IsFiniteSet(S)
    PROVE  Increasing(S) # {}
<1> DEFINE Bad == {n \in Nat : \E T \in SUBSET Nat :
                      IsFiniteSet(T) /\ Cardinality(T) = n /\ Increasing(T) = {}}
<1>1. SUFFICES ASSUME Increasing(S) = {} PROVE FALSE
  OBVIOUS
<1>2. Cardinality(S) \in Bad
  BY <1>1, FS_CardinalityType
<1>3. PICK n \in Bad : \A m \in Bad : n <= m
  BY <1>2, LeastNatural
<1>4. PICK T \in SUBSET Nat : IsFiniteSet(T) /\ Cardinality(T) = n /\ Increasing(T) = {}
  BY <1>3
<1>5. n \in Nat /\ n # 0
  <2>1. SUFFICES ASSUME n = 0 PROVE FALSE
    BY <1>3
  <2>2. T = {}
    BY <1>4, <2>1, FS_EmptySet
  <2>3. [i \in 1..0 |-> 0] \in Increasing(T)
    BY <1>4, <2>1, <2>2, SMT DEF Increasing
  <2> QED BY <1>4, <2>3
<1>6. T # {}
  BY <1>4, <1>5, FS_EmptySet
<1>7. PICK x \in T : \A y \in T : x <= y
  BY <1>6, LeastNatural
<1> DEFINE R == T \ {x}
<1>8. IsFiniteSet(R) /\ Cardinality(R) = n - 1 /\ R \in SUBSET Nat
  BY <1>4, <1>7, FS_RemoveElement
<1>9. n - 1 \in Nat /\ ~(n <= n - 1)
  BY <1>5, SMT
<1>10. PICK ix : ix \in Increasing(R)
  BY <1>3, <1>8, <1>9
<1> DEFINE new == [k \in 1..n |-> IF k = 1 THEN x ELSE ix[k - 1]]
<1>11. ix \in [1..(n - 1) -> R] /\ \A i, j \in 1..(n - 1) : i < j => ix[i] < ix[j]
  BY <1>8, <1>10 DEF Increasing
<1>12. \A k \in 1..n : k # 1 => k - 1 \in 1..(n - 1) /\ ix[k - 1] \in R
  BY <1>5, <1>11, SMT
<1>13. new \in [1..n -> T]
  BY <1>7, <1>12
<1>14. ASSUME NEW i \in 1..n, NEW j \in 1..n, i < j PROVE new[i] < new[j]
  <2>1. j # 1 /\ j - 1 \in 1..(n - 1) /\ new[j] = ix[j - 1]
    BY <1>5, <1>14, SMT
  <2>2. CASE i = 1
    <3>1. ix[j - 1] \in R
      BY <2>1, <1>12
    <3>2. ix[j - 1] \in Nat /\ x \in Nat /\ x <= ix[j - 1] /\ x # ix[j - 1]
      BY <3>1, <1>4, <1>7
    <3>3. new[i] = x
      BY <2>2
    <3> QED BY <2>1, <3>2, <3>3, SMT
  <2>3. CASE i # 1
    <3>1. i - 1 \in 1..(n - 1) /\ i - 1 < j - 1 /\ new[i] = ix[i - 1]
      BY <1>5, <1>14, <2>3, SMT
    <3>2. ix[i - 1] < ix[j - 1]
      BY <2>1, <3>1, <1>11
    <3> QED BY <2>1, <3>1, <3>2
  <2> QED BY <2>2, <2>3
<1>15. new \in Increasing(T)
  <2> HIDE DEF new
  <2> QED BY <1>4, <1>13, <1>14 DEF Increasing
<1> QED BY <1>4, <1>15

\* InOrder enumerates all of a finite set of indices, each once, in order.
LEMMA InOrderEnumerates ==
    ASSUME NEW S \in SUBSET Nat, IsFiniteSet(S)
    PROVE  /\ InOrder(S) \in [1..Cardinality(S) -> S]
           /\ \A i, j \in 1..Cardinality(S) : i < j => InOrder(S)[i] < InOrder(S)[j]
           /\ \A k \in S : \E i \in 1..Cardinality(S) : InOrder(S)[i] = k
<1> DEFINE n == Cardinality(S)
<1>1. n \in Nat
  BY FS_CardinalityType
<1>2. PICK ix : ix \in Increasing(S)
  BY IncreasingExists
<1>3. /\ ix \in [1..n -> S] /\ DOMAIN ix = 1..n
      /\ \A i, j \in DOMAIN ix : i < j => ix[i] < ix[j]
  BY <1>2 DEF Increasing
<1>4. /\ InOrder(S) \in [1..n -> S]
      /\ \A i, j \in DOMAIN InOrder(S) : i < j => InOrder(S)[i] < InOrder(S)[j]
  BY <1>3 DEF InOrder
<1>5. ASSUME NEW k \in S, \A i \in 1..n : InOrder(S)[i] # k PROVE FALSE
  <2>1. IsFiniteSet(S \ {k}) /\ Cardinality(S \ {k}) = n - 1
    BY FS_RemoveElement
  <2>2. IsFiniteSet(1..n) /\ Cardinality(1..n) = n
    BY <1>1, FS_Interval, SMT
  <2>3. InOrder(S) \in [1..n -> S \ {k}]
    BY <1>4, <1>5
  <2>4. Cardinality(S \ {k}) < Cardinality(1..n)
    BY <1>1, <2>1, <2>2, SMT
  <2>5. PICK i \in 1..n, j \in 1..n : i # j /\ InOrder(S)[i] = InOrder(S)[j]
    <3>1. ASSUME NEW D, NEW U, NEW f \in [D -> U], IsFiniteSet(D), IsFiniteSet(U),
                 Cardinality(U) < Cardinality(D)
          PROVE  \E x \in D, y \in D : x # y /\ f[x] = f[y]
      BY <3>1, FS_PigeonHole, SMT
    <3> HIDE DEF n
    <3> QED BY <2>1, <2>2, <2>3, <2>4, <3>1
  <2>6. i < j \/ j < i
    BY <1>1, <2>5, SMT
  <2>7. InOrder(S)[i] \in Nat /\ InOrder(S)[j] \in Nat
    BY <1>4
  <2>8. ~(InOrder(S)[i] < InOrder(S)[j]) /\ ~(InOrder(S)[j] < InOrder(S)[i])
    BY <2>5, <2>7, SMT
  <2> QED BY <1>4, <2>6, <2>8
<1> QED BY <1>4, <1>5

\* v is what taking ids out of subs leaves: its entries are entries of subs without
\* ids, and an entry of subs that names another id still has one in v.
KeptFrom(v, subs, ids) ==
    /\ v \in Seq(Subscriptions)
    /\ \A k \in DOMAIN v : \E i \in DOMAIN subs :
          v[k].ids = subs[i].ids \ ids /\ v[k].option = subs[i].option
    /\ \A i \in DOMAIN subs : subs[i].ids \ ids # {} =>
          \E k \in DOMAIN v : v[k].ids = subs[i].ids \ ids /\ v[k].option = subs[i].option

\* What removing ids leaves of a list: every entry of the new list is one of the
\* old without the ids and not empty, and every entry of the old that names
\* another id is still there (remove_ids_from_subscription and retain).
LEMMA WithoutKeeps ==
    ASSUME NEW subs \in Seq(Subscriptions), NEW ids
    PROVE  KeptFrom(Without(subs, ids), subs, ids)
<1> DEFINE kept == {i \in DOMAIN subs : subs[i].ids \ ids # {}}
           n == Cardinality(kept)
           left(i) == [ids |-> subs[i].ids \ ids, option |-> subs[i].option]
<1>1. Len(subs) \in Nat /\ DOMAIN subs = 1..Len(subs) /\ \A i \in DOMAIN subs : subs[i] \in Subscriptions
  BY SMT
<1>2. kept \in SUBSET Nat /\ IsFiniteSet(kept)
  <2>1. kept \in SUBSET (1..Len(subs)) /\ (1..Len(subs)) \in SUBSET Nat
    BY <1>1, SMT
  <2>2. IsFiniteSet(1..Len(subs))
    BY <1>1, FS_Interval, SMT
  <2> QED BY <2>1, <2>2, FS_Subset
<1>3. n \in Nat
  BY <1>2, FS_CardinalityType
<1> DEFINE ix == InOrder(kept)
<1>4. ix \in [1..n -> kept] /\ \A k \in kept : \E i \in 1..n : ix[i] = k
  BY <1>2, InOrderEnumerates
<1>5. Without(subs, ids) = [k \in 1..n |-> left(ix[k])]
  BY DEF Without
<1>6. \A i \in kept : left(i) \in Subscriptions
  <2>1. SUFFICES ASSUME NEW i \in kept PROVE left(i) \in Subscriptions
    OBVIOUS
  <2>2. subs[i] \in Subscriptions /\ subs[i].ids \ ids # {}
    BY <1>1
  <2>3. subs[i].ids \in SUBSET PriceIds /\ subs[i].option \in Options
    BY <2>2 DEF Subscriptions
  <2>4. subs[i].ids \ ids \in (SUBSET PriceIds) \ {{}}
    BY <2>2, <2>3
  <2> QED BY <2>3, <2>4, SMT DEF Subscriptions
<1> HIDE DEF n, ix, kept, left
<1>7. Without(subs, ids) \in [1..n -> Subscriptions]
  BY <1>4, <1>5, <1>6
<1>8. Without(subs, ids) \in Seq(Subscriptions)
  <2>1. \A w \in [1..n -> Subscriptions] : w \in Seq(Subscriptions)
    BY <1>3, SMT
  <2> QED BY <1>7, <2>1
<1>9. DOMAIN Without(subs, ids) = 1..n /\ \A k \in 1..n : Without(subs, ids)[k] = left(ix[k])
  BY <1>5
<1>10. ASSUME NEW k \in 1..n
       PROVE  \E i \in DOMAIN subs : /\ Without(subs, ids)[k].ids = subs[i].ids \ ids
                                     /\ Without(subs, ids)[k].option = subs[i].option
  <2>1. ix[k] \in DOMAIN subs
    BY <1>4 DEF kept
  <2>2. left(ix[k]).ids = subs[ix[k]].ids \ ids /\ left(ix[k]).option = subs[ix[k]].option
    BY DEF left
  <2> QED BY <1>9, <2>1, <2>2
<1>11. ASSUME NEW i \in DOMAIN subs, subs[i].ids \ ids # {}
       PROVE  \E k \in 1..n : /\ Without(subs, ids)[k].ids = subs[i].ids \ ids
                              /\ Without(subs, ids)[k].option = subs[i].option
  <2>1. i \in kept
    BY <1>11 DEF kept
  <2>2. PICK k \in 1..n : ix[k] = i
    BY <1>4, <2>1
  <2>3. left(i).ids = subs[i].ids \ ids /\ left(i).option = subs[i].option
    BY DEF left
  <2> QED BY <1>9, <2>2, <2>3
<1> QED BY <1>8, <1>9, <1>10, <1>11 DEF KeptFrom

\* The same of the list handle_request leaves, the request at its end included.
LEMMA NewSubscriptionsKeep ==
    ASSUME NEW subs \in Seq(Subscriptions), NEW r \in Messages
    PROVE  /\ NewSubscriptions(subs, r) \in Seq(Subscriptions)
           /\ \A k \in DOMAIN NewSubscriptions(subs, r) :
                 \/ r.option # None /\ NewSubscriptions(subs, r)[k] = r
                 \/ \E i \in DOMAIN subs :
                       /\ NewSubscriptions(subs, r)[k].ids = subs[i].ids \ r.ids
                       /\ NewSubscriptions(subs, r)[k].option = subs[i].option
           /\ \A i \in DOMAIN subs : subs[i].ids \ r.ids # {} =>
                 \E k \in DOMAIN NewSubscriptions(subs, r) :
                    /\ NewSubscriptions(subs, r)[k].ids = subs[i].ids \ r.ids
                    /\ NewSubscriptions(subs, r)[k].option = subs[i].option
           /\ r.option # None =>
                 \E k \in DOMAIN NewSubscriptions(subs, r) : NewSubscriptions(subs, r)[k] = r
<1> DEFINE w == Without(subs, r.ids)
<1>1. /\ w \in Seq(Subscriptions)
      /\ \A k \in DOMAIN w : \E i \in DOMAIN subs :
            w[k].ids = subs[i].ids \ r.ids /\ w[k].option = subs[i].option
      /\ \A i \in DOMAIN subs : subs[i].ids \ r.ids # {} =>
            \E k \in DOMAIN w : w[k].ids = subs[i].ids \ r.ids /\ w[k].option = subs[i].option
  <2>1. KeptFrom(w, subs, r.ids)
    BY WithoutKeeps
  <2> HIDE DEF w
  <2> QED BY <2>1 DEF KeptFrom
<1> HIDE DEF w
<1>2. CASE r.option = None
  <2>1. NewSubscriptions(subs, r) = w
    BY <1>2 DEF NewSubscriptions, w
  <2> QED BY <1>1, <1>2, <2>1
<1>3. CASE r.option # None
  <2>1. NewSubscriptions(subs, r) = Append(w, r)
    BY <1>3 DEF NewSubscriptions, w
  <2>2. r \in Subscriptions
    BY <1>3 DEF Messages, Subscriptions
  <2>3. /\ Append(w, r) \in Seq(Subscriptions)
        /\ DOMAIN w \subseteq DOMAIN Append(w, r)
        /\ \A k \in DOMAIN w : Append(w, r)[k] = w[k]
        /\ \A k \in DOMAIN Append(w, r) : k \in DOMAIN w \/ Append(w, r)[k] = r
        /\ \E k \in DOMAIN Append(w, r) : Append(w, r)[k] = r
    <3>1. ASSUME NEW T, NEW s \in Seq(T), NEW x \in T
          PROVE  /\ Append(s, x) \in Seq(T)
                 /\ DOMAIN s = 1..Len(s) /\ DOMAIN Append(s, x) = 1..(Len(s) + 1) /\ Len(s) \in Nat
                 /\ \A k \in 1..Len(s) : Append(s, x)[k] = s[k]
                 /\ Append(s, x)[Len(s) + 1] = x
      <4>1. Len(s) \in Nat /\ DOMAIN s = 1..Len(s)
        BY <3>1, SMT
      <4>2. /\ DOMAIN Append(s, x) = 1..(Len(s) + 1) /\ Append(s, x)[Len(s) + 1] = x
            /\ \A k \in 1..Len(s) : Append(s, x)[k] = s[k]
        BY <3>1, <4>1, SMT
      <4>3. Append(s, x) \in Seq(T)
        BY <3>1, SMT
      <4> QED BY <4>1, <4>2, <4>3
    <3>2. /\ Append(w, r) \in Seq(Subscriptions)
          /\ DOMAIN w = 1..Len(w) /\ DOMAIN Append(w, r) = 1..(Len(w) + 1) /\ Len(w) \in Nat
          /\ \A k \in 1..Len(w) : Append(w, r)[k] = w[k]
          /\ Append(w, r)[Len(w) + 1] = r
      <4>1. w \in Seq(Subscriptions)
        BY <1>1
      <4> QED BY <2>2, <3>1, <4>1
    <3>3. ASSUME NEW n \in Nat
          PROVE  /\ 1..n \subseteq 1..(n + 1) /\ n + 1 \in 1..(n + 1)
                 /\ \A k \in 1..(n + 1) : k \in 1..n \/ k = n + 1
      BY <3>3, SMT
    <3>4. /\ 1..Len(w) \subseteq 1..(Len(w) + 1) /\ Len(w) + 1 \in 1..(Len(w) + 1)
          /\ \A k \in 1..(Len(w) + 1) : k \in 1..Len(w) \/ k = Len(w) + 1
      BY <3>2, <3>3
    <3> DEFINE a == Append(w, r)
               n == Len(w)
    <3>5. /\ DOMAIN w = 1..n /\ DOMAIN a = 1..(n + 1)
          /\ \A k \in 1..n : a[k] = w[k]
          /\ a[n + 1] = r
      BY <3>2
    <3>6. /\ 1..n \subseteq 1..(n + 1) /\ n + 1 \in 1..(n + 1)
          /\ \A k \in 1..(n + 1) : k \in 1..n \/ k = n + 1
      BY <3>4
    <3> HIDE DEF a, n
    <3>7. /\ DOMAIN w \subseteq DOMAIN a
          /\ \A k \in DOMAIN w : a[k] = w[k]
          /\ \A k \in DOMAIN a : k \in DOMAIN w \/ a[k] = r
          /\ \E k \in DOMAIN a : a[k] = r
      BY <3>5, <3>6
    <3> QED BY <3>2, <3>7 DEF a
  <2>4. ASSUME NEW k \in DOMAIN Append(w, r), k \in DOMAIN w
        PROVE  \E i \in DOMAIN subs : /\ Append(w, r)[k].ids = subs[i].ids \ r.ids
                                      /\ Append(w, r)[k].option = subs[i].option
    <3>1. PICK i \in DOMAIN subs : w[k].ids = subs[i].ids \ r.ids /\ w[k].option = subs[i].option
      BY <1>1, <2>4
    <3>2. Append(w, r)[k] = w[k]
      BY <2>3, <2>4
    <3> QED BY <3>1, <3>2
  <2>5. ASSUME NEW i \in DOMAIN subs, subs[i].ids \ r.ids # {}
        PROVE  \E k \in DOMAIN Append(w, r) : /\ Append(w, r)[k].ids = subs[i].ids \ r.ids
                                              /\ Append(w, r)[k].option = subs[i].option
    <3>1. PICK k \in DOMAIN w : w[k].ids = subs[i].ids \ r.ids /\ w[k].option = subs[i].option
      BY <1>1, <2>5
    <3> QED BY <2>3, <3>1
  <2> DEFINE new == Append(w, r)
  <2> HIDE DEF new
  <2>6. /\ new \in Seq(Subscriptions)
        /\ \A k \in DOMAIN new :
              \/ new[k] = r
              \/ \E i \in DOMAIN subs : new[k].ids = subs[i].ids \ r.ids /\ new[k].option = subs[i].option
        /\ \A i \in DOMAIN subs : subs[i].ids \ r.ids # {} =>
              \E k \in DOMAIN new : new[k].ids = subs[i].ids \ r.ids /\ new[k].option = subs[i].option
        /\ \E k \in DOMAIN new : new[k] = r
    BY <2>3, <2>4, <2>5 DEF new
  <2>7. NewSubscriptions(subs, r) = new
    BY <2>1 DEF new
  <2> QED BY <1>3, <2>6, <2>7
<1> QED BY <1>2, <1>3
-----------------------------------------------------------------------------
(* The lists and what the service is told *)

\* A message names a feed when one of its ids does.
Names(m, f) == \E id \in m.ids : id[1] = f

\* A list says of every feed what w has for it.
ListTells(subs, w) ==
    \A f \in Feeds :
      /\ \A i \in DOMAIN subs : Names(subs[i], f) => w[f] = subs[i].option
      /\ (\A i \in DOMAIN subs : ~Names(subs[i], f)) => w[f] = None

\* The service was told of the first n entries of a list that says w.
SentTells(subs, n, w, s) ==
    /\ n <= Len(subs)
    /\ \A f \in Feeds :
          s[f] = IF \E i \in 1..n : Names(subs[i], f) THEN w[f] ELSE None

OptionMaps == [Feeds -> Options \cup {None}]

\* Every feed has one spelling.
OneSpelling == \A s, t \in Spellings : s = t

\* What the service has after a request is again a map from feeds to options.
LEMMA ServerAfterType ==
    ASSUME NEW w \in OptionMaps, NEW r \in Messages PROVE ServerAfter(w, r) \in OptionMaps
<1>1. r.option \in Options \cup {None}
  BY DEF Messages
<1> QED BY <1>1 DEF ServerAfter, OptionMaps

\* With one spelling, the ids that name a feed a request names are the request's.
LEMMA SameId ==
    ASSUME OneSpelling, NEW x \in Subscriptions, NEW r \in Messages, NEW f,
           Names(r, f), NEW id \in x.ids, id[1] = f
    PROVE  id \in r.ids
<1>1. id \in Feeds \X Spellings
  BY DEF Subscriptions, PriceIds
<1>2. PICK other \in r.ids : other[1] = f
  BY DEF Names
<1>3. other \in Feeds \X Spellings
  BY DEF Messages, PriceIds
<1>4. id = <<id[1], id[2]>> /\ other = <<other[1], other[2]>> /\ id[2] \in Spellings /\ other[2] \in Spellings
  BY <1>1, <1>3, SMT
<1>5. id[2] = other[2]
  BY <1>4 DEF OneSpelling
<1>6. id[1] = other[1]
  BY <1>2
<1>7. id = other
  BY <1>4, <1>5, <1>6
<1> QED BY <1>2, <1>7

\* handle_request's new list says what the requests add up to, with the new one.
LEMMA NewListTells ==
    ASSUME OneSpelling, NEW subs \in Seq(Subscriptions), NEW r \in Messages,
           NEW w \in OptionMaps, ListTells(subs, w)
    PROVE  ListTells(NewSubscriptions(subs, r), ServerAfter(w, r))
<1> DEFINE new == NewSubscriptions(subs, r)
           after == ServerAfter(w, r)
<1>0. \A i \in DOMAIN subs : subs[i] \in Subscriptions
  BY SMT
<1>1. /\ new \in Seq(Subscriptions)
      /\ \A k \in DOMAIN new :
            \/ r.option # None /\ new[k] = r
            \/ \E i \in DOMAIN subs : new[k].ids = subs[i].ids \ r.ids /\ new[k].option = subs[i].option
      /\ \A i \in DOMAIN subs : subs[i].ids \ r.ids # {} =>
            \E k \in DOMAIN new : new[k].ids = subs[i].ids \ r.ids /\ new[k].option = subs[i].option
      /\ r.option # None => \E k \in DOMAIN new : new[k] = r
  BY NewSubscriptionsKeep
<1>2. \A f \in Feeds : after[f] = IF Names(r, f) THEN r.option ELSE w[f]
  BY DEF ServerAfter, Names
<1> HIDE DEF new, after
<1>3. SUFFICES ASSUME NEW f \in Feeds
               PROVE  /\ \A k \in DOMAIN new : Names(new[k], f) => after[f] = new[k].option
                      /\ (\A k \in DOMAIN new : ~Names(new[k], f)) => after[f] = None
  BY DEF ListTells, new, after
<1>4. CASE Names(r, f)
  <2>1. after[f] = r.option
    BY <1>2, <1>4
  <2>2. ASSUME NEW k \in DOMAIN new, Names(new[k], f) PROVE new[k] = r
    <3>1. SUFFICES ASSUME NEW i \in DOMAIN subs, new[k].ids = subs[i].ids \ r.ids PROVE FALSE
      BY <1>1
    <3>2. PICK id \in subs[i].ids \ r.ids : id[1] = f
      BY <2>2, <3>1 DEF Names
    <3>3. id \in r.ids
      BY <1>0, <1>4, <3>2, SameId
    <3> QED BY <3>2, <3>3
  <2>3. (\A k \in DOMAIN new : ~Names(new[k], f)) => r.option = None
    BY <1>1, <1>4
  <2> QED BY <2>1, <2>2, <2>3
<1>5. CASE ~Names(r, f)
  <2>1. after[f] = w[f]
    BY <1>2, <1>5
  <2>2. ASSUME NEW i \in DOMAIN subs, NEW k \in DOMAIN new, new[k].ids = subs[i].ids \ r.ids
        PROVE  Names(new[k], f) <=> Names(subs[i], f)
    BY <1>5, <2>2 DEF Names
  <2>3. ASSUME NEW k \in DOMAIN new, Names(new[k], f) PROVE w[f] = new[k].option
    <3>1. PICK i \in DOMAIN subs : new[k].ids = subs[i].ids \ r.ids /\ new[k].option = subs[i].option
      BY <1>1, <1>5, <2>3
    <3>2. Names(subs[i], f)
      BY <2>2, <2>3, <3>1
    <3> QED BY <3>1, <3>2 DEF ListTells
  <2>4. ASSUME \A k \in DOMAIN new : ~Names(new[k], f) PROVE w[f] = None
    <3>1. ASSUME NEW i \in DOMAIN subs, Names(subs[i], f) PROVE FALSE
      <4>1. subs[i].ids \ r.ids # {}
        BY <1>5, <3>1 DEF Names
      <4>2. PICK k \in DOMAIN new : new[k].ids = subs[i].ids \ r.ids
        BY <1>1, <4>1
      <4> QED BY <2>2, <2>4, <3>1, <4>2
    <3> QED BY <3>1 DEF ListTells
  <2> QED BY <2>1, <2>3, <2>4
<1> QED BY <1>4, <1>5

\* Replaying one more entry: the service was told of one more.
LEMMA OneMoreSent ==
    ASSUME NEW subs \in Seq(Subscriptions), NEW n \in Nat, n < Len(subs),
           NEW w \in OptionMaps, NEW s \in OptionMaps, ListTells(subs, w), SentTells(subs, n, w, s)
    PROVE  SentTells(subs, n + 1, w, ServerAfter(s, subs[n + 1]))
<1>1. n + 1 <= Len(subs) /\ n + 1 \in DOMAIN subs /\ Len(subs) \in Nat
  BY SMT
<1>2. n + 1 \in 1..(n + 1) /\ \A i \in 1..(n + 1) : i \in 1..n \/ i = n + 1
  BY SMT
<1>3. \A i \in 1..n : i \in 1..(n + 1)
  BY SMT
<1>4. ASSUME NEW f \in Feeds
      PROVE  ServerAfter(s, subs[n + 1])[f]
               = IF \E i \in 1..(n + 1) : Names(subs[i], f) THEN w[f] ELSE None
  <2>1. ServerAfter(s, subs[n + 1])[f] = IF Names(subs[n + 1], f) THEN subs[n + 1].option ELSE s[f]
    BY DEF ServerAfter, Names
  <2>2. CASE Names(subs[n + 1], f)
    <3>1. w[f] = subs[n + 1].option
      BY <1>1, <2>2 DEF ListTells
    <3> QED BY <1>2, <2>1, <2>2, <3>1
  <2>3. CASE ~Names(subs[n + 1], f)
    <3>1. (\E i \in 1..(n + 1) : Names(subs[i], f)) <=> \E i \in 1..n : Names(subs[i], f)
      BY <1>2, <1>3, <2>3
    <3>2. s[f] = IF \E i \in 1..n : Names(subs[i], f) THEN w[f] ELSE None
      BY DEF SentTells
    <3> QED BY <2>1, <2>3, <3>1, <3>2
  <2> QED BY <2>2, <2>3
<1> QED BY <1>1, <1>4 DEF SentTells

\* All entries replayed: the service has what the list says.
LEMMA AllSent ==
    ASSUME NEW subs \in Seq(Subscriptions), NEW n \in Nat, ~(n < Len(subs)),
           NEW w \in OptionMaps, NEW s \in OptionMaps, ListTells(subs, w), SentTells(subs, n, w, s)
    PROVE  s = w
<1>1. n = Len(subs) /\ DOMAIN subs = 1..n
  <2>1. Len(subs) \in Nat /\ DOMAIN subs = 1..Len(subs)
    BY SMT
  <2>2. n <= Len(subs)
    BY DEF SentTells
  <2>3. \A k \in Nat : ~(n < k) /\ n <= k => n = k
    BY SMT
  <2>4. n = Len(subs)
    BY <2>1, <2>2, <2>3
  <2> QED BY <2>1, <2>4
<1>2. \A f \in Feeds : s[f] = w[f]
  BY <1>1 DEF SentTells, ListTells
<1> QED BY <1>2, SMT DEF OptionMaps

\* A new socket: the service was told of nothing.
LEMMA NoneSent ==
    ASSUME NEW subs \in Seq(Subscriptions), NEW w PROVE SentTells(subs, 0, w, Nothing)
<1>1. 0 <= Len(subs)
  BY SMT
<1>2. 1..0 = {}
  BY SMT
<1> QED BY <1>1, <1>2 DEF SentTells, Nothing
-----------------------------------------------------------------------------
(* Types *)

\* What the channels' operations do to a sequence.
LEMMA ChannelFacts ==
    ASSUME NEW T, NEW s \in Seq(T)
    PROVE  /\ \A x \in T : Append(s, x) \in Seq(T)
           /\ s # <<>> => Head(s) \in T /\ Tail(s) \in Seq(T)
           /\ \A n \in Nat : s # <<>> /\ Len(s) <= n => Len(Tail(s)) <= n
           /\ \A n \in Nat, x \in T : Len(s) < n => Len(Append(s, x)) <= n
           /\ \A n \in Nat, x \in T : Len(s) < n => s \o <<x>> \in Seq(T) /\ Len(s \o <<x>>) <= n
           /\ s \o <<>> = s
           /\ <<>> \in Seq(T) /\ \A n \in Nat : Len(<<>>) <= n
           /\ \A n \in Nat : Len(s) < n => Len(s) <= n
<1>1. \A x \in T : Append(s, x) \in Seq(T)
  BY SMT
<1>2. s # <<>> => Head(s) \in T /\ Tail(s) \in Seq(T)
  BY SMT
<1>3. \A n \in Nat : s # <<>> /\ Len(s) <= n => Len(Tail(s)) <= n
  BY SMT
<1>4. \A n \in Nat, x \in T : Len(s) < n => Len(Append(s, x)) <= n
  BY SMT
<1>5. \A n \in Nat, x \in T : Len(s) < n => s \o <<x>> \in Seq(T) /\ Len(s \o <<x>>) <= n
  BY SMT
<1>6. s \o <<>> = s
  BY SMT
<1>7. <<>> \in Seq(T) /\ \A n \in Nat : Len(<<>>) <= n
  BY SMT
<1>8. \A n \in Nat : Len(s) < n => Len(s) <= n
  BY SMT
<1> QED BY <1>1, <1>2, <1>3, <1>4, <1>5, <1>6, <1>7, <1>8

\* The channel after a send of at most one message.
LEMMA SendOne ==
    ASSUME NEW s \in Seq(Msgs), NEW h \in AtMostOne, NEW n \in Nat, Len(s) < n
    PROVE  s \o h \in Seq(Msgs) /\ Len(s \o h) <= n
<1>1. CASE h = <<>>
  BY <1>1, ChannelFacts
<1>2. CASE h \in {<<m>> : m \in Msgs}
  BY <1>2, ChannelFacts
<1> QED BY <1>1, <1>2 DEF AtMostOne

\* A failed start leaves well-typed state.
LEMMA FailedTypes ==
    ASSUME TypeOK, NEW c \in Conns, Failed(c)
    PROVE  /\ pc' \in [Conns -> {"connect", "replay", "select", "forward", "sleep"}]
           /\ replayed' \in [Conns -> Nat] /\ server' \in [Conns -> OptionMaps]
           /\ held' \in [Conns -> AtMostOne]
<1>1. Nothing \in OptionMaps /\ <<>> \in AtMostOne /\ 0 \in Nat
  BY DEF Nothing, OptionMaps, AtMostOne
<1> QED BY <1>1 DEF TypeOK, Failed, OptionMaps

\* Every step keeps the types, and the channels within their capacities.
LEMMA TypeStep == ASSUME TypeOK, [Next]_vars PROVE TypeOK'
<1> USE DEF OptionMaps
<1>0. /\ ResponseCapacity \in Nat /\ channel_capacity \in Nat /\ MaxRequests \in Nat
      /\ None \notin Options
  BY HermesAssumption DEF HermesAssumption
<1>1. ASSUME NEW c \in Conns, SleepEnds(c) PROVE TypeOK'
  BY <1>1 DEF TypeOK, SleepEnds, taskvars
<1>2. ASSUME NEW c \in Conns, Connect(c) PROVE TypeOK'
  <2>1. CASE Failed(c)
    BY <1>2, <2>1, FailedTypes DEF TypeOK, Connect, taskvars
  <2>2. CASE pc' = [pc EXCEPT ![c] = "replay"] /\ UNCHANGED <<server, replayed, held>>
    BY <1>2, <2>2 DEF TypeOK, Connect, taskvars
  <2> QED BY <1>2, <2>1, <2>2 DEF Connect
<1>3. ASSUME NEW c \in Conns, Replay(c) PROVE TypeOK'
  <2>1. subscriptions[c] \in Seq(Subscriptions) /\ replayed[c] \in Nat /\ server[c] \in OptionMaps
    BY DEF TypeOK
  <2>2. \A x \in Subscriptions : x \in Messages
    BY DEF Subscriptions, Messages
  <2>3. \A n \in Nat : n + 1 \in Nat
    BY SMT
  <2>4. CASE replayed[c] < Len(subscriptions[c])
    <3>1. subscriptions[c][replayed[c] + 1] \in Subscriptions
      BY <2>1, <2>4, SMT
    <3>2. ServerAfter(server[c], subscriptions[c][replayed[c] + 1]) \in OptionMaps
      BY <2>1, <2>2, <3>1, ServerAfterType
    <3>3. server' \in [Conns -> OptionMaps] /\ replayed' \in [Conns -> Nat] /\ pc' = pc
      BY <1>3, <2>1, <2>3, <2>4, <3>2 DEF TypeOK, Replay
    <3> QED BY <1>3, <3>3 DEF TypeOK, Replay, taskvars
  <2>5. CASE ~(replayed[c] < Len(subscriptions[c]))
    <3>1. pc' = [pc EXCEPT ![c] = "select"] /\ replayed' = [replayed EXCEPT ![c] = 0] /\ server' = server
      BY <1>3, <2>5 DEF Replay
    <3>2. /\ pc' \in [Conns -> {"connect", "replay", "select", "forward", "sleep"}]
          /\ replayed' \in [Conns -> Nat]
      BY <3>1 DEF TypeOK
    <3> QED BY <1>3, <3>1, <3>2 DEF TypeOK, Replay, taskvars
  <2> QED BY <2>4, <2>5
<1>4. ASSUME NEW c \in Conns, SocketFails(c) PROVE TypeOK'
  BY <1>4, FailedTypes DEF TypeOK, SocketFails, taskvars
<1>5. ASSUME NEW c \in Conns, NEW m \in Msgs, Receive(c, m) PROVE TypeOK'
  <2>1. <<m>> \in AtMostOne
    BY DEF AtMostOne
  <2> QED BY <1>5, <2>1 DEF TypeOK, Receive, taskvars
<1>6. ASSUME NEW c \in Conns, Forward(c) PROVE TypeOK'
  <2>1. CASE dedup = "done" /\ Failed(c) /\ UNCHANGED responses
    BY <1>6, <2>1, FailedTypes DEF TypeOK, Forward, taskvars
  <2>2. CASE /\ dedup # "done" /\ Len(responses) < ResponseCapacity
             /\ responses' = responses \o held[c]
             /\ pc' = [pc EXCEPT ![c] = "select"] /\ held' = [held EXCEPT ![c] = <<>>]
             /\ UNCHANGED <<server, replayed>>
    <3>1. responses' \in Seq(Msgs) /\ Len(responses') <= ResponseCapacity
      BY <1>0, <2>2, SendOne DEF TypeOK
    <3>2. <<>> \in AtMostOne
      BY DEF AtMostOne
    <3> QED BY <1>6, <2>2, <3>1, <3>2 DEF TypeOK, Forward, taskvars
  <2> QED BY <1>6, <2>1, <2>2 DEF Forward
<1>7. ASSUME NEW c \in Conns, handle_request(c) PROVE TypeOK'
  <2>1. requests[c] \in Seq(Messages) /\ requests[c] # <<>> /\ subscriptions[c] \in Seq(Subscriptions)
        /\ server[c] \in OptionMaps /\ want[c] \in OptionMaps
    BY <1>7 DEF TypeOK, handle_request
  <2> DEFINE r == Head(requests[c])
  <2>2. r \in Messages /\ Tail(requests[c]) \in Seq(Messages)
    BY <2>1, ChannelFacts
  <2>3. NewSubscriptions(subscriptions[c], r) \in Seq(Subscriptions)
    BY <2>1, <2>2, NewSubscriptionsKeep
  <2>4. ServerAfter(want[c], r) \in OptionMaps /\ ServerAfter(server[c], r) \in OptionMaps
    BY <2>1, <2>2, ServerAfterType
  <2>5. /\ subscriptions' = [subscriptions EXCEPT ![c] = NewSubscriptions(subscriptions[c], r)]
        /\ want' = [want EXCEPT ![c] = ServerAfter(want[c], r)]
        /\ \/ /\ server' = [server EXCEPT ![c] = ServerAfter(server[c], r)]
              /\ UNCHANGED <<pc, replayed, held>>
           \/ Failed(c)
        /\ requests' = [requests EXCEPT ![c] = Tail(requests[c])]
        /\ UNCHANGED <<responses, taskvars, count>>
    BY <1>7 DEF handle_request
  <2> HIDE DEF r
  <2>6. subscriptions' \in [Conns -> Seq(Subscriptions)] /\ want' \in [Conns -> OptionMaps]
        /\ requests' \in [Conns -> Seq(Messages)]
    BY <2>2, <2>3, <2>4, <2>5 DEF TypeOK
  <2>7. CASE server' = [server EXCEPT ![c] = ServerAfter(server[c], r)] /\ UNCHANGED <<pc, replayed, held>>
    <3>1. server' \in [Conns -> OptionMaps]
      BY <2>4, <2>7 DEF TypeOK
    <3> QED BY <2>5, <2>6, <2>7, <3>1 DEF TypeOK, taskvars
  <2>8. CASE Failed(c)
    BY <2>5, <2>6, <2>8, FailedTypes DEF TypeOK, taskvars
  <2> QED BY <2>5, <2>7, <2>8
<1>8. ASSUME NEW m \in Msgs, DedupTakes(m) PROVE TypeOK'
  <2>1. responses \in Seq(Msgs) /\ responses # <<>> /\ Len(responses) <= ResponseCapacity
        /\ out \in Seq(Msgs) /\ Len(out) <= channel_capacity
    BY <1>8 DEF TypeOK, DedupTakes
  <2>2. Tail(responses) \in Seq(Msgs) /\ Len(Tail(responses)) <= ResponseCapacity
    BY <1>0, <2>1, ChannelFacts
  <2>3. <<>> \in Seq(Msgs) /\ Len(<<>>) <= ResponseCapacity
    BY <1>0, <2>1, ChannelFacts
  <2>4. responses' \in Seq(Msgs) /\ Len(responses') <= ResponseCapacity
    BY <1>8, <2>2, <2>3 DEF DedupTakes
  <2>5. out' \in Seq(Msgs) /\ Len(out') <= channel_capacity
    <3>1. CASE Len(out) < channel_capacity /\ out' = Append(out, m)
      BY <1>0, <2>1, <3>1, ChannelFacts
    <3>2. CASE out' = out
      BY <2>1, <3>2
    <3> QED BY <1>8, <3>1, <3>2 DEF DedupTakes
  <2>6. dedup' \in {"recv", "send", "done"}
    BY <1>8 DEF DedupTakes, TypeOK
  <2>7. <<m>> \in AtMostOne
    BY DEF AtMostOne
  <2>8. sending' \in AtMostOne /\ seen' \in SUBSET Msgs
    BY <1>8, <2>7 DEF DedupTakes, TypeOK
  <2> QED BY <1>8, <2>4, <2>5, <2>6, <2>8 DEF TypeOK, DedupTakes, connvars
<1>9. ASSUME NEW m \in Msgs, Expire(m) PROVE TypeOK'
  BY <1>9 DEF TypeOK, Expire, connvars
<1>10. ASSUME DedupSends PROVE TypeOK'
  <2>1. <<>> \in AtMostOne
    BY DEF AtMostOne
  <2>2. out' \in Seq(Msgs) /\ Len(out') <= channel_capacity
    <3>1. CASE dropped
      BY <1>10, <3>1 DEF TypeOK, DedupSends
    <3>2. CASE ~dropped
      BY <1>0, <1>10, <3>2, SendOne DEF TypeOK, DedupSends
    <3> QED BY <3>1, <3>2
  <2> QED BY <1>10, <2>1, <2>2 DEF TypeOK, DedupSends, connvars
<1>11. ASSUME UserReads PROVE TypeOK'
  <2>1. Tail(out) \in Seq(Msgs) /\ Len(Tail(out)) <= channel_capacity
    BY <1>0, <1>11, ChannelFacts DEF TypeOK, UserReads
  <2> QED BY <1>11, <2>1 DEF TypeOK, UserReads, connvars
<1>12. ASSUME UserDropsReceiver PROVE TypeOK'
  <2>1. <<>> \in Seq(Msgs) /\ Len(<<>>) <= channel_capacity
    BY <1>0, ChannelFacts DEF TypeOK
  <2> QED BY <1>12, <2>1 DEF TypeOK, UserDropsReceiver, connvars
<1>13. ASSUME NEW r \in Messages, send_message(r) PROVE TypeOK'
  <2>1. \A c \in Conns : Append(requests[c], r) \in Seq(Messages)
    BY ChannelFacts DEF TypeOK
  <2>2. requests' \in [Conns -> Seq(Messages)]
    BY <1>13, <2>1 DEF send_message
  <2>3. \A n \in 0..MaxRequests : n < MaxRequests => n + 1 \in 0..MaxRequests
    BY <1>0, SMT
  <2>4. count' \in 0..MaxRequests
    BY <1>13, <2>3 DEF TypeOK, send_message
  <2> QED BY <1>13, <2>2, <2>4 DEF TypeOK, send_message, connvars, taskvars
<1>14. CASE UNCHANGED vars
  BY <1>14 DEF TypeOK, vars, connvars, taskvars
<1> QED
  BY <1>1, <1>2, <1>3, <1>4, <1>5, <1>6, <1>7, <1>8, <1>9, <1>10, <1>11, <1>12, <1>13, <1>14 DEF Next
\* The initial state is well typed.
LEMMA TypeInit == Init => TypeOK
<1>1. SUFFICES ASSUME Init PROVE TypeOK
  OBVIOUS
<1>2. /\ ResponseCapacity \in Nat /\ channel_capacity \in Nat /\ MaxRequests \in Nat
  BY HermesAssumption DEF HermesAssumption
<1>3. /\ <<>> \in Seq(Msgs) /\ <<>> \in Seq(Messages) /\ <<>> \in Seq(Subscriptions)
      /\ Len(<<>>) <= ResponseCapacity /\ Len(<<>>) <= channel_capacity
  BY <1>2, SMT
<1>4. 0 \in Nat /\ 0 \in 0..MaxRequests
  BY <1>2, SMT
<1>5. Nothing \in OptionMaps /\ <<>> \in AtMostOne
  BY DEF Nothing, OptionMaps, AtMostOne
<1> QED BY <1>1, <1>3, <1>4, <1>5 DEF Init, TypeOK, OptionMaps

\* The variables keep their types; the channel from the connections and the
\* user's channel never hold more than their capacities, whichever tasks send.
THEOREM HermesTypes == Spec => []TypeOK
  BY TypeInit, TypeStep, PTL DEF Spec

-----------------------------------------------------------------------------
(* Subscriptions are restored *)

\* What a connection task's list, its socket and the service agree on, where the
\* task is.
ConnTells(c) ==
    /\ ListTells(subscriptions[c], want[c])
    /\ pc[c] \in {"connect", "sleep"} => server[c] = Nothing /\ replayed[c] = 0
    /\ pc[c] = "replay" => SentTells(subscriptions[c], replayed[c], want[c], server[c])
    /\ pc[c] \in {"select", "forward"} => server[c] = want[c]

\* The inductive invariant behind SubscriptionsRestored: the list says of every
\* feed what the requests add up to, and a task that replays has told the service
\* of exactly the entries it has sent.
ListsTellWants == \A c \in Conns : ConnTells(c)

\* A step of another connection leaves a connection's state alone.
LEMMA SameConn ==
    ASSUME NEW c, ConnTells(c), pc'[c] = pc[c], subscriptions'[c] = subscriptions[c],
           replayed'[c] = replayed[c], server'[c] = server[c], want'[c] = want[c]
    PROVE  ConnTells(c)'
  BY DEF ConnTells

\* A failed start, whatever the list has become.
LEMMA FailedTells ==
    ASSUME TypeOK, NEW c \in Conns, Failed(c), ListTells(subscriptions'[c], want'[c])
    PROVE  ConnTells(c)'
<1>1. pc'[c] = "sleep" /\ server'[c] = Nothing /\ replayed'[c] = 0
  BY DEF TypeOK, Failed
<1> QED BY <1>1 DEF ConnTells

\* Every step keeps the lists and the service in agreement.
LEMMA TellStep ==
    ASSUME OneSpelling, TypeOK, ListsTellWants, [Next]_vars PROVE ListsTellWants'
<1>0. /\ pc \in [Conns -> {"connect", "replay", "select", "forward", "sleep"}]
      /\ requests \in [Conns -> Seq(Messages)]
      /\ subscriptions \in [Conns -> Seq(Subscriptions)] /\ replayed \in [Conns -> Nat]
      /\ server \in [Conns -> OptionMaps] /\ want \in [Conns -> OptionMaps]
  BY DEF TypeOK, OptionMaps
<1>1. ASSUME NEW c \in Conns, NEW d \in Conns, d # c, Failed(c),
             UNCHANGED <<subscriptions, want>>
      PROVE  ConnTells(d)'
  <2>1. pc'[d] = pc[d] /\ replayed'[d] = replayed[d] /\ server'[d] = server[d]
    BY <1>0, <1>1 DEF Failed
  <2> QED BY <1>1, <2>1, SameConn DEF ListsTellWants
<1>2. ASSUME NEW c \in Conns, Failed(c), UNCHANGED <<subscriptions, want>> PROVE ListsTellWants'
  <2>1. ListTells(subscriptions'[c], want'[c])
    BY <1>2 DEF ListsTellWants, ConnTells
  <2> QED BY <1>1, <1>2, <2>1, FailedTells DEF ListsTellWants
<1>3. ASSUME NEW c \in Conns, NEW to \in {"connect", "replay", "select", "forward"},
             pc' = [pc EXCEPT ![c] = to], UNCHANGED <<subscriptions, want>>
      PROVE  /\ pc'[c] = to /\ \A d \in Conns : d # c => pc'[d] = pc[d]
             /\ \A d \in Conns : subscriptions'[d] = subscriptions[d] /\ want'[d] = want[d]
  BY <1>0, <1>3
<1>4. ASSUME NEW c \in Conns, SleepEnds(c) PROVE ListsTellWants'
  <2>1. /\ pc'[c] = "connect" /\ \A d \in Conns : d # c => pc'[d] = pc[d]
        /\ UNCHANGED <<subscriptions, want, server, replayed>>
    BY <1>3, <1>4 DEF SleepEnds
  <2>2. ConnTells(c)'
    BY <1>4, <2>1 DEF ListsTellWants, ConnTells, SleepEnds
  <2>3. \A d \in Conns : d # c => ConnTells(d)'
    BY <2>1, SameConn DEF ListsTellWants
  <2> QED BY <2>2, <2>3 DEF ListsTellWants
<1>5. ASSUME NEW c \in Conns, Connect(c) PROVE ListsTellWants'
  <2>1. CASE Failed(c)
    BY <1>2, <1>5, <2>1 DEF Connect
  <2>2. CASE pc' = [pc EXCEPT ![c] = "replay"] /\ UNCHANGED <<server, replayed, held>>
    <3>1. /\ pc'[c] = "replay" /\ \A d \in Conns : d # c => pc'[d] = pc[d]
          /\ UNCHANGED <<subscriptions, want, server, replayed>>
      BY <1>3, <1>5, <2>2 DEF Connect
    <3>2. server[c] = Nothing /\ replayed[c] = 0 /\ ListTells(subscriptions[c], want[c])
      BY <1>5 DEF ListsTellWants, ConnTells, Connect
    <3>3. SentTells(subscriptions[c], 0, want[c], Nothing)
      BY <1>0, NoneSent
    <3>4. ConnTells(c)'
      BY <3>1, <3>2, <3>3 DEF ConnTells
    <3>5. \A d \in Conns : d # c => ConnTells(d)'
      BY <3>1, SameConn DEF ListsTellWants
    <3> QED BY <3>4, <3>5 DEF ListsTellWants
  <2> QED BY <1>5, <2>1, <2>2 DEF Connect
<1>6. ASSUME NEW c \in Conns, Replay(c) PROVE ListsTellWants'
  <2>1. /\ pc[c] = "replay" /\ ListTells(subscriptions[c], want[c])
        /\ SentTells(subscriptions[c], replayed[c], want[c], server[c])
        /\ UNCHANGED <<subscriptions, want>>
    BY <1>6 DEF ListsTellWants, ConnTells, Replay
  <2>2. CASE replayed[c] < Len(subscriptions[c])
    <3>1. /\ server' = [server EXCEPT ![c] = ServerAfter(server[c], subscriptions[c][replayed[c] + 1])]
          /\ replayed' = [replayed EXCEPT ![c] = replayed[c] + 1] /\ pc' = pc
      BY <1>6, <2>2 DEF Replay
    <3>2. /\ server'[c] = ServerAfter(server[c], subscriptions[c][replayed[c] + 1])
          /\ replayed'[c] = replayed[c] + 1
          /\ \A d \in Conns : d # c => server'[d] = server[d] /\ replayed'[d] = replayed[d]
      BY <1>0, <3>1
    <3>3. SentTells(subscriptions[c], replayed[c] + 1, want[c],
                    ServerAfter(server[c], subscriptions[c][replayed[c] + 1]))
      BY <1>0, <2>1, <2>2, OneMoreSent
    <3>4. ConnTells(c)'
      BY <2>1, <3>1, <3>2, <3>3 DEF ConnTells
    <3>5. \A d \in Conns : d # c => ConnTells(d)'
      BY <2>1, <3>1, <3>2, SameConn DEF ListsTellWants
    <3> QED BY <3>4, <3>5 DEF ListsTellWants
  <2>3. CASE ~(replayed[c] < Len(subscriptions[c]))
    <3>1. /\ pc' = [pc EXCEPT ![c] = "select"] /\ server' = server
          /\ replayed' = [replayed EXCEPT ![c] = 0]
      BY <1>6, <2>3 DEF Replay
    <3>2. /\ pc'[c] = "select"
          /\ \A d \in Conns : d # c => pc'[d] = pc[d] /\ replayed'[d] = replayed[d]
      BY <1>0, <3>1
    <3>3. server[c] = want[c]
      BY <1>0, <2>1, <2>3, AllSent
    <3>4. ConnTells(c)'
      BY <2>1, <3>1, <3>2, <3>3 DEF ConnTells
    <3>5. \A d \in Conns : d # c => ConnTells(d)'
      BY <2>1, <3>1, <3>2, SameConn DEF ListsTellWants
    <3> QED BY <3>4, <3>5 DEF ListsTellWants
  <2> QED BY <2>2, <2>3
<1>7. ASSUME NEW c \in Conns, SocketFails(c) PROVE ListsTellWants'
  BY <1>2, <1>7 DEF SocketFails
<1>8. ASSUME NEW c \in Conns, NEW to \in {"select", "forward"}, pc[c] \in {"select", "forward"},
             pc' = [pc EXCEPT ![c] = to], UNCHANGED <<subscriptions, want, server, replayed>>
      PROVE  ListsTellWants'
  <2>1. pc'[c] = to /\ \A d \in Conns : d # c => pc'[d] = pc[d]
    BY <1>0, <1>8
  <2>2. ConnTells(c)'
    BY <1>8, <2>1 DEF ListsTellWants, ConnTells
  <2>3. \A d \in Conns : d # c => ConnTells(d)'
    BY <1>8, <2>1, SameConn DEF ListsTellWants
  <2> QED BY <2>2, <2>3 DEF ListsTellWants
<1>9. ASSUME NEW c \in Conns, NEW m \in Msgs, Receive(c, m) PROVE ListsTellWants'
  BY <1>8, <1>9 DEF Receive
<1>10. ASSUME NEW c \in Conns, Forward(c) PROVE ListsTellWants'
  BY <1>2, <1>8, <1>10 DEF Forward
<1>11. ASSUME NEW c \in Conns, handle_request(c) PROVE ListsTellWants'
  <2> DEFINE r == Head(requests[c])
             subs == NewSubscriptions(subscriptions[c], r)
             w == ServerAfter(want[c], r)
  <2>1. /\ pc[c] = "select"
        /\ subscriptions' = [subscriptions EXCEPT ![c] = subs] /\ want' = [want EXCEPT ![c] = w]
        /\ \/ /\ server' = [server EXCEPT ![c] = ServerAfter(server[c], r)]
              /\ UNCHANGED <<pc, replayed, held>>
           \/ Failed(c)
    BY <1>11 DEF handle_request
  <2>2. r \in Messages
    <3>1. requests[c] \in Seq(Messages) /\ requests[c] # <<>>
      BY <1>0, <1>11 DEF handle_request
    <3> QED BY <3>1, ChannelFacts
  <2>3. server[c] = want[c] /\ ListTells(subscriptions[c], want[c])
    BY <2>1 DEF ListsTellWants, ConnTells
  <2>4. ListTells(subs, w)
    BY <1>0, <2>2, <2>3, NewListTells
  <2>5. ServerAfter(server[c], r) = w
    BY <2>3
  <2> HIDE DEF r, subs, w
  <2>6. /\ subscriptions'[c] = subs /\ want'[c] = w
        /\ \A d \in Conns : d # c => subscriptions'[d] = subscriptions[d] /\ want'[d] = want[d]
    BY <1>0, <2>1
  <2>7. CASE server' = [server EXCEPT ![c] = ServerAfter(server[c], r)] /\ UNCHANGED <<pc, replayed, held>>
    <3>1. server'[c] = w /\ \A d \in Conns : d # c => server'[d] = server[d]
      BY <1>0, <2>5, <2>7
    <3>2. ConnTells(c)'
      BY <2>1, <2>4, <2>6, <2>7, <3>1 DEF ConnTells
    <3>3. \A d \in Conns : d # c => ConnTells(d)'
      BY <2>6, <2>7, <3>1, SameConn DEF ListsTellWants
    <3> QED BY <3>2, <3>3 DEF ListsTellWants
  <2>8. CASE Failed(c)
    <3>1. ConnTells(c)'
      BY <2>4, <2>6, <2>8, FailedTells
    <3>2. \A d \in Conns : d # c => pc'[d] = pc[d] /\ replayed'[d] = replayed[d] /\ server'[d] = server[d]
      BY <1>0, <2>8 DEF Failed
    <3>3. \A d \in Conns : d # c => ConnTells(d)'
      BY <2>6, <3>2, SameConn DEF ListsTellWants
    <3> QED BY <3>1, <3>3 DEF ListsTellWants
  <2> QED BY <2>1, <2>7, <2>8
<1>12. ASSUME UNCHANGED connvars PROVE ListsTellWants'
  BY <1>12 DEF connvars, ListsTellWants, ConnTells
<1> QED
  BY <1>4, <1>5, <1>6, <1>7, <1>9, <1>10, <1>11, <1>12
  DEF Next, DedupTakes, Expire, DedupSends, UserReads, UserDropsReceiver, send_message, vars

\* Whenever a connection serves, the service has for every feed exactly what the
\* requests the task took add up to: no subscription is lost, none comes back and
\* none keeps options that were replaced, at whichever entry of the replay the
\* socket is lost and whichever overlapping sets of ids the requests name, when
\* every feed is spelled in one way (handle_request and start).
THEOREM HermesRestores ==
    ASSUME OneSpelling PROVE Spec => []SubscriptionsRestored
<1>1. Init => ListsTellWants
  <2>1. SUFFICES ASSUME Init, NEW c \in Conns PROVE ConnTells(c)
    BY DEF ListsTellWants
  <2>2. pc[c] = "connect" /\ subscriptions[c] = <<>> /\ want[c] = Nothing
        /\ server[c] = Nothing /\ replayed[c] = 0
    BY <2>1 DEF Init
  <2>3. DOMAIN <<>> = {}
    BY SMT
  <2>4. ListTells(<<>>, Nothing)
    BY <2>3 DEF ListTells, Nothing
  <2> QED BY <2>2, <2>4 DEF ConnTells
<1>2. TypeOK /\ ListsTellWants /\ [Next]_vars => (TypeOK /\ ListsTellWants)'
  BY TypeStep, TellStep
<1>3. ListsTellWants => SubscriptionsRestored
  BY DEF ListsTellWants, ConnTells, SubscriptionsRestored
<1> QED BY <1>1, <1>2, <1>3, TypeInit, PTL DEF Spec
=============================================================================
