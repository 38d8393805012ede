--------------------------- MODULE ContractProofs ---------------------------
(***************************************************************************)
(* The contracts that decide which signers are trusted.                    *)
(*                                                                         *)
(* Solana: the lists of trusted signers stay well formed and behave as the *)
(* maps they stand for, whatever the sizes of the arrays, the signers and  *)
(* the times.                                                              *)
(*                                                                         *)
(* Stellar: first the executor by itself, then the executor and the Lazer  *)
(* contract together, for every set of VAAs, every guardian set and every  *)
(* grace window.                                                           *)
(***************************************************************************)
EXTENDS PythLazerSolana, StellarGovernance, FiniteSetTheorems, TLAPS

USE ZenonT(30)

-----------------------------------------------------------------------------
(* What update_trusted_signer does to a well-formed list *)

\* A signer's entry is the only one, so the first of that name is that entry.
LEMMA FirstPosition ==
    ASSUME NEW n \in Nat, NEW space \in Nat, NEW items, ListOK(n, space, items),
           NEW s, NEW p \in Positions(n, items, s)
    PROVE  (CHOOSE q \in Positions(n, items, s) :
                \A r \in Positions(n, items, s) : q <= r) = p
<1>1. \A q \in Positions(n, items, s) : q = p
  BY DEF Positions, ListOK
<1>2. \A r \in Positions(n, items, s) : p <= r
  BY <1>1, SMT DEF Positions
<1> QED
  BY <1>1, <1>2

\* The four outcomes, with the position of the entry concerned.
Deletes(n, space, items, s, e, u, p) ==
    /\ e = 0 /\ p \in 1..n /\ items[p].pubkey = s
    /\ u = [reply |-> "ok", num |-> n - 1, items |-> Removed(n, space, items, p)]

Modifies(n, items, s, e, u, p) ==
    /\ e # 0 /\ p \in 1..n /\ items[p].pubkey = s
    /\ u = [reply |-> "ok", num |-> n, items |-> Modified(items, p, e)]

Adds(n, space, items, s, e, u) ==
    /\ e # 0 /\ n < MAX /\ \A i \in 1..n : items[i].pubkey # s
    /\ u = [reply |-> "ok", num |-> n + 1, items |-> Added(n, space, items, s, e)]

Refuses(n, items, s, e, u) ==
    /\ e = 0 \/ n >= MAX
    /\ \A i \in 1..n : items[i].pubkey # s
    /\ u = [reply |-> "refused", num |-> n, items |-> items]

\* update_trusted_signer deletes, modifies, adds or refuses.
LEMMA UpdateOutcomes ==
    ASSUME NEW n, NEW space \in Nat, MAX <= space, NEW items, ListOK(n, space, items),
           NEW s, NEW e, NEW u, u = update_trusted_signer(n, space, items, s, e)
    PROVE  \/ \E p \in 1..n : Deletes(n, space, items, s, e, u, p)
           \/ \E p \in 1..n : Modifies(n, items, s, e, u, p)
           \/ Adds(n, space, items, s, e, u)
           \/ Refuses(n, items, s, e, u)
<1>1. n \in Nat /\ n <= MAX /\ n <= space /\ MAX \in Nat
  BY SolanaAssumption, SMT DEF SolanaAssumption, ListOK
<1>2. ~(n > space \/ n > MAX)
  BY <1>1, SMT
<1>3. CASE Positions(n, items, s) = {}
  <2>1. \A i \in 1..n : items[i].pubkey # s
    BY <1>3 DEF Positions
  <2>2. CASE e = 0 \/ n >= MAX
    BY <1>1, <1>3, <2>1, <2>2, SMT DEF update_trusted_signer, Refuses
  <2>3. CASE e # 0 /\ n < MAX
    BY <1>1, <1>3, <2>1, <2>3, SMT DEF update_trusted_signer, Adds
  <2> QED
    BY <1>1, <2>2, <2>3, SMT
<1>4. CASE Positions(n, items, s) # {}
  <2>1. PICK p \in Positions(n, items, s) : TRUE
    BY <1>4
  <2>2. p \in 1..n /\ items[p].pubkey = s
    BY <2>1 DEF Positions
  <2> DEFINE first == CHOOSE q \in Positions(n, items, s) :
                          \A r \in Positions(n, items, s) : q <= r
  <2>3. first = p
    BY <1>1, <2>1, FirstPosition
  <2>4. CASE e = 0
    <3>1. u = [reply |-> "ok", num |-> n - 1, items |-> Removed(n, space, items, first)]
      BY <1>4, <1>2, <2>4, Zenon DEF update_trusted_signer
    <3> HIDE DEF first
    <3> QED
      BY <2>2, <2>3, <2>4, <3>1 DEF Deletes
  <2>5. CASE e # 0
    <3>1. u = [reply |-> "ok", num |-> n, items |-> Modified(items, first, e)]
      BY <1>4, <1>2, <2>5, Zenon DEF update_trusted_signer
    <3> HIDE DEF first
    <3> QED
      BY <2>2, <2>3, <2>5, <3>1 DEF Modifies
  <2> QED
    BY <2>4, <2>5
<1> QED
  BY <1>3, <1>4

-----------------------------------------------------------------------------
(* A well-formed list stays well formed *)

\* Deleting moves the entries behind and fills up with the default.
LEMMA DeleteListOK ==
    ASSUME NEW n, NEW space \in Nat, MAX <= space, NEW items, ListOK(n, space, items),
           NEW p \in 1..n
    PROVE  ListOK(n - 1, space, Removed(n, space, items, p))
<1> DEFINE new == Removed(n, space, items, p)
<1>1. n \in Nat /\ n - 1 \in 0..MAX /\ n <= space /\ MAX \in Nat
  BY SolanaAssumption, SMT DEF SolanaAssumption, ListOK
<1>2. DefaultItem \in [pubkey : Signers, expires_at : Times]
  BY SolanaAssumption DEF SolanaAssumption, DefaultItem
<1>3. /\ \A i \in 1..space : i < p => new[i] = items[i]
      /\ \A i \in 1..space : p <= i /\ i < n => new[i] = items[i + 1]
      /\ \A i \in 1..space : n <= i => new[i] = DefaultItem
  BY <1>1, SMT DEF Removed
<1>4. new \in Items(space)
  <2>1. \A i \in 1..space : new[i] \in [pubkey : Signers, expires_at : Times]
    BY <1>1, <1>2, <1>3, SMT DEF ListOK, Items
  <2>2. new = [i \in 1..space |-> new[i]]
    BY DEF Removed
  <2> HIDE DEF new
  <2> QED
    BY <2>1, <2>2 DEF Items
<1> HIDE DEF new
<1>5. \A i \in 1..(n - 1) : \E k \in 1..n : new[i] = items[k] /\ k = IF i < p THEN i ELSE i + 1
  BY <1>1, <1>3, SMT
<1>6. \A i, j \in 1..(n - 1) : new[i].pubkey = new[j].pubkey => i = j
  BY <1>1, <1>5, SMT DEF ListOK
<1>7. \A i \in 1..(n - 1) : new[i].expires_at # 0
  BY <1>5, SMT DEF ListOK
<1>8. \A i \in 1..space : i > n - 1 => new[i] = DefaultItem
  BY <1>1, <1>3, SMT
<1> QED
  BY <1>1, <1>4, <1>6, <1>7, <1>8 DEF ListOK, new

\* Modifying changes one expiry time.
LEMMA ModifyListOK ==
    ASSUME NEW n, NEW space \in Nat, MAX <= space, NEW items, ListOK(n, space, items),
           NEW p \in 1..n, NEW e \in Times, e # 0
    PROVE  ListOK(n, space, Modified(items, p, e))
<1> DEFINE new == Modified(items, p, e)
<1>1. n \in 0..MAX /\ n <= space /\ MAX \in Nat /\ p \in 1..space
  BY SolanaAssumption, SMT DEF SolanaAssumption, ListOK
<1>2. new \in Items(space)
  BY <1>1 DEF Modified, ListOK, Items
<1>3. \A i \in 1..space : /\ new[i].pubkey = items[i].pubkey
                          /\ new[i].expires_at = IF i = p THEN e ELSE items[i].expires_at
                          /\ i # p => new[i] = items[i]
  BY <1>1 DEF Modified, ListOK, Items
<1> HIDE DEF new
<1> QED
  BY <1>1, <1>2, <1>3, SMT DEF ListOK, new

\* Adding uses the first entry that is not in use.
LEMMA AddListOK ==
    ASSUME NEW n, NEW space \in Nat, MAX <= space, NEW items, ListOK(n, space, items),
           n < MAX, NEW s \in Signers, \A i \in 1..n : items[i].pubkey # s,
           NEW e \in Times, e # 0
    PROVE  ListOK(n + 1, space, Added(n, space, items, s, e))
<1> DEFINE new == Added(n, space, items, s, e)
<1>1. n \in Nat /\ n + 1 \in 0..MAX /\ n + 1 <= space /\ MAX \in Nat
  BY SolanaAssumption, SMT DEF SolanaAssumption, ListOK
<1>2. DefaultItem \in [pubkey : Signers, expires_at : Times]
  BY SolanaAssumption DEF SolanaAssumption, DefaultItem
<1>3. /\ \A i \in 1..space : i <= n => new[i] = items[i]
      /\ new[n + 1] = [pubkey |-> s, expires_at |-> e]
      /\ \A i \in 1..space : i > n + 1 => new[i] = DefaultItem
  BY <1>1, SMT DEF Added
<1>4. new \in Items(space)
  <2>1. \A i \in 1..space : new[i] \in [pubkey : Signers, expires_at : Times]
    BY <1>1, <1>2, <1>3, SMT DEF ListOK, Items
  <2>2. new = [i \in 1..space |-> new[i]]
    BY DEF Added
  <2> HIDE DEF new
  <2> QED
    BY <2>1, <2>2 DEF Items
<1> HIDE DEF new
<1>5. \A i, j \in 1..(n + 1) : new[i].pubkey = new[j].pubkey => i = j
  BY <1>1, <1>3, SMT DEF ListOK
<1>6. \A i \in 1..(n + 1) : new[i].expires_at # 0
  BY <1>1, <1>3, SMT DEF ListOK
<1> QED
  BY <1>1, <1>3, <1>4, <1>5, <1>6 DEF ListOK, new

\* update_trusted_signer keeps a list well formed.
LEMMA UpdateListOK ==
    ASSUME NEW n, NEW space \in Nat, MAX <= space, NEW items, ListOK(n, space, items),
           NEW s \in Signers, NEW e \in Times,
           NEW u, u = update_trusted_signer(n, space, items, s, e)
    PROVE  ListOK(u.num, space, u.items) /\ u.reply \in {"ok", "refused"}
<1>1. ASSUME NEW p \in 1..n, Deletes(n, space, items, s, e, u, p)
      PROVE  ListOK(u.num, space, u.items) /\ u.reply \in {"ok", "refused"}
  BY <1>1, DeleteListOK, SMT DEF Deletes
<1>2. ASSUME NEW p \in 1..n, Modifies(n, items, s, e, u, p)
      PROVE  ListOK(u.num, space, u.items) /\ u.reply \in {"ok", "refused"}
  BY <1>2, ModifyListOK, SMT DEF Modifies
<1>3. CASE Adds(n, space, items, s, e, u)
  BY <1>3, AddListOK, SMT DEF Adds
<1>4. CASE Refuses(n, items, s, e, u)
  BY <1>4, SMT DEF Refuses
<1> QED
  BY <1>1, <1>2, <1>3, <1>4, UpdateOutcomes

-----------------------------------------------------------------------------
(* Type correctness *)

\* An update of one list keeps both well formed.
LEMMA UpdateTypeOK ==
    ASSUME TypeOK, NEW a \in Authorities, NEW s \in Signers, NEW e \in Times,
           update(a, s, e) \/ update_ecdsa_signer(a, s, e)
    PROVE  TypeOK'
<1>0. SPACE \in Nat /\ ECDSA_SPACE \in Nat /\ MAX <= SPACE /\ MAX <= ECDSA_SPACE
  BY SolanaAssumption DEF SolanaAssumption
<1>1. CASE update(a, s, e)
  <2> DEFINE u == update_trusted_signer(num_trusted_signers, SPACE, trusted_signers, s, e)
  <2>1. ListOK(u.num, SPACE, u.items) /\ u.reply \in {"ok", "refused"}
    BY <1>0, UpdateListOK DEF TypeOK
  <2>2. /\ num_trusted_signers' = u.num /\ trusted_signers' = u.items
        /\ reply' = [list |-> "ed25519", signer |-> s, expires_at |-> e, result |-> u.reply]
        /\ UNCHANGED <<top_authority, num_trusted_ecdsa_signers, trusted_ecdsa_signers, now>>
    BY <1>1 DEF update, Reply, ecdsa
  <2> HIDE DEF u
  <2>3. ListOK(num_trusted_signers, SPACE, trusted_signers)'
    BY <2>1, <2>2 DEF ListOK, Items, DefaultItem
  <2>4. ListOK(num_trusted_ecdsa_signers, ECDSA_SPACE, trusted_ecdsa_signers)'
    BY <2>2 DEF TypeOK, ListOK, Items, DefaultItem
  <2> QED
    BY <2>1, <2>2, <2>3, <2>4 DEF TypeOK
<1>2. CASE update_ecdsa_signer(a, s, e)
  <2> DEFINE u == update_trusted_signer(num_trusted_ecdsa_signers, ECDSA_SPACE,
                                        trusted_ecdsa_signers, s, e)
  <2>1. ListOK(u.num, ECDSA_SPACE, u.items) /\ u.reply \in {"ok", "refused"}
    BY <1>0, UpdateListOK DEF TypeOK
  <2>2. /\ num_trusted_ecdsa_signers' = u.num /\ trusted_ecdsa_signers' = u.items
        /\ reply' = [list |-> "ecdsa", signer |-> s, expires_at |-> e, result |-> u.reply]
        /\ UNCHANGED <<top_authority, num_trusted_signers, trusted_signers, now>>
    BY <1>2 DEF update_ecdsa_signer, Reply, ed25519
  <2> HIDE DEF u
  <2>3. ListOK(num_trusted_ecdsa_signers, ECDSA_SPACE, trusted_ecdsa_signers)'
    BY <2>1, <2>2 DEF ListOK, Items, DefaultItem
  <2>4. ListOK(num_trusted_signers, SPACE, trusted_signers)'
    BY <2>2 DEF TypeOK, ListOK, Items, DefaultItem
  <2> QED
    BY <2>1, <2>2, <2>3, <2>4 DEF TypeOK
<1> QED
  BY <1>1, <1>2

\* Every instruction keeps the lists well formed.
LEMMA NextTypeOK == TypeOK /\ [Next]_vars => TypeOK'
<1> SUFFICES ASSUME TypeOK, [Next]_vars PROVE TypeOK'
  OBVIOUS
<1>1. ASSUME UNCHANGED <<ed25519, ecdsa>>
      PROVE  /\ ListOK(num_trusted_signers, SPACE, trusted_signers)'
             /\ ListOK(num_trusted_ecdsa_signers, ECDSA_SPACE, trusted_ecdsa_signers)'
  BY <1>1 DEF TypeOK, ListOK, Items, DefaultItem, ed25519, ecdsa
<1>2. ASSUME NEW a \in Authorities, initialize(a) PROVE TypeOK'
  BY <1>1, <1>2 DEF initialize, TypeOK
<1>3. ASSUME NEW s \in Signers, verify_message(s) PROVE TypeOK'
  BY <1>1, <1>3, SolanaAssumption DEF verify_message, Reply, TypeOK, SolanaAssumption
<1>4. ASSUME NEW s \in Signers, verify_ecdsa_message(s) PROVE TypeOK'
  BY <1>1, <1>4, SolanaAssumption DEF verify_ecdsa_message, Reply, TypeOK, SolanaAssumption
<1>5. CASE Tick
  <2>1. now \in 0..MaxTime /\ now < MaxTime /\ now' = now + 1
    BY <1>5, Zenon DEF Tick, TypeOK
  <2>2. now' \in 0..MaxTime
    BY <2>1, SolanaAssumption, SMT DEF SolanaAssumption
  <2> QED
    BY <1>1, <1>5, <2>2 DEF Tick, TypeOK
<1>6. CASE UNCHANGED vars
  BY <1>1, <1>6 DEF vars, TypeOK
<1> QED
  BY <1>2, <1>3, <1>4, <1>5, <1>6, UpdateTypeOK DEF Next

\* The account starts with two empty lists.
LEMMA InitTypeOK == Init => TypeOK
<1> SUFFICES ASSUME Init PROVE TypeOK
  OBVIOUS
<1>1. DefaultItem \in [pubkey : Signers, expires_at : Times]
  BY SolanaAssumption DEF SolanaAssumption, DefaultItem
<1>2. /\ ListOK(num_trusted_signers, SPACE, trusted_signers)
      /\ ListOK(num_trusted_ecdsa_signers, ECDSA_SPACE, trusted_ecdsa_signers)
  BY <1>1, SolanaAssumption, SMT DEF Init, ListOK, Items, SolanaAssumption
<1> QED
  BY <1>2 DEF Init, TypeOK

\* Neither list ever outgrows its array or its maximum, holds a signer twice
\* or leaves anything behind its entries (update_trusted_signer).
THEOREM ListsWellFormed == Spec => []TypeOK
  BY InitTypeOK, NextTypeOK, PTL DEF Spec

-----------------------------------------------------------------------------
(* A well-formed list as a map *)

KeysIn(n, items) == {items[i].pubkey : i \in 1..n}

\* The map with an entry for a signer, and without.
With(m, s, e) == [k \in DOMAIN m \cup {s} |-> IF k = s THEN e ELSE m[k]]

Without(m, s) == [k \in DOMAIN m \ {s} |-> m[k]]

\* The map is determined by its signers and the expiry time of each entry.
LEMMA MapIs ==
    ASSUME NEW n, NEW space \in Nat, NEW items, ListOK(n, space, items),
           NEW f, f = [k \in KeysIn(n, items) |-> f[k]],
           \A i \in 1..n : f[items[i].pubkey] = items[i].expires_at
    PROVE  ExpiryOf(n, items) = f
<1>1. ASSUME NEW k \in KeysIn(n, items)
      PROVE  items[CHOOSE i \in 1..n : items[i].pubkey = k].expires_at = f[k]
  <2>1. \E i \in 1..n : items[i].pubkey = k
    BY DEF KeysIn
  <2> DEFINE c == CHOOSE i \in 1..n : items[i].pubkey = k
  <2>2. c \in 1..n /\ items[c].pubkey = k
    BY <2>1
  <2> QED
    BY <2>2
<1> QED
  BY <1>1 DEF ExpiryOf, KeysIn

\* Its value for the signer of an entry.
LEMMA MapAt ==
    ASSUME NEW n, NEW space \in Nat, NEW items, ListOK(n, space, items)
    PROVE  \A i \in 1..n : ExpiryOf(n, items)[items[i].pubkey] = items[i].expires_at
<1> TAKE i \in 1..n
<1> DEFINE k == items[i].pubkey
           c == CHOOSE j \in 1..n : items[j].pubkey = k
<1>1. c \in 1..n /\ items[c].pubkey = k
  OBVIOUS
<1>2. c = i
  BY <1>1 DEF ListOK
<1>3. k \in KeysIn(n, items)
  BY DEF KeysIn
<1> QED
  BY <1>2, <1>3 DEF ExpiryOf, KeysIn

\* The map has as many signers as the list has entries.
LEMMA MapSize ==
    ASSUME NEW n, NEW space \in Nat, NEW items, ListOK(n, space, items)
    PROVE  Cardinality(DOMAIN ExpiryOf(n, items)) = n
<1>1. n \in Nat
  BY SolanaAssumption, SMT DEF ListOK, SolanaAssumption
<1> DEFINE f == [i \in 1..n |-> items[i].pubkey]
<1>2. f \in Bijection(1..n, KeysIn(n, items))
  <2>1. f \in [1..n -> KeysIn(n, items)]
    BY DEF KeysIn
  <2>2. \A i, j \in 1..n : f[i] = f[j] => i = j
    BY DEF ListOK
  <2>3. \A k \in KeysIn(n, items) : \E i \in 1..n : f[i] = k
    BY DEF KeysIn
  <2> QED
    BY <2>1, <2>2, <2>3 DEF Bijection, Injection, Surjection, IsInjective
<1>3. IsFiniteSet(1..n) /\ Cardinality(1..n) = n
  BY <1>1, FS_Interval, SMT
<1>4. Cardinality(KeysIn(n, items)) = n
  BY <1>2, <1>3, FS_Bijection DEF ExistsBijection
<1> QED
  BY <1>4 DEF ExpiryOf, KeysIn

\* Deleting takes the signer out of the map.
LEMMA DeleteMap ==
    ASSUME NEW n, NEW space \in Nat, MAX <= space, NEW items, ListOK(n, space, items),
           NEW p \in 1..n, NEW s, items[p].pubkey = s, NEW m, m = ExpiryOf(n, items)
    PROVE  ExpiryOf(n - 1, Removed(n, space, items, p)) = Without(m, s)
<1> DEFINE new == Removed(n, space, items, p)
           f == Without(m, s)
<1>1. n \in Nat /\ n <= space /\ n - 1 \in Nat
  BY SolanaAssumption, SMT DEF SolanaAssumption, ListOK
<1>2. ListOK(n - 1, space, new)
  BY DeleteListOK
<1>3. /\ \A i \in 1..(n - 1) : i < p => new[i] = items[i]
      /\ \A i \in 1..(n - 1) : p <= i => new[i] = items[i + 1]
  BY <1>1, SMT DEF Removed
<1> HIDE DEF new
<1>4. DOMAIN m = KeysIn(n, items)
  BY DEF ExpiryOf, KeysIn
<1>5. \A i \in 1..n : m[items[i].pubkey] = items[i].expires_at
  <2>1. \A i \in 1..n : ExpiryOf(n, items)[items[i].pubkey] = items[i].expires_at
    BY MapAt, SMTT(30)
  <2> QED
    BY <2>1
<1>6. KeysIn(n - 1, new) = DOMAIN m \ {s}
  <2>1. \A i \in 1..(n - 1) : \E j \in 1..n : j # p /\ new[i] = items[j]
    BY <1>1, <1>3, SMT
  <2>2. \A j \in 1..n : j # p => \E i \in 1..(n - 1) : new[i] = items[j]
    <3> TAKE j \in 1..n
    <3> HAVE j # p
    <3>1. CASE j < p
      BY <1>1, <1>3, <3>1, SMT
    <3>2. CASE j > p
      <4>1. j - 1 \in 1..(n - 1) /\ p <= j - 1 /\ (j - 1) + 1 = j
        BY <1>1, <3>2, SMT
      <4> QED
        BY <1>3, <4>1
    <3> QED
      BY <1>1, <3>1, <3>2, SMT
  <2>3. \A j \in 1..n : items[j].pubkey = s <=> j = p
    BY DEF ListOK
  <2> QED
    BY <1>4, <2>1, <2>2, <2>3, SMT DEF KeysIn
<1>7. \A i \in 1..(n - 1) : f[new[i].pubkey] = new[i].expires_at
  <2> TAKE i \in 1..(n - 1)
  <2>1. PICK j \in 1..n : new[i] = items[j]
    BY <1>1, <1>3, SMT
  <2>2. new[i].pubkey \in DOMAIN m \ {s}
    BY <1>6 DEF KeysIn
  <2> QED
    BY <1>5, <2>1, <2>2 DEF Without
<1>8. f = [k \in KeysIn(n - 1, new) |-> f[k]]
  BY <1>6 DEF Without
<1> HIDE DEF f
<1>9. ExpiryOf(n - 1, new) = f
  BY <1>2, <1>7, <1>8, MapIs, SMT
<1> QED
  BY <1>9 DEF f, new

\* Modifying changes the expiry time of the signer.
LEMMA ModifyMap ==
    ASSUME NEW n, NEW space \in Nat, MAX <= space, NEW items, ListOK(n, space, items),
           NEW p \in 1..n, NEW s, items[p].pubkey = s, NEW e \in Times, e # 0,
           NEW m, m = ExpiryOf(n, items)
    PROVE  ExpiryOf(n, Modified(items, p, e)) = With(m, s, e)
<1> DEFINE new == Modified(items, p, e)
           f == With(m, s, e)
<1>1. n \in Nat /\ n <= space /\ p \in 1..space
  BY SolanaAssumption, SMT DEF SolanaAssumption, ListOK
<1>2. ListOK(n, space, new)
  BY ModifyListOK
<1>3. \A i \in 1..n : /\ new[i].pubkey = items[i].pubkey
                      /\ new[i].expires_at = IF i = p THEN e ELSE items[i].expires_at
  BY <1>1, SMT DEF Modified, ListOK, Items
<1> HIDE DEF new
<1>4. DOMAIN m = KeysIn(n, items)
  BY DEF ExpiryOf, KeysIn
<1>5. \A i \in 1..n : m[items[i].pubkey] = items[i].expires_at
  <2>1. \A i \in 1..n : ExpiryOf(n, items)[items[i].pubkey] = items[i].expires_at
    BY MapAt, SMTT(30)
  <2> QED
    BY <2>1
<1>6. KeysIn(n, new) = DOMAIN m \cup {s}
  BY <1>3, <1>4 DEF KeysIn
<1>7. \A i \in 1..n : f[new[i].pubkey] = new[i].expires_at
  <2> TAKE i \in 1..n
  <2>1. new[i].pubkey \in DOMAIN m \cup {s}
    BY <1>6 DEF KeysIn
  <2>2. items[i].pubkey = s <=> i = p
    BY DEF ListOK
  <2> QED
    BY <1>3, <1>5, <2>1, <2>2 DEF With
<1>8. f = [k \in KeysIn(n, new) |-> f[k]]
  BY <1>6 DEF With
<1> HIDE DEF f
<1>9. ExpiryOf(n, new) = f
  BY <1>2, <1>7, <1>8, MapIs, SMT
<1> QED
  BY <1>9 DEF f, new

\* Adding puts the signer into the map.
LEMMA AddMap ==
    ASSUME NEW n, NEW space \in Nat, MAX <= space, NEW items, ListOK(n, space, items),
           n < MAX, NEW s \in Signers, \A i \in 1..n : items[i].pubkey # s,
           NEW e \in Times, e # 0, NEW m, m = ExpiryOf(n, items)
    PROVE  ExpiryOf(n + 1, Added(n, space, items, s, e)) = With(m, s, e)
<1> DEFINE new == Added(n, space, items, s, e)
           f == With(m, s, e)
<1>1. n \in Nat /\ n + 1 <= space
  BY SolanaAssumption, SMT DEF SolanaAssumption, ListOK
<1>2. ListOK(n + 1, space, new)
  BY AddListOK
<1>3. /\ \A i \in 1..n : new[i] = items[i]
      /\ new[n + 1] = [pubkey |-> s, expires_at |-> e]
  BY <1>1, SMT DEF Added
<1> HIDE DEF new
<1>4. DOMAIN m = KeysIn(n, items)
  BY DEF ExpiryOf, KeysIn
<1>5. \A i \in 1..n : m[items[i].pubkey] = items[i].expires_at
  <2>1. \A i \in 1..n : ExpiryOf(n, items)[items[i].pubkey] = items[i].expires_at
    BY MapAt, SMTT(30)
  <2> QED
    BY <2>1
<1>6. KeysIn(n + 1, new) = DOMAIN m \cup {s}
  <2>1. \A k : k \in KeysIn(n + 1, new) <=> k = new[n + 1].pubkey \/ \E i \in 1..n : k = new[i].pubkey
    BY <1>1, SMT DEF KeysIn
  <2>2. new[n + 1].pubkey = s /\ \A i \in 1..n : new[i].pubkey = items[i].pubkey
    BY <1>3, SMT
  <2>3. \A k : k \in DOMAIN m <=> \E i \in 1..n : k = items[i].pubkey
    BY <1>4 DEF KeysIn
  <2>4. \A k : k \in KeysIn(n + 1, new) <=> k = s \/ \E i \in 1..n : k = items[i].pubkey
    BY <2>1, <2>2
  <2> QED
    BY <2>3, <2>4
<1>7. \A i \in 1..(n + 1) : f[new[i].pubkey] = new[i].expires_at
  <2> TAKE i \in 1..(n + 1)
  <2>1. new[i].pubkey \in DOMAIN m \cup {s}
    BY <1>6 DEF KeysIn
  <2>2. CASE i = n + 1
    BY <1>3, <2>1, <2>2, SMT DEF With
  <2>3. CASE i \in 1..n
    BY <1>3, <1>5, <2>1, <2>3 DEF With
  <2> QED
    BY <1>1, <2>2, <2>3, SMT
<1>8. f = [k \in KeysIn(n + 1, new) |-> f[k]]
  BY <1>6 DEF With
<1> HIDE DEF f
<1>9. ExpiryOf(n + 1, new) = f
  BY <1>2, <1>7, <1>8, MapIs, SMT
<1> QED
  BY <1>9 DEF f, new

\* An update of the map with its result: the cases of SignerRegistry.
MapStep(m, new, s, e, result) ==
    \/ /\ e = 0 /\ s \in DOMAIN m
       /\ new = Without(m, s)
       /\ result = "ok"
    \/ /\ e # 0
       /\ s \in DOMAIN m \/ Cardinality(DOMAIN m) < MAX
       /\ new = With(m, s, e)
       /\ result = "ok"
    \/ /\ s \notin DOMAIN m
       /\ e = 0 \/ Cardinality(DOMAIN m) >= MAX
       /\ result = "refused" /\ new = m

\* That is what update_trusted_signer does.
LEMMA UpdateMap ==
    ASSUME NEW n, NEW space \in Nat, MAX <= space, NEW items, ListOK(n, space, items),
           NEW s \in Signers, NEW e \in Times,
           NEW u, u = update_trusted_signer(n, space, items, s, e),
           NEW m, m = ExpiryOf(n, items)
    PROVE  MapStep(m, ExpiryOf(u.num, u.items), s, e, u.reply)
<1> USE DEF MapStep
<1>1. Cardinality(DOMAIN m) = n
  BY MapSize
<1>2. \A k : k \in DOMAIN m <=> \E i \in 1..n : items[i].pubkey = k
  BY DEF ExpiryOf
<1>3. ASSUME NEW p \in 1..n, Deletes(n, space, items, s, e, u, p)
      PROVE  /\ e = 0 /\ s \in DOMAIN m /\ u.reply = "ok"
             /\ ExpiryOf(u.num, u.items) = Without(m, s)
  <2>1. /\ e = 0 /\ items[p].pubkey = s /\ u.reply = "ok"
        /\ u.num = n - 1 /\ u.items = Removed(n, space, items, p)
    BY <1>3, SMT DEF Deletes
  <2>2. ExpiryOf(n - 1, Removed(n, space, items, p)) = Without(m, s)
    BY <2>1, DeleteMap, SMT
  <2> QED
    BY <1>2, <2>1, <2>2
<1>4. ASSUME NEW p \in 1..n, Modifies(n, items, s, e, u, p)
      PROVE  /\ e # 0 /\ s \in DOMAIN m /\ u.reply = "ok"
             /\ ExpiryOf(u.num, u.items) = With(m, s, e)
  <2>1. /\ e # 0 /\ items[p].pubkey = s /\ u.reply = "ok"
        /\ u.num = n /\ u.items = Modified(items, p, e)
    BY <1>4, SMT DEF Modifies
  <2>2. ExpiryOf(n, Modified(items, p, e)) = With(m, s, e)
    BY <2>1, ModifyMap, SMT
  <2> QED
    BY <1>2, <2>1, <2>2
<1>5. CASE Adds(n, space, items, s, e, u)
  <2>1. /\ e # 0 /\ Cardinality(DOMAIN m) < MAX /\ u.reply = "ok"
        /\ ExpiryOf(u.num, u.items) = With(m, s, e)
    BY <1>1, <1>5, AddMap, SMT DEF Adds
  <2> QED
    BY <2>1
<1>6. CASE Refuses(n, items, s, e, u)
  <2>1. u.num = n /\ u.items = items /\ u.reply = "refused"
    BY <1>6, SMT DEF Refuses
  <2>2. s \notin DOMAIN m /\ (e = 0 \/ Cardinality(DOMAIN m) >= MAX)
    BY <1>1, <1>2, <1>6 DEF Refuses
  <2> QED
    BY <2>1, <2>2
<1>7. \/ \E p \in 1..n : Deletes(n, space, items, s, e, u, p)
      \/ \E p \in 1..n : Modifies(n, items, s, e, u, p)
      \/ Adds(n, space, items, s, e, u)
      \/ Refuses(n, items, s, e, u)
  BY UpdateOutcomes
<1> QED
  BY <1>3, <1>4, <1>5, <1>6, <1>7

-----------------------------------------------------------------------------
(* The refinement *)

\* A signature is accepted by the list exactly when it is by the map.
LEMMA TrustedByMap ==
    ASSUME NEW n, NEW space \in Nat, NEW items, ListOK(n, space, items), NEW s, NEW t,
           NEW m, m = ExpiryOf(n, items)
    PROVE  (\E i \in 1..n : items[i].pubkey = s /\ items[i].expires_at > t)
               <=> (s \in DOMAIN m /\ m[s] > t)
<1>1. \A k : k \in DOMAIN m <=> \E i \in 1..n : items[i].pubkey = k
  BY DEF ExpiryOf
<1>2. \A i \in 1..n : m[items[i].pubkey] = items[i].expires_at
  <2>1. \A i \in 1..n : ExpiryOf(n, items)[items[i].pubkey] = items[i].expires_at
    BY MapAt, SMTT(30)
  <2> QED
    BY <2>1
<1> QED
  BY <1>1, <1>2

\* Both lists start as the empty map.
LEMMA InitMaps == Init => Registry!Init /\ EcdsaRegistry!Init
  BY SMT DEF Init, Registry!Init, EcdsaRegistry!Init, ExpiryOf

\* The size of a set, as the instances of SignerRegistry name it.
LEMMA SameCardinality ==
    ASSUME NEW S
    PROVE  Registry!Cardinality(S) = Cardinality(S) /\ EcdsaRegistry!Cardinality(S) = Cardinality(S)
  BY DEF Cardinality, Registry!Cardinality, EcdsaRegistry!Cardinality

\* The steps that leave both lists and the last reply alone.
LEMMA OtherSteps ==
    ASSUME UNCHANGED <<ed25519, ecdsa, reply>>
    PROVE  Registry!Next /\ EcdsaRegistry!Next
<1>1. Registry!Other
  BY DEF Registry!Other, ed25519
<1>2. EcdsaRegistry!Other
  BY DEF EcdsaRegistry!Other, ecdsa
<1> QED
  BY <1>1, <1>2 DEF Registry!Next, EcdsaRegistry!Next

\* An instruction about one list is a step of its map and none of the other's.
LEMMA UpdateSteps ==
    ASSUME TypeOK, NEW a \in Authorities, NEW s \in Signers, NEW e \in Times, update(a, s, e)
    PROVE  Registry!Next /\ EcdsaRegistry!Next
<1> DEFINE n == num_trusted_signers
           items == trusted_signers
           u == update_trusted_signer(n, SPACE, items, s, e)
           m == ExpiryOf(n, items)
<1>1. /\ num_trusted_signers' = u.num /\ trusted_signers' = u.items
      /\ reply' = [list |-> "ed25519", signer |-> s, expires_at |-> e, result |-> u.reply]
      /\ UNCHANGED <<ecdsa, now>>
  BY DEF update, Reply
<1>2. MapStep(m, ExpiryOf(u.num, u.items), s, e, u.reply)
  <2>1. SPACE \in Nat /\ MAX <= SPACE /\ ListOK(n, SPACE, items)
    BY SolanaAssumption DEF SolanaAssumption, TypeOK
  <2>2. u = update_trusted_signer(n, SPACE, items, s, e) /\ m = ExpiryOf(n, items)
    OBVIOUS
  <2> HIDE DEF n, items, u, m
  <2> QED
    BY <2>1, <2>2, UpdateMap
<1>3. ExpiryOf(num_trusted_signers, trusted_signers)' = ExpiryOf(u.num, u.items)
  BY <1>1, SMT DEF ExpiryOf
<1> HIDE DEF u
<1>4. Registry!Update(s, e)
  BY <1>1, <1>2, <1>3, SameCardinality, Zenon
  DEF MapStep, With, Without, Registry!Update, Registry!Reply
<1>5. EcdsaRegistry!Other
  BY <1>1 DEF EcdsaRegistry!Other, ecdsa
<1> QED
  BY <1>4, <1>5 DEF Registry!Next, EcdsaRegistry!Next

\* The same of the other list.
LEMMA UpdateEcdsaSteps ==
    ASSUME TypeOK, NEW a \in Authorities, NEW s \in Signers, NEW e \in Times,
           update_ecdsa_signer(a, s, e)
    PROVE  Registry!Next /\ EcdsaRegistry!Next
<1> DEFINE n == num_trusted_ecdsa_signers
           items == trusted_ecdsa_signers
           u == update_trusted_signer(n, ECDSA_SPACE, items, s, e)
           m == ExpiryOf(n, items)
<1>1. /\ num_trusted_ecdsa_signers' = u.num /\ trusted_ecdsa_signers' = u.items
      /\ reply' = [list |-> "ecdsa", signer |-> s, expires_at |-> e, result |-> u.reply]
      /\ UNCHANGED <<ed25519, now>>
  BY DEF update_ecdsa_signer, Reply
<1>2. MapStep(m, ExpiryOf(u.num, u.items), s, e, u.reply)
  <2>1. ECDSA_SPACE \in Nat /\ MAX <= ECDSA_SPACE /\ ListOK(n, ECDSA_SPACE, items)
    BY SolanaAssumption DEF SolanaAssumption, TypeOK
  <2>2. u = update_trusted_signer(n, ECDSA_SPACE, items, s, e) /\ m = ExpiryOf(n, items)
    OBVIOUS
  <2> HIDE DEF n, items, u, m
  <2> QED
    BY <2>1, <2>2, UpdateMap
<1>3. ExpiryOf(num_trusted_ecdsa_signers, trusted_ecdsa_signers)' = ExpiryOf(u.num, u.items)
  BY <1>1, SMT DEF ExpiryOf
<1> HIDE DEF u
<1>4. EcdsaRegistry!Update(s, e)
  BY <1>1, <1>2, <1>3, SameCardinality, Zenon
  DEF MapStep, With, Without, EcdsaRegistry!Update, EcdsaRegistry!Reply
<1>5. Registry!Other
  BY <1>1 DEF Registry!Other, ed25519
<1> QED
  BY <1>4, <1>5 DEF Registry!Next, EcdsaRegistry!Next

\* verify_message answers as the map would.
LEMMA VerifySteps ==
    ASSUME TypeOK, NEW s \in Signers, verify_message(s)
    PROVE  Registry!Next /\ EcdsaRegistry!Next
<1> DEFINE m == ExpiryOf(num_trusted_signers, trusted_signers)
<1>1. is_trusted(s) <=> s \in DOMAIN m /\ m[s] > now
  <2>1. SPACE \in Nat /\ ListOK(num_trusted_signers, SPACE, trusted_signers)
    BY SolanaAssumption DEF SolanaAssumption, TypeOK
  <2> QED
    BY <2>1, TrustedByMap DEF is_trusted
<1>2. /\ reply' = [list |-> "ed25519", signer |-> s, expires_at |-> 0,
                   result |-> IF is_trusted(s) THEN "accepted" ELSE "not trusted"]
      /\ UNCHANGED <<ed25519, ecdsa, now>>
  BY DEF verify_message, Reply
<1>3. Registry!Verify(s)
  <2>1. UNCHANGED m
    BY <1>2 DEF ed25519
  <2>2. reply' = [list |-> "ed25519", signer |-> s, expires_at |-> 0,
                  result |-> IF s \in DOMAIN m /\ m[s] > now THEN "accepted" ELSE "not trusted"]
    BY <1>1, <1>2
  <2> QED
    BY <1>2, <2>1, <2>2 DEF Registry!Verify, Registry!Reply
<1>4. EcdsaRegistry!Other
  BY <1>2 DEF EcdsaRegistry!Other, ecdsa
<1> QED
  BY <1>3, <1>4 DEF Registry!Next, EcdsaRegistry!Next

\* So does verify_ecdsa_message.
LEMMA VerifyEcdsaSteps ==
    ASSUME TypeOK, NEW s \in Signers, verify_ecdsa_message(s)
    PROVE  Registry!Next /\ EcdsaRegistry!Next
<1> DEFINE m == ExpiryOf(num_trusted_ecdsa_signers, trusted_ecdsa_signers)
<1>1. is_ecdsa_trusted(s) <=> s \in DOMAIN m /\ m[s] > now
  <2>1. ECDSA_SPACE \in Nat
        /\ ListOK(num_trusted_ecdsa_signers, ECDSA_SPACE, trusted_ecdsa_signers)
    BY SolanaAssumption DEF SolanaAssumption, TypeOK
  <2> QED
    BY <2>1, TrustedByMap DEF is_ecdsa_trusted
<1>2. /\ reply' = [list |-> "ecdsa", signer |-> s, expires_at |-> 0,
                   result |-> IF is_ecdsa_trusted(s) THEN "accepted" ELSE "not trusted"]
      /\ UNCHANGED <<ed25519, ecdsa, now>>
  BY DEF verify_ecdsa_message, Reply
<1>3. EcdsaRegistry!Verify(s)
  <2>1. UNCHANGED m
    BY <1>2 DEF ecdsa
  <2>2. reply' = [list |-> "ecdsa", signer |-> s, expires_at |-> 0,
                  result |-> IF s \in DOMAIN m /\ m[s] > now THEN "accepted" ELSE "not trusted"]
    BY <1>1, <1>2
  <2> QED
    BY <1>2, <2>1, <2>2 DEF EcdsaRegistry!Verify, EcdsaRegistry!Reply
<1>4. Registry!Other
  BY <1>2 DEF Registry!Other, ed25519
<1> QED
  BY <1>3, <1>4 DEF Registry!Next, EcdsaRegistry!Next

\* Every step of the contract is a step of both maps.
LEMMA NextMaps ==
    TypeOK /\ [Next]_vars => Registry!Next /\ EcdsaRegistry!Next
<1> SUFFICES ASSUME TypeOK, [Next]_vars PROVE Registry!Next /\ EcdsaRegistry!Next
  OBVIOUS
<1>1. ASSUME NEW a \in Authorities, initialize(a) PROVE Registry!Next /\ EcdsaRegistry!Next
  BY <1>1, OtherSteps DEF initialize
<1>2. CASE Tick
  BY <1>2, OtherSteps DEF Tick
<1>3. CASE UNCHANGED vars
  BY <1>3, OtherSteps DEF vars
<1> QED
  BY <1>1, <1>2, <1>3, UpdateSteps, UpdateEcdsaSteps, VerifySteps, VerifyEcdsaSteps DEF Next

\* Each list is the map it stands for: deletions that move entries,
\* modifications and the limits neither lose, double nor revive a signer, and
\* a message is accepted exactly by the map (update, update_ecdsa_signer,
\* verify_message, verify_ecdsa_message).
THEOREM ListsRefineMaps == Spec => ListsAreMaps
<1>1. TypeOK /\ [Next]_vars => [Registry!Next]_<<ExpiryOf(num_trusted_signers, trusted_signers), now, reply>>
  BY NextMaps
<1>2. TypeOK /\ [Next]_vars => [EcdsaRegistry!Next]_<<ExpiryOf(num_trusted_ecdsa_signers, trusted_ecdsa_signers), now, reply>>
  BY NextMaps
<1> QED
  BY <1>1, <1>2, InitMaps, ListsWellFormed, PTL DEF Spec, ListsAreMaps, Registry!Spec, EcdsaRegistry!Spec

-----------------------------------------------------------------------------
(* The executor *)

\* The fixed-point formula of quorum is more than two thirds of the guardians,
\* and never more than there are.
THEOREM QuorumIsSupermajority ==
    ASSUME NEW n \in Nat
    PROVE  quorum(n) \in Nat /\ 3 * quorum(n) > 2 * n /\ (n > 0 => quorum(n) <= n)
  BY SMT DEF quorum

\* A stored set with a new deadline.
LEMMA Retired ==
    ASSUME NEW set \in StoredGuardianSet, NEW t \in Nat
    PROVE  /\ [set EXCEPT !.expiration_time = t] \in StoredGuardianSet
           /\ [set EXCEPT !.expiration_time = t].expiration_time = t
           /\ [set EXCEPT !.expiration_time = t].keys = set.keys
  BY DEF StoredGuardianSet

\* What the step of an accepted rotation does to the stored sets.
LEMMA RotationStep ==
    ASSUME ExecutorTypeOK, NEW vaa \in Vaas, update_guardian_set(vaa)
    PROVE  LET i == guardian_set_index + 1
           IN  /\ guardian_set_index' = i
               /\ DOMAIN guardian_sets' = InitialIndex..i
               /\ guardian_sets'[i] = [keys |-> vaa.payload.guardians, expiration_time |-> Never]
               /\ vaa.payload.guardians \in Seq(Keys)
               /\ \A j \in InitialIndex..guardian_set_index :
                     guardian_sets'[j] =
                        IF j = guardian_set_index
                        THEN [guardian_sets[j] EXCEPT !.expiration_time = timestamp + GuardianSetExpiry]
                        ELSE guardian_sets[j]
<1> DEFINE i == guardian_set_index + 1
<1>1. /\ guardian_set_index \in Nat /\ InitialIndex \in Nat
      /\ DOMAIN guardian_sets = InitialIndex..guardian_set_index
      /\ InitialIndex <= guardian_set_index + 1
  BY ExecutorAssumption, SMT DEF ExecutorAssumption, ExecutorTypeOK, update_guardian_set, verify_vaa
<1>2. vaa.payload.new_index = i /\ vaa.payload.guardians \in Seq(Keys)
  BY VaaAssumption DEF VaaAssumption, update_guardian_set
<1>3. DOMAIN guardian_sets \cup {i} = InitialIndex..i
  BY <1>1, SMT
<1>4. guardian_sets' =
        [j \in InitialIndex..i |->
            IF j = i THEN [keys |-> vaa.payload.guardians, expiration_time |-> Never]
            ELSE IF j = i - 1
            THEN [guardian_sets[j] EXCEPT !.expiration_time = timestamp + GuardianSetExpiry]
            ELSE guardian_sets[j]]
  BY <1>2, <1>3 DEF update_guardian_set, store_guardian_set
<1>5. guardian_set_index' = i
  BY <1>2 DEF update_guardian_set
<1>6. i - 1 = guardian_set_index /\ i \in InitialIndex..i
      /\ \A j \in InitialIndex..guardian_set_index : j \in InitialIndex..i /\ j # i
  BY <1>1, SMT
<1> QED BY <1>2, <1>4, <1>5, <1>6

\* The inductive invariant.
Inv == ExecutorTypeOK /\ OneLiveSet /\ ExecutedInOrder

\* The state the constructor leaves satisfies the invariant.
LEMMA InvInit == ExecutorInit => Inv
<1> SUFFICES ASSUME ExecutorInit PROVE Inv
  OBVIOUS
<1> USE ExecutorAssumption DEF ExecutorAssumption, ExecutorInit
<1>1. ExecutorTypeOK
  <2>1. InitialIndex..InitialIndex = {InitialIndex}
    BY SMT
  <2> QED BY <2>1, SMT DEF ExecutorTypeOK, StoredGuardianSet
<1>2. OneLiveSet BY DEF OneLiveSet
<1>3. ExecutedInOrder BY SMT DEF ExecutedInOrder
<1> QED BY <1>1, <1>2, <1>3 DEF Inv

\* A later end of the grace window leaves room for every earlier one.
LEMMA WiderWindow ==
    ASSUME NEW t \in Nat, NEW u \in {t, t + 1}, NEW g \in Nat
    PROVE  0..(t + g) \subseteq 0..(u + g)
BY SMT

\* A rotation, an executed action and a step of the ledger preserve the invariant.
LEMMA InvStep == Inv /\ [ExecutorNext]_executorvars => Inv'
<1> SUFFICES ASSUME Inv, [ExecutorNext]_executorvars PROVE Inv'
  OBVIOUS
<1> USE ExecutorAssumption DEF ExecutorAssumption
<1>0. ExecutorTypeOK /\ OneLiveSet /\ ExecutedInOrder
  BY DEF Inv
<1>1. ASSUME NEW vaa \in Vaas, update_guardian_set(vaa) PROVE Inv'
  <2> DEFINE i == guardian_set_index + 1
  <2>1. UNCHANGED <<timestamp, last_executed_sequence, archived, executed>>
    BY <1>1 DEF update_guardian_set
  <2>2. /\ guardian_set_index' = i
        /\ DOMAIN guardian_sets' = InitialIndex..i
        /\ guardian_sets'[i] = [keys |-> vaa.payload.guardians, expiration_time |-> Never]
        /\ vaa.payload.guardians \in Seq(Keys)
    BY <1>0, <1>1, RotationStep
  <2>3. \A j \in InitialIndex..guardian_set_index :
           guardian_sets'[j] =
              IF j = guardian_set_index
              THEN [guardian_sets[j] EXCEPT !.expiration_time = timestamp + GuardianSetExpiry]
              ELSE guardian_sets[j]
    BY <1>0, <1>1, RotationStep
  <2>4. /\ timestamp \in Nat /\ guardian_set_index \in Nat
        /\ \A j \in InitialIndex..guardian_set_index : guardian_sets[j] \in StoredGuardianSet
    BY <1>0, SMT DEF ExecutorTypeOK
  <2>5. \A j \in InitialIndex..guardian_set_index : guardian_sets'[j] \in StoredGuardianSet
    <3> SUFFICES ASSUME NEW j \in InitialIndex..guardian_set_index
                 PROVE  guardian_sets'[j] \in StoredGuardianSet
      OBVIOUS
    <3>1. timestamp + GuardianSetExpiry \in Nat /\ guardian_sets[j] \in StoredGuardianSet
      BY <2>4, SMT
    <3>2. [guardian_sets[j] EXCEPT !.expiration_time = timestamp + GuardianSetExpiry]
              \in StoredGuardianSet
      BY <3>1, Retired
    <3> QED BY <2>3, <3>1, <3>2
  <2>6. guardian_sets'[i] \in StoredGuardianSet
    BY <2>2, SMT DEF StoredGuardianSet
  <2>7. \A j \in InitialIndex..i : j = i \/ j \in InitialIndex..guardian_set_index
    BY <2>4, SMT
  <2>8. ExecutorTypeOK'
    BY <1>0, <2>1, <2>2, <2>4, <2>5, <2>6, <2>7, SMT DEF ExecutorTypeOK
  <2>9. OneLiveSet'
    <3> SUFFICES ASSUME NEW j \in InitialIndex..i
                 PROVE  IF j = i THEN guardian_sets'[j].expiration_time = Never
                        ELSE guardian_sets'[j].expiration_time \in 0..(timestamp + GuardianSetExpiry)
      BY <2>1, <2>2 DEF OneLiveSet
    <3>1. CASE j = i BY <2>2, <3>1, SMT
    <3>2. CASE j = guardian_set_index
      <4>1. j \in InitialIndex..guardian_set_index /\ j # i
        BY <2>4, <2>7, <3>2, SMT
      <4>2. guardian_sets'[j].expiration_time = timestamp + GuardianSetExpiry
        <5>1. timestamp + GuardianSetExpiry \in Nat /\ guardian_sets[j] \in StoredGuardianSet
          BY <2>4, <4>1, SMT
        <5>2. [guardian_sets[j] EXCEPT !.expiration_time = timestamp + GuardianSetExpiry].expiration_time
                 = timestamp + GuardianSetExpiry
          BY <5>1, Retired
        <5> QED BY <2>3, <3>2, <4>1, <5>2
      <4> QED BY <2>4, <4>1, <4>2, SMT
    <3>3. CASE j # i /\ j # guardian_set_index
      BY <1>0, <2>3, <2>7, <3>3 DEF OneLiveSet, ExecutorTypeOK
    <3> QED BY <3>1, <3>2, <3>3
  <2>10. ExecutedInOrder'
    BY <1>0, <2>1 DEF ExecutedInOrder
  <2> QED BY <2>8, <2>9, <2>10 DEF Inv
<1>2. ASSUME NEW vaa \in Vaas, execute_governance_action(vaa) PROVE Inv'
  <2>1. vaa.sequence \in Nat /\ vaa.sequence > last_executed_sequence
    BY <1>2, VaaAssumption DEF VaaAssumption, execute_governance_action, AboveLast
  <2>2. executed' = Append(executed, vaa) /\ last_executed_sequence' = vaa.sequence
    BY <1>2 DEF execute_governance_action
  <2>3. UNCHANGED <<timestamp, guardian_sets, guardian_set_index, archived>>
    BY <1>2 DEF execute_governance_action
  <2>4. executed \in Seq(Vaas) /\ last_executed_sequence \in Nat
    BY <1>0 DEF ExecutorTypeOK
  <2>5. executed' \in Seq(Vaas) /\ Len(executed') = Len(executed) + 1
        /\ executed'[Len(executed) + 1] = vaa
        /\ \A k \in 1..Len(executed) : executed'[k] = executed[k]
    BY <2>2, <2>4, SMT
  <2>6. ExecutorTypeOK'
    BY <1>0, <2>1, <2>2, <2>3, <2>5 DEF ExecutorTypeOK
  <2>7. \A k \in 1..Len(executed) : executed[k].sequence \in Nat
    BY <2>4, VaaAssumption, SMT DEF VaaAssumption
  <2>8. ExecutedInOrder'
    <3>1. DOMAIN executed = 1..Len(executed) /\ DOMAIN executed' = 1..(Len(executed) + 1)
          /\ Len(executed) \in Nat
      BY <2>4, <2>5, SMT
    <3>2. \A k \in 1..Len(executed) : executed[k].sequence < vaa.sequence
      <4> SUFFICES ASSUME NEW k \in 1..Len(executed)
                   PROVE  executed[k].sequence < vaa.sequence
        OBVIOUS
      <4>1. executed[k].sequence <= last_executed_sequence
        BY <1>0, <3>1 DEF ExecutedInOrder
      <4>2. executed[k].sequence \in Nat
        BY <2>7
      <4> QED BY <2>1, <2>4, <4>1, <4>2, SMT
    <3>3. ASSUME NEW k \in DOMAIN executed', NEW l \in DOMAIN executed', k < l
          PROVE  executed'[k].sequence < executed'[l].sequence
      <4>1. CASE l = Len(executed) + 1 BY <2>5, <3>1, <3>2, <3>3, <4>1, SMT
      <4>2. CASE l # Len(executed) + 1
        <5>1. k \in 1..Len(executed) /\ l \in 1..Len(executed)
          BY <3>1, <3>3, <4>2, SMT
        <5> QED BY <1>0, <2>5, <3>1, <3>3, <5>1 DEF ExecutedInOrder
      <4> QED BY <4>1, <4>2
    <3>4. ASSUME NEW k \in DOMAIN executed' PROVE executed'[k].sequence <= vaa.sequence
      <4>1. CASE k = Len(executed) + 1 BY <2>1, <2>5, <4>1, SMT
      <4>2. CASE k \in 1..Len(executed) BY <2>1, <2>5, <2>7, <3>2, <4>2, SMT
      <4> QED BY <3>1, <4>1, <4>2, SMT
    <3> QED BY <2>2, <3>3, <3>4 DEF ExecutedInOrder
  <2>9. OneLiveSet'
    BY <1>0, <2>3 DEF OneLiveSet
  <2> QED BY <2>6, <2>8, <2>9 DEF Inv
<1>3. CASE LedgerStep
  <2>1. ExecutorTypeOK'
    BY <1>0, <1>3, SMT DEF LedgerStep, LedgerTick, Archive, ExecutorTypeOK
  <2>2. OneLiveSet'
    <3>1. UNCHANGED <<guardian_sets, guardian_set_index>> /\ timestamp' \in {timestamp, timestamp + 1}
      BY <1>3 DEF LedgerStep, LedgerTick, Archive
    <3>2. timestamp \in Nat
      <4>1. timestamp \in 0..MaxTimestamp BY <1>0 DEF ExecutorTypeOK
      <4> QED BY <4>1, SMT
    <3>3. GuardianSetExpiry \in Nat
      BY ExecutorAssumption DEF ExecutorAssumption
    <3>4. 0..(timestamp + GuardianSetExpiry) \subseteq 0..(timestamp' + GuardianSetExpiry)
      BY <3>1, <3>2, <3>3, WiderWindow, Zenon
    <3> QED BY <1>0, <3>1, <3>4 DEF OneLiveSet
  <2>3. ExecutedInOrder'
    BY <1>0, <1>3 DEF LedgerStep, LedgerTick, Archive, ExecutedInOrder
  <2> QED BY <2>1, <2>2, <2>3 DEF Inv
<1>4. CASE UNCHANGED executorvars
  BY <1>0, <1>4 DEF executorvars, Inv, ExecutorTypeOK, OneLiveSet, ExecutedInOrder
<1> QED BY <1>1, <1>2, <1>3, <1>4 DEF ExecutorNext

\* Every variable of the executor keeps its type, and the stored sets are those
\* from the first index to the current one.
THEOREM ExecutorTypes == ExecutorSpec => []ExecutorTypeOK
<1>1. Inv => ExecutorTypeOK BY DEF Inv
<1> QED BY <1>1, InvInit, InvStep, PTL DEF ExecutorSpec

\* The current guardian set is the one set that does not expire.
THEOREM CurrentSetAlone == ExecutorSpec => []OneLiveSet
<1>1. Inv => OneLiveSet BY DEF Inv
<1> QED BY <1>1, InvInit, InvStep, PTL DEF ExecutorSpec

\* No governance VAA is executed twice or after a later one.
THEOREM NoReplay == ExecutorSpec => []ExecutedInOrder
<1>1. Inv => ExecutedInOrder BY DEF Inv
<1> QED BY <1>1, InvInit, InvStep, PTL DEF ExecutorSpec

\* The signatures that verify_vaa accepts name distinct guardians, so there are
\* at least as many signers as signatures.
LEMMA DistinctSigners ==
    ASSUME NEW R, \A r \in R : r.guardian_index \in Nat, NEW sigs \in Seq(R),
           NEW keys \in Seq(Keys), Ascending(sigs), SignedBy(sigs, keys),
           NEW S, S = {g \in 1..Len(keys) :
                         \E s \in DOMAIN sigs :
                            /\ sigs[s].guardian_index + 1 = g
                            /\ sigs[s].recovered = keys[g]}
    PROVE  Cardinality(S) \in Nat /\ Len(sigs) <= Cardinality(S)
<1> DEFINE f == [s \in 1..Len(sigs) |-> sigs[s].guardian_index + 1]
<1>1. Len(sigs) \in Nat /\ DOMAIN sigs = 1..Len(sigs)
  BY SMT
<1>2. \A s \in 1..Len(sigs) : sigs[s].guardian_index \in Nat
  BY SMT
<1>3. Len(keys) \in Nat
  BY SMT
<1>4. ASSUME NEW s \in 1..Len(sigs)
      PROVE  f[s] \in S
  <2>1. sigs[s].guardian_index < Len(keys) /\ sigs[s].recovered = keys[sigs[s].guardian_index + 1]
    BY <1>1 DEF SignedBy
  <2>2. sigs[s].guardian_index + 1 \in 1..Len(keys)
    BY <1>2, <1>3, <2>1, SMT
  <2> QED BY <1>1, <2>1, <2>2
<1>5. ASSUME NEW s \in 1..Len(sigs), NEW t \in 1..Len(sigs), f[s] = f[t]
      PROVE  s = t
  <2>1. sigs[s].guardian_index = sigs[t].guardian_index
    BY <1>2, <1>5, SMT
  <2>2. /\ s < t => sigs[s].guardian_index < sigs[t].guardian_index
        /\ t < s => sigs[t].guardian_index < sigs[s].guardian_index
    BY <1>1 DEF Ascending
  <2>3. s \in Int /\ t \in Int
    BY <1>1, SMT
  <2>4. sigs[s].guardian_index \in Nat /\ sigs[t].guardian_index \in Nat
    BY <1>2
  <2> QED BY <2>1, <2>2, <2>3, <2>4, SMT
<1>6. f \in [1..Len(sigs) -> S]
  BY <1>4
<1>7. DOMAIN f = 1..Len(sigs)
  OBVIOUS
<1> HIDE DEF f
<1>8. f \in Injection(1..Len(sigs), S)
  BY <1>5, <1>6, <1>7 DEF Injection, IsInjective
<1>9. IsFiniteSet(S) /\ Cardinality(S) \in Nat
  <2>1. S \in SUBSET (1..Len(keys))
    OBVIOUS
  <2>2. IsFiniteSet(1..Len(keys))
    BY <1>3, FS_Interval, SMT
  <2> QED BY <2>1, <2>2, FS_Subset, FS_CardinalityType
<1>10. Cardinality(1..Len(sigs)) = Len(sigs)
  <2>1. ASSUME NEW n \in Nat PROVE Cardinality(1..n) = n
    BY FS_Interval, SMT
  <2> QED BY <1>1, <2>1
<1>11. Cardinality(1..Len(sigs)) <= Cardinality(S)
  BY <1>8, <1>9, FS_Injection
<1> QED BY <1>9, <1>10, <1>11

\* A VAA that passes verify_vaa carries a quorum of a set that is current or in
\* its grace window.
LEMMA VerifiedIsBacked ==
    ASSUME ExecutorTypeOK, OneLiveSet, NEW vaa \in Vaas, verify_vaa(vaa)
    PROVE  Backed(vaa)
<1> DEFINE i == vaa.guardian_set_index
           sigs == vaa.signatures
           keys == guardian_sets[i].keys
           n == Cardinality(SignersOf(vaa, i))
<1>1. /\ i \in DOMAIN guardian_sets
      /\ Len(sigs) >= quorum(Len(keys))
      /\ Ascending(sigs) /\ SignedBy(sigs, keys)
      /\ Unexpired(guardian_sets[i])
  BY DEF verify_vaa
<1>2. sigs \in Seq([guardian_index : Nat, recovered : Keys])
  BY VaaAssumption DEF VaaAssumption
<1>3. guardian_sets[i] \in StoredGuardianSet
  BY <1>1 DEF ExecutorTypeOK
<1>4. keys \in Seq(Keys)
  BY <1>3 DEF StoredGuardianSet
<1>5. n \in Nat /\ Len(sigs) <= n
  <2> DEFINE R == [guardian_index : Nat, recovered : Keys]
  <2>1. \A r \in R : r.guardian_index \in Nat
    OBVIOUS
  <2>2. sigs \in Seq(R)
    BY <1>2
  <2> HIDE DEF R
  <2> QED BY <1>1, <1>4, <2>1, <2>2, DistinctSigners DEF SignersOf
<1>6. Len(sigs) \in Nat /\ Len(keys) \in Nat
  BY <1>2, <1>4, SMT
<1>7. quorum(Len(keys)) \in Nat /\ 3 * quorum(Len(keys)) > 2 * Len(keys)
  BY <1>6, QuorumIsSupermajority
<1>8. 3 * n > 2 * Len(keys)
  <2> HIDE DEF n, sigs, keys
  <2> QED BY <1>1, <1>5, <1>6, <1>7, SMT
<1>9. i # guardian_set_index => timestamp < guardian_sets[i].expiration_time
  BY <1>1, ExecutorAssumption, SMT DEF Unexpired, OneLiveSet, Never, ExecutorTypeOK, ExecutorAssumption
<1> QED BY <1>1, <1>8, <1>9 DEF Backed

\* No governance action without a quorum of a set current or in its grace window.
THEOREM GovernanceNeedsQuorum == ExecutorSpec => ExecutionBacked
<1>1. ASSUME Inv, [ExecutorNext]_executorvars, ~ UNCHANGED executorvars, executed' # executed
      PROVE  Backed(executed'[Len(executed')])
  <2>1. PICK vaa \in Vaas : execute_governance_action(vaa)
    BY <1>1 DEF ExecutorNext, LedgerStep, LedgerTick, Archive, update_guardian_set, executorvars
  <2>2. Backed(vaa)
    BY <1>1, <2>1, VerifiedIsBacked DEF Inv, execute_governance_action
  <2>3. executed \in Seq(Vaas) /\ executed' = Append(executed, vaa)
    BY <1>1, <2>1 DEF Inv, ExecutorTypeOK, execute_governance_action
  <2>4. executed'[Len(executed')] = vaa
    BY <2>3, SMT
  <2> QED BY <2>2, <2>4
<1> QED BY <1>1, InvInit, InvStep, PTL DEF ExecutorSpec, ExecutionBacked

\* No rotation without a quorum of the set it replaces.
THEOREM RotationNeedsQuorum == ExecutorSpec => RotationBacked
<1> DEFINE A == guardian_sets' # guardian_sets =>
          \E vaa \in Vaas :
             /\ vaa.guardian_set_index = guardian_set_index
             /\ Backed(vaa) /\ vaa.payload.module = "Core"
             /\ guardian_set_index' = guardian_set_index + 1
             /\ guardian_sets'[guardian_set_index'].keys = vaa.payload.guardians
<1>1. Inv /\ [ExecutorNext]_executorvars => [A]_executorvars
  <2> SUFFICES ASSUME Inv, ExecutorNext, guardian_sets' # guardian_sets PROVE A
    BY DEF executorvars
  <2>1. PICK vaa \in Vaas : update_guardian_set(vaa)
    BY DEF ExecutorNext, LedgerStep, LedgerTick, Archive, execute_governance_action
  <2>2. vaa.guardian_set_index = guardian_set_index /\ Backed(vaa)
        /\ vaa.payload.module = "Core"
    BY <2>1, VerifiedIsBacked DEF Inv, update_guardian_set
  <2>3. /\ guardian_set_index' = guardian_set_index + 1
        /\ guardian_sets'[guardian_set_index'].keys = vaa.payload.guardians
    <3>1. /\ guardian_set_index' = guardian_set_index + 1
          /\ guardian_sets'[guardian_set_index + 1] =
                [keys |-> vaa.payload.guardians, expiration_time |-> Never]
      BY <2>1, RotationStep DEF Inv
    <3> QED BY <3>1, SMT
  <2> QED BY <2>2, <2>3
<1> QED BY <1>1, InvInit, InvStep, PTL DEF ExecutorSpec, RotationBacked

\* A rotation moves no deadline that was set before, and changes no keys.
THEOREM DeadlinesStand == ExecutorSpec => RetirementIsFinal
<1> DEFINE A == \A i \in DOMAIN guardian_sets :
          /\ i \in DOMAIN guardian_sets'
          /\ guardian_sets'[i].keys = guardian_sets[i].keys
          /\ guardian_sets[i].expiration_time # Never => guardian_sets'[i] = guardian_sets[i]
<1>1. Inv /\ [ExecutorNext]_executorvars => [A]_executorvars
  <2> SUFFICES ASSUME Inv, ExecutorNext, NEW i \in DOMAIN guardian_sets, guardian_sets' # guardian_sets
               PROVE  /\ i \in DOMAIN guardian_sets'
                      /\ guardian_sets'[i].keys = guardian_sets[i].keys
                      /\ guardian_sets[i].expiration_time # Never => guardian_sets'[i] = guardian_sets[i]
    BY DEF executorvars
  <2>1. PICK vaa \in Vaas : update_guardian_set(vaa)
    BY DEF ExecutorNext, LedgerStep, LedgerTick, Archive, execute_governance_action
  <2>2. /\ DOMAIN guardian_sets' = InitialIndex..(guardian_set_index + 1)
        /\ i \in InitialIndex..guardian_set_index
        /\ guardian_sets'[i] =
              IF i = guardian_set_index
              THEN [guardian_sets[i] EXCEPT !.expiration_time = timestamp + GuardianSetExpiry]
              ELSE guardian_sets[i]
    BY <2>1, RotationStep DEF Inv, ExecutorTypeOK
  <2>3. guardian_sets[i] \in StoredGuardianSet /\ guardian_set_index \in Nat /\ InitialIndex \in Nat
        /\ timestamp + GuardianSetExpiry \in Nat
    BY ExecutorAssumption, SMT DEF Inv, ExecutorTypeOK, ExecutorAssumption
  <2>4. i = guardian_set_index => guardian_sets[i].expiration_time = Never
    BY DEF Inv, OneLiveSet
  <2>5. i \in DOMAIN guardian_sets'
    BY <2>2, <2>3, SMT
  <2>6. guardian_sets'[i].keys = guardian_sets[i].keys
    BY <2>2, <2>3, Retired, SMT
  <2> QED BY <2>2, <2>4, <2>5, <2>6
<1> QED BY <1>1, InvInit, InvStep, PTL DEF ExecutorSpec, RetirementIsFinal

\* Nothing happens without a quorum: neither an executed action nor a rotation
\* (verify_vaa, execute_governance_action, update_guardian_set).
THEOREM NothingWithoutQuorum == ExecutorSpec => QuorumBacked
  BY GovernanceNeedsQuorum, RotationNeedsQuorum, PTL DEF QuorumBacked

\* A set that was replaced is on its way out and stays so (store_guardian_set).
THEOREM SetsRetireForGood == ExecutorSpec => SetsRetire
  BY CurrentSetAlone, DeadlinesStand, PTL DEF SetsRetire

-----------------------------------------------------------------------------
(* The two contracts together *)

\* A step of the two contracts is a step of the executor, or leaves it alone.
LEMMA ExecutorStep == [GovNext]_govVars => [ExecutorNext]_executorvars
<1> SUFFICES ASSUME [GovNext]_govVars PROVE [ExecutorNext]_executorvars
  OBVIOUS
<1>1. ASSUME NEW vaa \in Vaas, Execute(vaa) PROVE ExecutorNext
  BY <1>1 DEF Execute, ExecutorNext
<1>2. ASSUME NEW vaa \in Vaas, Rotate(vaa) PROVE ExecutorNext
  BY <1>2 DEF Rotate, ExecutorNext
<1>3. ASSUME NEW k \in Pubkeys, Verify(k) PROVE UNCHANGED executorvars
  BY <1>3 DEF Verify
<1>4. ASSUME LedgerStep PROVE ExecutorNext
  BY <1>4 DEF ExecutorNext
<1>5. ASSUME UNCHANGED govVars PROVE UNCHANGED executorvars
  BY <1>5 DEF govVars
<1> QED BY <1>1, <1>2, <1>3, <1>4, <1>5 DEF GovNext

\* The two contracts together implement the executor's specification.
THEOREM ExecutorRefined == GovSpec => ExecutorImplemented
<1>1. GovInit => ExecutorInit
  BY DEF GovInit
<1> QED BY <1>1, ExecutorStep, PTL DEF GovSpec, ExecutorImplemented, ExecutorSpec

\* What an executed instruction does to the mandate of each key.
LEMMA MandateStep ==
    ASSUME Inv, Inv', NEW vaa \in Vaas, Execute(vaa), NEW k \in Pubkeys
    PROVE  Mandate(k)' = IF SetsSigner(vaa.payload, k) THEN {vaa.payload.expires_at} ELSE Mandate(k)
<1> DEFINE n == Len(executed) + 1
<1>1. /\ executed \in Seq(Vaas) /\ executed' = Append(executed, vaa)
      /\ DOMAIN executed = 1..Len(executed) /\ Len(executed) \in Nat
  BY SMT DEF Inv, ExecutorTypeOK, Execute, execute_governance_action
<1>2. /\ DOMAIN executed' = DOMAIN executed \cup {n}
      /\ executed'[n] = vaa
      /\ n \notin DOMAIN executed
      /\ \A i \in DOMAIN executed : executed'[i] = executed[i] /\ i < n
  BY <1>1, SMT
<1>3. CASE SetsSigner(vaa.payload, k)
  <2>1. n \in Instructions(k)'
    BY <1>2, <1>3 DEF Instructions
  <2>2. ASSUME NEW i \in DOMAIN executed'
        PROVE  /\ executed'[i].sequence \in Nat
               /\ i # n => executed'[i].sequence < executed'[n].sequence
    <3>1. executed'[i].sequence \in Nat
      BY VaaAssumption, SMT DEF VaaAssumption, Inv, ExecutorTypeOK
    <3>2. i # n => executed'[i].sequence < executed'[n].sequence
      BY <1>2 DEF Inv, ExecutedInOrder
    <3> QED BY <3>1, <3>2
  <2>3. Newest(k)' = {n}
    BY <1>2, <2>1, <2>2, SMT DEF Newest, Instructions
  <2> QED BY <1>2, <1>3, <2>1, <2>3 DEF Mandate
<1>4. CASE ~ SetsSigner(vaa.payload, k)
  <2>1. Instructions(k)' = Instructions(k)
    BY <1>2, <1>4 DEF Instructions
  <2>2. \A i \in Instructions(k) : executed'[i] = executed[i]
    BY <1>2 DEF Instructions
  <2>3. Newest(k)' = Newest(k)
    BY <2>1, <2>2, SMT DEF Newest
  <2>4. Newest(k) \subseteq Instructions(k)
    BY DEF Newest
  <2> QED BY <1>4, <2>1, <2>2, <2>3, <2>4 DEF Mandate
<1> QED BY <1>3, <1>4

\* What a call of update_trusted_signer does to the trust in each key.
LEMMA ExpiryStep ==
    ASSUME NEW vaa \in Vaas, Execute(vaa), NEW k \in Pubkeys
    PROVE  Expiry(TrustedSigners, k)' =
              IF SetsSigner(vaa.payload, k) THEN vaa.payload.expires_at
              ELSE Expiry(TrustedSigners, k)
<1>1. CASE /\ vaa.payload.action = "call" /\ vaa.payload.target = LazerAddress
           /\ vaa.payload.function = "update_trusted_signer"
           /\ Lazer!update_trusted_signer(ExecutorAddress, vaa.payload.pubkey, vaa.payload.expires_at)
  <2>1. TrustedSigners' =
          IF vaa.payload.expires_at = 0 THEN Lazer!Remove(TrustedSigners, vaa.payload.pubkey)
          ELSE Lazer!Put(TrustedSigners, vaa.payload.pubkey, vaa.payload.expires_at)
    BY <1>1 DEF Lazer!update_trusted_signer, Lazer!set_trusted_signer
  <2>2. SetsSigner(vaa.payload, k) <=> vaa.payload.pubkey = k
    BY <1>1 DEF SetsSigner
  <2> QED BY <2>1, <2>2 DEF Expiry, Lazer!Remove, Lazer!Put
<1>2. CASE /\ vaa.payload.action = "call" /\ vaa.payload.function = "upgrade"
           /\ UNCHANGED TrustedSigners
  BY <1>2 DEF SetsSigner, Expiry
<1>3. CASE vaa.payload.action = "upgrade_executor" /\ UNCHANGED TrustedSigners
  BY <1>3 DEF SetsSigner, Expiry
<1> QED BY <1>1, <1>2, <1>3 DEF Execute, Dispatch, Lazer!upgrade, lazerVars

\* A step that executes no instruction changes neither mandate nor trust.
LEMMA MandateStable ==
    ASSUME UNCHANGED <<executed, TrustedSigners>>, NEW k \in Pubkeys
    PROVE  Mandate(k)' = Mandate(k) /\ Expiry(TrustedSigners, k)' = Expiry(TrustedSigners, k)
  BY DEF Mandate, Expiry, Newest, Instructions

\* The trust in a key always follows the newest executed instruction about it.
THEOREM NewestWins == GovSpec => []NewestInstructionRules
<1>1. GovInit => NewestInstructionRules
  BY SMT DEF GovInit, ExecutorInit, Lazer!LazerInit, NewestInstructionRules, Mandate, Instructions, Expiry
<1>2. Inv /\ Inv' /\ NewestInstructionRules /\ [GovNext]_govVars => NewestInstructionRules'
  <2> SUFFICES ASSUME Inv, Inv', NewestInstructionRules, [GovNext]_govVars, NEW k \in Pubkeys
               PROVE  Mandate(k)' = {Expiry(TrustedSigners, k)'}
    BY DEF NewestInstructionRules
  <2>1. ASSUME NEW vaa \in Vaas, Execute(vaa) PROVE Mandate(k)' = {Expiry(TrustedSigners, k)'}
    BY <2>1, MandateStep, ExpiryStep DEF NewestInstructionRules
  <2>2. CASE UNCHANGED <<executed, TrustedSigners>>
    BY <2>2, MandateStable DEF NewestInstructionRules
  <2>3. ASSUME NEW vaa \in Vaas, Rotate(vaa) PROVE UNCHANGED <<executed, TrustedSigners>>
    BY <2>3 DEF Rotate, update_guardian_set, lazerVars
  <2>4. ASSUME NEW p \in Pubkeys, Verify(p) PROVE UNCHANGED <<executed, TrustedSigners>>
    BY <2>4 DEF Verify, executorvars, Lazer!verify_update
  <2>5. ASSUME LedgerStep, UNCHANGED lazerVars PROVE UNCHANGED <<executed, TrustedSigners>>
    BY <2>5 DEF LedgerStep, LedgerTick, Archive, lazerVars
  <2>6. ASSUME UNCHANGED govVars PROVE UNCHANGED <<executed, TrustedSigners>>
    BY <2>6 DEF govVars, executorvars, lazerVars
  <2> QED BY <2>1, <2>2, <2>3, <2>4, <2>5, <2>6 DEF GovNext
<1>3. GovInit => Inv
  BY InvInit DEF GovInit
<1>4. Inv /\ [GovNext]_govVars => Inv'
  BY InvStep, ExecutorStep
<1> QED BY <1>1, <1>2, <1>3, <1>4, PTL DEF GovSpec

\* An update is accepted only while governance's newest word trusts its signer.
THEOREM AcceptanceIsMandated == GovSpec => AcceptedIsTrusted
<1> DEFINE A == accepted' # accepted => \A e \in Mandate(accepted'[1]) : timestamp < e
<1>1. NewestInstructionRules /\ [GovNext]_govVars => [A]_govVars
  <2> SUFFICES ASSUME NewestInstructionRules, GovNext, accepted' # accepted,
                      NEW e \in Mandate(accepted'[1])
               PROVE  timestamp < e
    BY DEF govVars, lazerVars
  <2>1. PICK k \in Pubkeys : Verify(k)
    BY DEF GovNext, Execute, Dispatch, Rotate, lazerVars,
           Lazer!update_trusted_signer, Lazer!upgrade
  <2>2. /\ k \in DOMAIN TrustedSigners /\ timestamp < TrustedSigners[k]
        /\ accepted'[1] = k
    BY <2>1 DEF Verify, Lazer!verify_update
  <2> QED BY <2>2 DEF NewestInstructionRules, Expiry
<1> QED BY <1>1, NewestWins, PTL DEF GovSpec, AcceptedIsTrusted

\* What was proved of the executor holds of the two contracts together: calling
\* the Lazer contract in the same transaction takes none of it away.
THEOREM GovernanceKeepsQuorum == GovSpec => QuorumBacked /\ SetsRetire
  BY ExecutorRefined, NothingWithoutQuorum, SetsRetireForGood, PTL DEF ExecutorImplemented

\* set_trusted_signer keeps a map from keys to expiries, none of them zero.
LEMMA SignersStep ==
    ASSUME DOMAIN TrustedSigners \subseteq Pubkeys,
           \A k \in DOMAIN TrustedSigners : TrustedSigners[k] \in Nat \ {0},
           NEW p \in Pubkeys, NEW e \in Nat, Lazer!set_trusted_signer(p, e)
    PROVE  /\ DOMAIN TrustedSigners' \subseteq Pubkeys
           /\ \A k \in DOMAIN TrustedSigners' : TrustedSigners'[k] \in Nat \ {0}
  BY DEF Lazer!set_trusted_signer, Lazer!Put, Lazer!Remove

\* The types of the two contracts' storage: every trusted signer has an expiry,
\* which is never zero (update_trusted_signer removes a signer by a zero).
THEOREM GovernanceTypes == GovSpec => []GovTypeOK
<1> DEFINE SignersOK == /\ DOMAIN TrustedSigners \subseteq Pubkeys
                        /\ \A k \in DOMAIN TrustedSigners : TrustedSigners[k] \in Nat \ {0}
           AcceptedOK == accepted \in (Pubkeys \cup {Nobody}) \X (0..MaxTimestamp)
<1>1. GovInit => SignersOK /\ AcceptedOK
  BY GovernanceAssumption, ExecutorAssumption, SMT
     DEF GovernanceAssumption, ExecutorAssumption, GovInit, Lazer!LazerInit
<1>2. Inv /\ SignersOK /\ [GovNext]_govVars => SignersOK'
  <2> SUFFICES ASSUME SignersOK, [GovNext]_govVars PROVE SignersOK'
    OBVIOUS
  <2>1. ASSUME NEW vaa \in Vaas, Execute(vaa) PROVE SignersOK'
    <3>1. CASE /\ vaa.payload.action = "call" /\ vaa.payload.function = "update_trusted_signer"
               /\ Lazer!set_trusted_signer(vaa.payload.pubkey, vaa.payload.expires_at)
      <4>1. vaa.payload.pubkey \in Pubkeys /\ vaa.payload.expires_at \in Nat
        BY <3>1, CallAssumption DEF CallAssumption
      <4> QED BY <3>1, <4>1, SignersStep
    <3>2. CASE UNCHANGED TrustedSigners
      BY <3>2
    <3> QED BY <2>1, <3>1, <3>2 DEF Execute, Dispatch, Lazer!update_trusted_signer, Lazer!upgrade, lazerVars
  <2>2. CASE UNCHANGED TrustedSigners
    BY <2>2
  <2>3. ASSUME NEW vaa \in Vaas, Rotate(vaa) PROVE UNCHANGED TrustedSigners
    BY <2>3 DEF Rotate, lazerVars
  <2>4. ASSUME NEW p \in Pubkeys, Verify(p) PROVE UNCHANGED TrustedSigners
    BY <2>4 DEF Verify, Lazer!verify_update
  <2> QED BY <2>1, <2>2, <2>3, <2>4 DEF GovNext, govVars, lazerVars
<1>3. Inv /\ AcceptedOK /\ [GovNext]_govVars => AcceptedOK'
  <2> SUFFICES ASSUME Inv, AcceptedOK, [GovNext]_govVars PROVE AcceptedOK'
    OBVIOUS
  <2>1. ASSUME NEW p \in Pubkeys, Verify(p) PROVE AcceptedOK'
    <3>1. timestamp \in 0..MaxTimestamp
      BY DEF Inv, ExecutorTypeOK
    <3> QED BY <2>1, <3>1 DEF Verify, Lazer!verify_update
  <2>2. CASE UNCHANGED accepted
    BY <2>2
  <2>3. ASSUME NEW vaa \in Vaas, Execute(vaa) PROVE UNCHANGED accepted
    BY <2>3 DEF Execute, Dispatch, Lazer!update_trusted_signer, Lazer!upgrade, lazerVars
  <2>4. ASSUME NEW vaa \in Vaas, Rotate(vaa) PROVE UNCHANGED accepted
    BY <2>4 DEF Rotate, lazerVars
  <2> QED BY <2>1, <2>2, <2>3, <2>4 DEF GovNext, govVars, lazerVars
<1>4. GovInit => Inv
  BY InvInit DEF GovInit
<1>5. Inv /\ [GovNext]_govVars => Inv'
  BY InvStep, ExecutorStep
<1>6. Inv /\ SignersOK /\ AcceptedOK => GovTypeOK
  BY DEF Inv, GovTypeOK
<1> QED BY <1>1, <1>2, <1>3, <1>4, <1>5, <1>6, PTL DEF GovSpec
=============================================================================
