-------------------------- MODULE PythLazerSolana --------------------------
(***************************************************************************)
(* The Solana contract (lib.rs): the storage account with its two lists of *)
(* trusted signers, each an array of fixed size with the number of entries *)
(* in use, and the instructions.  A failed instruction leaves no trace but *)
(* its error: the transaction is rolled back.                              *)
(* What verify_message does with the bytes of the transaction is modelled  *)
(* in Ed25519Layout; here a message is its signer.                         *)
(***************************************************************************)
EXTENDS Integers, FiniteSets

CONSTANTS
    Authorities,                \* accounts that may call
    Signers,                    \* signers, of both kinds
    Default,                    \* the key of 32 zero bytes, or 20
    Times,                      \* values of expires_at
    MAX_NUM_TRUSTED_SIGNERS,
    SPACE_FOR_TRUSTED_SIGNERS,
    SPACE_FOR_TRUSTED_ECDSA_SIGNERS,
    MaxTime                     \* bound: the clock

MAX == MAX_NUM_TRUSTED_SIGNERS
SPACE == SPACE_FOR_TRUSTED_SIGNERS
ECDSA_SPACE == SPACE_FOR_TRUSTED_ECDSA_SIGNERS

ASSUME SolanaAssumption ==
    /\ MAX \in Nat \ {0} /\ SPACE \in Nat /\ ECDSA_SPACE \in Nat
    /\ MAX <= SPACE /\ MAX <= ECDSA_SPACE
    /\ Default \in Signers /\ Times \subseteq Int /\ 0 \in Times /\ MaxTime \in Nat

VARIABLES
    top_authority,              \* of the account, {} before it exists
    num_trusted_signers, trusted_signers,
    num_trusted_ecdsa_signers, trusted_ecdsa_signers,
    now,                        \* the clock
    reply                       \* of the last call: on which list, about whom, the result

ed25519 == <<num_trusted_signers, trusted_signers>>
ecdsa == <<num_trusted_ecdsa_signers, trusted_ecdsa_signers>>
vars == <<top_authority, ed25519, ecdsa, now, reply>>

DefaultItem == [pubkey |-> Default, expires_at |-> 0]

Init ==
    /\ top_authority = {}
    /\ num_trusted_signers = 0 /\ num_trusted_ecdsa_signers = 0
    /\ trusted_signers = [i \in 1..SPACE |-> DefaultItem]
    /\ trusted_ecdsa_signers = [i \in 1..ECDSA_SPACE |-> DefaultItem]
    /\ now \in 0..MaxTime
    /\ reply = [list |-> "none"]

-----------------------------------------------------------------------------
(* update_trusted_signer: the new number and array, for an array of n entries *)
(* in use of its space                                                        *)

Positions(n, items, signer) == {i \in 1..n : items[i].pubkey = signer}

\* Delete: the entries behind move up, and the freed one gets the default.
Removed(n, space, items, pos) ==
    [i \in 1..space |->
        IF i < pos THEN items[i] ELSE IF i < n THEN items[i + 1] ELSE DefaultItem]

Modified(items, pos, expires_at) == [items EXCEPT ![pos].expires_at = expires_at]

Added(n, space, items, signer, expires_at) ==
    [i \in 1..space |->
        IF i <= n THEN items[i]
        ELSE IF i = n + 1 THEN [pubkey |-> signer, expires_at |-> expires_at] ELSE DefaultItem]

\* The first signer of that name is deleted or modified, or one is added.
update_trusted_signer(n, space, items, signer, expires_at) ==
    LET at == Positions(n, items, signer)
        pos == CHOOSE p \in at : \A q \in at : p <= q
        refused == [reply |-> "refused", num |-> n, items |-> items]
    IN  IF n > space \/ n > MAX THEN refused
        ELSE IF expires_at = 0
        THEN IF at = {} THEN refused
             ELSE [reply |-> "ok", num |-> n - 1, items |-> Removed(n, space, items, pos)]
        ELSE IF at # {}
        THEN [reply |-> "ok", num |-> n, items |-> Modified(items, pos, expires_at)]
        ELSE IF n + 1 > space \/ n + 1 > MAX THEN refused
        ELSE [reply |-> "ok", num |-> n + 1,
              items |-> Added(n, space, items, signer, expires_at)]

-----------------------------------------------------------------------------
(* The instructions *)

Reply(which, signer, expires_at, result) ==
    reply' = [list |-> which, signer |-> signer, expires_at |-> expires_at, result |-> result]

\* The account can be created once, by anyone.
initialize(a) ==
    /\ top_authority = {}
    /\ top_authority' = {a}
    /\ UNCHANGED <<ed25519, ecdsa, now, reply>>

update(a, signer, expires_at) ==
    /\ a \in top_authority
    /\ LET u == update_trusted_signer(num_trusted_signers, SPACE, trusted_signers, signer, expires_at)
       IN  /\ num_trusted_signers' = u.num /\ trusted_signers' = u.items
           /\ Reply("ed25519", signer, expires_at, u.reply)
    /\ UNCHANGED <<top_authority, ecdsa, now>>

update_ecdsa_signer(a, signer, expires_at) ==
    /\ a \in top_authority
    /\ LET u == update_trusted_signer(num_trusted_ecdsa_signers, ECDSA_SPACE, trusted_ecdsa_signers,
                                      signer, expires_at)
       IN  /\ num_trusted_ecdsa_signers' = u.num /\ trusted_ecdsa_signers' = u.items
           /\ Reply("ecdsa", signer, expires_at, u.reply)
    /\ UNCHANGED <<top_authority, ed25519, now>>

\* Mutant: the entries that are not in use are looked at too.
TrustedAnywhere(signer) ==
    \E i \in 1..SPACE :
        trusted_signers[i].pubkey = signer /\ trusted_signers[i].expires_at >= now

is_trusted(signer) ==
    \E i \in 1..num_trusted_signers :
        trusted_signers[i].pubkey = signer /\ trusted_signers[i].expires_at > now

is_ecdsa_trusted(signer) ==
    \E i \in 1..num_trusted_ecdsa_signers :
        trusted_ecdsa_signers[i].pubkey = signer /\ trusted_ecdsa_signers[i].expires_at > now

\* The fee is paid first, from an account that is not modelled; an instruction
\* that cannot pay it fails like any other.
verify_message(signer) ==
    /\ top_authority # {}
    /\ Reply("ed25519", signer, 0, IF is_trusted(signer) THEN "accepted" ELSE "not trusted")
    /\ UNCHANGED <<top_authority, ed25519, ecdsa, now>>

\* An address of zeros means that recovery failed.
verify_ecdsa_message(signer) ==
    /\ top_authority # {}
    /\ signer # Default
    /\ Reply("ecdsa", signer, 0, IF is_ecdsa_trusted(signer) THEN "accepted" ELSE "not trusted")
    /\ UNCHANGED <<top_authority, ed25519, ecdsa, now>>

Tick ==
    /\ now < MaxTime /\ now' = now + 1
    /\ UNCHANGED <<top_authority, ed25519, ecdsa, reply>>

Next ==
    \/ \E a \in Authorities :
          \/ initialize(a)
          \/ \E s \in Signers, e \in Times : update(a, s, e) \/ update_ecdsa_signer(a, s, e)
    \/ \E s \in Signers : verify_message(s) \/ verify_ecdsa_message(s)
    \/ Tick

Spec == Init /\ [][Next]_vars

-----------------------------------------------------------------------------
(* Properties *)

Items(space) == [1..space -> [pubkey : Signers, expires_at : Times]]

\* An array in use up to n: within its limits, one entry per signer, none with
\* the expiry time that means "delete", and the default behind.
ListOK(n, space, items) ==
    /\ n \in 0..MAX /\ items \in Items(space)
    /\ \A i, j \in 1..n : items[i].pubkey = items[j].pubkey => i = j
    /\ \A i \in 1..n : items[i].expires_at # 0
    /\ \A i \in 1..space : i > n => items[i] = DefaultItem

\* The account keeps within its arrays, no signer is in a list twice, and what
\* is not in use is zero: the checks of update_trusted_signer on the stored
\* number never fail.
TypeOK ==
    /\ top_authority \in SUBSET Authorities
    /\ ListOK(num_trusted_signers, SPACE, trusted_signers)
    /\ ListOK(num_trusted_ecdsa_signers, ECDSA_SPACE, trusted_ecdsa_signers)
    /\ now \in 0..MaxTime
    /\ reply \in [list : {"none"}] \cup
                 [list : {"ed25519", "ecdsa"}, signer : Signers, expires_at : Times,
                  result : {"ok", "refused", "accepted", "not trusted"}]

\* The map a list stands for.
ExpiryOf(n, items) ==
    [s \in {items[i].pubkey : i \in 1..n} |->
        items[CHOOSE i \in 1..n : items[i].pubkey = s].expires_at]

Registry == INSTANCE SignerRegistry WITH
    Name <- "ed25519", Max <- MAX,
    expiry <- ExpiryOf(num_trusted_signers, trusted_signers)

EcdsaRegistry == INSTANCE SignerRegistry WITH
    Name <- "ecdsa", Max <- MAX,
    expiry <- ExpiryOf(num_trusted_ecdsa_signers, trusted_ecdsa_signers)

\* Each list, with its deletions that move entries, its modifications and its
\* limits, is the map it stands for, and messages are accepted by that map
\* (update, update_ecdsa_signer, is_trusted, is_ecdsa_trusted).
ListsAreMaps == Registry!Spec /\ EcdsaRegistry!Spec
=============================================================================
