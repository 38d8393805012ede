-------------------------- MODULE PythLazerStellar --------------------------
(***************************************************************************)
(* The Lazer contract on Stellar (contracts/stellar/contracts/             *)
(* pyth-lazer-stellar): the map of trusted signers, changed only by the    *)
(* executor, and the verification of signed updates against it.            *)
(*                                                                         *)
(* An update is modelled by the key that secp256k1_recover yields for it;  *)
(* a malformed one is rejected before anything else happens.               *)
(***************************************************************************)
EXTENDS Naturals

CONSTANTS
    Executor,   \* the address stored by the constructor
    Nobody      \* no update accepted yet

VARIABLES
    timestamp,          \* env.ledger().timestamp()
    TrustedSigners,    \* TrustedSigners: pubkey -> expires_at
    lazer_wasm,         \* hash of the contract's code
    accepted            \* history: the last update accepted, <<pubkey, timestamp>>

\* A map with one more or one changed entry.
Put(map, key, value) == [k \in DOMAIN map \cup {key} |-> IF k = key THEN value ELSE map[k]]

Remove(map, key) == [k \in DOMAIN map \ {key} |-> map[k]]

\* __constructor, with the optional first signer.
LazerInit(initial_signers, wasm) ==
    /\ TrustedSigners = initial_signers
    /\ lazer_wasm = wasm
    /\ accepted = <<Nobody, 0>>

\* Mutant: an expiry of 0 is ignored.
SetSignerKeeps(pubkey, expires_at) ==
    TrustedSigners' = IF expires_at = 0 THEN TrustedSigners
                      ELSE Put(TrustedSigners, pubkey, expires_at)

\* "If `expires_at` is 0, removes the signer."
set_trusted_signer(pubkey, expires_at) ==
    TrustedSigners' = IF expires_at = 0 THEN Remove(TrustedSigners, pubkey)
                      ELSE Put(TrustedSigners, pubkey, expires_at)

update_trusted_signer(caller, pubkey, expires_at) ==
    /\ caller = Executor
    /\ set_trusted_signer(pubkey, expires_at)
    /\ UNCHANGED <<lazer_wasm, accepted>>

upgrade(caller, new_wasm_hash) ==
    /\ caller = Executor
    /\ lazer_wasm' = new_wasm_hash
    /\ UNCHANGED <<TrustedSigners, accepted>>

\* Mutant: the expiry is not checked.
VerifyExpired(pubkey) ==
    /\ pubkey \in DOMAIN TrustedSigners
    /\ accepted' = <<pubkey, timestamp>>
    /\ UNCHANGED <<TrustedSigners, lazer_wasm>>

\* verify_update returns the payload of an update signed by pubkey.
verify_update(pubkey) ==
    /\ pubkey \in DOMAIN TrustedSigners
    /\ timestamp < TrustedSigners[pubkey]
    /\ accepted' = <<pubkey, timestamp>>
    /\ UNCHANGED <<TrustedSigners, lazer_wasm>>
=============================================================================
