------------------------- MODULE StellarGovernance -------------------------
(***************************************************************************)
(* The two Stellar contracts together: execute_governance_action verifies  *)
(* a VAA, takes its sequence number and calls the Lazer contract, all in   *)
(* one transaction, while users submit updates for verification.           *)
(*                                                                         *)
(* An upgrade installs code that behaves as the code it replaces.          *)
(***************************************************************************)
EXTENDS WormholeExecutor

CONSTANTS
    LazerAddress,     \* the address of the Lazer contract
    Pubkeys,          \* keys that may sign updates
    InitialSigners,   \* constructor argument: pubkey -> expires_at, at most one
    InitialWasm,      \* hash of the code both contracts start with
    Nobody

ASSUME GovernanceAssumption ==
    /\ Nobody \notin Pubkeys
    /\ LazerAddress # ExecutorAddress
    /\ DOMAIN InitialSigners \subseteq Pubkeys
    /\ \A k \in DOMAIN InitialSigners : InitialSigners[k] \in Nat \ {0}

\* A call of update_trusted_signer has a key and an expiry as its arguments.
ASSUME CallAssumption ==
    \A vaa \in Vaas :
        vaa.payload.action = "call" /\ vaa.payload.function = "update_trusted_signer"
            => vaa.payload.pubkey \in Pubkeys /\ vaa.payload.expires_at \in Nat

VARIABLES TrustedSigners, lazer_wasm, accepted, executor_wasm

Lazer == INSTANCE PythLazerStellar WITH Executor <- ExecutorAddress

lazerVars == <<TrustedSigners, lazer_wasm, accepted>>
govVars == <<executorvars, lazerVars, executor_wasm>>

GovInit ==
    /\ ExecutorInit
    /\ Lazer!LazerInit(InitialSigners, InitialWasm)
    /\ executor_wasm = InitialWasm

\* The payload is a call of update_trusted_signer for the key.
SetsSigner(payload, pubkey) ==
    /\ payload.action = "call" /\ payload.target = LazerAddress
    /\ payload.function = "update_trusted_signer" /\ payload.pubkey = pubkey

\* The call made by execute_governance_action; an unknown target or function
\* fails, and with it the transaction.
Dispatch(payload) ==
    \/ /\ payload.action = "call" /\ payload.target = LazerAddress
       /\ payload.function = "update_trusted_signer"
       /\ Lazer!update_trusted_signer(ExecutorAddress, payload.pubkey, payload.expires_at)
       /\ UNCHANGED executor_wasm
    \/ /\ payload.action = "call" /\ payload.target = LazerAddress
       /\ payload.function = "upgrade"
       /\ Lazer!upgrade(ExecutorAddress, payload.wasm)
       /\ UNCHANGED executor_wasm
    \/ /\ payload.action = "upgrade_executor"
       /\ executor_wasm' = payload.wasm
       /\ UNCHANGED lazerVars

\* The whole of execute_governance_action.
Execute(vaa) == execute_governance_action(vaa) /\ Dispatch(vaa.payload)

Rotate(vaa) == update_guardian_set(vaa) /\ UNCHANGED <<lazerVars, executor_wasm>>

Verify(pubkey) == Lazer!verify_update(pubkey) /\ UNCHANGED <<executorvars, executor_wasm>>

GovNext ==
    \/ \E vaa \in Vaas : Execute(vaa) \/ Rotate(vaa)
    \/ \E pubkey \in Pubkeys : Verify(pubkey)
    \/ LedgerStep /\ UNCHANGED <<lazerVars, executor_wasm>>

GovSpec == GovInit /\ [][GovNext]_govVars

-----------------------------------------------------------------------------
(* Properties *)

GovTypeOK ==
    /\ ExecutorTypeOK
    /\ DOMAIN TrustedSigners \subseteq Pubkeys
    /\ \A k \in DOMAIN TrustedSigners : TrustedSigners[k] \in Nat \ {0}
    /\ accepted \in (Pubkeys \cup {Nobody}) \X (0..MaxTimestamp)

\* The expiry in force for a key, 0 when it is not trusted.
Expiry(signers, pubkey) == IF pubkey \in DOMAIN signers THEN signers[pubkey] ELSE 0

\* The executed instructions about a key, as positions in executed.
Instructions(pubkey) == {i \in DOMAIN executed : SetsSigner(executed[i].payload, pubkey)}

\* The instructions about a key with the highest sequence number.
Newest(pubkey) ==
    {i \in Instructions(pubkey) :
        \A j \in Instructions(pubkey) : executed[j].sequence <= executed[i].sequence}

\* The expiry governance last gave a key, by sequence number and not by arrival,
\* as a set: two newest instructions could disagree.
Mandate(pubkey) ==
    IF Instructions(pubkey) = {} THEN {Expiry(InitialSigners, pubkey)}
    ELSE {executed[i].payload.expires_at : i \in Newest(pubkey)}

\* "replay protection via strictly increasing sequence numbers"
\* (execute_governance_action) as the Lazer contract sees it: the trust in a key
\* is always that of the newest instruction about it, in whatever order VAAs
\* arrive, so an old VAA never brings back a signer that was removed.
NewestInstructionRules == \A k \in Pubkeys : Mandate(k) = {Expiry(TrustedSigners, k)}

\* verify_update accepts an update only while governance's newest word on its
\* signer is an expiry in the future.
AcceptedIsTrusted ==
    [][accepted' # accepted => \A e \in Mandate(accepted'[1]) : timestamp < e]_govVars

\* The composition only restricts the executor: every behaviour of the two
\* contracts is one of WormholeExecutor, so what is proved of it holds here.
ExecutorImplemented == ExecutorSpec
=============================================================================
