--------------------------- MODULE WormholeExecutor ---------------------------
(***************************************************************************)
(* The Stellar governance executor                                         *)
(* (contracts/stellar/contracts/wormhole-executor-stellar).                *)
(*                                                                         *)
(* Anyone may submit any VAA at any time, in any order and repeatedly.  A  *)
(* transaction that fails is rolled back whole, so an action is enabled    *)
(* exactly when the entry point returns Ok.  A signature is modelled by    *)
(* the key that secp256k1_recover yields for it, a payload by its parsed   *)
(* fields (a malformed one has module "bad").                              *)
(***************************************************************************)
EXTENDS Integers, Sequences, FiniteSets

CONSTANTS
    Keys,               \* guardian addresses
    Vaas,               \* the VAAs that may be submitted
    InitialGuardianSet, \* constructor arguments: the first set,
    InitialIndex,       \*   its index,
    OwnerEmitter,       \*   <<chain, address>> allowed to govern,
    UpgradeEmitter,     \*   <<chain, address>> allowed to rotate guardians,
    ChainId,            \*   and the Wormhole id of this chain
    ExecutorAddress,    \* env.current_contract_address()
    GuardianSetExpiry,  \* GUARDIAN_SET_EXPIRY
    MaxTimestamp             \* bound: the ledger clock stops here

ASSUME ExecutorAssumption ==
    /\ InitialGuardianSet \in Seq(Keys) /\ InitialGuardianSet # <<>>
    /\ InitialIndex \in Nat
    /\ GuardianSetExpiry \in Nat \ {0}
    /\ MaxTimestamp \in Nat
    /\ 0 # ChainId

ASSUME VaaAssumption ==
    \A vaa \in Vaas :
        /\ vaa.guardian_set_index \in Nat
        /\ vaa.signatures \in Seq([guardian_index : Nat, recovered : Keys])
        /\ vaa.sequence \in Nat
        /\ vaa.payload.module = "Core" =>
              vaa.payload.new_index \in Nat /\ vaa.payload.guardians \in Seq(Keys)

\* expiration_time = None.
Never == -1

\* The storage entries whose TTL can lapse on their own.
Index == "GuardianSetIndex"
Sequence == "LastExecutedSequence"

VARIABLES
    timestamp,                \* env.ledger().timestamp()
    guardian_sets,            \* GuardianSetByIndex: index -> StoredGuardianSet
    guardian_set_index,       \* GuardianSetIndex
    last_executed_sequence,   \* LastExecutedSequence
    archived,                 \* which of Index and Sequence has a lapsed TTL
    executed                  \* history: the governance VAAs executed, in order

executorvars == <<timestamp, guardian_sets, guardian_set_index, last_executed_sequence,
          archived, executed>>

\* __constructor
ExecutorInit ==
    /\ timestamp = 0
    /\ guardian_sets = [i \in {InitialIndex} |->
                          [keys |-> InitialGuardianSet, expiration_time |-> Never]]
    /\ guardian_set_index = InitialIndex
    /\ last_executed_sequence = 0
    /\ archived = {}
    /\ executed = <<>>

-----------------------------------------------------------------------------
(* verify_vaa *)

quorum(n) == (((n * 10) \div 3) * 2) \div 10 + 1

\* "Check ascending order (also prevents duplicates)."
Ascending(sigs) ==
    \A i, j \in DOMAIN sigs : i < j => sigs[i].guardian_index < sigs[j].guardian_index

\* Every signature is by the guardian it names.
SignedBy(sigs, keys) ==
    \A i \in DOMAIN sigs :
        /\ sigs[i].guardian_index < Len(keys)
        /\ sigs[i].recovered = keys[sigs[i].guardian_index + 1]

Unexpired(set) == set.expiration_time = Never \/ timestamp < set.expiration_time

verify_vaa(vaa) ==
    LET i == vaa.guardian_set_index
    IN  /\ i \in DOMAIN guardian_sets
        /\ Unexpired(guardian_sets[i])
        /\ Len(vaa.signatures) >= quorum(Len(guardian_sets[i].keys))
        /\ Ascending(vaa.signatures)
        /\ SignedBy(vaa.signatures, guardian_sets[i].keys)

-----------------------------------------------------------------------------
(* update_guardian_set *)

\* Mutant: rotating again gives the retired set a new deadline.
StoreRefreshes(keys, i) ==
    guardian_sets' =
        [j \in DOMAIN guardian_sets \cup {i} |->
            IF j = i THEN [keys |-> keys, expiration_time |-> Never]
            ELSE [guardian_sets[j] EXCEPT !.expiration_time = timestamp + GuardianSetExpiry]]

\* store_guardian_set: the old set expires in 24 hours, the new one never.
store_guardian_set(keys, i) ==
    guardian_sets' =
        [j \in DOMAIN guardian_sets \cup {i} |->
            IF j = i THEN [keys |-> keys, expiration_time |-> Never]
            ELSE IF j = i - 1
            THEN [guardian_sets[j] EXCEPT !.expiration_time = timestamp + GuardianSetExpiry]
            ELSE guardian_sets[j]]

\* Mutant: any unexpired set may rotate the guardians.
UpdateByRetired(vaa) ==
    /\ verify_vaa(vaa)
    /\ archived = {}
    /\ vaa.emitter = UpgradeEmitter
    /\ vaa.payload.module = "Core"
    /\ vaa.payload.action = "upgrade"
    /\ vaa.payload.target_chain \in {0, ChainId}
    /\ vaa.payload.new_index = guardian_set_index + 1
    /\ vaa.payload.guardians # <<>>
    /\ store_guardian_set(vaa.payload.guardians, vaa.payload.new_index)
    /\ guardian_set_index' = vaa.payload.new_index
    /\ UNCHANGED <<timestamp, last_executed_sequence, archived, executed>>

\* It reads Index and, on success, extends the TTL of both entries.
update_guardian_set(vaa) ==
    /\ verify_vaa(vaa)
    /\ archived = {}
    /\ vaa.guardian_set_index = guardian_set_index
    /\ vaa.emitter = UpgradeEmitter
    /\ vaa.payload.module = "Core"
    /\ vaa.payload.action = "upgrade"
    /\ vaa.payload.target_chain \in {0, ChainId}
    /\ vaa.payload.new_index = guardian_set_index + 1
    /\ vaa.payload.guardians # <<>>
    /\ store_guardian_set(vaa.payload.guardians, vaa.payload.new_index)
    /\ guardian_set_index' = vaa.payload.new_index
    /\ UNCHANGED <<timestamp, last_executed_sequence, archived, executed>>

-----------------------------------------------------------------------------
(* execute_governance_action *)

\* get_last_executed_sequence fails on a missing entry, and the sequence number
\* must be strictly increasing.
AboveLast(sequence) == Sequence \notin archived /\ sequence > last_executed_sequence

\* parse_ptgm and the decoding of its function name and arguments succeed.
parse_ptgm(payload) ==
    /\ payload.module = "StellarExecutor"
    /\ payload.target_chain = ChainId
    /\ payload.executor = ExecutorAddress
    /\ \/ payload.action = "call"
       \/ payload.action = "upgrade_executor" /\ payload.target = ExecutorAddress

\* The executor's own part of execute_governance_action; the call it makes must
\* succeed as well or the transaction is rolled back (see StellarGovernance).
execute_governance_action(vaa) ==
    /\ verify_vaa(vaa)
    /\ vaa.emitter = OwnerEmitter
    /\ AboveLast(vaa.sequence)
    /\ parse_ptgm(vaa.payload)
    /\ last_executed_sequence' = vaa.sequence
    /\ executed' = Append(executed, vaa)
    /\ UNCHANGED <<timestamp, guardian_sets, guardian_set_index, archived>>

-----------------------------------------------------------------------------
(* The ledger *)

LedgerTick ==
    /\ timestamp < MaxTimestamp
    /\ timestamp' = timestamp + 1
    /\ UNCHANGED <<guardian_sets, guardian_set_index, last_executed_sequence, archived, executed>>

\* The TTL of an entry lapses, or a lapsed entry is restored.
Archive(entry) ==
    /\ archived' = IF entry \in archived THEN archived \ {entry} ELSE archived \cup {entry}
    /\ UNCHANGED <<timestamp, guardian_sets, guardian_set_index, last_executed_sequence, executed>>

LedgerStep == LedgerTick \/ \E entry \in {Index, Sequence} : Archive(entry)

ExecutorNext ==
    \/ \E vaa \in Vaas : update_guardian_set(vaa) \/ execute_governance_action(vaa)
    \/ LedgerStep

ExecutorSpec == ExecutorInit /\ [][ExecutorNext]_executorvars

-----------------------------------------------------------------------------
(* Properties *)

StoredGuardianSet == [keys : Seq(Keys), expiration_time : Nat \cup {Never}]

ExecutorTypeOK ==
    /\ timestamp \in 0..MaxTimestamp
    /\ guardian_set_index \in Nat
    /\ DOMAIN guardian_sets = InitialIndex..guardian_set_index
    /\ \A i \in DOMAIN guardian_sets : guardian_sets[i] \in StoredGuardianSet
    /\ last_executed_sequence \in Nat
    /\ archived \in SUBSET {Index, Sequence}
    /\ executed \in Seq(Vaas)

\* "the set never expires (it is the current set)" (StoredGuardianSet): the
\* current set is the one set without a deadline, and no retired set outlives
\* its retirement by more than the grace window, however fast sets rotate.
OneLiveSet ==
    \A i \in DOMAIN guardian_sets :
        IF i = guardian_set_index
        THEN guardian_sets[i].expiration_time = Never
        ELSE guardian_sets[i].expiration_time \in 0..(timestamp + GuardianSetExpiry)

\* Replay protection (execute_governance_action): governance VAAs take effect in
\* strictly increasing sequence order, so none twice and none after a later one,
\* whatever is submitted and whichever entries lapse in between.
ExecutedInOrder ==
    /\ \A i, j \in DOMAIN executed : i < j => executed[i].sequence < executed[j].sequence
    /\ \A i \in DOMAIN executed : executed[i].sequence <= last_executed_sequence

\* A stored set keeps its keys, and a deadline once given is never moved: a
\* later rotation does not revive a retired set (store_guardian_set).
RetirementIsFinal ==
    [][\A i \in DOMAIN guardian_sets :
          /\ i \in DOMAIN guardian_sets'
          /\ guardian_sets'[i].keys = guardian_sets[i].keys
          /\ guardian_sets[i].expiration_time # Never => guardian_sets'[i] = guardian_sets[i]]_executorvars

\* Rotation retires a set for good: the current set is the only one without a
\* deadline, and a deadline once given stands (store_guardian_set).
SetsRetire == []OneLiveSet /\ RetirementIsFinal

\* The guardians of set i whose signature the VAA carries.
SignersOf(vaa, i) ==
    {g \in 1..Len(guardian_sets[i].keys) :
        \E s \in DOMAIN vaa.signatures :
            /\ vaa.signatures[s].guardian_index + 1 = g
            /\ vaa.signatures[s].recovered = guardian_sets[i].keys[g]}

\* More than two thirds of the guardians of the VAA's set signed it, each counted
\* once, and the set has not been retired for longer than the grace window.
Backed(vaa) ==
    LET i == vaa.guardian_set_index
    IN  /\ i \in DOMAIN guardian_sets
        /\ 3 * Cardinality(SignersOf(vaa, i)) > 2 * Len(guardian_sets[i].keys)
        /\ i # guardian_set_index => timestamp < guardian_sets[i].expiration_time

\* No governance action without a quorum of a set that is current or in its
\* grace window (verify_vaa).
ExecutionBacked ==
    [][executed' # executed => Backed(executed'[Len(executed')])]_executorvars

\* "Guardian set upgrades ... require the *current* guardian set" and move the
\* index by one: no rotation without a quorum of the set it replaces.
RotationBacked ==
    [][guardian_sets' # guardian_sets =>
          \E vaa \in Vaas :
             /\ vaa.guardian_set_index = guardian_set_index
             /\ Backed(vaa) /\ vaa.payload.module = "Core"
             /\ guardian_set_index' = guardian_set_index + 1
             /\ guardian_sets'[guardian_set_index'].keys = vaa.payload.guardians]_executorvars

\* Nothing happens without a quorum: no action is executed and no guardian set
\* replaced unless more than two thirds of a set that may do so signed it.
QuorumBacked == ExecutionBacked /\ RotationBacked
=============================================================================
