\* A set of three guardians and the sets that follow it.
CONSTANTS
    k1 = k1
    k2 = k2
    k3 = k3
    k4 = k4
    s1 = s1
    s2 = s2
    Keys = {k1, k2, k3, k4}
    Vaas <- MCVaas
    InitialGuardianSet <- MCInitialGuardianSet
    InitialIndex = 0
    OwnerEmitter <- MCOwnerEmitter
    UpgradeEmitter <- MCUpgradeEmitter
    ChainId = 7
    ExecutorAddress = "executor"
    GuardianSetExpiry = 2
    MaxTimestamp = 4
    LazerAddress = "lazer"
    Pubkeys = {s1, s2}
    InitialSigners <- MCInitialSigners
    InitialWasm = "old"
    Nobody = Nobody
SPECIFICATION GovSpec
INVARIANTS
    NewestInstructionRules
PROPERTIES
    SetsRetire
    QuorumBacked
    AcceptedIsTrusted
