\* The Solana contract with lists of two signers, pack_price with two
\* digits, and the formats with the inputs of MCProtocol.
CONSTANTS
    a1 = a1
    zero = zero
    s1 = s1
    s2 = s2
    Authorities = {a1}
    Signers = {zero, s1, s2}
    Default = zero
    Times <- MCTimes
    MAX_NUM_TRUSTED_SIGNERS = 2
    SPACE_FOR_TRUSTED_SIGNERS = 3
    SPACE_FOR_TRUSTED_ECDSA_SIGNERS = 2
    MaxTime = 1
    MaxMantissa = 63
    MaxNegExponent = 3
    Mantissas <- MCMantissas
    Exponents <- MCExponents
    I64Max = 19
    Kilo = 4
    Ten = 3
    MaxExponent = 3
    ChronoMax = 17
    ALL <- MCALL
    IdLists <- MCIdLists
    SymbolLists <- MCSymbolLists
    PropertyLists <- MCPropertyLists
    FormatLists <- MCFormatLists
    Rates <- MCRates
    Numbers = {0, 1, 2, 3, 4, 5, 50, 200, 258, 1000}
    MAGIC_LEN = 1
    SIGNATURE_LEN = 1
    PUBKEY_LEN = 1
    ByteValues = 9
    SOLANA_FORMAT_MAGIC <- MCSOLANA_FORMAT_MAGIC
    MaxU16 = 7
    Signed <- MCSigned
    Trusted <- MCTrusted
    Transactions <- MCTransactions
    Calls <- MCCalls
SPECIFICATION MCSpec
INVARIANTS
    PackedIsNearest
    PackedAsSpecified
    
    PayloadsComeBack
    FramesComeBack
    PackedFaithful
    ServedAsAsked
    
    VerifiedMeansSigned
PROPERTIES
    ListsAreMaps
CHECK_DEADLOCK FALSE
