SPECIFICATION Spec
CONSTANTS
    MaxNonce = 1
    Hashes = {h1, h2}
    NoHash = NoHash
    NoSlot = NoSlot
    MaxPending = 2
    Executors = {e1, e2}
    Relay = TRUE
    ReconnectInitMayFail = FALSE
    MaxRestarts = 1
SYMMETRY Symmetry
INVARIANTS
    OneTransactionPerNonce
    WriteBeforeRisk
PROPERTIES
    ReleasedOnProof
    OwnershipPromise
