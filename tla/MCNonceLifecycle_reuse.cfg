SPECIFICATION Spec
CONSTANTS
    MaxNonce = 1
    Hashes = {h1, h2}
    NoHash = NoHash
    NoSlot = NoSlot
    MaxPending = 2
    Executors = {e1}
    Relay = FALSE
    ReconnectInitMayFail = TRUE
    MaxRestarts = 2
SYMMETRY Symmetry
INVARIANTS
    OneTransactionPerNonce
