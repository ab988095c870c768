SPECIFICATION LiveSpec
CONSTANTS
    MaxNonce = 1
    Hashes = {h1, h2}
    NoHash = NoHash
    NoSlot = NoSlot
    MaxPending = 1
    Executors = {e1}
    Relay = FALSE
    ReconnectInitMayFail = TRUE
    MaxRestarts = 1
INVARIANTS
    ConfirmedOnlyIfMined
PROPERTIES
    MinedSlotIsReleased
    RecoveryEnds
