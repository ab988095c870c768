SPECIFICATION MgrSpec
CONSTANTS
    MaxNonce = 2
    Hashes = {h1}
    NoHash = NoHash
    NoSlot = NoSlot
    MaxPending = 2
INVARIANTS
    NoReserveConflict
PROPERTIES
    SentNeedsEvidence
    ConfirmedIsForever
