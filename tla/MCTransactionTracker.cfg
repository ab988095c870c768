SPECIFICATION LiveSpec
CONSTANTS
    h1 = h1
    h2 = h2
    NoHash = NoHash
    Hashes <- MCHashes
    Nonces = {0}
    TxNonce <- MCTxNonce
    MaxRecords = 2
    Polls = {p1, p2}
INVARIANTS
    FinalMatchesChain
    DroppedIsProved
PROPERTIES
    TerminalIsFinal
    MinedIsNoticed
CHECK_DEADLOCK FALSE
