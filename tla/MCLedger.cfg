SPECIFICATION Spec
CONSTANTS
    h1 = h1
    h2 = h2
    h3 = h3
    bnb = bnb
    usdt = usdt
    null = null
    Hashes <- MCHashes
    NonceOf <- MCNonceOf
    Tokens <- MCTokens
    Native = bnb
    TokenOf <- MCTokenOf
    Profit <- MCProfit
    GasCost <- MCGasCost
    Declared = {7}
    ExpectedGross <- MCExpected
    Wallet = 10
    Principal = 5
    Transfers = {0, 2}
    Claims <- MCClaims
CHECK_DEADLOCK FALSE
INVARIANTS
    TotalIsEarned
    DeviationIsTrue
