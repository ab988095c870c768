SPECIFICATION TradeSpec
CONSTANTS
    BPS = 10
    SlippageBps = 1
    FlashFeeBps = 1
    GasBufferBps = 3
    GasReserveBps = 1
    MaxGasLimit = 8
    MinProfitBnb = 3
    GasFloorUnits = 1
    Amounts <- MCAmounts
    Prices <- MCPrices
    GasPrices = {0, 1, 2}
    GasEstimates = {0, 1, 2, 5, 9}
    MinTick <- MCMinTick
    MaxTick <- MCMaxTick
    Ratio <- MCRatio
    Q = 64
    TickSpacing = 2
    WordBits = 2
    FeeDen = 10
    MaxCross = 3
    DefaultFee = 1
    Pools <- MCPools
    Inputs <- MCInputs
INVARIANTS
    ProfitCheckSuffices
    ApprovedPays
    QuoteIsPaid
    RoundTripGainsNothing
    SwapStateAgrees
    ProfitCheckPasses
CHECK_DEADLOCK FALSE
