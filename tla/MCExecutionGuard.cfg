SPECIFICATION Spec
CONSTANTS
    flat = flat
    deep = deep
    unread = unread
    Venues <- MCVenues
    DeepVenues <- MCDeepVenues
    States <- MCStates
    Drained <- MCDrained
    Unread = unread
    Net <- MCNet
    Large <- MCLarge
    MinProfit = 1
    Margin = 1
    MaxAge = 1
    MaxBlock = 3
    ReadsFail = TRUE
INVARIANTS
    SentWasRevalidated
    QuotesAreRecent
    GuardAgrees
    MinedIsGain
