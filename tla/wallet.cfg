SPECIFICATION WalletSpec
CONSTANTS
    Coins = {night1, night2}
    Candidates = 3
    MaxBuilds = 3
INVARIANTS OneWalletKept NightIsPutToWork
PROPERTIES ConnectEnds
CHECK_DEADLOCK FALSE
