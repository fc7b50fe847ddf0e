CONSTANTS
    Wallets = {w0, w1, w2}
    Payer = w0
    WaitSeconds = 2
    DeployAttempts = 3
    Rungs = 2
    BootAttempts = 2
SPECIFICATION Spec
INVARIANTS AddressIsReal SpendsOnce
PROPERTY BootEnds
CHECK_DEADLOCK FALSE
