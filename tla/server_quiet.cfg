CONSTANTS
    Clients = {r1, r2}
    Wallets = {w1, w2}
    Sizes = {1, 2}
    Conditions = {market}
    Operator = operator
    Trader = trader
    Unit = 2
    StartSlot = 2
    Deposits = {4}
    Faults = {}
    MaxBlinds = 3
    MaxSlots = 2
    MaxContracts = 1
    MaxDeposits = 4
SPECIFICATION FairSpec
INVARIANTS OneFate BookAgreesWithChains LedgersAgree
PROPERTY SealedIsListed
