CONSTANTS
    Clients = {r1, r2}
    Wallets = {w1, w2}
    Sizes = {1}
    Conditions = {market}
    Operator = operator
    Trader = trader
    Unit = 2
    StartSlot = 2
    Deposits = {2}
    Faults = {"overlap"}
    MaxBlinds = 3
    MaxSlots = 2
    MaxContracts = 1
    MaxDeposits = 2
SPECIFICATION Spec
INVARIANT OneAtATime

