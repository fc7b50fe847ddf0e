CONSTANTS
    Clients = {r1, r2}
    Wallets = {w1, w2}
    Sizes = {1}
    Conditions = {market}
    Operator = operator
    Trader = trader
    Unit = 2
    StartSlot = 2
    Deposits = {2}
    Faults = {"lost_reply", "mark_lost", "withdraw", "restart"}
    MaxBlinds = 2
    MaxSlots = 2
    MaxContracts = 2
    MaxDeposits = 2
SPECIFICATION FairSpec
INVARIANTS OneAtATime BootingIsQuiet FillsAreSealed
PROPERTIES LeavesTheBookOnce BusyIsReleased
