SPECIFICATION Spec
CONSTANTS
    Chains = {ntp, evm}
    Main = ntp
    Requests = {r1, r2}
    MaxHeight = 2
INVARIANTS ShownWasReached
PROPERTIES HeightNeverFalls HeightFollows
CHECK_DEADLOCK FALSE
