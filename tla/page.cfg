CONSTANTS
    Timers = {t1}
    Calls = {c1, c2}
    Unreliable = TRUE
    Ids = {1, 2}
    MaxVersion = 1
SPECIFICATION PageSpec
INVARIANTS PageTypeOK CardsShowTheirOwn
PROPERTIES CatchesUp SpinningEnds
