SPECIFICATION FairSpec
CONSTANTS
    Ids = {i1, i2}
    Hosts = {h1, h2}
    Tasks = {k1, k2}
    Waiters = {w1}
    None = None
INVARIANTS NoImmortalDevice NoLostWakeup
PROPERTIES SilenceEmptiesMap
