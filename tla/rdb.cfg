\* One player, two tasks, two connections; a page has two items.
CONSTANTS
    Clients = {p1, p2}
    Conns = {c1, c2}
    MaxPlayer = 2
    MaxId = 3
    None = None
    Target = 1
    HostIds <- MCHostIds
    Rigs <- MCRigs
    Limit = 2
    Totals = {0, 3}
    MaxTx = 1
SYMMETRY MCSymmetry
SPECIFICATION QuerySpec
PROPERTY AnswersWhole
INVARIANTS QueriesAreSerialised AnsweredId NextResponseFits StreamInSync
