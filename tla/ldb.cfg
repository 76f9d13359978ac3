\* Two tasks share the slot of a player, with one medium and two items.
CONSTANTS
    Callers = {c1, c2}
    Player = p
    Players <- MCPlayers
    Slots = {s}
    OwnerOf <- MCOwnerOf
    Media = {m1}
    Items = {i1, i2}
    None = None
SPECIFICATION FairSpec
INVARIANTS OneItemPerMedia ListedIsOpen AlternateLoadedOnce
PROPERTY CallsReturn
