\* Two tasks share the slot of a device and its connections, with one medium.
\* A stopped network without devices has nothing left to do.
CONSTANTS
    Device = d
    Players <- MCPlayers
    MaxRemovals = 2
    Callers = {c1, c2}
    Slots = {s}
    OwnerOf <- MCOwnerOf
    Media = {m1}
    Unknown = Unknown
    Connections = {k1, k2}
    Absent = Absent
SPECIFICATION PassiveSpec
INVARIANTS OnePerKey AbsentHasNoDatabase
SYMMETRY Symmetry
CHECK_DEADLOCK FALSE
