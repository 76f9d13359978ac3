\* Two tasks, one slot whose medium is swapped once, one restart; a file of two
\* components and three bytes, two bytes per read.
CONSTANTS
    Callers = {c1, c2}
    Mounts = {usb}
    Configs = {f, g}
    PathLength = 2
    FileSize = 3
    ReadSize = 2
    From = 1
    Count = 3
    MaxSwaps = 1
    MaxBoots = 1
    None = None
SYMMETRY MCSymmetry
SPECIFICATION Spec
PROPERTY ActsUncached
INVARIANTS CachesAreCurrent FindsFreshMedium FileIsWhole
