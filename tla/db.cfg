\* Lookups of one task, one after the other, while three media are swapped.
CONSTANTS
    Callers = {c1}
    Media = {m1, m2, m3}
    Missing = Missing
SPECIFICATION DatabaseSpec
INVARIANTS FailsOnlyIfItMust OneMedium
