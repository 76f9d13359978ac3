SPECIFICATION Spec
CONSTANTS
    Callers = {p1, p2}
    Conns = {c1, c2}
    Peers = {d1}
    DefaultId = DefaultId
    StagehandIds = {s1, s2}
    PlayerIds = {i1}
    DefaultName = DefaultName
    StagehandName = StagehandName
    CustomNames = {}
    None = None
SYMMETRY MCSymmetry
INVARIANTS EveryAnnouncerIsHeld StoredAnnounces SerialCallsAgree
PROPERTIES StagehandKeepsIdentity
