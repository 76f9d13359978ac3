SPECIFICATION FairSpec
CONSTANTS
    t1 = t1
    t2 = t2
    None = None
    NoTempo = NoTempo
    Devices = {d1, d2}
    Tracks = {t1, t2}
    Packets <- MCPackets
    BeatTimes = {1}
    Configs <- MCConfigs
    MaxTime = 2
    MaxLost = 1
INVARIANTS LiveMirrorsEvents SilenceIsTimed
PROPERTIES NoPrematureHandover SilenceEndsSet
CHECK_DEADLOCK FALSE
