SPECIFICATION FairSpec
CONSTANTS
    MaxPlayer = 2
    MaxId = 4
    None = None
    Tasks = {k1, k2}
    Listeners = {l1, l2}
    Client = Client
    Waiters = {w1}
    StartupPackets = 1
    PeerIds <- MCPeerIds
    Rigs <- MCRigs
    Channels <- MCChannels
INVARIANT NeverSilent
PROPERTIES PicksFreeId EarlyWaiterReturns
