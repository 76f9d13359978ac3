----------------------------- MODULE MCRemoteDb -----------------------------
(* Instances of RemoteQueries: the virtual CDJ goes under 0 or an id above the    *)
(* players' range, and the queried player is alone, or with a device under 0.     *)
EXTENDS RemoteQueries, TLC

MCHostIds == {0, 3}
MCRigs == {{1}, {0, 1}}
MCSymmetry == Permutations(Clients) \cup Permutations(Conns)
=============================================================================
