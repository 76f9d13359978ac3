----------------------------- MODULE MCPassive -----------------------------
(* Instances of Passive: one device.                                         *)
EXTENDS Passive, TLC

CONSTANT Device
MCPlayers == {Device}
MCOwnerOf == [s \in Slots |-> Device]
Symmetry == Permutations(Callers) \cup Permutations(Connections)
=============================================================================
