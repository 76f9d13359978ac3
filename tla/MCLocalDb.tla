----------------------------- MODULE MCLocalDb -----------------------------
(* Instances of LocalDb: one player.                                         *)
EXTENDS LocalDb

CONSTANT Player
MCPlayers == {Player}
MCOwnerOf == [s \in Slots |-> Player]
=============================================================================
