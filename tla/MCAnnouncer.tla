---------------------------- MODULE MCAnnouncer ----------------------------
(* Instances of Announcer for TLC: ids 1-4 with players in 1-2, and a mixer *)
(* with id 5 that has two channels.                                         *)
EXTENDS Announcer

MCPeerIds == 1 .. 5
MCRigs == {{1, 3, 5}, {1, 2, 3, 4}}
MCChannels == [i \in MCPeerIds |-> IF i = 5 THEN 2 ELSE None]
=============================================================================
