--------------------------- MODULE PassiveDevices ---------------------------
(***************************************************************************)
(* Passive mode: packets captured on an interface (passive/pcap_adapter.rs)*)
(* and the devices learned from them (passive/devices.rs), up to the stop  *)
(* of the network (passive/mod.rs).                                        *)
(*                                                                         *)
(* The accesses of one timeout task to the maps are one step here; the     *)
(* orders of those accesses are what DeviceManager is about.               *)
(***************************************************************************)
EXTENDS Naturals, Sequences, FiniteSets

CONSTANTS
    Players,        \* devices that announce themselves, all CDJs
    MaxRemovals,    \* bound: disconnected events not yet handled
    Absent

ASSUME NoneIsNoDevice == Absent \notin Players

VARIABLES
    started,    \* the flag start and stop set and the capture thread reads
    thread,     \* a capture thread runs
    feed,       \* the announce task: "receive", "aborted", or the device whose
                \* timeout it is about to reset
    devices,    \* devices on the map
    timeouts,   \* devices with a timeout task that sleeps
    leaving,    \* devices off the map whose disconnected event is due
    removals,   \* disconnected events on their way to the local database
    stopping    \* how far stop has come

deviceVars == <<feed, devices, timeouts, leaving, removals>>
captureVars == <<started, thread>>

DevicesInit ==
    /\ started = FALSE /\ thread = FALSE
    /\ feed = "receive"
    /\ devices = {} /\ timeouts = {} /\ leaving = {} /\ removals = <<>>
    /\ stopping = "no"

-----------------------------------------------------------------------------
(* The capture.  start and stop are not called at the same time.            *)

\* A second start does nothing; one that fails takes the flag back.
StartCapture ==
    /\ stopping \in {"no", "done"} /\ ~started
    /\ \/ started' = TRUE /\ thread' = TRUE
       \/ UNCHANGED captureVars
    /\ UNCHANGED <<deviceVars, stopping>>

\* The thread ends and leaves the flag as it is.
CaptureFails ==
    /\ thread
    /\ thread' = FALSE
    /\ UNCHANGED <<started, deviceVars, stopping>>

-----------------------------------------------------------------------------
(* handle_announce and the timeout task.                                    *)

\* A captured announcement; a device that is known is left as it is.
Announce(d) ==
    /\ thread /\ feed = "receive"
    /\ devices' = devices \cup {d}
    /\ feed' = d
    /\ UNCHANGED <<captureVars, timeouts, leaving, removals, stopping>>

\* The timeout task that is replaced is aborted; so is this task at its next
\* recv, when stop was called meanwhile.
ResetTimeout ==
    /\ feed \in Players
    /\ timeouts' = timeouts \cup {feed}
    /\ feed' = IF stopping = "no" THEN "receive" ELSE "aborted"
    /\ UNCHANGED <<captureVars, devices, leaving, removals, stopping>>

Expire(d) ==
    /\ d \in timeouts \ leaving /\ Len(removals) < MaxRemovals
    /\ timeouts' = timeouts \ {d}
    /\ devices' = devices \ {d}
    /\ leaving' = leaving \cup {d}
    /\ UNCHANGED <<captureVars, feed, removals, stopping>>

EmitDisconnected(d) ==
    /\ d \in leaving
    /\ leaving' = leaving \ {d}
    /\ removals' = Append(removals, d)
    /\ UNCHANGED <<captureVars, feed, devices, timeouts, stopping>>

-----------------------------------------------------------------------------
(* The ends of stop: the devices first, the capture last.                   *)

StopDevices ==
    /\ stopping = "no"
    /\ stopping' = "local"
    /\ feed' = IF feed = "receive" THEN "aborted" ELSE feed
    /\ timeouts' = {}
    /\ UNCHANGED <<captureVars, devices, leaving, removals>>

StopCapture ==
    /\ stopping = "adapter"
    /\ stopping' = "done"
    /\ started' = FALSE /\ thread' = FALSE
    /\ UNCHANGED deviceVars

DevicesNext ==
    \/ StartCapture \/ CaptureFails \/ ResetTimeout \/ StopDevices \/ StopCapture
    \/ \E d \in Players : Announce(d) \/ Expire(d) \/ EmitDisconnected(d)

DevicesTypeOK ==
    /\ started \in BOOLEAN /\ thread \in BOOLEAN
    /\ feed \in Players \cup {"receive", "aborted"}
    /\ devices \subseteq Players /\ timeouts \subseteq Players
    /\ leaving \subseteq Players /\ removals \in Seq(Players)
    /\ stopping \in {"no", "local", "remote", "adapter", "done"}
=============================================================================
