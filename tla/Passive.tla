------------------------------ MODULE Passive ------------------------------
(***************************************************************************)
(* The passive network (src/src/passive/): PassiveDevices and the two      *)
(* databases that follow its device map.                                   *)
(*                                                                         *)
(* PassiveLocalDatabase (localdb.rs) cannot ask what media is in a slot.   *)
(* It keeps what players broadcast and loads a slot by its medium, or by   *)
(* its number while the medium is unknown, under one lock or the other.    *)
(* PassiveRemoteDatabase (remotedb.rs) keeps a connection per player and   *)
(* drops it when a query fails.                                            *)
(***************************************************************************)
EXTENDS PassiveDevices

CONSTANTS
    Callers,    \* tasks that use the databases
    Slots,      \* database slots of the devices
    OwnerOf,    \* the device of a slot
    Media,      \* rekordbox media, as get_media_id tells them apart
    Unknown,    \* the synthetic medium "Unknown Media"
    Connections \* bound: connections in use at a time

ASSUME SlotsTyped == OwnerOf \in [Slots -> Players]
ASSUME UnknownIsNoMedium ==
    Unknown \notin Media /\ Absent \notin Media \cup {Unknown} \cup Slots \cup Connections

VARIABLES
    media_cache,    \* what the players broadcast
    dbs,            \* the databases: how many there are of each kind
    connections,    \* the connection of a device, or Absent
    direct,         \* history: devices with a connection a direct call stored
    calls           \* where the calls are

remoteVars == <<connections, direct>>
dbVars == <<media_cache, dbs, remoteVars, calls>>
passiveVars == <<captureVars, deviceVars, stopping, dbVars>>

\* late is history: the device was removed while the database was being loaded, or
\* the caller came with one that was not on the map.
Item == [slot : Slots, medium : Media \cup {Unknown}, late : BOOLEAN]
\* Who looks for a database takes any that fits: their order tells nothing.
NoDbs == [i \in Item |-> 0]
CallType == [step : {"idle", "lock", "load", "connect", "inserted", "query", "answer"},
             key : (Slots \X {"media", "nomedia"}) \cup Players \cup {Absent},
             medium : Media \cup {Unknown, Absent},
             connection : Connections \cup {Absent},
             held : BOOLEAN, late : BOOLEAN]
Idle == [step |-> "idle", key |-> Absent, medium |-> Absent, connection |-> Absent,
         held |-> FALSE, late |-> FALSE]

PassiveInit ==
    /\ DevicesInit
    /\ media_cache = [s \in Slots |-> Absent]
    /\ dbs = NoDbs
    /\ connections = [d \in Players |-> Absent] /\ direct = {}
    /\ calls = [c \in Callers |-> Idle]

At(c, step) == calls[c].step = step
Becomes(c, call) == calls' = [calls EXCEPT ![c] = call]
Returns(c) == Becomes(c, Idle)
IsRemote(call) == call.key \in Players
SlotOf(call) == call.key[1]
DeviceOf(call) == IF IsRemote(call) THEN call.key ELSE OwnerOf[SlotOf(call)]
\* The lock of a call's key, one of slot_locks or device_locks, is free.
LockFree(c) == \A d \in Callers : calls[d].held => calls[d].key # calls[c].key
Kept == {i \in Item : dbs[i] > 0}
Listed(slot, media) == \E i \in Kept : i.slot = slot /\ i.medium \in media

-----------------------------------------------------------------------------
(* PassiveLocalDatabase.                                                    *)

\* A broadcast is cached, whether or not the device is on the map.
CacheMedia(s) ==
    /\ thread /\ stopping = "no"
    /\ \E m \in Media : media_cache' = [media_cache EXCEPT ![s] = m]
    /\ UNCHANGED <<captureVars, deviceVars, stopping, dbs, remoteVars, calls>>

\* Nobody looks whether the device that is given is on the map.
Locking(c, s, kind, m) ==
    Becomes(c, [Idle EXCEPT !.step = "lock", !.key = <<s, kind>>, !.medium = m,
                            !.late = OwnerOf[s] \notin devices])

\* What is listed for the slot is returned at once.
GetWithoutMedia(c, s) ==
    ~Listed(s, Media \cup {Unknown}) /\ Locking(c, s, "nomedia", Unknown)

\* get: with the cached medium, or without.
CallGet(c) ==
    /\ At(c, "idle")
    /\ \E s \in Slots :
         /\ OwnerOf[s] \in devices
         /\ IF media_cache[s] # Absent THEN Locking(c, s, "media", media_cache[s])
            ELSE GetWithoutMedia(c, s)
    /\ UNCHANGED <<captureVars, deviceVars, stopping, media_cache, dbs, remoteVars>>

\* get_with_media and get_without_media, with any medium of the slot, or none, and
\* any device.
CallDirectly(c) ==
    /\ At(c, "idle")
    /\ \E s \in Slots :
         \/ \E m \in Media : Locking(c, s, "media", m)
         \/ GetWithoutMedia(c, s)
    /\ UNCHANGED <<captureVars, deviceVars, stopping, media_cache, dbs, remoteVars>>

\* A known medium is looked for by its identity, an unknown one by its slot.
Found(call) ==
    Listed(SlotOf(call), IF call.medium = Unknown THEN Media \cup {Unknown}
                         ELSE {call.medium})

\* Mutant: the lock is not kept over the load.
LockToLook(c) ==
    /\ At(c, "lock") /\ ~IsRemote(calls[c]) /\ LockFree(c)
    /\ IF Found(calls[c]) THEN Returns(c)
       ELSE Becomes(c, [calls[c] EXCEPT !.step = "load"])
    /\ UNCHANGED <<captureVars, deviceVars, stopping, media_cache, dbs, remoteVars>>

LockSlot(c) ==
    /\ At(c, "lock") /\ ~IsRemote(calls[c]) /\ LockFree(c)
    /\ IF Found(calls[c]) THEN Returns(c)
       ELSE Becomes(c, [calls[c] EXCEPT !.step = "load", !.held = TRUE])
    /\ UNCHANGED <<captureVars, deviceVars, stopping, media_cache, dbs, remoteVars>>

\* hydrate: nobody looks whether the device is still there, or stop was called.
Load(c) ==
    /\ At(c, "load")
    /\ \/ LET item == [slot |-> SlotOf(calls[c]), medium |-> calls[c].medium,
                        late |-> calls[c].late]
          IN dbs' = [dbs EXCEPT ![item] = @ + 1]
       \/ UNCHANGED dbs
    /\ Returns(c)
    /\ UNCHANGED <<captureVars, deviceVars, stopping, media_cache, remoteVars>>

-----------------------------------------------------------------------------
(* handle_device_removed.                                                   *)

KeptOf(d) == {i \in Kept : OwnerOf[i.slot] = d}
Without(d) == [i \in Item |-> IF OwnerOf[i.slot] = d THEN 0 ELSE dbs[i]]

\* Mutant: only the first database of the device goes.
RemovedOne(d) ==
    /\ \/ KeptOf(d) = {} /\ UNCHANGED dbs
       \/ \E i \in KeptOf(d) : dbs' = [dbs EXCEPT ![i] = @ - 1]
    /\ media_cache' = [s \in Slots |-> IF OwnerOf[s] = d THEN Absent ELSE media_cache[s]]
    /\ calls' = [c \in Callers |->
         IF calls[c].step = "idle" THEN calls[c]
         ELSE [calls[c] EXCEPT !.late = @ \/ DeviceOf(calls[c]) = d]]

Removed(d) ==
    /\ dbs' = Without(d)
    /\ media_cache' = [s \in Slots |-> IF OwnerOf[s] = d THEN Absent ELSE media_cache[s]]
    /\ calls' = [c \in Callers |->
         IF calls[c].step = "idle" THEN calls[c]
         ELSE [calls[c] EXCEPT !.late = @ \/ DeviceOf(calls[c]) = d]]

HandleRemoved ==
    /\ removals # <<>> /\ stopping \in {"no", "local"}
    /\ Removed(Head(removals))
    /\ removals' = Tail(removals)
    /\ UNCHANGED <<captureVars, feed, devices, timeouts, leaving, stopping, remoteVars>>

\* disconnect_for_device, whenever a caller likes.
DisconnectForDevice(d) ==
    /\ KeptOf(d) # {}
    /\ Removed(d)
    /\ UNCHANGED <<captureVars, deviceVars, stopping, remoteVars>>

-----------------------------------------------------------------------------
(* PassiveRemoteDatabase.                                                   *)

CallRemote(c) ==
    /\ At(c, "idle")
    /\ \E d \in devices : Becomes(c, [Idle EXCEPT !.step = "lock", !.key = d])
    /\ UNCHANGED <<captureVars, deviceVars, stopping, media_cache, dbs, remoteVars>>

\* connect_to_device called by anyone, with any device and no lock.
CallConnect(c) ==
    /\ At(c, "idle")
    /\ \E d \in Players : Becomes(c, [Idle EXCEPT !.step = "connect", !.key = d])
    /\ UNCHANGED <<captureVars, deviceVars, stopping, media_cache, dbs, remoteVars>>

\* The connection of the device, or a new one under its lock.
LockDevice(c) ==
    /\ At(c, "lock") /\ IsRemote(calls[c]) /\ LockFree(c)
    /\ LET connection == connections[calls[c].key]
       IN IF connection # Absent
          THEN Becomes(c, [calls[c] EXCEPT !.step = "query", !.connection = connection])
          ELSE Becomes(c, [calls[c] EXCEPT !.step = "connect", !.held = TRUE])
    /\ UNCHANGED <<captureVars, deviceVars, stopping, media_cache, dbs, remoteVars>>

Unused(k) == /\ \A d \in Players : connections[d] # k
             /\ \A c \in Callers : calls[c].connection # k

\* A new connection is stored whatever is there; get goes on with what it finds.
Connect(c) ==
    /\ At(c, "connect")
    /\ \E k \in Connections :
         /\ Unused(k)
         /\ connections' = [connections EXCEPT ![calls[c].key] = k]
         /\ IF calls[c].held
            THEN /\ Becomes(c, [calls[c] EXCEPT !.step = "inserted"])
                 /\ direct' = direct \ {calls[c].key}
            ELSE Returns(c) /\ direct' = direct \cup {calls[c].key}
    /\ UNCHANGED <<captureVars, deviceVars, stopping, media_cache, dbs>>

ConnectFails(c) ==
    /\ At(c, "connect")
    /\ Returns(c)
    /\ UNCHANGED <<captureVars, deviceVars, stopping, media_cache, dbs, remoteVars>>

\* What is stored by now is used, unless it has been taken out again.
FindConnected(c) ==
    /\ At(c, "inserted")
    /\ LET connection == connections[calls[c].key]
       IN IF connection = Absent THEN Returns(c)
          ELSE Becomes(c, [calls[c] EXCEPT !.step = "query", !.connection = connection,
                                           !.held = FALSE])
    /\ UNCHANGED <<captureVars, deviceVars, stopping, media_cache, dbs, remoteVars>>

Query(c) ==
    /\ At(c, "query") /\ LockFree(c)
    /\ Becomes(c, [calls[c] EXCEPT !.step = "answer", !.held = TRUE])
    /\ UNCHANGED <<captureVars, deviceVars, stopping, media_cache, dbs, remoteVars>>

TakesOut(d) ==
    connections' = [connections EXCEPT ![d] = Absent] /\ direct' = direct \ {d}

\* An error takes the connection of the device out, whichever it is by now.
Answer(c) ==
    /\ At(c, "answer")
    /\ UNCHANGED remoteVars \/ TakesOut(calls[c].key)
    /\ Returns(c)
    /\ UNCHANGED <<captureVars, deviceVars, stopping, media_cache, dbs>>

DisconnectFromDevice(d) ==
    /\ connections[d] # Absent
    /\ TakesOut(d)
    /\ UNCHANGED <<captureVars, deviceVars, stopping, media_cache, dbs, calls>>

-----------------------------------------------------------------------------
\* The future of a call is dropped where it waits.
Cancel(c) ==
    /\ calls[c].step \notin {"idle", "inserted"}
    /\ Returns(c)
    /\ UNCHANGED <<captureVars, deviceVars, stopping, media_cache, dbs, remoteVars>>

\* stop, after the devices: the tasks are aborted and what is kept is dropped.
StopLocal ==
    /\ stopping = "local"
    /\ stopping' = "remote"
    /\ dbs' = NoDbs /\ media_cache' = [s \in Slots |-> Absent]
    /\ UNCHANGED <<captureVars, deviceVars, remoteVars, calls>>

StopRemote ==
    /\ stopping = "remote"
    /\ stopping' = "adapter"
    /\ connections' = [d \in Players |-> Absent] /\ direct' = {}
    /\ UNCHANGED <<captureVars, deviceVars, media_cache, dbs, calls>>

-----------------------------------------------------------------------------
LocalStep(c) == LockSlot(c) \/ Load(c)
RemoteStep(c) ==
    \/ LockDevice(c) \/ Connect(c) \/ ConnectFails(c) \/ FindConnected(c)
    \/ Query(c) \/ Answer(c)

PassiveNext ==
    \/ DevicesNext /\ UNCHANGED dbVars
    \/ HandleRemoved \/ StopLocal \/ StopRemote
    \/ \E s \in Slots : CacheMedia(s)
    \/ \E d \in Players : DisconnectForDevice(d) \/ DisconnectFromDevice(d)
    \/ \E c \in Callers :
         \/ CallGet(c) \/ CallDirectly(c) \/ CallRemote(c) \/ CallConnect(c)
         \/ LocalStep(c) \/ RemoteStep(c) \/ Cancel(c)

PassiveSpec == PassiveInit /\ [][PassiveNext]_passiveVars

-----------------------------------------------------------------------------
(* Properties.                                                              *)

\* State is well typed.
PassiveTypeOK ==
    /\ DevicesTypeOK
    /\ media_cache \in [Slots -> Media \cup {Absent}]
    /\ dbs \in [Item -> Nat]
    /\ connections \in [Players -> Connections \cup {Absent}] /\ direct \subseteq Players
    /\ calls \in [Callers -> CallType]

\* What is loaded or opened under a lock is loaded once: a medium of a slot is
\* listed once, with a second entry for the slot only under the identity of an
\* unknown medium, and while get opens a connection none is stored but by a direct
\* call of connect_to_device, which asks for no lock.
OnePerKey ==
    /\ \A i, j \in Kept : i.slot = j.slot /\ i.medium = j.medium => i = j /\ dbs[i] = 1
    /\ \A c \in Callers : At(c, "connect") /\ calls[c].held =>
         connections[calls[c].key] = Absent \/ calls[c].key \in direct

\* A device that timed out leaves no database behind: once its disconnected
\* event is handled, the only ones that are listed were being loaded when it
\* was handled, or asked for by a caller with a device that was not on the map.
AbsentHasNoDatabase ==
    stopping = "no" =>
      \A i \in Kept :
        \/ OwnerOf[i.slot] \in devices \cup leaving
        \/ \E k \in 1 .. Len(removals) : removals[k] = OwnerOf[i.slot]
        \/ i.late
=============================================================================
