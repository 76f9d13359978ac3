----------------------------- MODULE Announcer -----------------------------
(***************************************************************************)
(* The announcer (src/src/virtualcdj/mod.rs) puts the virtual CDJ on the   *)
(* network: a timer task claims a device id with a fixed number of startup *)
(* packets and then keeps announcing it.  A listener task answers a device *)
(* that defends our id by moving to another one and starting over.         *)
(*                                                                         *)
(* start(), stop(), the listener and the timer run on different workers.   *)
(* A mutex guards the two handles, but it is released between the steps    *)
(* of spawn_timer and of handle_conflict.  JoinHandle::abort stops a task  *)
(* at its next await: one that is not suspended first runs on to there.    *)
(***************************************************************************)
EXTENDS DeviceId

CONSTANTS
    Tasks,          \* timer tasks; bound: no call or conflict comes while
                    \* more of them may be wanted than are unused
    Listeners,      \* conflict listener tasks; bound on how many are ever alive
    Client,         \* the caller of start and stop
    Waiters,        \* callers of ready
    StartupPackets, \* packets of the startup protocol; 0: full_startup is off
    PeerIds,        \* ids a device on the network may have
    Rigs,           \* the sets of devices that may be on the network
    Channels        \* id -> how many channels the mixer of that id has

Drivers == Listeners \cup {Client}
ChannelCounts == (0 .. MaxPlayer) \cup {None}

ASSUME StartupTyped == StartupPackets \in Nat
ASSUME RigsTyped ==
    /\ PeerIds \subseteq Nat /\ Rigs \subseteq SUBSET PeerIds
    /\ Channels \in [PeerIds -> ChannelCounts]
ASSUME RigsFinite == IsFiniteSet(PeerIds)
ASSUME RolesDiffer ==
    Client \notin Listeners /\ None \notin Tasks \cup Listeners

VARIABLES
    vcdj,       \* the id of the shared virtual device
    peers,      \* ids of the devices on the device manager's map
    timer,      \* the task whose handle is stored, or None
    listener,   \* the listener whose handle is stored, or None
    tasks,      \* the timer tasks
    drivers,    \* where the client and the listeners are
    aborted,    \* listeners that end when they next wait
    ready,      \* the value of the watch channel
    waiters,    \* the calls of ready
    on          \* started, and neither stopped nor out of ids since

vars == <<vcdj, peers, timer, listener, tasks, drivers, aborted, ready,
          waiters, on>>

TaskType == [pc : {"idle", "asleep", "awake"}, sent : 0 .. StartupPackets + 1,
             doomed : BOOLEAN]
DriverSteps == {"idle", "listening", "arm", "contested", "pick", "rename",
                "unready", "clear", "spawn", "store", "give_up"}
DriverType == [pc : DriverSteps, id : DeviceIds \cup {None},
               task : Tasks \cup {None}]
WaiterType == [pc : {"idle", "subscribed", "waiting"}, changed : BOOLEAN]

IdleTask == [pc |-> "idle", sent |-> 0, doomed |-> FALSE]
IdleWaiter == [pc |-> "idle", changed |-> FALSE]

Init ==
    /\ vcdj \in DeviceIds
    /\ peers \in Rigs
    /\ timer = None /\ listener = None
    /\ tasks = [t \in Tasks |-> IdleTask]
    /\ drivers = [p \in Drivers |-> [pc |-> "idle", id |-> None, task |-> None]]
    /\ aborted = {}
    /\ ready = (StartupPackets = 0)
    /\ waiters = [w \in Waiters |-> IdleWaiter]
    /\ on = FALSE

-----------------------------------------------------------------------------
(* Tasks, handles and the watch channel.                                    *)

At(p, step) == drivers[p].pc = step
Goes(p, step) == drivers' = [drivers EXCEPT ![p].pc = step]

\* What a call or a conflict does last: a listener waits for the next packet,
\* unless it was aborted meanwhile.
Done(p) ==
    /\ drivers' = [drivers EXCEPT ![p] =
         [pc |-> IF p \in Listeners \ aborted THEN "listening" ELSE "idle",
          id |-> None, task |-> None]]
    /\ aborted' = aborted \ {p}

Alive(t) == tasks[t].pc # "idle" /\ ~tasks[t].doomed
Unused == {t \in Tasks : tasks[t].pc = "idle" /\ timer # t}
Busy == {p \in Drivers : drivers[p].pc \notin {"idle", "listening"}}
Room == Cardinality(Busy) < Cardinality(Unused)

AbortTask(t) ==
    IF t = None THEN tasks
    ELSE [tasks EXCEPT ![t] =
            IF @.pc = "awake" THEN [@ EXCEPT !.doomed = TRUE] ELSE IdleTask]

\* watch::Sender::send: with no receiver it changes nothing.
Send(value) ==
    LET receivers == {w \in Waiters : waiters[w].pc # "idle"}
    IN /\ ready' = IF receivers = {} THEN ready ELSE value
       /\ waiters' = [w \in Waiters |->
            IF w \in receivers THEN [waiters[w] EXCEPT !.changed = TRUE]
            ELSE waiters[w]]

-----------------------------------------------------------------------------
(* start, stop and spawn_timer.                                             *)

CallStart ==
    /\ At(Client, "idle") /\ Room
    /\ Goes(Client, "arm")
    /\ on' = TRUE
    /\ UNCHANGED <<vcdj, peers, timer, listener, tasks, aborted, ready, waiters>>

\* arm_conflict_listener: only if no handle is stored.
Arm ==
    /\ At(Client, "arm")
    /\ IF listener # None
       THEN /\ UNCHANGED listener
            /\ Goes(Client, "clear")
       ELSE \E l \in Listeners :
              /\ At(l, "idle")
              /\ listener' = l
              /\ drivers' = [drivers EXCEPT ![l].pc = "listening",
                                            ![Client].pc = "clear"]
    /\ UNCHANGED <<vcdj, peers, timer, tasks, aborted, ready, waiters, on>>

ClearTimer(p, from, to) ==
    /\ At(p, from)
    /\ timer' = None
    /\ tasks' = AbortTask(timer)
    /\ Goes(p, to)
    /\ UNCHANGED <<vcdj, peers, listener, aborted, ready, waiters, on>>

Spawn(p) ==
    /\ At(p, "spawn")
    /\ \E t \in Unused :
         /\ tasks' = [tasks EXCEPT ![t] = [IdleTask EXCEPT !.pc = "asleep"]]
         /\ drivers' = [drivers EXCEPT ![p].pc = "store", ![p].task = t]
    /\ UNCHANGED <<vcdj, peers, timer, listener, aborted, ready, waiters, on>>

\* A handle that is overwritten is dropped, which leaves its task running.
StoreTimer(p) ==
    /\ At(p, "store")
    /\ timer' = drivers[p].task
    /\ Done(p)
    /\ UNCHANGED <<vcdj, peers, listener, tasks, ready, waiters, on>>

\* Both handles are taken and aborted under one lock.
StopInner ==
    /\ timer' = None /\ listener' = None
    /\ tasks' = AbortTask(timer)
    /\ on' = FALSE
    /\ UNCHANGED <<vcdj, peers, ready, waiters>>

CallStop ==
    /\ At(Client, "idle")
    /\ StopInner
    /\ IF listener # None /\ At(listener, "listening")
       THEN /\ Goes(listener, "idle") /\ UNCHANGED aborted
       ELSE /\ aborted' = aborted \cup ({listener} \ {None})
            /\ UNCHANGED drivers

-----------------------------------------------------------------------------
(* handle_conflict.                                                         *)

\* Another device defends the id we announce.
Conflict(l) ==
    /\ At(l, "listening") /\ Room
    /\ Goes(l, "contested")
    /\ UNCHANGED <<vcdj, peers, timer, listener, tasks, aborted, ready,
                   waiters, on>>

\* Mutant: the ids on the network are not looked at.
PickAnyId(l) ==
    /\ At(l, "pick")
    /\ LET id == PickAvailableDeviceId({}, vcdj <= MaxPlayer,
                   PlayerNumberCeiling({Channels[i] : i \in peers}))
       IN drivers' = [drivers EXCEPT ![l].pc = "rename", ![l].id = id]
    /\ UNCHANGED <<vcdj, peers, timer, listener, tasks, aborted, ready,
                   waiters, on>>

\* The device map is read once, for the ids and for the mixers.
Pick(l) ==
    /\ At(l, "pick")
    /\ LET id == PickAvailableDeviceId(peers, vcdj <= MaxPlayer,
                   PlayerNumberCeiling({Channels[i] : i \in peers}))
       IN drivers' = [drivers EXCEPT
                        ![l].pc = IF id = None THEN "give_up" ELSE "rename",
                        ![l].id = id]
    /\ UNCHANGED <<vcdj, peers, timer, listener, tasks, aborted, ready,
                   waiters, on>>

\* The listener aborts itself, and whatever else is stored.
GiveUp(l) ==
    /\ At(l, "give_up")
    /\ StopInner
    /\ IF listener \notin {None, l}
       THEN /\ drivers' = [drivers EXCEPT
                 ![l] = [pc |-> IF l \in aborted THEN "idle" ELSE "listening",
                         id |-> None, task |-> None],
                 ![listener].pc = IF @ = "listening" THEN "idle" ELSE @]
            /\ aborted' = IF At(listener, "listening") THEN aborted \ {l}
                          ELSE (aborted \ {l}) \cup {listener}
       ELSE /\ drivers' = [drivers EXCEPT ![l] =
                 [pc |-> IF l = listener \/ l \in aborted THEN "idle"
                         ELSE "listening",
                  id |-> None, task |-> None]]
            /\ aborted' = aborted \ {l}

Rename(l) ==
    /\ At(l, "rename")
    /\ vcdj' = drivers[l].id
    /\ Goes(l, "unready")
    /\ UNCHANGED <<peers, timer, listener, tasks, aborted, ready, waiters, on>>

\* Mutant: the timer is not started again.
UnreadyAndReturn(l) ==
    /\ At(l, "unready")
    /\ IF StartupPackets = 0 THEN UNCHANGED <<ready, waiters>> ELSE Send(FALSE)
    /\ Done(l)
    /\ UNCHANGED <<vcdj, peers, timer, listener, tasks, on>>

Unready(l) ==
    /\ At(l, "unready")
    /\ IF StartupPackets = 0 THEN UNCHANGED <<ready, waiters>> ELSE Send(FALSE)
    /\ Goes(l, "clear")
    /\ UNCHANGED <<vcdj, peers, timer, listener, tasks, aborted, on>>

HandleConflict(l) ==
    \/ ClearTimer(l, "contested", "pick") \/ Pick(l) \/ GiveUp(l)
    \/ Rename(l) \/ Unready(l)

DriverStep(p) == ClearTimer(p, "clear", "spawn") \/ Spawn(p) \/ StoreTimer(p)

-----------------------------------------------------------------------------
(* The timer task.                                                          *)

\* Its sleep is over, or it is run for the first time.
Wake(t) ==
    /\ tasks[t].pc = "asleep"
    /\ tasks' = [tasks EXCEPT ![t].pc = "awake"]
    /\ UNCHANGED <<vcdj, peers, timer, listener, drivers, aborted, ready,
                   waiters, on>>

\* Mutant: the end of the startup is not reported.
TellNobody(t) ==
    /\ tasks[t].pc = "awake" /\ tasks[t].sent = StartupPackets
    /\ tasks' = [tasks EXCEPT ![t].sent = StartupPackets + 1]
    /\ UNCHANGED <<vcdj, peers, timer, listener, drivers, aborted, ready,
                   waiters, on>>

\* All startup packets are out.
TellReady(t) ==
    /\ tasks[t].pc = "awake" /\ tasks[t].sent = StartupPackets
    /\ tasks' = [tasks EXCEPT ![t].sent = StartupPackets + 1]
    /\ Send(TRUE)
    /\ UNCHANGED <<vcdj, peers, timer, listener, drivers, aborted, on>>

\* A startup or keep-alive packet under the id of this moment, then a sleep.
SendPacket(t) ==
    /\ tasks[t].pc = "awake" /\ tasks[t].sent # StartupPackets
    /\ tasks' = [tasks EXCEPT ![t] =
         IF @.doomed THEN IdleTask
         ELSE [pc |-> "asleep", doomed |-> FALSE,
               sent |-> IF @.sent < StartupPackets THEN @.sent + 1
                        ELSE @.sent]]
    /\ UNCHANGED <<vcdj, peers, timer, listener, drivers, aborted, ready,
                   waiters, on>>

TaskStep(t) == Wake(t) \/ TellReady(t) \/ SendPacket(t)

-----------------------------------------------------------------------------
(* ready, and the network.                                                  *)

CallReady(w) ==
    /\ waiters[w].pc = "idle"
    /\ waiters' = [waiters EXCEPT ![w].pc = "subscribed"]
    /\ UNCHANGED <<vcdj, peers, timer, listener, tasks, drivers, aborted,
                   ready, on>>

Looks(w, more) ==
    /\ waiters' = [waiters EXCEPT ![w] =
         IF ready THEN IdleWaiter
         ELSE [pc |-> "waiting", changed |-> more]]
    /\ UNCHANGED <<vcdj, peers, timer, listener, tasks, drivers, aborted,
                   ready, on>>

CheckReady(w) == waiters[w].pc = "subscribed" /\ Looks(w, waiters[w].changed)
ReadyChanged(w) ==
    waiters[w].pc = "waiting" /\ waiters[w].changed /\ Looks(w, FALSE)

PeersChange ==
    /\ peers' \in Rigs \ {peers}
    /\ UNCHANGED <<vcdj, timer, listener, tasks, drivers, aborted, ready,
                   waiters, on>>

Next ==
    \/ CallStart \/ Arm \/ CallStop
    \/ \E p \in Drivers : DriverStep(p)
    \/ \E l \in Listeners : Conflict(l) \/ HandleConflict(l)
    \/ \E t \in Tasks : TaskStep(t)
    \/ \E w \in Waiters : CallReady(w) \/ CheckReady(w) \/ ReadyChanged(w)
    \/ PeersChange

Spec == Init /\ [][Next]_vars

\* Calls that were made, and tasks that can run, go on.  Nobody need call,
\* and no device need defend an id.
FairSpec ==
    /\ Spec
    /\ WF_vars(Arm)
    /\ \A p \in Drivers : WF_vars(DriverStep(p))
    /\ \A l \in Listeners : WF_vars(HandleConflict(l))
    /\ \A t \in Tasks : WF_vars(TaskStep(t))
    /\ \A w \in Waiters : WF_vars(CheckReady(w) \/ ReadyChanged(w))

-----------------------------------------------------------------------------
(* Properties.                                                              *)

DriversTyped(d) ==
    /\ d \in [Drivers -> DriverType]
    /\ \A p \in Drivers : d[p].pc = "store" => d[p].task \in Tasks
    /\ \A p \in Drivers : d[p].pc = "rename" => d[p].id \in DeviceIds

\* Handles, tasks, calls and ids are well typed.
TypeOK ==
    /\ vcdj \in DeviceIds
    /\ peers \in Rigs
    /\ timer \in Tasks \cup {None}
    /\ listener \in Listeners \cup {None}
    /\ tasks \in [Tasks -> TaskType]
    /\ DriversTyped(drivers)
    /\ aborted \subseteq Listeners
    /\ ready \in BOOLEAN
    /\ waiters \in [Waiters -> WaiterType]
    /\ on \in BOOLEAN

WillSpawn(p) ==
    drivers[p].pc \in {"arm", "contested", "pick", "rename", "unready",
                       "clear", "spawn", "give_up"}

\* The virtual CDJ does not fall silent: between start and stop some task is
\* announcing, or is about to be started, however starts and conflicts
\* interleave (spawn_timer, handle_conflict).
NeverSilent ==
    on => (\E t \in Tasks : Alive(t)) \/ \E p \in Drivers : WillSpawn(p)

\* A conflict moves us to an id that no device on the map has and, if there is
\* one, to an id the mixers cannot hand out to a player; we give up only when
\* every id is in use (handle_conflict, pick_available_device_id).
PicksFreeId ==
    [][\A l \in Listeners : At(l, "pick") /\ ~At(l, "pick")' =>
         LET id == drivers'[l].id
             ceiling == PlayerNumberCeiling({Channels[i] : i \in peers})
         IN IF DeviceIds \subseteq peers THEN id = None
            ELSE /\ id \in DeviceIds \ peers
                 /\ (ceiling # None /\ \E i \in DeviceIds \ peers : i > ceiling)
                      => id > ceiling
      ]_vars

\* A call of ready that subscribes while a startup is still under way returns,
\* once calls and conflicts cease and unless the announcer is off.
Starting == \E t \in Tasks : Alive(t) /\ tasks[t].sent <= StartupPackets
Disturbed == CallStart \/ CallStop \/ \E l \in Listeners : Conflict(l)
EarlyWaiterReturns ==
    <>[][~Disturbed]_vars =>
        \A w \in Waiters :
            (on /\ waiters[w].pc # "idle" /\ Starting)
              ~> (waiters[w].pc = "idle" \/ ~on)

-----------------------------------------------------------------------------
(* What the documentation says and the code does not do.                    *)

\* ready "resolves when the startup protocol completes".
ReadyReturns ==
    <>[][~Disturbed]_vars =>
        \A w \in Waiters :
            (on /\ waiters[w].pc # "idle") ~> (waiters[w].pc = "idle" \/ ~on)
=============================================================================
