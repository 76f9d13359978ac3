--------------------------- MODULE DeviceManager ---------------------------
(***************************************************************************)
(* The device manager (src/src/devices/mod.rs): which players are on the   *)
(* network, from the announcements they send.                              *)
(*                                                                         *)
(* The task that consumes the announce feed and the timeout tasks it       *)
(* starts run on different workers.  The map of devices, the map of        *)
(* timeout handles and the emitters are each safe on their own, but no     *)
(* lock spans two of them, so every access is a step of its own.           *)
(***************************************************************************)
EXTENDS Naturals, FiniteSets

CONSTANTS
    Ids,        \* device ids
    Hosts,      \* what else an announcement says: its name and address
    Tasks,      \* timeout tasks; bound: no announcement is read while all
                \* of them are in use
    Waiters,    \* callers of get_device_ensured
    None

ASSUME NoneIsNoValue == None \notin Ids \cup Hosts \cup Tasks

VARIABLES
    devices,    \* id -> the device in the map, or None
    timeouts,   \* id -> the task whose handle is stored, or None
    vcdj_name,  \* the name that is filtered out
    feed,       \* the feed task: where it is in handle_announce
    tasks,      \* the timeout tasks
    known,      \* ids connected and not disconnected since, for a listener
    waiters     \* the get_device_ensured calls

vars == <<devices, timeouts, vcdj_name, feed, tasks, known, waiters>>

FeedSteps == {"receive", "insert", "connected", "announced", "spawn", "arm"}
TaskSteps == {"idle", "sleeping", "remove", "forget", "disconnected"}

FeedType == [pc : FeedSteps, id : Ids \cup {None}, host : Hosts \cup {None},
             task : Tasks \cup {None}]
TaskType == [pc : TaskSteps, id : Ids \cup {None}]
WaiterType == [pc : {"idle", "check", "waiting"}, id : Ids \cup {None},
               queued : BOOLEAN]

Init ==
    /\ devices = [i \in Ids |-> None]
    /\ timeouts = [i \in Ids |-> None]
    /\ vcdj_name \in Hosts
    /\ feed = [pc |-> "receive", id |-> None, host |-> None, task |-> None]
    /\ tasks = [t \in Tasks |-> [pc |-> "idle", id |-> None]]
    /\ known = {}
    /\ waiters = [w \in Waiters |-> [pc |-> "idle", id |-> None, queued |-> FALSE]]

-----------------------------------------------------------------------------
(* handle_announce.                                                         *)

FeedAt(step) == feed.pc = step
FeedGoes(step) == feed' = [feed EXCEPT !.pc = step]

Free(t) == tasks[t].pc = "idle" /\ \A i \in Ids : timeouts[i] # t

\* A keep-alive announcement that is not our own.
ReceiveAnnouncement ==
    /\ FeedAt("receive")
    /\ \E t \in Tasks : Free(t)
    /\ \E i \in Ids, h \in Hosts \ {vcdj_name} :
         feed' = [feed EXCEPT !.pc = "insert", !.id = i, !.host = h]
    /\ UNCHANGED <<devices, timeouts, vcdj_name, tasks, known, waiters>>

\* An occupied entry is left as it is.
InsertDevice ==
    /\ FeedAt("insert")
    /\ IF devices[feed.id] = None
       THEN /\ devices' = [devices EXCEPT ![feed.id] = feed.host]
            /\ FeedGoes("connected")
       ELSE /\ UNCHANGED devices
            /\ FeedGoes("announced")
    /\ UNCHANGED <<timeouts, vcdj_name, tasks, known, waiters>>

\* connected.emit: every subscriber gets the event.
EmitConnected ==
    /\ FeedAt("connected")
    /\ known' = known \cup {feed.id}
    /\ waiters' = [w \in Waiters |->
         IF waiters[w].pc # "idle" /\ waiters[w].id = feed.id
         THEN [waiters[w] EXCEPT !.queued = TRUE] ELSE waiters[w]]
    /\ FeedGoes("announced")
    /\ UNCHANGED <<devices, timeouts, vcdj_name, tasks>>

EmitAnnounced ==
    /\ FeedAt("announced")
    /\ FeedGoes("spawn")
    /\ UNCHANGED <<devices, timeouts, vcdj_name, tasks, known, waiters>>

SpawnTimeout ==
    /\ FeedAt("spawn")
    /\ \E t \in Tasks :
         /\ Free(t)
         /\ tasks' = [tasks EXCEPT ![t] = [pc |-> "sleeping", id |-> feed.id]]
         /\ feed' = [feed EXCEPT !.pc = "arm", !.task = t]
    /\ UNCHANGED <<devices, timeouts, vcdj_name, known, waiters>>

\* abort() stops a task that sleeps and no other.
Abort(t) ==
    IF t # None /\ tasks[t].pc = "sleeping"
    THEN tasks' = [tasks EXCEPT ![t] = [pc |-> "idle", id |-> None]]
    ELSE UNCHANGED tasks

\* Mutant: the new task is aborted in place of the one it replaces.
ArmAbortsNew ==
    /\ FeedAt("arm")
    /\ timeouts' = [timeouts EXCEPT ![feed.id] = feed.task]
    /\ Abort(feed.task)
    /\ feed' = [pc |-> "receive", id |-> None, host |-> None, task |-> None]
    /\ UNCHANGED <<devices, vcdj_name, known, waiters>>

\* timeouts.insert(id, handle), and the handle it replaces is aborted.
ArmTimeout ==
    /\ FeedAt("arm")
    /\ timeouts' = [timeouts EXCEPT ![feed.id] = feed.task]
    /\ Abort(timeouts[feed.id])
    /\ feed' = [pc |-> "receive", id |-> None, host |-> None, task |-> None]
    /\ UNCHANGED <<devices, vcdj_name, known, waiters>>

FeedStep ==
    \/ InsertDevice \/ EmitConnected \/ EmitAnnounced
    \/ SpawnTimeout \/ ArmTimeout

-----------------------------------------------------------------------------
(* The timeout task: sleep, then handle_disconnect.                         *)

TaskGoes(t, from, to) ==
    /\ tasks[t].pc = from
    /\ tasks' = [tasks EXCEPT ![t].pc = to]

SleepOver(t) ==
    /\ TaskGoes(t, "sleeping", "remove")
    /\ UNCHANGED <<devices, timeouts, vcdj_name, feed, known, waiters>>

RemoveDevice(t) ==
    /\ TaskGoes(t, "remove", "forget")
    /\ devices' = [devices EXCEPT ![tasks[t].id] = None]
    /\ UNCHANGED <<timeouts, vcdj_name, feed, known, waiters>>

\* Whatever handle is stored for the id is dropped; its task goes on.
ForgetTimeout(t) ==
    /\ TaskGoes(t, "forget", "disconnected")
    /\ timeouts' = [timeouts EXCEPT ![tasks[t].id] = None]
    /\ UNCHANGED <<devices, vcdj_name, feed, known, waiters>>

\* Mutant: listeners are not told.
EmitNothing(t) ==
    /\ tasks[t].pc = "disconnected"
    /\ tasks' = [tasks EXCEPT ![t] = [pc |-> "idle", id |-> None]]
    /\ UNCHANGED <<devices, timeouts, vcdj_name, feed, known, waiters>>

EmitDisconnected(t) ==
    /\ tasks[t].pc = "disconnected"
    /\ tasks' = [tasks EXCEPT ![t] = [pc |-> "idle", id |-> None]]
    /\ known' = known \ {tasks[t].id}
    /\ UNCHANGED <<devices, timeouts, vcdj_name, feed, waiters>>

TaskStep(t) ==
    \/ SleepOver(t) \/ RemoveDevice(t) \/ ForgetTimeout(t)
    \/ EmitDisconnected(t)

-----------------------------------------------------------------------------
(* get_device_ensured, and reconfigure.                                     *)

\* The subscription comes first: events queue up from here on.
CallEnsured(w) ==
    /\ waiters[w].pc = "idle"
    /\ \E i \in Ids :
         waiters' = [waiters EXCEPT ![w] =
                       [pc |-> "check", id |-> i, queued |-> FALSE]]
    /\ UNCHANGED <<devices, timeouts, vcdj_name, feed, tasks, known>>

Returns(w) ==
    waiters' = [waiters EXCEPT ![w] =
                  [pc |-> "idle", id |-> None, queued |-> FALSE]]

\* Mutant: the map is not looked at.
WaitWithoutLooking(w) ==
    /\ waiters[w].pc = "check"
    /\ waiters' = [waiters EXCEPT ![w].pc = "waiting"]
    /\ UNCHANGED <<devices, timeouts, vcdj_name, feed, tasks, known>>

CheckMap(w) ==
    /\ waiters[w].pc = "check"
    /\ IF devices[waiters[w].id] # None
       THEN Returns(w)
       ELSE waiters' = [waiters EXCEPT ![w].pc = "waiting"]
    /\ UNCHANGED <<devices, timeouts, vcdj_name, feed, tasks, known>>

ReceiveConnected(w) ==
    /\ waiters[w].pc = "waiting" /\ waiters[w].queued
    /\ Returns(w)
    /\ UNCHANGED <<devices, timeouts, vcdj_name, feed, tasks, known>>

\* The time is up and no event is queued: the call resolves with None.
GivesUp(w) ==
    /\ waiters[w].pc = "waiting" /\ ~waiters[w].queued
    /\ Returns(w)
    /\ UNCHANGED <<devices, timeouts, vcdj_name, feed, tasks, known>>

Reconfigure ==
    /\ vcdj_name' \in Hosts \ {vcdj_name}
    /\ UNCHANGED <<devices, timeouts, feed, tasks, known, waiters>>

Next ==
    \/ ReceiveAnnouncement
    \/ FeedStep
    \/ \E t \in Tasks : TaskStep(t)
    \/ \E w \in Waiters :
         CallEnsured(w) \/ CheckMap(w) \/ ReceiveConnected(w) \/ GivesUp(w)
    \/ Reconfigure

Spec == Init /\ [][Next]_vars

\* Tasks that can run are run, and a sleep ends.  Announcements need not come.
FairSpec ==
    /\ Spec
    /\ WF_vars(FeedStep)
    /\ \A t \in Tasks : WF_vars(TaskStep(t))

-----------------------------------------------------------------------------
(* Properties.                                                              *)

\* Maps, tasks and calls are well typed.
TypeOK ==
    /\ devices \in [Ids -> Hosts \cup {None}]
    /\ timeouts \in [Ids -> Tasks \cup {None}]
    /\ vcdj_name \in Hosts
    /\ feed \in FeedType
    /\ tasks \in [Tasks -> TaskType]
    /\ known \subseteq Ids
    /\ waiters \in [Waiters -> WaiterType]
    /\ FeedAt("receive") \/ (feed.id \in Ids /\ feed.host \in Hosts)
    /\ FeedAt("arm") => feed.task \in Tasks
    /\ \A t \in Tasks : tasks[t].pc = "idle" \/ tasks[t].id \in Ids
    /\ \A w \in Waiters : waiters[w].pc = "idle" \/ waiters[w].id \in Ids

\* The feed task is about to start a timeout for i.
AboutToTime(i) ==
    feed.id = i /\ feed.pc \in {"connected", "announced", "spawn"}

\* Task t has still to take device i off the map.
WillRemove(t, i) == tasks[t].id = i /\ tasks[t].pc \in {"sleeping", "remove"}

\* A device on the map is always going to be timed out: whatever the races of
\* announcements and timeout tasks, no device that falls silent stays for good.
NoImmortalDevice ==
    \A i \in Ids : devices[i] # None =>
        AboutToTime(i) \/ \E t \in Tasks : WillRemove(t, i)

\* get_device_ensured cannot miss a device: one that is on the network after
\* the map was looked at has its connected event queued, or about to be.
NoLostWakeup ==
    \A w \in Waiters :
        waiters[w].pc = "waiting" /\ devices[waiters[w].id] # None =>
            \/ waiters[w].queued
            \/ FeedAt("connected") /\ feed.id = waiters[w].id

\* When the announcements cease, the map empties and listeners have been told
\* of every device that left.
SilenceEmptiesMap ==
    <>[][~ReceiveAnnouncement]_vars =>
        <>[](known = {} /\ \A i \in Ids : devices[i] = None)

-----------------------------------------------------------------------------
(* What the documentation says and the code does not do.                    *)

\* "disconnected: Fired when a device has not announced itself on the network
\* for the specified timeout": a device on the map has just announced itself.
DisconnectedMeansGone ==
    [][\A t \in Tasks : EmitDisconnected(t) => devices[tasks[t].id] = None]_vars
=============================================================================
