------------------------------ MODULE Network ------------------------------
(***************************************************************************)
(* The life of the network (src/src/network.rs): configure, connect,       *)
(* disconnect and close, called through clones of one handle from any      *)
(* number of tasks.                                                        *)
(*                                                                         *)
(* Every field of the shared state has a lock of its own, which is held    *)
(* for one read or write only; a call is a sequence of such steps, and     *)
(* those of other calls come in between.  Announcers are seen here only    *)
(* from outside: from start to stop they announce, and a conflict may move *)
(* the active one to another number (module Announcer).                    *)
(***************************************************************************)
EXTENDS Naturals, FiniteSets

CONSTANTS
    Callers,        \* tasks that hold a clone of the handle
    Conns,          \* connection services; bound on how many are alive
    Peers,          \* devices on the network
    DefaultId,      \* DEFAULT_VCDJ_ID
    StagehandIds,   \* generate_stagehand_device_id returns any of these
    PlayerIds,      \* numbers an announcer may move to after a conflict
    DefaultName,    \* VIRTUAL_CDJ_NAME, which the device manager ignores
    StagehandName,
    CustomNames,
    None

Ids == {DefaultId} \cup StagehandIds \cup PlayerIds
Names == {DefaultName, StagehandName} \cup CustomNames
Methods == {"active", "stagehand"}

ASSUME NoneDiffers == None \notin Conns \cup Ids \cup Names
ASSUME SomeIds == StagehandIds # {}

VARIABLES
    state,      \* the NetworkState
    config,     \* the shared configuration
    filter,     \* the name the device manager ignores
    connection, \* the stored connection service, or None
    conns,      \* the connection services
    calls,      \* where the callers are
    feeds,      \* the sockets are read
    peers,      \* devices on the device manager's map
    known,      \* number the network knows us by, unless configured since
    replaced,   \* connections that a later connect was stored over
    overlapped  \* two calls have overlapped

vars == <<state, config, filter, connection, conns, calls, feeds, peers,
          known, replaced, overlapped>>

ConfigType == [configured : BOOLEAN, id : Ids \cup {None}, method : Methods,
               name : CustomNames \cup {None}]
ConnType == [announcing : BOOLEAN, method : Methods, id : Ids \cup {None},
             name : Names \cup {None}]
Steps == {"idle", "keep_id", "filter", "announce", "connected", "store",
          "stop", "drop", "offline"}
CallType == [step : Steps, method : Methods, id : Ids \cup {None},
             name : Names \cup {None}, conn : Conns \cup {None},
             todo : SUBSET Peers]

IdleCall == [step |-> "idle", method |-> "active", id |-> None, name |-> None,
             conn |-> None, todo |-> {}]
NoConn == [announcing |-> FALSE, method |-> "active", id |-> None,
           name |-> None]

\* bring_online, with a configuration that may lack the interface.
Init ==
    /\ state = "Online"
    /\ config \in [configured : BOOLEAN, id : {None}, method : Methods,
                   name : {None}]
    /\ filter = DefaultName
    /\ connection = None
    /\ conns = [c \in Conns |-> NoConn]
    /\ calls = [p \in Callers |-> IdleCall]
    /\ feeds = "open"
    /\ peers \in SUBSET Peers
    /\ known = None /\ replaced = {} /\ overlapped = FALSE

At(p, step) == calls[p].step = step
Busy == {p \in Callers : ~At(p, "idle")}
Held == {calls[p].conn : p \in Callers}
Goes(p, step) == calls' = [calls EXCEPT ![p].step = step]
Returns(p) == calls' = [calls EXCEPT ![p] = IdleCall]

\* Ghosts: once calls have overlapped nothing is claimed of the number.
Begins ==
    /\ overlapped' = (overlapped \/ Busy # {})
    /\ known' = IF overlapped' THEN None ELSE known
Reconfigured == overlapped' = (overlapped \/ Busy # {}) /\ known' = None

-----------------------------------------------------------------------------
(* configure and autoconfig_from_peers: one write of the configuration.     *)

\* Only the fields given change, and none can be taken back.
Configure ==
    /\ config' \in [configured : {config.configured, TRUE},
                    id : {config.id, DefaultId}, method : Methods,
                    name : {config.name} \cup CustomNames]
    /\ config' # config
    /\ Reconfigured
    /\ UNCHANGED <<state, filter, connection, conns, calls, feeds, peers,
                   replaced>>

\* The numbers a virtual device is given when none is configured.
DefaultIds(method) ==
    IF method = "stagehand" THEN StagehandIds ELSE {DefaultId}

\* The number is overwritten, given or not.
Autoconfig ==
    /\ peers # {}
    /\ \E id \in DefaultIds(config.method) :
         config' = [config EXCEPT !.id = id, !.configured = TRUE]
    /\ Reconfigured
    /\ UNCHANGED <<state, filter, connection, conns, calls, feeds, peers,
                   replaced>>

-----------------------------------------------------------------------------
(* connect.                                                                 *)

\* The configuration is read once.
CallConnect(p) ==
    /\ At(p, "idle") /\ config.configured
    /\ \E id \in IF config.id # None THEN {config.id}
                 ELSE DefaultIds(config.method) :
         calls' = [calls EXCEPT ![p] =
           [IdleCall EXCEPT
              !.step = "keep_id", !.method = config.method, !.id = id,
              !.name = IF config.name # None THEN config.name
                       ELSE IF config.method = "stagehand" THEN StagehandName
                       ELSE None]]
    /\ Begins
    /\ UNCHANGED <<state, config, filter, connection, conns, feeds, peers,
                   replaced>>

\* Mutant: the number is chosen anew by every connect.
KeepNothing(p) ==
    /\ At(p, "keep_id")
    /\ Goes(p, "filter")
    /\ UNCHANGED <<state, config, filter, connection, conns, feeds, peers,
                   known, replaced, overlapped>>

KeepId(p) ==
    /\ At(p, "keep_id")
    /\ config' = [config EXCEPT !.id = calls[p].id]
    /\ Goes(p, "filter")
    /\ UNCHANGED <<state, filter, connection, conns, feeds, peers, known,
                   replaced, overlapped>>

\* Mutant: the device manager is not told of the name.
KeepFilter(p) ==
    /\ At(p, "filter")
    /\ Goes(p, "announce")
    /\ UNCHANGED <<state, config, filter, connection, conns, feeds, peers,
                   known, replaced, overlapped>>

\* Only a name of our own is passed on: the default stays replaced by an
\* earlier one.
FilterName(p) ==
    /\ At(p, "filter")
    /\ filter' = IF calls[p].name # None THEN calls[p].name ELSE filter
    /\ Goes(p, "announce")
    /\ UNCHANGED <<state, config, connection, conns, feeds, peers, known,
                   replaced, overlapped>>

\* The services are made, the announcer (and heartbeat) started.
Announce(p) ==
    /\ At(p, "announce")
    /\ \E c \in Conns \ (Held \cup {connection}) :
         /\ ~conns[c].announcing
         /\ conns' = [conns EXCEPT ![c] =
              [announcing |-> TRUE, method |-> calls[p].method, id |-> calls[p].id,
               name |-> IF calls[p].name # None THEN calls[p].name
                        ELSE DefaultName]]
         /\ calls' = [calls EXCEPT ![p] =
              [IdleCall EXCEPT !.step = "connected", !.conn = c]]
    /\ known' = IF overlapped THEN None ELSE calls[p].id
    /\ UNCHANGED <<state, config, filter, connection, feeds, peers, replaced,
                   overlapped>>

SetConnected(p) ==
    /\ At(p, "connected")
    /\ state' = "Connected"
    /\ Goes(p, "store")
    /\ UNCHANGED <<config, filter, connection, conns, feeds, peers, known,
                   replaced, overlapped>>

\* A connection that was stored is dropped; its tasks go on.
Store(p) ==
    /\ At(p, "store")
    /\ connection' = calls[p].conn
    /\ replaced' = replaced \cup ({connection} \ {None})
    /\ Returns(p)
    /\ UNCHANGED <<state, config, filter, conns, feeds, peers, known,
                   overlapped>>

-----------------------------------------------------------------------------
(* disconnect and close.                                                    *)

\* Mutant: the connection is looked at, and taken only when it is stopped.
LookAtConnection(p) ==
    /\ At(p, "idle") /\ config.configured
    /\ calls' = [calls EXCEPT ![p] =
         [IdleCall EXCEPT !.step = IF connection = None THEN "drop" ELSE "stop",
                          !.conn = connection]]
    /\ Begins
    /\ UNCHANGED <<state, config, filter, connection, conns, feeds, peers,
                   replaced>>

CallDisconnect(p) ==
    /\ At(p, "idle") /\ config.configured
    /\ connection' = None
    /\ calls' = [calls EXCEPT ![p] =
         [IdleCall EXCEPT !.step = IF connection = None THEN "drop" ELSE "stop",
                          !.conn = connection]]
    /\ Begins
    /\ UNCHANGED <<state, config, filter, conns, feeds, peers, replaced>>

\* Mutant: only the databases are disconnected.
StopNothing(p) ==
    /\ At(p, "stop")
    /\ calls' = [calls EXCEPT ![p].step = "drop", ![p].todo = peers]
    /\ UNCHANGED <<state, config, filter, connection, conns, feeds, peers,
                   known, replaced, overlapped>>

\* The announcer (and heartbeat) are stopped and the device map is read.
Stop(p) ==
    /\ At(p, "stop")
    /\ conns' = [conns EXCEPT ![calls[p].conn] = NoConn]
    /\ calls' = [calls EXCEPT ![p].step = "drop", ![p].todo = peers]
    /\ UNCHANGED <<state, config, filter, connection, feeds, peers, known,
                   replaced, overlapped>>

\* A device's databases are disconnected, which the remote one awaits.
DropPeer(p) ==
    /\ At(p, "drop")
    /\ \E d \in calls[p].todo :
         calls' = [calls EXCEPT ![p].todo = @ \ {d}]
    /\ UNCHANGED <<state, config, filter, connection, conns, feeds, peers,
                   known, replaced, overlapped>>

SetOnline(p) ==
    /\ At(p, "drop") /\ calls[p].todo = {}
    /\ state' = "Online"
    /\ Returns(p)
    /\ UNCHANGED <<config, filter, connection, conns, feeds, peers, known,
                   replaced, overlapped>>

\* The readers of the sockets end; nothing is disconnected.
CallClose(p) ==
    /\ At(p, "idle")
    /\ feeds' = "closed"
    /\ calls' = [calls EXCEPT ![p].step = "offline"]
    /\ Begins
    /\ UNCHANGED <<state, config, filter, connection, conns, peers, replaced>>

SetOffline(p) ==
    /\ At(p, "offline")
    /\ state' = "Offline"
    /\ Returns(p)
    /\ UNCHANGED <<config, filter, connection, conns, feeds, peers, known,
                   replaced, overlapped>>

ConnectStep(p) ==
    CallConnect(p) \/ KeepId(p) \/ FilterName(p) \/ Announce(p)
      \/ SetConnected(p) \/ Store(p)
DisconnectStep(p) == CallDisconnect(p) \/ Stop(p) \/ DropPeer(p) \/ SetOnline(p)
CloseStep(p) == CallClose(p) \/ SetOffline(p)

-----------------------------------------------------------------------------
(* What the announcers and the network do.                                  *)

\* An active announcer answers a conflict; the configuration is not told.
Conflict ==
    /\ \E c \in Conns, id \in PlayerIds :
         /\ conns[c].announcing /\ conns[c].method = "active"
         /\ id # conns[c].id
         /\ conns' = [conns EXCEPT ![c].id = id]
         /\ known' = IF known = None THEN None ELSE id
    /\ UNCHANGED <<state, config, filter, connection, calls, feeds, peers,
                   replaced, overlapped>>

\* Devices come, while the sockets are read, and go.
PeersChange ==
    /\ peers' \in SUBSET Peers \ {peers}
    /\ feeds = "open" \/ peers' \subseteq peers
    /\ UNCHANGED <<state, config, filter, connection, conns, calls, feeds,
                   known, replaced, overlapped>>

Next ==
    \/ Configure \/ Autoconfig
    \/ \E p \in Callers : ConnectStep(p) \/ DisconnectStep(p) \/ CloseStep(p)
    \/ Conflict \/ PeersChange

Spec == Init /\ [][Next]_vars

-----------------------------------------------------------------------------
(* Properties.                                                              *)

\* State, configuration, connections and calls are well typed.
TypeOK ==
    /\ state \in {"Online", "Connected", "Offline"}
    /\ config \in ConfigType
    /\ filter \in Names
    /\ connection \in Conns \cup {None}
    /\ conns \in [Conns -> ConnType]
    /\ calls \in [Callers -> CallType]
    /\ feeds \in {"open", "closed"}
    /\ peers \in SUBSET Peers
    /\ known \in Ids \cup {None}
    /\ replaced \in SUBSET Conns
    /\ overlapped \in BOOLEAN

\* Whoever announces can still be stopped: its connection is stored, a call
\* in progress will store or stop it, or a later connect replaced it
\* (connect, disconnect).
EveryAnnouncerIsHeld ==
    \A c \in Conns : conns[c].announcing =>
        \/ c = connection
        \/ \E p \in Callers :
             calls[p].conn = c /\ calls[p].step \in {"connected", "store", "stop"}
        \/ c \in replaced

\* The connection whose services the accessors hand out announces us, and no
\* disconnect is taking it apart, however calls overlap.
StoredAnnounces ==
    connection # None =>
        /\ conns[connection].announcing
        /\ \A p \in Callers : calls[p].conn # connection

\* Unless calls overlapped, once a call has returned the state and the stored
\* connection agree, and devices under a name of our own are not listed.
SerialCallsAgree ==
    ~overlapped /\ Busy = {} =>
        /\ state = "Connected" => connection # None
        /\ state = "Online" => connection = None
        /\ connection # None /\ conns[connection].name # DefaultName =>
             filter = conns[connection].name

Claims(p) == At(p, "announce") /\ ~At(p, "announce")'
Orderly == ~overlapped /\ replaced = {}

\* Unless calls overlapped or a connection was stored over another, a connect
\* in Stagehand mode claims the number by which the network already knows us
\* (connect keeps the one it picked).
StagehandKeepsIdentity ==
    [][\A p \in Callers :
         (Claims(p) /\ Orderly /\ calls[p].method = "stagehand" /\ known # None)
           => calls[p].id = known]_vars

-----------------------------------------------------------------------------
(* What the comments say and the code does not do.                          *)

\* "a disconnect/connect cycle must present the same identity".
KeepsIdentity ==
    [][\A p \in Callers :
         (Claims(p) /\ Orderly /\ connection = None /\ known # None)
           => calls[p].id = known]_vars
=============================================================================
