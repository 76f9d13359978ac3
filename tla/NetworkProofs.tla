--------------------------- MODULE NetworkProofs ---------------------------
(***************************************************************************)
(* For any number of tasks that call the network and any interleaving of   *)
(* their calls: the stored connection announces us, and whatever announces *)
(* us is stored, in the hands of a call, or was replaced by a connect.     *)
(* Calls that do not overlap leave state, identity and filter in agreement,*)
(* and no configuration takes the identity from a Stagehand connection.    *)
(***************************************************************************)
EXTENDS Network, TLAPS

Holding == {"connected", "store", "stop"}

\* A call that holds a connection for storing or stopping holds a live one.
HoldersAnnounce ==
    \A p \in Callers : calls[p].step \in Holding =>
        calls[p].conn \in Conns /\ conns[calls[p].conn].announcing

\* No two calls hold the same connection.
HeldOnce ==
    \A p, q \in Callers :
        p # q /\ calls[p].conn # None => calls[p].conn # calls[q].conn

Custody ==
    /\ StoredAnnounces /\ EveryAnnouncerIsHeld
    /\ HoldersAnnounce /\ HeldOnce

-----------------------------------------------------------------------------
(* Type correctness.                                                        *)

LEMMA IdleTyped == IdleCall \in CallType /\ NoConn \in ConnType
BY DEF IdleCall, CallType, Steps, Methods, NoConn, ConnType

\* A call that goes on leaves the calls well typed.
LEMMA GoesTyped ==
  ASSUME TypeOK, NEW p \in Callers, NEW step \in Steps, Goes(p, step)
  PROVE  calls' \in [Callers -> CallType]
<1>1. calls \in [Callers -> CallType]
  BY DEF TypeOK
<1>2. [calls[p] EXCEPT !.step = step] \in CallType
  BY <1>1 DEF CallType
<1>3. calls' = [calls EXCEPT ![p] = [calls[p] EXCEPT !.step = step]]
  BY <1>1 DEF Goes
<1> QED BY <1>1, <1>2, <1>3

\* So does one that returns.
LEMMA ReturnTyped ==
  ASSUME TypeOK, NEW p \in Callers, Returns(p)
  PROVE  calls' \in [Callers -> CallType]
BY IdleTyped DEF TypeOK, Returns

LEMMA ConfigureTyped ==
  ASSUME TypeOK, Configure \/ Autoconfig
  PROVE  TypeOK'
<1>1. config' \in ConfigType
  <2>1. CASE Configure
    BY <2>1 DEF TypeOK, Configure, ConfigType, Ids, Methods
  <2>2. CASE Autoconfig
    <3>1. DefaultIds(config.method) \subseteq Ids
      BY DEF DefaultIds, Ids
    <3>2. PICK id \in Ids : config' = [config EXCEPT !.id = id, !.configured = TRUE]
      BY <2>2, <3>1 DEF Autoconfig
    <3> QED BY <3>2 DEF TypeOK, ConfigType
  <2> QED BY <2>1, <2>2
<1>2. known' \in Ids \cup {None} /\ overlapped' \in BOOLEAN
  BY DEF Configure, Autoconfig, Reconfigured, TypeOK
<1> QED BY <1>1, <1>2 DEF TypeOK, Configure, Autoconfig

LEMMA BeginsTyped ==
  ASSUME TypeOK, Begins
  PROVE  known' \in Ids \cup {None} /\ overlapped' \in BOOLEAN
BY DEF TypeOK, Begins

LEMMA ConnectTyped ==
  ASSUME TypeOK, NEW p \in Callers, ConnectStep(p)
  PROVE  TypeOK'
<1>0. calls \in [Callers -> CallType] /\ calls[p] \in CallType
  BY DEF TypeOK
<1>1. CASE CallConnect(p)
  <2>1. PICK id \in Ids : calls' = [calls EXCEPT ![p] =
           [IdleCall EXCEPT
              !.step = "keep_id", !.method = config.method, !.id = id,
              !.name = IF config.name # None THEN config.name
                       ELSE IF config.method = "stagehand" THEN StagehandName
                       ELSE None]]
    BY <1>1 DEF CallConnect, DefaultIds, Ids, TypeOK, ConfigType
  <2> DEFINE name == IF config.name # None THEN config.name
                     ELSE IF config.method = "stagehand" THEN StagehandName
                     ELSE None
             v == [IdleCall EXCEPT !.step = "keep_id", !.method = config.method,
                                   !.id = id, !.name = name]
  <2>2. name \in Names \cup {None} /\ config.method \in Methods
    BY DEF TypeOK, ConfigType, Names
  <2> HIDE DEF name
  <2>3. v \in CallType
    BY <2>2 DEF IdleCall, CallType, Steps
  <2>4. calls' = [calls EXCEPT ![p] = v]
    BY <2>1 DEF name
  <2> HIDE DEF v
  <2>5. calls' \in [Callers -> CallType]
    BY <1>0, <2>3, <2>4
  <2>6. known' \in Ids \cup {None} /\ overlapped' \in BOOLEAN
    BY <1>1, BeginsTyped DEF CallConnect
  <2> QED BY <1>1, <2>5, <2>6 DEF CallConnect, TypeOK
<1>2. CASE KeepId(p)
  <2>1. calls' \in [Callers -> CallType]
    BY <1>2, GoesTyped DEF KeepId, Steps
  <2>2. config' \in ConfigType
    BY <1>0, <1>2 DEF KeepId, TypeOK, ConfigType, CallType
  <2> QED BY <1>2, <2>1, <2>2 DEF KeepId, TypeOK
<1>3. CASE FilterName(p)
  <2>1. calls' \in [Callers -> CallType]
    BY <1>3, GoesTyped DEF FilterName, Steps
  <2>2. filter' \in Names
    BY <1>0, <1>3 DEF FilterName, TypeOK, CallType
  <2> QED BY <1>3, <2>1, <2>2 DEF FilterName, TypeOK
<1>4. CASE Announce(p)
  <2>1. PICK c \in Conns :
         /\ conns' = [conns EXCEPT ![c] =
              [announcing |-> TRUE, method |-> calls[p].method, id |-> calls[p].id,
               name |-> IF calls[p].name # None THEN calls[p].name
                        ELSE DefaultName]]
         /\ calls' = [calls EXCEPT ![p] =
              [IdleCall EXCEPT !.step = "connected", !.conn = c]]
    BY <1>4 DEF Announce
  <2> DEFINE v == [IdleCall EXCEPT !.step = "connected", !.conn = c]
             k == [announcing |-> TRUE, method |-> calls[p].method,
                   id |-> calls[p].id,
                   name |-> IF calls[p].name # None THEN calls[p].name
                            ELSE DefaultName]
  <2>2. v \in CallType
    BY DEF IdleCall, CallType, Steps, Methods
  <2>3. k \in ConnType
    BY <1>0 DEF CallType, ConnType, Names
  <2>4. calls' = [calls EXCEPT ![p] = v] /\ conns' = [conns EXCEPT ![c] = k]
    BY <2>1
  <2> HIDE DEF v, k
  <2>5. calls' \in [Callers -> CallType] /\ conns' \in [Conns -> ConnType]
    BY <1>0, <2>2, <2>3, <2>4 DEF TypeOK
  <2>6. known' \in Ids \cup {None}
    BY <1>0, <1>4 DEF Announce, CallType
  <2> QED BY <1>4, <2>5, <2>6 DEF Announce, TypeOK
<1>5. CASE SetConnected(p)
  <2>1. calls' \in [Callers -> CallType]
    BY <1>5, GoesTyped DEF SetConnected, Steps
  <2> QED BY <1>5, <2>1 DEF SetConnected, TypeOK
<1>6. CASE Store(p)
  <2>1. calls' \in [Callers -> CallType]
    BY <1>6, ReturnTyped DEF Store
  <2>2. connection' \in Conns \cup {None}
    BY <1>0, <1>6 DEF Store, CallType
  <2>3. replaced' \in SUBSET Conns
    BY <1>6 DEF Store, TypeOK
  <2> QED BY <1>6, <2>1, <2>2, <2>3 DEF Store, TypeOK
<1> QED BY <1>1, <1>2, <1>3, <1>4, <1>5, <1>6 DEF ConnectStep

LEMMA DisconnectTyped ==
  ASSUME TypeOK, NEW p \in Callers, DisconnectStep(p) \/ CloseStep(p)
  PROVE  TypeOK'
<1>0. calls \in [Callers -> CallType] /\ calls[p] \in CallType
  BY DEF TypeOK
<1>1. CASE CallDisconnect(p)
  <2> DEFINE step == IF connection = None THEN "drop" ELSE "stop"
             v == [IdleCall EXCEPT !.step = step, !.conn = connection]
  <2>1. step \in Steps /\ connection \in Conns \cup {None}
    BY DEF Steps, TypeOK
  <2> HIDE DEF step
  <2>2. v \in CallType
    BY <2>1 DEF IdleCall, CallType, Methods
  <2>3. calls' = [calls EXCEPT ![p] = v]
    BY <1>1 DEF CallDisconnect, step
  <2> HIDE DEF v
  <2>4. calls' \in [Callers -> CallType]
    BY <1>0, <2>2, <2>3
  <2>5. known' \in Ids \cup {None} /\ overlapped' \in BOOLEAN
    BY <1>1, BeginsTyped DEF CallDisconnect
  <2> QED BY <1>1, <2>4, <2>5 DEF CallDisconnect, TypeOK
<1>2. CASE Stop(p)
  <2> DEFINE v == [calls[p] EXCEPT !.step = "drop", !.todo = peers]
  <2>1. v \in CallType
    BY <1>0 DEF TypeOK, CallType, Steps
  <2>2. calls' = [calls EXCEPT ![p] = v]
    BY <1>0, <1>2 DEF Stop
  <2> HIDE DEF v
  <2>3. calls' \in [Callers -> CallType]
    BY <1>0, <2>1, <2>2
  <2>4. conns' \in [Conns -> ConnType]
    BY <1>2, IdleTyped DEF Stop, TypeOK
  <2> QED BY <1>2, <2>3, <2>4 DEF Stop, TypeOK
<1>3. CASE DropPeer(p)
  <2>1. PICK d \in calls[p].todo : calls' = [calls EXCEPT ![p].todo = @ \ {d}]
    BY <1>3 DEF DropPeer
  <2> DEFINE v == [calls[p] EXCEPT !.todo = calls[p].todo \ {d}]
  <2>2. v \in CallType
    BY <1>0 DEF CallType
  <2>3. calls' = [calls EXCEPT ![p] = v]
    BY <1>0, <2>1
  <2> HIDE DEF v
  <2>4. calls' \in [Callers -> CallType]
    BY <1>0, <2>2, <2>3
  <2> QED BY <1>3, <2>4 DEF DropPeer, TypeOK
<1>4. CASE SetOnline(p) \/ SetOffline(p)
  <2>1. calls' \in [Callers -> CallType]
    BY <1>4, ReturnTyped DEF SetOnline, SetOffline
  <2> QED BY <1>4, <2>1 DEF SetOnline, SetOffline, TypeOK
<1>5. CASE CallClose(p)
  <2>1. Goes(p, "offline")
    BY <1>5 DEF CallClose, Goes
  <2>2. calls' \in [Callers -> CallType]
    BY <2>1, GoesTyped DEF Steps
  <2>3. known' \in Ids \cup {None} /\ overlapped' \in BOOLEAN
    BY <1>5, BeginsTyped DEF CallClose
  <2> QED BY <1>5, <2>2, <2>3 DEF CallClose, TypeOK
<1> QED BY <1>1, <1>2, <1>3, <1>4, <1>5 DEF DisconnectStep, CloseStep

LEMMA SurroundingsTyped ==
  ASSUME TypeOK, Conflict \/ PeersChange
  PROVE  TypeOK'
<1>1. CASE Conflict
  <2>1. PICK c \in Conns, id \in PlayerIds :
          /\ conns' = [conns EXCEPT ![c].id = id]
          /\ known' = IF known = None THEN None ELSE id
    BY <1>1 DEF Conflict
  <2>2. [conns[c] EXCEPT !.id = id] \in ConnType
    BY DEF TypeOK, ConnType, Ids
  <2>3. conns' = [conns EXCEPT ![c] = [conns[c] EXCEPT !.id = id]]
    BY <2>1 DEF TypeOK
  <2>4. conns' \in [Conns -> ConnType]
    BY <2>2, <2>3 DEF TypeOK
  <2>5. known' \in Ids \cup {None}
    BY <2>1 DEF Ids
  <2> QED BY <1>1, <2>4, <2>5 DEF Conflict, TypeOK
<1>2. CASE PeersChange
  BY <1>2 DEF PeersChange, TypeOK
<1> QED BY <1>1, <1>2

LEMMA TypeStep == TypeOK /\ [Next]_vars => TypeOK'
<1> SUFFICES ASSUME TypeOK, [Next]_vars PROVE TypeOK'
  OBVIOUS
<1>1. CASE UNCHANGED vars
  BY <1>1 DEF vars, TypeOK
<1> QED BY <1>1, ConfigureTyped, ConnectTyped, DisconnectTyped,
           SurroundingsTyped DEF Next

\* Whatever the callers do, the network's state is well typed.
THEOREM TypeCorrect == Spec => []TypeOK
<1>1. Init => TypeOK
  BY IdleTyped DEF Init, TypeOK, ConfigType, Names
<1> QED BY <1>1, TypeStep, PTL DEF Spec

-----------------------------------------------------------------------------
(* Custody of the announcers.                                               *)

\* A step that touches neither connections nor what calls hold.
LEMMA CustodyKept ==
  ASSUME Custody, UNCHANGED <<connection, conns, replaced>>,
         \A p \in Callers : /\ calls'[p].conn = calls[p].conn
                            /\ calls'[p].step \in Holding
                                 <=> calls[p].step \in Holding
  PROVE  Custody'
<1>1. HoldersAnnounce' /\ HeldOnce' /\ StoredAnnounces'
  BY DEF Custody, HoldersAnnounce, HeldOnce, StoredAnnounces
<1>2. EveryAnnouncerIsHeld'
  BY DEF Custody, EveryAnnouncerIsHeld, Holding
<1> QED BY <1>1, <1>2 DEF Custody

\* A call that begins or returns while it holds nothing that must be kept.
LEMMA CustodyLetGo ==
  ASSUME Custody, NEW p \in Callers, UNCHANGED <<connection, conns, replaced>>,
         calls[p].step \notin Holding, calls'[p].step \notin Holding,
         calls'[p].conn = None,
         \A q \in Callers \ {p} : calls'[q] = calls[q]
  PROVE  Custody'
<1>1. HoldersAnnounce' /\ HeldOnce'
  BY DEF Custody, HoldersAnnounce, HeldOnce
<1>2. StoredAnnounces'
  BY DEF Custody, StoredAnnounces
<1>3. EveryAnnouncerIsHeld'
  BY DEF Custody, EveryAnnouncerIsHeld, Holding
<1> QED BY <1>1, <1>2, <1>3 DEF Custody

\* A new connection is nobody else's.
LEMMA AnnounceKeepsCustody ==
  ASSUME TypeOK, Custody, NEW p \in Callers, Announce(p)
  PROVE  Custody'
<1>1. PICK c \in Conns \ (Held \cup {connection}) :
        /\ conns' = [conns EXCEPT ![c] =
             [announcing |-> TRUE, method |-> calls[p].method, id |-> calls[p].id,
              name |-> IF calls[p].name # None THEN calls[p].name
                       ELSE DefaultName]]
        /\ calls' = [calls EXCEPT ![p] =
             [IdleCall EXCEPT !.step = "connected", !.conn = c]]
  BY DEF Announce
<1>2. \A q \in Callers : calls[q].conn # c
  BY <1>1 DEF Held
<1>3. calls \in [Callers -> CallType] /\ conns \in [Conns -> ConnType]
  BY DEF TypeOK
<1>4. calls'[p].step = "connected" /\ calls'[p].conn = c
  BY <1>1, <1>3 DEF IdleCall
<1>5. \A q \in Callers \ {p} : calls'[q] = calls[q]
  BY <1>1, <1>3
<1>6. conns'[c].announcing /\ \A k \in Conns \ {c} : conns'[k] = conns[k]
  BY <1>1, <1>3
<1>7. connection' = connection /\ replaced' = replaced /\ connection # c
      /\ connection \in Conns \cup {None} /\ calls[p].step = "announce"
  BY <1>1 DEF Announce, TypeOK, At
<1>8. HoldersAnnounce'
  BY <1>2, <1>4, <1>5, <1>6 DEF Custody, HoldersAnnounce
<1>9. HeldOnce'
  BY <1>2, <1>4, <1>5 DEF Custody, HeldOnce
<1>10. StoredAnnounces'
  BY <1>4, <1>5, <1>6, <1>7 DEF Custody, StoredAnnounces
<1>11. EveryAnnouncerIsHeld'
  <2> SUFFICES ASSUME NEW k \in Conns, conns'[k].announcing
               PROVE  \/ k = connection'
                      \/ \E q \in Callers : calls'[q].conn = k
                            /\ calls'[q].step \in {"connected", "store", "stop"}
                      \/ k \in replaced'
    BY DEF EveryAnnouncerIsHeld
  <2>1. CASE k = c
    BY <1>4, <2>1
  <2>2. CASE k # c
    <3>1. conns[k].announcing
      BY <1>6, <2>2
    <3>2. CASE \E q \in Callers : calls[q].conn = k
                 /\ calls[q].step \in {"connected", "store", "stop"}
      BY <1>5, <1>7, <3>2
    <3> QED BY <1>7, <3>1, <3>2 DEF Custody, EveryAnnouncerIsHeld
  <2> QED BY <2>1, <2>2
<1> QED BY <1>8, <1>9, <1>10, <1>11 DEF Custody

\* What is stored over another connection leaves that one replaced.
LEMMA StoreKeepsCustody ==
  ASSUME TypeOK, Custody, NEW p \in Callers, Store(p)
  PROVE  Custody'
<1>1. calls[p].step = "store" /\ connection' = calls[p].conn /\ conns' = conns
      /\ replaced' = replaced \cup ({connection} \ {None})
  BY DEF Store, At
<1>2. calls'[p].conn = None /\ calls'[p].step = "idle"
      /\ \A q \in Callers \ {p} : calls'[q] = calls[q]
  BY DEF Store, Returns, TypeOK, IdleCall
<1>3. calls[p].conn \in Conns /\ conns[calls[p].conn].announcing
      /\ calls[p].conn # None
  BY <1>1, NoneDiffers DEF Custody, HoldersAnnounce, Holding
<1>4. HoldersAnnounce' /\ HeldOnce'
  BY <1>1, <1>2 DEF Custody, HoldersAnnounce, HeldOnce, Holding
<1>5. StoredAnnounces'
  BY <1>1, <1>2, <1>3 DEF Custody, StoredAnnounces, HeldOnce
<1>6. EveryAnnouncerIsHeld'
  <2> SUFFICES ASSUME NEW k \in Conns, conns[k].announcing
               PROVE  \/ k = connection'
                      \/ \E q \in Callers : calls'[q].conn = k
                            /\ calls'[q].step \in {"connected", "store", "stop"}
                      \/ k \in replaced'
    BY <1>1 DEF EveryAnnouncerIsHeld
  <2>1. CASE k = connection
    BY <1>1, <2>1, NoneDiffers
  <2>2. CASE \E q \in Callers : calls[q].conn = k
               /\ calls[q].step \in {"connected", "store", "stop"}
    BY <1>1, <1>2, <2>2
  <2>3. CASE k \in replaced
    BY <1>1, <2>3
  <2> QED BY <2>1, <2>2, <2>3 DEF Custody, EveryAnnouncerIsHeld
<1> QED BY <1>4, <1>5, <1>6 DEF Custody

\* A disconnect takes over what is stored.
LEMMA DisconnectKeepsCustody ==
  ASSUME TypeOK, Custody, NEW p \in Callers, CallDisconnect(p)
  PROVE  Custody'
<1>1. calls[p].step = "idle" /\ connection' = None /\ conns' = conns
      /\ replaced' = replaced
  BY DEF CallDisconnect, At
<1>2. calls' = [calls EXCEPT ![p] =
        [IdleCall EXCEPT !.step = IF connection = None THEN "drop" ELSE "stop",
                         !.conn = connection]]
  BY DEF CallDisconnect
<1>3. /\ calls'[p].conn = connection
      /\ calls'[p].step = IF connection = None THEN "drop" ELSE "stop"
      /\ \A q \in Callers \ {p} : calls'[q] = calls[q]
  BY <1>2 DEF TypeOK, IdleCall
<1>4. HoldersAnnounce'
  BY <1>1, <1>3 DEF Custody, HoldersAnnounce, StoredAnnounces, Holding, TypeOK
<1>5. HeldOnce' /\ StoredAnnounces'
  BY <1>1, <1>3 DEF Custody, HeldOnce, StoredAnnounces
<1>6. EveryAnnouncerIsHeld'
  <2> SUFFICES ASSUME NEW k \in Conns, conns[k].announcing
               PROVE  \/ \E q \in Callers : calls'[q].conn = k
                            /\ calls'[q].step \in {"connected", "store", "stop"}
                      \/ k \in replaced
    BY <1>1 DEF EveryAnnouncerIsHeld
  <2>1. CASE k = connection
    BY <1>3, <2>1, NoneDiffers
  <2>2. CASE \E q \in Callers : calls[q].conn = k
               /\ calls[q].step \in {"connected", "store", "stop"}
    BY <1>1, <1>3, <2>2
  <2> QED BY <2>1, <2>2 DEF Custody, EveryAnnouncerIsHeld
<1> QED BY <1>4, <1>5, <1>6 DEF Custody

\* A stopped connection no longer announces.
LEMMA StopKeepsCustody ==
  ASSUME TypeOK, Custody, NEW p \in Callers, Stop(p)
  PROVE  Custody'
<1> DEFINE c == calls[p].conn
<1>1. calls[p].step = "stop" /\ connection' = connection /\ replaced' = replaced
  BY DEF Stop, At
<1>2. c \in Conns /\ c # None /\ c # connection
  BY <1>1, NoneDiffers DEF Custody, HoldersAnnounce, StoredAnnounces, Holding
<1>3. conns'[c] = NoConn /\ \A k \in Conns \ {c} : conns'[k] = conns[k]
  BY <1>2 DEF Stop, TypeOK
<1>4. calls'[p].conn = c /\ calls'[p].step = "drop"
      /\ \A q \in Callers \ {p} : calls'[q] = calls[q]
  <2>1. calls[p] \in CallType /\ calls \in [Callers -> CallType]
    BY DEF TypeOK
  <2>2. calls'[p] = [calls[p] EXCEPT !.step = "drop", !.todo = peers]
    BY <2>1 DEF Stop
  <2>3. calls'[p].conn = c /\ calls'[p].step = "drop"
    BY <2>1, <2>2 DEF CallType
  <2>4. \A q \in Callers \ {p} : calls'[q] = calls[q]
    BY <2>1 DEF Stop
  <2> QED BY <2>3, <2>4
<1>5. ~conns'[c].announcing
  BY <1>3 DEF NoConn
<1> HIDE DEF c
<1>6. \A q \in Callers \ {p} : calls[q].conn # c
  BY <1>2 DEF Custody, HeldOnce, c
<1>7. HoldersAnnounce'
  BY <1>3, <1>4, <1>6 DEF Custody, HoldersAnnounce, Holding
<1>8. HeldOnce'
  BY <1>4 DEF Custody, HeldOnce, c
<1>9. StoredAnnounces'
  BY <1>1, <1>2, <1>3, <1>4 DEF Custody, StoredAnnounces, TypeOK
<1>10. EveryAnnouncerIsHeld'
  BY <1>1, <1>3, <1>4, <1>5 DEF Custody, EveryAnnouncerIsHeld, c
<1> QED BY <1>7, <1>8, <1>9, <1>10 DEF Custody

\* An announcer that moves to another number goes on announcing.
LEMMA ConflictKeepsCustody ==
  ASSUME TypeOK, Custody, Conflict
  PROVE  Custody'
<1>1. PICK c \in Conns, id \in PlayerIds : conns' = [conns EXCEPT ![c].id = id]
  BY DEF Conflict
<1>2. conns' = [conns EXCEPT ![c] = [conns[c] EXCEPT !.id = id]]
  BY <1>1 DEF TypeOK
<1>3. [conns[c] EXCEPT !.id = id].announcing = conns[c].announcing
  BY DEF TypeOK, ConnType
<1>4. \A k \in Conns : conns'[k].announcing = conns[k].announcing
  BY <1>2, <1>3 DEF TypeOK
<1>5. UNCHANGED <<connection, calls, replaced>>
  BY DEF Conflict
<1>6. HoldersAnnounce' /\ HeldOnce'
  BY <1>4, <1>5 DEF Custody, HoldersAnnounce, HeldOnce
<1>7. StoredAnnounces' /\ EveryAnnouncerIsHeld'
  BY <1>4, <1>5 DEF Custody, StoredAnnounces, EveryAnnouncerIsHeld, TypeOK
<1> QED BY <1>6, <1>7 DEF Custody

LEMMA CustodyStep == TypeOK /\ Custody /\ [Next]_vars => Custody'
<1> SUFFICES ASSUME TypeOK, Custody, [Next]_vars PROVE Custody'
  OBVIOUS
<1>0. calls \in [Callers -> CallType]
  BY DEF TypeOK
<1>1. CASE Configure \/ Autoconfig \/ PeersChange \/ UNCHANGED vars
  BY <1>1, CustodyKept DEF Configure, Autoconfig, PeersChange, vars
<1>2. ASSUME NEW p \in Callers, NEW step \in Steps, Goes(p, step),
             UNCHANGED <<connection, conns, replaced>>,
             step \in Holding <=> calls[p].step \in Holding
      PROVE  Custody'
  <2>1. calls' = [calls EXCEPT ![p] = [calls[p] EXCEPT !.step = step]]
    BY <1>0, <1>2 DEF Goes
  <2>2. [calls[p] EXCEPT !.step = step].conn = calls[p].conn
        /\ [calls[p] EXCEPT !.step = step].step = step
    BY <1>0 DEF CallType
  <2>3. \A q \in Callers : /\ calls'[q].conn = calls[q].conn
                           /\ calls'[q].step \in Holding
                                <=> calls[q].step \in Holding
    BY <1>0, <1>2, <2>1, <2>2
  <2> QED BY <1>2, <2>3, CustodyKept
<1>3. ASSUME NEW p \in Callers,
             KeepId(p) \/ FilterName(p) \/ SetConnected(p) \/ CallClose(p)
      PROVE  Custody'
  <2>1. CASE KeepId(p) \/ FilterName(p) \/ SetConnected(p)
    BY <1>2, <2>1 DEF KeepId, FilterName, SetConnected, At, Holding, Steps
  <2>2. CASE CallClose(p)
    <3>1. Goes(p, "offline")
      BY <2>2 DEF CallClose, Goes
    <3> QED BY <1>2, <2>2, <3>1 DEF CallClose, At, Holding, Steps
  <2> QED BY <1>3, <2>1, <2>2
<1>4. ASSUME NEW p \in Callers, DropPeer(p) PROVE Custody'
  <2>1. PICK d \in calls[p].todo : calls' = [calls EXCEPT ![p].todo = @ \ {d}]
    BY <1>4 DEF DropPeer
  <2>2. calls' = [calls EXCEPT ![p] =
                    [calls[p] EXCEPT !.todo = calls[p].todo \ {d}]]
    BY <1>0, <2>1
  <2>3. [calls[p] EXCEPT !.todo = calls[p].todo \ {d}].conn = calls[p].conn
        /\ [calls[p] EXCEPT !.todo = calls[p].todo \ {d}].step = calls[p].step
    BY <1>0 DEF CallType
  <2>4. \A q \in Callers : calls'[q].conn = calls[q].conn
                           /\ calls'[q].step = calls[q].step
    BY <1>0, <2>2, <2>3
  <2> QED BY <1>4, <2>4, CustodyKept DEF DropPeer
<1>5. ASSUME NEW p \in Callers, SetOnline(p) \/ SetOffline(p) PROVE Custody'
  <2>1. calls'[p] = IdleCall /\ \A q \in Callers \ {p} : calls'[q] = calls[q]
    BY <1>0, <1>5 DEF SetOnline, SetOffline, Returns
  <2>2. calls'[p].conn = None /\ calls'[p].step = "idle"
    BY <2>1 DEF IdleCall
  <2> QED BY <1>5, <2>1, <2>2, CustodyLetGo
          DEF SetOnline, SetOffline, At, Holding
<1>6. ASSUME NEW p \in Callers, CallConnect(p) PROVE Custody'
  <2>1. PICK id : calls' = [calls EXCEPT ![p] =
           [IdleCall EXCEPT
              !.step = "keep_id", !.method = config.method, !.id = id,
              !.name = IF config.name # None THEN config.name
                       ELSE IF config.method = "stagehand" THEN StagehandName
                       ELSE None]]
    BY <1>6 DEF CallConnect
  <2>2. calls'[p].conn = None /\ calls'[p].step = "keep_id"
        /\ \A q \in Callers \ {p} : calls'[q] = calls[q]
    BY <1>0, <2>1 DEF IdleCall
  <2> QED BY <1>6, <2>2, CustodyLetGo DEF CallConnect, At, Holding
<1> QED BY <1>1, <1>3, <1>4, <1>5, <1>6, AnnounceKeepsCustody,
           StoreKeepsCustody, DisconnectKeepsCustody, StopKeepsCustody,
           ConflictKeepsCustody
        DEF Next, ConnectStep, DisconnectStep, CloseStep

LEMMA CustodyHolds == Spec => []Custody
<1>1. Init => Custody
  BY DEF Init, Custody, StoredAnnounces, EveryAnnouncerIsHeld, HoldersAnnounce,
         HeldOnce, NoConn, IdleCall, Holding
<1> QED BY <1>1, CustodyStep, TypeCorrect, PTL DEF Spec

\* For any number of callers: what announces us is stored, will be stored or
\* stopped by a call in progress, or was replaced by a later connect.
THEOREM EveryAnnouncerIsHeldHolds == Spec => []EveryAnnouncerIsHeld
<1>1. Custody => EveryAnnouncerIsHeld
  BY DEF Custody
<1> QED BY <1>1, CustodyHolds, PTL

\* For any number of callers: the stored connection announces us, and no
\* disconnect is taking it apart.
THEOREM StoredAnnouncesHolds == Spec => []StoredAnnounces
<1>1. Custody => StoredAnnounces
  BY DEF Custody
<1> QED BY <1>1, CustodyHolds, PTL
-----------------------------------------------------------------------------
(* Calls that do not overlap.                                               *)

\* Devices under a connection's own name are not listed.
Hidden(c) == conns[c].name # DefaultName => filter = conns[c].name

Connecting == {"keep_id", "filter", "announce"}
Storing == {"connected", "store"}

\* What a call in progress has done so far.
CallAgrees(p) ==
    /\ At(p, "announce") /\ calls[p].name # None => filter = calls[p].name
    /\ calls[p].step \in Storing => Hidden(calls[p].conn)
    /\ At(p, "store") => state = "Connected"
    /\ calls[p].step \in {"stop", "drop"} => connection = None
    /\ At(p, "offline") /\ connection # None => Hidden(connection)
    /\ calls[p].step \in Connecting =>
         /\ calls[p].method = config.method
         /\ config.id # None => calls[p].id = config.id
    /\ calls[p].step \in {"filter", "announce"} => calls[p].id = config.id

OneCall == \A p, q \in Busy : p = q

\* The network knows a Stagehand by the configured number: nothing that
\* announces could move to another one, but a connection that the call in
\* progress is about to replace.
Identity ==
    replaced = {} /\ known # None /\ config.method = "stagehand" =>
      \/ connection # None /\ \E p \in Callers : calls[p].step \in Storing
      \/ /\ config.id = known
         /\ \A c \in Conns : conns[c].announcing => conns[c].method # "active"

Serial ==
    ~overlapped =>
      /\ OneCall /\ SerialCallsAgree /\ Identity
      /\ \A p \in Callers : CallAgrees(p)

\* While calls do not overlap, the one that takes a step is alone.
LEMMA Alone ==
  ASSUME TypeOK, Serial, NEW p \in Callers, ~overlapped',
         ConnectStep(p) \/ DisconnectStep(p) \/ CloseStep(p)
  PROVE  /\ ~overlapped /\ CallAgrees(p)
         /\ \A q \in Callers \ {p} : calls[q].step = "idle" /\ calls'[q] = calls[q]
<1>1. calls \in [Callers -> CallType]
  BY DEF TypeOK
<1>2. \A q \in Callers \ {p} : calls'[q] = calls[q]
  BY <1>1 DEF ConnectStep, DisconnectStep, CloseStep, CallConnect, KeepId, FilterName,
       Announce, SetConnected, Store, CallDisconnect, Stop, DropPeer, SetOnline,
       CallClose, SetOffline, Goes, Returns
<1>3. ~overlapped /\ (At(p, "idle") => Busy = {})
  <2>0. overlapped \in BOOLEAN /\ overlapped' \in BOOLEAN
    BY TypeStep DEF TypeOK, Next
  <2>1. CASE Begins
    BY <2>0, <2>1 DEF Begins
  <2>2. CASE ~At(p, "idle") /\ UNCHANGED overlapped
    BY <2>2
  <2> QED BY <2>1, <2>2 DEF ConnectStep, DisconnectStep, CloseStep, CallConnect, KeepId,
        FilterName, Announce, SetConnected, Store, CallDisconnect, Stop, DropPeer,
        SetOnline, CallClose, SetOffline, At
<1>4. \A q \in Callers \ {p} : calls[q].step = "idle"
  BY <1>3 DEF Serial, OneCall, Busy, At
<1> QED BY <1>2, <1>3, <1>4 DEF Serial

\* What has to be shown of such a step.
LEMMA AloneSuffices ==
  ASSUME NEW p \in Callers,
         \A q \in Callers \ {p} : calls[q].step = "idle" /\ calls'[q] = calls[q],
         CallAgrees(p)', Identity', At(p, "idle")' => SerialCallsAgree'
  PROVE  Serial'
<1>1. \A q \in Callers \ {p} : calls'[q].step = "idle"
  OBVIOUS
<1>2. OneCall'
  BY <1>1 DEF OneCall, Busy, At
<1>3. \A q \in Callers \ {p} : CallAgrees(q)'
  BY <1>1 DEF CallAgrees, At, Storing, Connecting
<1>4. SerialCallsAgree'
  <2>1. CASE calls'[p].step = "idle"
    BY <2>1 DEF At
  <2>2. CASE calls'[p].step # "idle"
    BY <2>2 DEF SerialCallsAgree, Busy, At
  <2> QED BY <2>1, <2>2
<1> QED BY <1>2, <1>3, <1>4 DEF Serial

\* A step that changes neither the name nor the connection of a call.
LEMMA GoesField ==
  ASSUME TypeOK, NEW p \in Callers, NEW step, Goes(p, step)
  PROVE  calls'[p] = [calls[p] EXCEPT !.step = step] /\ calls'[p].step = step
         /\ calls'[p].conn = calls[p].conn /\ calls'[p].id = calls[p].id
         /\ calls'[p].name = calls[p].name /\ calls'[p].method = calls[p].method
<1>1. calls[p] \in CallType /\ calls \in [Callers -> CallType]
  BY DEF TypeOK
<1>2. calls' = [calls EXCEPT ![p] = [calls[p] EXCEPT !.step = step]]
  BY <1>1 DEF Goes
<1> QED BY <1>1, <1>2 DEF CallType

LEMMA SerialConnect ==
  ASSUME TypeOK, Custody, Serial, NEW p \in Callers, ConnectStep(p), ~overlapped'
  PROVE  Serial'
<1>1. /\ ~overlapped /\ CallAgrees(p)
      /\ \A q \in Callers \ {p} : calls[q].step = "idle" /\ calls'[q] = calls[q]
  BY Alone
<1>2. calls \in [Callers -> CallType] /\ calls[p] \in CallType
  BY DEF TypeOK
<1>3. SerialCallsAgree /\ Identity
  BY <1>1 DEF Serial
<1>4. CASE CallConnect(p)
  <2>1. PICK id \in Ids :
          /\ config.id # None => id = config.id
          /\ calls' = [calls EXCEPT ![p] =
               [IdleCall EXCEPT
                  !.step = "keep_id", !.method = config.method, !.id = id,
                  !.name = IF config.name # None THEN config.name
                           ELSE IF config.method = "stagehand" THEN StagehandName
                           ELSE None]]
    BY <1>4 DEF CallConnect, DefaultIds, Ids, TypeOK, ConfigType
  <2>2. calls'[p].step = "keep_id" /\ calls'[p].method = config.method
        /\ calls'[p].id = id
    BY <1>2, <2>1 DEF IdleCall
  <2>3. UNCHANGED <<state, config, filter, connection, conns, replaced>>
        /\ known' = known /\ calls[p].step = "idle"
    BY <1>1, <1>4 DEF CallConnect, Begins, At
  <2>4. CallAgrees(p)'
    BY <2>1, <2>2, <2>3 DEF CallAgrees, At, Storing, Connecting
  <2>5. Identity'
    BY <1>1, <1>3, <2>3 DEF Identity, Storing
  <2> QED BY <1>1, <2>2, <2>4, <2>5, AloneSuffices DEF At
<1>5. CASE KeepId(p)
  <2>1. Goes(p, "filter") /\ calls[p].step = "keep_id"
        /\ config' = [config EXCEPT !.id = calls[p].id]
        /\ UNCHANGED <<state, filter, connection, conns, replaced, known>>
    BY <1>5 DEF KeepId, At
  <2>2. calls'[p].step = "filter" /\ calls'[p].id = calls[p].id
        /\ calls'[p].method = calls[p].method
    BY <2>1, GoesField
  <2>3. config'.id = calls[p].id /\ config'.method = config.method
    BY <2>1 DEF TypeOK, ConfigType
  <2>4. calls[p].method = config.method /\ (config.id # None => calls[p].id = config.id)
    BY <1>1, <2>1 DEF CallAgrees, Connecting
  <2>5. CallAgrees(p)'
    BY <2>2, <2>3, <2>4 DEF CallAgrees, At, Storing, Connecting
  <2>6. Identity'
    BY <1>1, <1>3, <2>1, <2>3, <2>4 DEF Identity, Storing
  <2> QED BY <1>1, <2>2, <2>5, <2>6, AloneSuffices DEF At
<1>6. CASE FilterName(p)
  <2>1. Goes(p, "announce") /\ calls[p].step = "filter"
        /\ filter' = (IF calls[p].name # None THEN calls[p].name ELSE filter)
        /\ UNCHANGED <<state, config, connection, conns, replaced, known>>
    BY <1>6 DEF FilterName, At
  <2>2. calls'[p].step = "announce" /\ calls'[p].id = calls[p].id
        /\ calls'[p].name = calls[p].name /\ calls'[p].method = calls[p].method
    BY <2>1, GoesField
  <2>3. calls[p].method = config.method /\ calls[p].id = config.id
    BY <1>1, <2>1 DEF CallAgrees, Connecting
  <2>4. CallAgrees(p)'
    BY <2>1, <2>2, <2>3 DEF CallAgrees, At, Storing, Connecting
  <2>5. Identity'
    BY <1>1, <1>3, <2>1 DEF Identity, Storing
  <2> QED BY <1>1, <2>2, <2>4, <2>5, AloneSuffices DEF At
<1>7. CASE Announce(p)
  <2>1. PICK c \in Conns :
         /\ conns' = [conns EXCEPT ![c] =
              [announcing |-> TRUE, method |-> calls[p].method, id |-> calls[p].id,
               name |-> IF calls[p].name # None THEN calls[p].name
                        ELSE DefaultName]]
         /\ calls' = [calls EXCEPT ![p] =
              [IdleCall EXCEPT !.step = "connected", !.conn = c]]
    BY <1>7 DEF Announce
  <2>2. calls'[p].step = "connected" /\ calls'[p].conn = c
    BY <1>2, <2>1 DEF IdleCall
  <2>3. /\ conns'[c].method = calls[p].method
        /\ conns'[c].name = IF calls[p].name # None THEN calls[p].name ELSE DefaultName
        /\ \A k \in Conns \ {c} : conns'[k] = conns[k]
    BY <2>1 DEF TypeOK
  <2>4. calls[p].step = "announce" /\ known' = calls[p].id
        /\ UNCHANGED <<state, config, filter, connection, replaced>>
    BY <1>1, <1>7 DEF Announce, At
  <2>5. calls[p].method = config.method /\ calls[p].id = config.id
        /\ (calls[p].name # None => filter = calls[p].name)
    BY <1>1, <2>4 DEF CallAgrees, Connecting, At
  <2>6. CallAgrees(p)'
    BY <2>2, <2>3, <2>4, <2>5 DEF CallAgrees, At, Storing, Connecting, Hidden
  <2>7. Identity'
    <3> SUFFICES ASSUME replaced = {}, config.method = "stagehand", connection = None
                 PROVE  \A k \in Conns : conns'[k].announcing => conns'[k].method # "active"
      BY <2>2, <2>4, <2>5 DEF Identity, Storing
    <3>1. \A k \in Conns : ~conns[k].announcing
      BY <1>1, <2>4, NoneDiffers DEF Custody, EveryAnnouncerIsHeld
    <3> QED BY <2>3, <2>5, <3>1
  <2> QED BY <1>1, <2>2, <2>6, <2>7, AloneSuffices DEF At
<1>8. CASE SetConnected(p)
  <2>1. Goes(p, "store") /\ calls[p].step = "connected" /\ state' = "Connected"
        /\ UNCHANGED <<config, filter, connection, conns, replaced, known>>
    BY <1>8 DEF SetConnected, At
  <2>2. calls'[p].step = "store" /\ calls'[p].conn = calls[p].conn
    BY <2>1, GoesField
  <2>3. CallAgrees(p)'
    BY <1>1, <2>1, <2>2 DEF CallAgrees, At, Storing, Connecting, Hidden
  <2>4. Identity'
    BY <1>3, <2>1, <2>2 DEF Identity, Storing
  <2> QED BY <1>1, <2>2, <2>3, <2>4, AloneSuffices DEF At
<1>9. CASE Store(p)
  <2>1. calls'[p].step = "idle" /\ calls[p].step = "store"
        /\ connection' = calls[p].conn
        /\ replaced' = replaced \cup ({connection} \ {None})
        /\ UNCHANGED <<state, config, filter, conns, known>>
    BY <1>2, <1>9 DEF Store, At, Returns, IdleCall
  <2>2. calls[p].conn \in Conns /\ calls[p].conn # None
    BY <2>1, NoneDiffers DEF Custody, HoldersAnnounce, Holding
  <2>3. state = "Connected" /\ Hidden(calls[p].conn)
    BY <1>1, <2>1 DEF CallAgrees, At, Storing
  <2>4. SerialCallsAgree'
    BY <2>1, <2>2, <2>3 DEF SerialCallsAgree, Hidden
  <2>5. CallAgrees(p)'
    BY <2>1 DEF CallAgrees, At, Storing, Connecting
  <2>6. Identity'
    BY <1>3, <2>1 DEF Identity
  <2> QED BY <1>1, <2>4, <2>5, <2>6, AloneSuffices
<1> QED BY <1>4, <1>5, <1>6, <1>7, <1>8, <1>9 DEF ConnectStep

LEMMA SerialDisconnect ==
  ASSUME TypeOK, Custody, Serial, NEW p \in Callers, DisconnectStep(p), ~overlapped'
  PROVE  Serial'
<1>1. /\ ~overlapped /\ CallAgrees(p)
      /\ \A q \in Callers \ {p} : calls[q].step = "idle" /\ calls'[q] = calls[q]
  BY Alone
<1>2. calls \in [Callers -> CallType] /\ calls[p] \in CallType
  BY DEF TypeOK
<1>3. SerialCallsAgree /\ Identity
  BY <1>1 DEF Serial
<1>4. CASE CallDisconnect(p)
  <2>1. /\ calls[p].step = "idle" /\ connection' = None
        /\ UNCHANGED <<state, config, filter, conns, replaced>> /\ known' = known
        /\ calls'[p].step = IF connection = None THEN "drop" ELSE "stop"
    BY <1>1, <1>2, <1>4 DEF CallDisconnect, At, Begins, IdleCall
  <2>2. CallAgrees(p)'
    BY <2>1 DEF CallAgrees, At, Storing, Connecting
  <2>3. Identity'
    BY <1>1, <1>3, <2>1 DEF Identity, Storing
  <2> QED BY <1>1, <2>1, <2>2, <2>3, AloneSuffices DEF At
<1>5. CASE Stop(p)
  <2>1. calls[p].step = "stop" /\ conns' = [conns EXCEPT ![calls[p].conn] = NoConn]
        /\ UNCHANGED <<state, config, filter, connection, known, replaced>>
    BY <1>5 DEF Stop, At
  <2>2. calls'[p].step = "drop"
    <3>1. calls'[p] = [calls[p] EXCEPT !.step = "drop", !.todo = peers]
      BY <1>2, <1>5 DEF Stop
    <3> QED BY <1>2, <3>1 DEF CallType
  <2>3. connection = None
    BY <1>1, <2>1 DEF CallAgrees
  <2>4. CallAgrees(p)'
    BY <2>1, <2>2, <2>3 DEF CallAgrees, At, Storing, Connecting
  <2>5. \A k \in Conns : conns'[k].announcing => conns'[k] = conns[k]
    BY <2>1 DEF TypeOK, NoConn
  <2>6. Identity'
    BY <1>1, <1>3, <2>1, <2>3, <2>5 DEF Identity
  <2> QED BY <1>1, <2>2, <2>4, <2>6, AloneSuffices DEF At
<1>6. CASE DropPeer(p)
  <2>1. PICK d \in calls[p].todo : calls' = [calls EXCEPT ![p].todo = @ \ {d}]
    BY <1>6 DEF DropPeer
  <2>2. calls'[p] = [calls[p] EXCEPT !.todo = calls[p].todo \ {d}]
    BY <1>2, <2>1
  <2>3. calls'[p].step = "drop" /\ calls[p].step = "drop"
    BY <1>2, <1>6, <2>2 DEF CallType, DropPeer, At
  <2>4. UNCHANGED <<state, config, filter, connection, conns, known, replaced>>
    BY <1>6 DEF DropPeer
  <2>5. CallAgrees(p)'
    BY <1>1, <2>3, <2>4 DEF CallAgrees, At, Storing, Connecting
  <2>6. Identity'
    BY <1>1, <1>3, <2>3, <2>4 DEF Identity, Storing
  <2> QED BY <1>1, <2>3, <2>5, <2>6, AloneSuffices DEF At
<1>7. CASE SetOnline(p)
  <2>1. calls'[p].step = "idle" /\ calls[p].step = "drop" /\ state' = "Online"
        /\ UNCHANGED <<config, filter, connection, conns, known, replaced>>
    BY <1>2, <1>7 DEF SetOnline, At, Returns, IdleCall
  <2>2. connection = None
    BY <1>1, <2>1 DEF CallAgrees
  <2>3. SerialCallsAgree' /\ CallAgrees(p)'
    BY <2>1, <2>2 DEF SerialCallsAgree, CallAgrees, At, Storing, Connecting
  <2>4. Identity'
    BY <1>1, <1>3, <2>1, <2>2 DEF Identity
  <2> QED BY <1>1, <2>3, <2>4, AloneSuffices
<1> QED BY <1>4, <1>5, <1>6, <1>7 DEF DisconnectStep

LEMMA SerialClose ==
  ASSUME TypeOK, Serial, NEW p \in Callers, CloseStep(p), ~overlapped'
  PROVE  Serial'
<1>1. /\ ~overlapped /\ CallAgrees(p)
      /\ \A q \in Callers \ {p} : calls[q].step = "idle" /\ calls'[q] = calls[q]
  BY Alone
<1>2. calls \in [Callers -> CallType]
  BY DEF TypeOK
<1>3. SerialCallsAgree /\ Identity
  BY <1>1 DEF Serial
<1>4. CASE CallClose(p)
  <2>1. calls[p].step = "idle" /\ Goes(p, "offline") /\ known' = known
        /\ UNCHANGED <<state, config, filter, connection, conns, replaced>>
    BY <1>1, <1>4 DEF CallClose, At, Goes, Begins
  <2>2. calls'[p].step = "offline"
    BY <2>1, GoesField
  <2>3. Busy = {}
    BY <1>1, <2>1 DEF Busy, At
  <2>4. CallAgrees(p)'
    BY <1>1, <1>3, <2>1, <2>2, <2>3
       DEF CallAgrees, SerialCallsAgree, Hidden, At, Storing, Connecting
  <2>5. Identity'
    BY <1>1, <1>3, <2>1 DEF Identity, Storing
  <2> QED BY <1>1, <2>2, <2>4, <2>5, AloneSuffices DEF At
<1>5. CASE SetOffline(p)
  <2>1. calls'[p].step = "idle" /\ calls[p].step = "offline" /\ state' = "Offline"
        /\ UNCHANGED <<config, filter, connection, conns, known, replaced>>
    BY <1>2, <1>5 DEF SetOffline, At, Returns, IdleCall
  <2>2. SerialCallsAgree'
    BY <1>1, <2>1 DEF CallAgrees, SerialCallsAgree, Hidden, At
  <2>3. CallAgrees(p)'
    BY <2>1 DEF CallAgrees, At, Storing, Connecting
  <2>4. Identity'
    BY <1>1, <1>3, <2>1 DEF Identity, Storing
  <2> QED BY <1>1, <2>2, <2>3, <2>4, AloneSuffices
<1> QED BY <1>4, <1>5 DEF CloseStep

\* A number an announcer moves to is not a Stagehand's.
LEMMA SerialConflict ==
  ASSUME TypeOK, Custody, Serial, Conflict, ~overlapped
  PROVE  Serial'
<1>1. PICK c \in Conns, id \in PlayerIds :
        /\ conns[c].announcing /\ conns[c].method = "active"
        /\ conns' = [conns EXCEPT ![c].id = id]
        /\ known' = IF known = None THEN None ELSE id
  BY DEF Conflict
<1>2. conns' = [conns EXCEPT ![c] = [conns[c] EXCEPT !.id = id]]
  BY <1>1 DEF TypeOK
<1>3. \A k \in Conns : conns'[k].announcing = conns[k].announcing
                       /\ conns'[k].method = conns[k].method
                       /\ conns'[k].name = conns[k].name
  BY <1>2 DEF TypeOK, ConnType
<1>4. UNCHANGED <<state, config, filter, connection, calls, replaced, overlapped>>
  BY DEF Conflict
<1>5. OneCall' /\ Identity'
  BY <1>1, <1>3, <1>4 DEF Serial, OneCall, Busy, At, Identity
<1>6. SerialCallsAgree'
  BY <1>3, <1>4 DEF Serial, SerialCallsAgree, Busy, At, TypeOK
<1>7. ASSUME NEW p \in Callers PROVE CallAgrees(p)'
  <2>1. calls[p].step \in Storing => calls[p].conn \in Conns
    BY DEF Custody, HoldersAnnounce, Holding, Storing
  <2>2. calls[p].step \in Storing => Hidden(calls[p].conn)'
    BY <1>3, <1>4, <2>1 DEF Serial, CallAgrees, Hidden
  <2>3. At(p, "offline") /\ connection # None => Hidden(connection)'
    BY <1>3, <1>4 DEF Serial, CallAgrees, Hidden, TypeOK
  <2> QED BY <1>4, <2>2, <2>3 DEF Serial, CallAgrees, At
<1> QED BY <1>5, <1>6, <1>7 DEF Serial

\* A configuration between calls: nothing is known from then on.
LEMMA SerialConfigure ==
  ASSUME TypeOK, Serial, Configure \/ Autoconfig, ~overlapped'
  PROVE  Serial'
<1>1. ~overlapped /\ Busy = {} /\ known' = None
  BY DEF Configure, Autoconfig, Reconfigured, TypeOK
<1>2. UNCHANGED <<state, filter, connection, conns, calls, replaced>>
  BY DEF Configure, Autoconfig
<1>3. \A p \in Callers : calls[p].step = "idle"
  BY <1>1 DEF Busy, At
<1>4. OneCall' /\ SerialCallsAgree' /\ Identity'
  BY <1>1, <1>2, <1>3 DEF Serial, OneCall, SerialCallsAgree, Busy, At, Identity
<1>5. \A p \in Callers : CallAgrees(p)'
  BY <1>2, <1>3 DEF CallAgrees, At, Storing, Connecting
<1> QED BY <1>4, <1>5 DEF Serial

LEMMA SerialStep == TypeOK /\ Custody /\ Serial /\ [Next]_vars => Serial'
<1> SUFFICES ASSUME TypeOK, Custody, Serial, [Next]_vars, ~overlapped' PROVE Serial'
  BY DEF Serial
<1>1. CASE PeersChange \/ UNCHANGED vars
  <2>1. UNCHANGED <<state, config, filter, connection, conns, calls, known, replaced,
                    overlapped>>
    BY <1>1 DEF PeersChange, vars
  <2> QED BY <2>1 DEF Serial, OneCall, SerialCallsAgree, Busy, At, Identity, CallAgrees,
             Hidden
<1>2. CASE Conflict
  BY <1>2, SerialConflict DEF Conflict
<1> QED BY <1>1, <1>2, SerialConnect, SerialDisconnect, SerialClose, SerialConfigure
        DEF Next

LEMMA SerialHolds == Spec => []Serial
<1>1. Init => Serial
  BY DEF Init, Serial, OneCall, SerialCallsAgree, Busy, At, Identity, CallAgrees,
         IdleCall, Storing, Connecting
<1> QED BY <1>1, SerialStep, CustodyHolds, TypeCorrect, PTL DEF Spec

\* For any number of callers: as long as their calls do not overlap, state, stored
\* connection and the name the device manager ignores agree once a call returned.
THEOREM SerialCallsAgreeHolds == Spec => []SerialCallsAgree
<1>1. Serial => SerialCallsAgree
  BY DEF Serial, SerialCallsAgree
<1> QED BY <1>1, SerialHolds, PTL

\* A Stagehand claims the number by which the network knows it: what announces
\* us is stored or held, so no announcer that could move to another number is left
\* when the configured one is claimed again.
THEOREM StagehandKeepsIdentityHolds == Spec => StagehandKeepsIdentity
<1> DEFINE Kept == \A p \in Callers :
             (Claims(p) /\ Orderly /\ calls[p].method = "stagehand" /\ known # None)
               => calls[p].id = known
<1>1. Serial => Kept
  <2> SUFFICES ASSUME Serial, NEW p \in Callers, At(p, "announce"), Orderly,
                      calls[p].method = "stagehand", known # None
               PROVE  calls[p].id = known
    BY DEF Claims
  <2>1. Identity /\ CallAgrees(p) /\ replaced = {} /\ OneCall
    BY DEF Serial, Orderly
  <2>2. calls[p].method = config.method /\ calls[p].id = config.id
    BY <2>1 DEF CallAgrees, At, Connecting
  <2>3. \A q \in Callers : calls[q].step \notin Storing
    BY <2>1 DEF OneCall, Busy, At, Storing
  <2> QED BY <2>1, <2>2, <2>3 DEF Identity
<1>2. Serial => [Kept]_vars
  BY <1>1
<1> HIDE DEF Kept
<1>3. Spec => [][Kept]_vars
  BY <1>2, SerialHolds, PTL
<1> QED BY <1>3 DEF StagehandKeepsIdentity, Kept
=============================================================================
