------------------------ MODULE DeviceManagerProofs ------------------------
(***************************************************************************)
(* For any number of device ids, timeout tasks and callers: the device     *)
(* manager is type correct, no device stays on its map for good, and       *)
(* get_device_ensured never misses one.  For any number of tasks and media *)
(* the lookups of the database service, which wait for their device with   *)
(* it, answer of one medium and fail only if they must.                    *)
(*                                                                         *)
(* For every byte string and every device: what the parsers make of the    *)
(* packets on the three ports, and of those the crate sends itself; and,   *)
(* for every value, what is read of a field of the remote database and of  *)
(* opaque data of NFS.                                                     *)
(***************************************************************************)
EXTENDS DeviceManager, Database, Wire, SequenceTheorems, FiniteSetTheorems,
        WellFoundedInduction, TLAPS

\* A caller that gets an event, or goes on to wait, is well typed.
LEMMA WaiterFields ==
  ASSUME NEW v \in WaiterType
  PROVE  /\ [v EXCEPT !.queued = TRUE] \in WaiterType
         /\ [v EXCEPT !.pc = "waiting"] \in WaiterType
         /\ [v EXCEPT !.pc = "waiting"].id = v.id
BY DEF WaiterType

\* Type correctness.
THEOREM TypeCorrect == Spec => []TypeOK
<1> USE DEF FeedType, TaskType, WaiterType, FeedSteps, TaskSteps, FeedAt
<1>1. Init => TypeOK
  BY DEF Init, TypeOK
<1>2. TypeOK /\ [Next]_vars => TypeOK'
  <2> SUFFICES ASSUME TypeOK, [Next]_vars PROVE TypeOK'
    OBVIOUS
  <2> USE DEF TypeOK
  <2>1. CASE ReceiveAnnouncement
    BY <2>1 DEF ReceiveAnnouncement
  <2>2. CASE InsertDevice
    BY <2>2 DEF InsertDevice, FeedGoes
  <2>3. CASE EmitConnected
    <3>1. feed.id \in Ids
      BY <2>3 DEF EmitConnected
    <3>2. waiters' \in [Waiters -> WaiterType]
      <4>1. ASSUME NEW w \in Waiters
            PROVE  [waiters[w] EXCEPT !.queued = TRUE] \in WaiterType
        <5>1. waiters[w] \in WaiterType
          OBVIOUS
        <5> QED BY <5>1, WaiterFields
      <4> QED BY <2>3, <4>1 DEF EmitConnected
    <3>3. \A w \in Waiters : waiters[w].pc = "idle" \/ waiters[w].id \in Ids
      OBVIOUS
    <3>4. \A w \in Waiters : waiters'[w].pc = waiters[w].pc
                            /\ waiters'[w].id = waiters[w].id
      BY <2>3 DEF EmitConnected
    <3> QED BY <2>3, <3>1, <3>2, <3>3, <3>4 DEF EmitConnected, FeedGoes
  <2>4. CASE EmitAnnounced
    BY <2>4 DEF EmitAnnounced, FeedGoes
  <2>5. CASE SpawnTimeout
    <3>1. PICK t \in Tasks :
            /\ tasks' = [tasks EXCEPT ![t] = [pc |-> "sleeping", id |-> feed.id]]
            /\ feed' = [feed EXCEPT !.pc = "arm", !.task = t]
      BY <2>5 DEF SpawnTimeout
    <3>2. feed.id \in Ids /\ feed.host \in Hosts
      BY <2>5 DEF SpawnTimeout
    <3>3. feed' \in FeedType /\ feed'.id \in Ids /\ feed'.host \in Hosts
          /\ feed'.task \in Tasks
      BY <3>1, <3>2
    <3>4. tasks' \in [Tasks -> TaskType]
      BY <3>1, <3>2
    <3>5. \A u \in Tasks : tasks'[u].pc = "idle" \/ tasks'[u].id \in Ids
      BY <3>1, <3>2
    <3> QED BY <2>5, <3>3, <3>4, <3>5 DEF SpawnTimeout
  <2>6. CASE ArmTimeout
    BY <2>6 DEF ArmTimeout, Abort
  <2>7. ASSUME NEW t \in Tasks, TaskStep(t) PROVE TypeOK'
    <3>1. CASE SleepOver(t)
      BY <3>1 DEF SleepOver, TaskGoes
    <3>2. CASE RemoveDevice(t)
      BY <3>2 DEF RemoveDevice, TaskGoes
    <3>3. CASE ForgetTimeout(t)
      BY <3>3 DEF ForgetTimeout, TaskGoes
    <3>4. CASE EmitDisconnected(t)
      BY <3>4 DEF EmitDisconnected
    <3> QED BY <2>7, <3>1, <3>2, <3>3, <3>4 DEF TaskStep
  <2>8. ASSUME NEW w \in Waiters,
               CallEnsured(w) \/ CheckMap(w) \/ ReceiveConnected(w) \/ GivesUp(w)
        PROVE  TypeOK'
    <3> DEFINE done == [pc |-> "idle", id |-> None, queued |-> FALSE]
               waits == [waiters[w] EXCEPT !.pc = "waiting"]
    <3>1. \E v \in WaiterType :
            /\ waiters' = [waiters EXCEPT ![w] = v]
            /\ v.pc = "idle" \/ v.id \in Ids
      <4>1. done \in WaiterType /\ done.pc = "idle"
        OBVIOUS
      <4>2. waiters[w] \in WaiterType
        OBVIOUS
      <4>3. waits \in WaiterType /\ waits.id = waiters[w].id
        BY <4>2, WaiterFields
      <4>4. CASE CallEnsured(w)
        <5>1. PICK i \in Ids :
                waiters' = [waiters EXCEPT ![w] =
                              [pc |-> "check", id |-> i, queued |-> FALSE]]
          BY <4>4 DEF CallEnsured
        <5>2. [pc |-> "check", id |-> i, queued |-> FALSE] \in WaiterType
          OBVIOUS
        <5> QED BY <5>1, <5>2
      <4>5. CASE ReceiveConnected(w) \/ GivesUp(w)
        BY <4>1, <4>5 DEF ReceiveConnected, GivesUp, Returns
      <4>6. CASE CheckMap(w)
        <5>1. waiters[w].id \in Ids
          BY <4>6 DEF CheckMap
        <5>2. waiters' = [waiters EXCEPT ![w] = done]
                \/ waiters' = [waiters EXCEPT ![w] = waits]
          BY <4>6 DEF CheckMap, Returns
        <5> HIDE DEF done, waits
        <5> QED BY <4>1, <4>3, <5>1, <5>2
      <4> QED BY <2>8, <4>4, <4>5, <4>6
    <3>2. PICK v \in WaiterType :
            /\ waiters' = [waiters EXCEPT ![w] = v]
            /\ v.pc = "idle" \/ v.id \in Ids
      BY <3>1
    <3>3. waiters' \in [Waiters -> WaiterType]
      BY <3>2
    <3>4. \A u \in Waiters : waiters'[u].pc = "idle" \/ waiters'[u].id \in Ids
      BY <3>2
    <3>5. UNCHANGED <<devices, timeouts, vcdj_name, feed, tasks, known>>
      BY <2>8 DEF CallEnsured, CheckMap, ReceiveConnected, GivesUp
    <3> QED BY <3>3, <3>4, <3>5
  <2>9. CASE Reconfigure
    BY <2>9 DEF Reconfigure
  <2>10. CASE UNCHANGED vars
    BY <2>10 DEF vars
  <2> QED BY <2>1, <2>2, <2>3, <2>4, <2>5, <2>6, <2>7, <2>8, <2>9, <2>10
          DEF Next, FeedStep
<1> QED BY <1>1, <1>2, PTL DEF Spec

-----------------------------------------------------------------------------
(* No device stays for good.  The inductive invariant says which task a     *)
(* handle stands for, so that storing a handle never aborts the last task   *)
(* that would remove a device.                                              *)

\* A stored handle is that of a task for the same id, if it still runs.
HandlesMatch ==
    \A i \in Ids : \A t \in Tasks :
        timeouts[i] = t /\ tasks[t].pc # "idle" => tasks[t].id = i

\* The handle the feed task is about to store is nowhere else, its task is
\* for the announced id, and it has not yet missed the device.
NewTaskIsOurs ==
    FeedAt("arm") =>
        /\ \A i \in Ids : timeouts[i] # feed.task
        /\ tasks[feed.task].pc # "idle" => tasks[feed.task].id = feed.id
        /\ devices[feed.id] # None => WillRemove(feed.task, feed.id)

IInv == TypeOK /\ NoImmortalDevice /\ HandlesMatch /\ NewTaskIsOurs

\* Every step keeps the inductive invariant.
LEMMA IInvStep == IInv /\ TypeOK' /\ [Next]_vars => IInv'
<1> SUFFICES ASSUME IInv, TypeOK', [Next]_vars PROVE IInv'
  OBVIOUS
<1> USE DEF IInv, FeedAt, WillRemove, AboutToTime
<1>1. CASE ReceiveAnnouncement
  BY <1>1 DEF ReceiveAnnouncement, TypeOK, FeedType, FeedSteps, TaskType,
              NoImmortalDevice, HandlesMatch, NewTaskIsOurs
<1>2. CASE InsertDevice
  <2>1. /\ feed.pc = "insert" /\ feed'.id = feed.id
        /\ feed'.pc \in {"connected", "announced"}
        /\ UNCHANGED <<tasks, timeouts>>
        /\ \A i \in Ids \ {feed.id} : devices'[i] = devices[i]
        /\ feed'.pc = "announced" => devices' = devices
    BY <1>2 DEF InsertDevice, FeedGoes, TypeOK, FeedType
  <2> QED BY <2>1 DEF NoImmortalDevice, HandlesMatch, NewTaskIsOurs
<1>3. CASE EmitConnected \/ EmitAnnounced
  <2>1. /\ feed.pc \in {"connected", "announced"} /\ feed'.id = feed.id
        /\ feed'.pc \in {"announced", "spawn"}
        /\ UNCHANGED <<tasks, timeouts, devices>>
    BY <1>3 DEF EmitConnected, EmitAnnounced, FeedGoes, TypeOK, FeedType
  <2> QED BY <2>1 DEF NoImmortalDevice, HandlesMatch, NewTaskIsOurs
<1>4. CASE SpawnTimeout
  <2>1. PICK t \in Tasks :
          /\ Free(t)
          /\ tasks' = [tasks EXCEPT ![t] = [pc |-> "sleeping", id |-> feed.id]]
          /\ feed' = [feed EXCEPT !.pc = "arm", !.task = t]
    BY <1>4 DEF SpawnTimeout
  <2>2. /\ UNCHANGED <<timeouts, devices>>
        /\ feed'.id = feed.id /\ feed'.task = t /\ feed'.pc = "arm"
        /\ tasks'[t].pc = "sleeping" /\ tasks'[t].id = feed.id
        /\ \A u \in Tasks \ {t} : tasks'[u] = tasks[u]
        /\ tasks[t].pc = "idle" /\ \A i \in Ids : timeouts[i] # t
    BY <1>4, <2>1 DEF SpawnTimeout, TypeOK, FeedType, TaskType, Free
  <2>3. NoImmortalDevice'
    <3> SUFFICES ASSUME NEW i \in Ids, devices[i] # None
                 PROVE  \E u \in Tasks : WillRemove(u, i)'
      BY <2>2 DEF NoImmortalDevice
    <3>1. CASE i = feed.id
      BY <2>2, <3>1
    <3>2. CASE i # feed.id
      <4>1. PICK u \in Tasks : WillRemove(u, i)
        BY <3>2 DEF NoImmortalDevice
      <4> QED BY <2>2, <4>1
    <3> QED BY <3>1, <3>2
  <2>4. HandlesMatch'
    BY <2>2 DEF HandlesMatch
  <2>5. NewTaskIsOurs'
    BY <2>2 DEF NewTaskIsOurs
  <2> QED BY <2>3, <2>4, <2>5
<1>5. CASE ArmTimeout
  <2> DEFINE old == timeouts[feed.id]
  <2>1. /\ feed.pc = "arm" /\ feed'.pc = "receive" /\ devices' = devices
        /\ feed.task \in Tasks /\ feed.id \in Ids
        /\ timeouts'[feed.id] = feed.task
        /\ \A i \in Ids \ {feed.id} : timeouts'[i] = timeouts[i]
        /\ \A u \in Tasks \ {old} : tasks'[u] = tasks[u]
    BY <1>5 DEF ArmTimeout, Abort, TypeOK, TaskType
  <2>2. /\ old \in Tasks => \/ tasks'[old] = tasks[old]
                            \/ tasks'[old].pc = "idle"
        /\ old \in Tasks /\ tasks[old].pc # "idle" => tasks[old].id = feed.id
        /\ old # feed.task
    BY <1>5, <2>1 DEF ArmTimeout, Abort, TypeOK, TaskType, HandlesMatch,
                      NewTaskIsOurs
  <2>3. NoImmortalDevice'
    <3> SUFFICES ASSUME NEW i \in Ids, devices[i] # None
                 PROVE  \E u \in Tasks : WillRemove(u, i)'
      BY <2>1 DEF NoImmortalDevice
    <3>1. CASE i = feed.id
      BY <2>1, <2>2, <3>1 DEF NewTaskIsOurs
    <3>2. CASE i # feed.id
      <4>1. PICK u \in Tasks : WillRemove(u, i)
        BY <2>1 DEF NoImmortalDevice
      <4>2. u # old
        BY <2>2, <3>2, <4>1
      <4> QED BY <2>1, <4>1, <4>2
    <3> QED BY <3>1, <3>2
  <2>4. HandlesMatch'
    <3> SUFFICES ASSUME NEW i \in Ids, NEW t \in Tasks,
                        timeouts'[i] = t, tasks'[t].pc # "idle"
                 PROVE  tasks'[t].id = i
      BY DEF HandlesMatch
    <3>1. tasks'[t] = tasks[t]
      BY <2>1, <2>2
    <3>2. CASE i = feed.id
      BY <2>1, <3>1, <3>2 DEF NewTaskIsOurs
    <3>3. CASE i # feed.id
      BY <2>1, <3>1, <3>3 DEF HandlesMatch
    <3> QED BY <3>2, <3>3
  <2>5. NewTaskIsOurs'
    BY <2>1 DEF NewTaskIsOurs
  <2> QED BY <2>3, <2>4, <2>5
<1>6. ASSUME NEW t \in Tasks, TaskStep(t) PROVE IInv'
  <2>1. /\ feed' = feed
        /\ \A u \in Tasks \ {t} : tasks'[u] = tasks[u]
        /\ tasks'[t].pc = "idle" \/ tasks'[t].id = tasks[t].id
        /\ tasks[t].pc # "idle"
        /\ tasks[t].id \in Ids
        /\ \A i \in Ids : timeouts'[i] \in {timeouts[i], None}
    BY <1>6 DEF TaskStep, SleepOver, RemoveDevice, ForgetTimeout,
                EmitDisconnected, TaskGoes, TypeOK, TaskType
  <2>2. \/ /\ tasks[t].pc = "sleeping" /\ tasks'[t].pc = "remove"
           /\ devices' = devices
        \/ /\ tasks[t].pc = "remove"
           /\ devices' = [devices EXCEPT ![tasks[t].id] = None]
        \/ /\ tasks[t].pc \notin {"sleeping", "remove"}
           /\ devices' = devices
    BY <1>6 DEF TaskStep, SleepOver, RemoveDevice, ForgetTimeout,
                EmitDisconnected, TaskGoes, TypeOK, TaskType
  <2>3. \A i \in Ids, u \in Tasks :
          devices'[i] # None /\ WillRemove(u, i) =>
              devices[i] # None /\ WillRemove(u, i)'
    BY <2>1, <2>2 DEF TypeOK
  <2>4. \A i \in Ids : devices'[i] # None => devices[i] # None
    BY <2>2 DEF TypeOK
  <2>5. NoImmortalDevice'
    BY <2>1, <2>3, <2>4 DEF NoImmortalDevice
  <2>6. HandlesMatch'
    BY <2>1, NoneIsNoValue DEF HandlesMatch
  <2>7. NewTaskIsOurs'
    <3> SUFFICES ASSUME feed.pc = "arm" PROVE NewTaskIsOurs'
      BY <2>1 DEF NewTaskIsOurs
    <3>1. feed.task \in Tasks /\ feed.id \in Ids
      BY DEF TypeOK
    <3>2. \A i \in Ids : timeouts'[i] # feed'.task
      BY <2>1, <3>1, NoneIsNoValue DEF NewTaskIsOurs
    <3>3. tasks'[feed.task].pc # "idle" => tasks'[feed.task].id = feed.id
      BY <2>1, <3>1 DEF NewTaskIsOurs
    <3>4. devices'[feed.id] # None => WillRemove(feed.task, feed.id)'
      BY <2>1, <2>3, <2>4, <3>1 DEF NewTaskIsOurs
    <3> QED BY <2>1, <3>2, <3>3, <3>4 DEF NewTaskIsOurs
  <2> QED BY <2>5, <2>6, <2>7
<1>7. CASE UNCHANGED <<devices, timeouts, feed, tasks>>
  BY <1>7 DEF NoImmortalDevice, HandlesMatch, NewTaskIsOurs
<1>8. ASSUME NEW w \in Waiters,
             CallEnsured(w) \/ CheckMap(w) \/ ReceiveConnected(w) \/ GivesUp(w)
      PROVE  UNCHANGED <<devices, timeouts, feed, tasks>>
  BY <1>8 DEF CallEnsured, CheckMap, ReceiveConnected, GivesUp
<1> QED BY <1>1, <1>2, <1>3, <1>4, <1>5, <1>6, <1>7, <1>8
        DEF Next, FeedStep, Reconfigure, vars

\* Every device on the map is going to be timed out, in any interleaving of
\* the feed with any number of timeout tasks.
THEOREM NoImmortalDeviceHolds == Spec => []NoImmortalDevice
<1>1. Init /\ TypeOK => IInv
  BY DEF Init, IInv, NoImmortalDevice, HandlesMatch, NewTaskIsOurs, FeedAt
<1>2. IInv => NoImmortalDevice
  BY DEF IInv
<1> QED BY <1>1, <1>2, IInvStep, TypeCorrect, PTL DEF Spec

-----------------------------------------------------------------------------
\* A caller that waits for a device on the network has its event queued or
\* about to be.
THEOREM NoLostWakeupHolds == Spec => []NoLostWakeup
<1> USE DEF FeedAt
<1>1. Init => NoLostWakeup
  BY DEF Init, NoLostWakeup
<1>2. TypeOK /\ NoLostWakeup /\ [Next]_vars => NoLostWakeup'
  <2> SUFFICES ASSUME TypeOK, NoLostWakeup, [Next]_vars,
                      NEW w \in Waiters, waiters'[w].pc = "waiting",
                      devices'[waiters'[w].id] # None
               PROVE  \/ waiters'[w].queued
                      \/ feed'.pc = "connected" /\ feed'.id = waiters'[w].id
    BY DEF NoLostWakeup
  <2> USE DEF NoLostWakeup
  <2>1. CASE ReceiveAnnouncement
    BY <2>1 DEF ReceiveAnnouncement, TypeOK
  <2>2. CASE InsertDevice
    BY <2>2 DEF InsertDevice, FeedGoes, TypeOK, FeedType
  <2>3. CASE EmitConnected
    BY <2>3 DEF EmitConnected, TypeOK, WaiterType
  <2>4. CASE EmitAnnounced \/ SpawnTimeout \/ ArmTimeout
    BY <2>4 DEF EmitAnnounced, SpawnTimeout, ArmTimeout
  <2>5. ASSUME NEW t \in Tasks, TaskStep(t)
        PROVE  /\ UNCHANGED <<waiters, feed>>
               /\ devices[waiters[w].id] # None
    <3>1. UNCHANGED <<waiters, feed>>
      BY <2>5 DEF TaskStep, SleepOver, RemoveDevice, ForgetTimeout,
                  EmitDisconnected
    <3>2. devices' = devices \/ devices' = [devices EXCEPT ![tasks[t].id] = None]
      BY <2>5 DEF TaskStep, SleepOver, RemoveDevice, ForgetTimeout,
                  EmitDisconnected
    <3> QED BY <3>1, <3>2 DEF TypeOK, WaiterType
  <2>6. ASSUME NEW v \in Waiters,
               CallEnsured(v) \/ CheckMap(v) \/ ReceiveConnected(v) \/ GivesUp(v)
        PROVE  /\ UNCHANGED <<devices, feed>>
               /\ waiters'[w] = waiters[w] \/ devices[waiters'[w].id] = None
    BY <2>6 DEF CallEnsured, CheckMap, ReceiveConnected, GivesUp, Returns,
                TypeOK, WaiterType
  <2>7. CASE Reconfigure \/ UNCHANGED vars
    BY <2>7 DEF Reconfigure, vars
  <2> QED BY <2>1, <2>2, <2>3, <2>4, <2>5, <2>6, <2>7 DEF Next, FeedStep
<1> QED BY <1>1, <1>2, TypeCorrect, PTL DEF Spec

-----------------------------------------------------------------------------
(* The packets: whatever bytes are heard, and whatever device this is.      *)

\* A byte of a string, and a string joined of two.
LEMMA OctetsJoin ==
    ASSUME NEW s \in Octets, NEW t \in Octets
    PROVE  /\ s \o t \in Octets
           /\ Len(s \o t) = Len(s) + Len(t)
           /\ \A i \in 0 .. Len(s) - 1 : Byte(s \o t, i) = Byte(s, i)
           /\ \A i \in Nat : Byte(s \o t, Len(s) + i) = Byte(t, i)
<1>1. PICK m \in Nat : m = Len(s)
  BY DEF Octets, Octet
<1>2. PICK n \in Nat : n = Len(t)
  BY DEF Octets, Octet
<1>3. /\ s \o t \in Octets /\ Len(s \o t) = m + n
      /\ \A i \in 1 .. m + n : (s \o t)[i] = IF i <= m THEN s[i] ELSE t[i - m]
  BY <1>1, <1>2, ConcatProperties DEF Octets, Octet
<1>4. ASSUME NEW i \in 0 .. m - 1 PROVE Byte(s \o t, i) = Byte(s, i)
  BY <1>1, <1>2, <1>3 DEF Byte
<1>5. ASSUME NEW i \in Nat PROVE Byte(s \o t, m + i) = Byte(t, i)
  <2>1. CASE i < n
    BY <1>1, <1>2, <1>3, <2>1 DEF Byte
  <2>2. CASE ~(i < n)
    BY <1>1, <1>2, <1>3, <2>2 DEF Byte
  <2> QED BY <2>1, <2>2
<1> QED BY <1>1, <1>2, <1>3, <1>4, <1>5

LEMMA ByteOfOctets ==
    ASSUME NEW p \in Octets
    PROVE  \A k \in Nat : k < Len(p) => Byte(p, k) \in Octet
<1>1. PICK n \in Nat : n = Len(p)
  BY DEF Octets, Octet
<1> SUFFICES ASSUME NEW k \in Nat, k < n PROVE Byte(p, k) \in Octet
  BY <1>1
<1>2. k + 1 \in 1 .. n
  BY <1>1
<1>3. p[k + 1] \in Octet
  BY <1>1, <1>2, ElementOfSeq DEF Octets, Octet
<1> QED BY <1>1, <1>3 DEF Byte

LEMMA SliceOctets ==
    ASSUME NEW p \in Octets, NEW a \in Nat, NEW b \in Nat, b <= Len(p)
    PROVE  Slice(p, a, b) \in Octets /\ (a <= b => Len(Slice(p, a, b)) = b - a)
<1>1. PICK n \in Nat : n = Len(p)
  BY DEF Octets, Octet
<1>3. \A i \in 1 .. b - a : Byte(p, a + i - 1) \in Octet
  <2> TAKE i \in 1 .. b - a
  <2>1. a + i - 1 \in Nat /\ a + i - 1 < n
    BY <1>1
  <2> QED BY <1>1, <2>1, ByteOfOctets
<1>4. PICK k \in Nat : 1 .. b - a = 1 .. k /\ (a <= b => k = b - a)
  <2>1. CASE a <= b
    BY <2>1
  <2>2. CASE b < a
    BY <2>2
  <2> QED BY <2>1, <2>2
<1>5. Slice(p, a, b) = [i \in 1 .. k |-> Byte(p, a + i - 1)]
  BY <1>4 DEF Slice
<1>6. \A i \in 1 .. k : Byte(p, a + i - 1) \in Octet
  BY <1>3, <1>4
<1>7. Slice(p, a, b) \in Octets /\ Len(Slice(p, a, b)) = k
  BY <1>5, <1>6, IsASeq DEF Octets, Octet
<1> QED BY <1>4, <1>7

\* A set of naturals that is not empty has a least element.
LEMMA LeastNatural ==
    ASSUME NEW S \in SUBSET Nat, S # {}
    PROVE  \E x \in S : \A y \in S : x <= y
<1> DEFINE less == {ss \in Nat \X Nat : ss[1] < ss[2]}
<1>1. IsWellFoundedOn(less, Nat)
  BY NatLessThanWellFounded, Zenon DEF OpToRel
<1>2. \E x \in S : \A y \in S : ~ (<<y, x>> \in less)
  BY <1>1, WFMin, Zenon
<1>3. PICK x \in S : \A y \in S : ~ (<<y, x>> \in less)
  BY <1>2
<1>4. ASSUME NEW y \in S PROVE x <= y
  <2>1. <<y, x>> \in Nat \X Nat
    OBVIOUS
  <2>2. ~ (y < x)
    BY <1>3, <2>1
  <2>3. x \in Nat /\ y \in Nat
    OBVIOUS
  <2> QED BY <2>2, <2>3
<1> QED BY <1>4

\* Of a set of numbers, as many as one likes are not above some member.
LEMMA PlaceFound ==
    ASSUME NEW n \in Nat, NEW kept \in SUBSET (1 .. n),
           NEW k \in 1 .. Cardinality(kept)
    PROVE  \E i \in kept : Cardinality({j \in kept : j <= i}) = k
<1> DEFINE upto(i) == {j \in kept : j <= i}
           size(i) == Cardinality(upto(i))
           S == {i \in 0 .. n : k <= size(i)}
<1>1. \A i \in 0 .. n : IsFiniteSet(upto(i)) /\ size(i) \in Nat
  <2>1. IsFiniteSet(1 .. n)
    BY FS_Interval
  <2>2. \A i \in 0 .. n : upto(i) \in SUBSET (1 .. n)
    OBVIOUS
  <2> QED BY <2>1, <2>2, FS_Subset, FS_CardinalityType
<1>2. size(0) = 0
  <2>1. upto(0) = {}
    <3>1. \A j \in 1 .. n : ~(j <= 0)
      OBVIOUS
    <3> QED BY <3>1
  <2> QED BY <2>1, FS_EmptySet
<1>3. size(n) = Cardinality(kept)
  <2>1. \A j \in 1 .. n : j <= n
    OBVIOUS
  <2>2. upto(n) = kept
    BY <2>1
  <2> QED BY <2>2
<1>4. ASSUME NEW i \in 1 .. n
      PROVE  /\ i \notin kept => size(i) = size(i - 1)
             /\ i \in kept => size(i) = size(i - 1) + 1
  <2>1. \A j \in 1 .. n : j <= i <=> j <= i - 1 \/ j = i
    OBVIOUS
  <2>2. i \notin kept => upto(i) = upto(i - 1)
    BY <2>1
  <2>3. ~(i <= i - 1)
    OBVIOUS
  <2>4. i \in kept => upto(i) = upto(i - 1) \cup {i} /\ i \notin upto(i - 1)
    <3>1. SUFFICES ASSUME i \in kept PROVE upto(i) = upto(i - 1) \cup {i}
      BY <2>3
    <3>2. ASSUME NEW j PROVE j \in upto(i) <=> j \in upto(i - 1) \cup {i}
      BY <2>1, <3>1
    <3> QED BY <3>2
  <2>5. i - 1 \in 0 .. n
    OBVIOUS
  <2>6. IsFiniteSet(upto(i - 1))
    BY <1>1, <2>5
  <2> QED BY <2>2, <2>4, <2>6, FS_AddElement
<1> HIDE DEF size
<1>5. PICK m \in Nat : m = Cardinality(kept)
  <2>1. n \in 0 .. n
    OBVIOUS
  <2> QED BY <1>1, <1>3, <2>1
<1>6. k \in Nat /\ 1 <= k /\ k <= m
  BY <1>5
<1>7. n \in S
  BY <1>3, <1>5, <1>6
<1>8. PICK i \in S : \A y \in S : i <= y
  <2>1. S \in SUBSET Nat
    OBVIOUS
  <2> HIDE DEF S
  <2> QED BY <1>7, <2>1, LeastNatural
<1>9. i \in 1 .. n /\ k <= size(i)
  BY <1>2, <1>6, <1>8
<1>10. i - 1 \in 0 .. n /\ size(i - 1) \in Nat /\ size(i - 1) < k
  <2>1. i - 1 \in 0 .. n /\ ~(i <= i - 1)
    BY <1>9
  <2>2. size(i - 1) \in Nat /\ ~(k <= size(i - 1))
    BY <1>1, <1>8, <2>1
  <2> QED BY <1>6, <2>1, <2>2
<1>11. i \in kept /\ size(i) = k
  <2>1. size(i) \in Nat
    BY <1>1, <1>9
  <2> QED BY <1>4, <1>6, <1>9, <1>10, <2>1
<1> QED BY <1>11 DEF size

\* Text without its NUL bytes is bytes of it.
LEMMA UnpaddedOctets ==
    ASSUME NEW b \in Octets
    PROVE  Unpadded(b) \in Octets
<1>1. PICK n \in Nat : n = Len(b)
  BY DEF Octets, Octet
<1> DEFINE kept == {i \in 1 .. n : b[i] # 0}
           at(k) == CHOOSE i \in kept : Cardinality({j \in kept : j <= i}) = k
<1>2. PICK m \in Nat : m = Cardinality(kept)
  <2>1. IsFiniteSet(1 .. n) /\ kept \subseteq 1 .. n
    BY FS_Interval
  <2> QED BY <2>1, FS_Subset, FS_CardinalityType
<1>3. Unpadded(b) = [k \in 1 .. m |-> b[at(k)]]
  BY <1>1, <1>2 DEF Unpadded
<1>4. ASSUME NEW k \in 1 .. m PROVE b[at(k)] \in Octet
  <2>1. kept \in SUBSET (1 .. n) /\ k \in 1 .. Cardinality(kept)
    BY <1>2
  <2>2. \E i \in kept : Cardinality({j \in kept : j <= i}) = k
    <3> HIDE DEF kept
    <3> QED BY <2>1, PlaceFound, Zenon
  <2>3. at(k) \in 1 .. n
    BY <2>2
  <2> QED BY <1>1, <2>3, ElementOfSeq DEF Octets
<1> HIDE DEF at
<1>5. [k \in 1 .. m |-> b[at(k)]] \in Seq(Octet)
  BY <1>4, IsASeq
<1> QED BY <1>3, <1>5 DEF Octets

\* What a parser found is bytes.
Read(field) == field \in Octets
AllRead(result) == \A f \in DOMAIN result \ {"is"} : Read(result[f])

LEMMA SliceRead ==
    ASSUME NEW p \in Octets, NEW a \in Nat, NEW b \in Nat, b <= Len(p)
    PROVE  Read(Slice(p, a, b)) /\ Read(Unpadded(Slice(p, a, b)))
BY SliceOctets, UnpaddedOctets DEF Read

\* Every parser of a packet.
LEMMA ParsersRead ==
    ASSUME NEW p \in Octets
    PROVE  /\ AllRead(DeviceFromPacket(p))
           /\ \A sender \in Octets : AllRead(DeviceFromPacketWithInfo(p, sender))
           /\ AllRead(ParseConflictPacket(p))
           /\ AllRead(StatusFromPacket(p))
           /\ AllRead(MediaSlotFromPacket(p))
           /\ AllRead(PositionFromPacket(p))
           /\ AllRead(OnAirFromPacket(p))
           /\ AllRead(MixerStateFromPacket(p))
           /\ AllRead(VuFromPacket(p))
<1>1. AllRead(Nothing) /\ AllRead(Invalid)
  BY DEF AllRead, Nothing, Invalid
<1>2. PICK n \in Nat : n = Len(p)
  BY DEF Octets, Octet
<1>3. \A a, b \in Nat : b <= n => Read(Slice(p, a, b)) /\ Read(Unpadded(Slice(p, a, b)))
  BY <1>2, SliceRead
<1>4. \A x \in Octets : Read(x) /\ \A y : Read(Unless(x, y))
  <2>1. <<>> \in Octets
    BY DEF Octets, Octet
  <2> QED BY <2>1 DEF Read, Unless
<1>14. \A a, b \in Nat : b <= n => Slice(p, a, b) \in Octets
  BY <1>2, SliceOctets
<1>15. \A s, t \in Octets : s \o t \in Octets
  BY OctetsJoin
<1> HIDE DEF Read, Slice, Unpadded, Unless
<1>5. AllRead(DeviceFromPacket(p))
  BY <1>1, <1>2, <1>3 DEF AllRead, DeviceFromPacket
<1>6. ASSUME NEW sender \in Octets PROVE AllRead(DeviceFromPacketWithInfo(p, sender))
  <2> DEFINE ip == IF Len(p) < 53 THEN sender ELSE Slice(p, 44, 48)
             type == IF Len(p) < 53 THEN <<TypeById(Byte(p, 36))>> ELSE Slice(p, 52, 53)
  <2>1. n >= 44 => Read(ip) /\ Read(type)
    <3>1. <<TypeById(Byte(p, 36))>> \in Octets
      BY DEF TypeById, Cdj, Rekordbox, Mixer, Octets, Octet
    <3> QED BY <1>2, <1>3, <1>4, <3>1
  <2> DEFINE r == [is |-> "device", name |-> Unpadded(Slice(p, 12, 32)), id |-> Slice(p, 36, 37),
                   mac |-> Slice(p, 38, 44), ip |-> ip, type |-> type]
  <2>2. DeviceFromPacketWithInfo(p, sender) \in {Nothing, r} /\ (n < 44 =>
          DeviceFromPacketWithInfo(p, sender) = Nothing)
    BY <1>2 DEF DeviceFromPacketWithInfo
  <2> HIDE DEF ip, type
  <2>3. n >= 44 => AllRead(r)
    BY <1>2, <1>3, <2>1 DEF AllRead
  <2> QED BY <1>1, <1>2, <2>2, <2>3
<1>7. AllRead(ParseConflictPacket(p))
  BY <1>1, <1>2, <1>3 DEF AllRead, ParseConflictPacket
<1>8. AllRead(StatusFromPacket(p))
  <2> DEFINE pitch == Slice(p, 141, 144) \o Slice(p, 153, 156)
             player == IF n > 204 THEN Slice(p, 204, 205) ELSE <<0>>
             bpm == Unless(Slice(p, 146, 148), <<255, 255>>)
             beat == Unless(Slice(p, 160, 164), <<255, 255, 255, 255>>)
             cue == Unless(Slice(p, 164, 166), <<1, 255>>)
             r == [is |-> "status", id |-> Slice(p, 33, 34), track |-> Slice(p, 40, 48),
                   playState |-> Slice(p, 123, 124), flags |-> Slice(p, 137, 138),
                   emergency |-> Slice(p, 186, 187), bpm |-> bpm, pitch |-> pitch,
                   beat |-> beat, cue |-> cue,
                   inMeasure |-> Slice(p, 166, 167), number |-> Slice(p, 200, 204),
                   player |-> player]
  <2>1. CASE n < 204
    BY <1>1, <1>2, <2>1 DEF StatusFromPacket
  <2>2. CASE 204 <= n
    <3>1. Read(pitch)
      BY <1>4, <1>14, <1>15, <2>2
    <3>2. Read(player)
      <4>1. <<0>> \in Octets
        BY DEF Octets, Octet
      <4> QED BY <1>3, <1>4, <2>2, <4>1
    <3>3. Read(bpm) /\ Read(beat) /\ Read(cue)
      <4>1. /\ Slice(p, 146, 148) \in Octets /\ Slice(p, 160, 164) \in Octets
            /\ Slice(p, 164, 166) \in Octets
        BY <1>14, <2>2
      <4> QED BY <1>4, <4>1
    <3>4. StatusFromPacket(p) \in {Invalid, r}
      BY <1>2, <2>2 DEF StatusFromPacket
    <3> HIDE DEF pitch, player, bpm, beat, cue
    <3>5. AllRead(r)
      BY <1>3, <2>2, <3>1, <3>2, <3>3 DEF AllRead
    <3> QED BY <1>1, <3>4, <3>5
  <2> QED BY <2>1, <2>2
<1>9. AllRead(MediaSlotFromPacket(p))
  BY <1>1, <1>2, <1>3 DEF AllRead, MediaSlotFromPacket
<1>10. AllRead(PositionFromPacket(p))
  <2> DEFINE bpm == Unless(Slice(p, 48, 52), <<255, 255, 255, 255>>)
  <2>1. n >= 52 => Read(bpm)
    BY <1>4, <1>14
  <2> DEFINE r == [is |-> "position", id |-> Slice(p, 33, 34), length |-> Slice(p, 36, 40),
                   playhead |-> Slice(p, 40, 44), pitch |-> Slice(p, 44, 48), bpm |-> bpm]
  <2>2. PositionFromPacket(p) = Nothing \/ (PositionFromPacket(p) = r /\ n >= 52)
    BY <1>2 DEF PositionFromPacket
  <2> HIDE DEF bpm
  <2>3. n >= 52 => AllRead(r)
    BY <1>3, <2>1 DEF AllRead
  <2> QED BY <1>1, <2>2, <2>3
<1>11. AllRead(OnAirFromPacket(p))
  <2> DEFINE four == Slice(p, 36, 40)
             six == four \o Slice(p, 46, 48)
             r(c) == [is |-> "onAir", id |-> Slice(p, 33, 34), channels |-> c]
  <2>1. (n >= 46 => Read(four)) /\ (n >= 54 => Read(six))
    BY <1>4, <1>14, <1>15
  <2>2. \/ OnAirFromPacket(p) = Nothing
        \/ OnAirFromPacket(p) = r(four) /\ n >= 46
        \/ OnAirFromPacket(p) = r(six) /\ n >= 54
    BY <1>2 DEF OnAirFromPacket
  <2> HIDE DEF four, six
  <2>3. (n >= 46 => AllRead(r(four))) /\ (n >= 54 => AllRead(r(six)))
    BY <1>3, <2>1 DEF AllRead
  <2> QED BY <1>1, <2>2, <2>3
<1>12. AllRead(MixerStateFromPacket(p))
  <2> DEFINE at(i) == 36 + ((i - 1) \div 7) * 24 + ChannelBytes[((i - 1) % 7) + 1]
             channels == [i \in 1..28 |-> Byte(p, at(i))]
             r == [is |-> "mixerState", name |-> Unpadded(Slice(p, 11, 30)),
                   crossfader |-> Slice(p, 180, 181), channels |-> channels]
  <2>1. \A i \in 1..28 : at(i) \in 0 .. 149
    <3> TAKE i \in 1..28
    <3>1. ((i - 1) % 7) + 1 \in 1..7 /\ (i - 1) \div 7 \in 0..3
      OBVIOUS
    <3>2. \A k \in 1..7 : ChannelBytes[k] \in 1..12
      BY DEF ChannelBytes
    <3> HIDE DEF ChannelBytes
    <3>3. ChannelBytes[((i - 1) % 7) + 1] \in 1..12
      BY <3>1, <3>2
    <3> QED BY <3>1, <3>3
  <2>2. n >= 266 => Read(channels)
    <3> SUFFICES ASSUME n >= 266 PROVE Read(channels)
      OBVIOUS
    <3>2. \A i \in 1..28 : Byte(p, at(i)) \in Octet
      <4> TAKE i \in 1..28
      <4>1. PICK k \in 0 .. 149 : k = at(i)
        BY <2>1
      <4>2. k \in Nat /\ k < Len(p)
        BY <1>2
      <4>3. Byte(p, k) \in Octet
        BY <4>2, ByteOfOctets
      <4> QED BY <4>1, <4>3
    <3>3. channels \in Octets
      <4> DEFINE e(i) == Byte(p, at(i))
      <4>1. PICK m \in Nat : m = 28
        OBVIOUS
      <4>2. \A i \in 1..m : e(i) \in Octet
        BY <3>2, <4>1
      <4> HIDE DEF e
      <4>3. [i \in 1..m |-> e(i)] \in Seq(Octet)
        BY <4>2, IsASeq
      <4> QED BY <4>1, <4>3 DEF e, Octets, Octet
    <3> QED BY <1>4, <3>3
  <2>3. MixerStateFromPacket(p) = Nothing \/ (MixerStateFromPacket(p) = r /\ n >= 266)
    BY <1>2 DEF MixerStateFromPacket
  <2> HIDE DEF channels
  <2>4. n >= 266 => AllRead(r)
    BY <1>3, <2>2 DEF AllRead
  <2> QED BY <1>1, <2>3, <2>4
<1>13. AllRead(VuFromPacket(p))
  BY <1>1, <1>2, <1>3 DEF AllRead, VuFromPacket
<1> QED BY <1>5, <1>6, <1>7, <1>8, <1>9, <1>10, <1>11, <1>12, <1>13

LEMMA FrameRead ==
    ASSUME NEW frame \in Octets
    PROVE  AllRead(DecodeUdpFrame(frame))
<1> DEFINE ip == Slice(frame, IpAt(frame), Len(frame))
           udp == UdpOf(ip)
           size == PayloadSize(udp)
           r == [is |-> "datagram", port |-> Slice(udp, 2, 4),
                 sender |-> Slice(ip, 12, 16), payload |-> Slice(udp, 8, 8 + size)]
<1>1. AllRead(Nothing)
  BY DEF AllRead, Nothing
<1>2. PICK n \in Nat : n = Len(frame)
  BY DEF Octets, Octet
<1>3. DecodeUdpFrame(frame) = Nothing \/ DecodeUdpFrame(frame) = Datagram(ip, udp)
  BY DEF DecodeUdpFrame
<1>4. ip \in Octets
  <2>1. IpAt(frame) \in Nat
    BY DEF IpAt
  <2> QED BY <1>2, <2>1, SliceOctets
<1> HIDE DEF ip
<1>5. PICK m \in Nat : m = Len(ip)
  BY <1>4 DEF Octets, Octet
<1>6. CASE Datagram(ip, udp) = Nothing
  BY <1>1, <1>3, <1>6
<1>7. CASE Datagram(ip, udp) # Nothing
  <2>1. /\ ~(Len(ip) < 20) /\ ~(HeaderSize(ip) < 20) /\ ~(Len(ip) < HeaderSize(ip))
        /\ ~(Len(udp) < 8) /\ ~(size <= 0) /\ Datagram(ip, udp) = r
    <3> HIDE DEF udp
    <3> QED BY <1>7 DEF Datagram
  <2>2. \A i \in Nat : i < m => Byte(ip, i) \in Octet
    BY <1>4, <1>5, ByteOfOctets
  <2>3. HeaderSize(ip) \in Nat /\ U16(ip, 2) \in Nat
    <3>1. Byte(ip, 0) \in Nat /\ Byte(ip, 2) \in Nat /\ Byte(ip, 3) \in Nat
      <4>1. m >= 20
        BY <1>5, <2>1
      <4>2. /\ Byte(ip, 0) \in Octet /\ Byte(ip, 2) \in Octet
            /\ Byte(ip, 3) \in Octet
        BY <2>2, <4>1
      <4> QED BY <4>2 DEF Octet
    <3> QED BY <3>1 DEF U16, HeaderSize
  <2>4. udp \in Octets
    <3> DEFINE to == LeastOf(m, MostOf(U16(ip, 2), HeaderSize(ip)))
    <3>1. to \in Nat /\ to <= m
      BY <2>3 DEF LeastOf, MostOf
    <3>2. udp = Slice(ip, HeaderSize(ip), to)
      BY <1>5 DEF UdpOf
    <3> HIDE DEF to, udp
    <3> QED BY <1>4, <1>5, <2>3, <3>1, <3>2, SliceOctets
  <2>5. PICK k \in Nat : k = Len(udp)
    BY <2>4 DEF Octets, Octet
  <2> HIDE DEF udp
  <2>6. Byte(udp, 4) \in Nat /\ Byte(udp, 5) \in Nat
    <3>1. \A i \in Nat : i < k => Byte(udp, i) \in Octet
      BY <2>4, <2>5, ByteOfOctets
    <3>2. k >= 8
      BY <2>1, <2>5
    <3>3. Byte(udp, 4) \in Octet /\ Byte(udp, 5) \in Octet
      BY <3>1, <3>2
    <3> QED BY <3>3 DEF Octet
  <2>7. 8 + size \in Nat /\ 8 + size <= k
    <3>1. U16(udp, 4) \in Nat
      BY <2>6 DEF U16
    <3> QED BY <2>1, <2>5, <3>1 DEF PayloadSize, LeastOf
  <2> HIDE DEF size
  <2>8. /\ Slice(udp, 2, 4) \in Octets /\ Slice(udp, 8, 8 + size) \in Octets
        /\ Slice(ip, 12, 16) \in Octets
    <3>1. Slice(ip, 12, 16) \in Octets
      <4>1. \A a, b \in Nat : b <= m => Slice(ip, a, b) \in Octets
        BY <1>4, <1>5, SliceOctets
      <4> QED BY <1>5, <2>1, <4>1
    <3>2. Slice(udp, 2, 4) \in Octets
      <4>1. \A a, b \in Nat : b <= k => Slice(udp, a, b) \in Octets
        BY <2>4, <2>5, SliceOctets
      <4> QED BY <2>1, <2>5, <4>1
    <3>3. Slice(udp, 8, 8 + size) \in Octets
      BY <2>4, <2>5, <2>7, SliceOctets
    <3> QED BY <3>1, <3>2, <3>3
  <2>9. AllRead(r)
    BY <2>8 DEF AllRead, Read
  <2> QED BY <1>1, <1>3, <2>1, <2>9
<1> QED BY <1>6, <1>7

\* Whatever arrives on a port, is captured or claimed to be a conflict: what is
\* made of it is made of bytes that are there.
THEOREM NoPacketIsReadPastItsEnd ==
    ASSUME NEW p \in Octets
    PROVE  /\ \A port \in {"announce", "status", "beat"}, stagehand \in BOOLEAN :
                AllRead(Heard(port, p, stagehand))
           /\ \A port \in {"announce", "status", "beat"}, sender \in Octets :
                AllRead(HeardPassive(port, p, sender))
           /\ AllRead(ParseConflictPacket(p)) /\ AllRead(DecodeUdpFrame(p))
BY ParsersRead, FrameRead
   DEF Heard, HeardPassive, HandleStatus, HandleStatusPassive, HandlePosition

\* Where the bytes of two joined strings are, and slices of them.
Same(p, a, q, k, n) == \A i \in Nat : i < n => Byte(p, a + i) = Byte(q, k + i)

LEMMA SliceEqual ==
    ASSUME NEW p, NEW q, NEW a \in Nat, NEW k \in Nat, NEW n \in Nat, Same(p, a, q, k, n)
    PROVE  Slice(p, a, a + n) = Slice(q, k, k + n)
<1>0. a + n - a = n /\ k + n - k = n
  OBVIOUS
<1>1. \A i \in 1 .. n : Byte(p, a + i - 1) = Byte(q, k + i - 1)
  <2> TAKE i \in 1 .. n
  <2>1. Byte(p, a + (i - 1)) = Byte(q, k + (i - 1))
    BY DEF Same
  <2>2. a + (i - 1) = a + i - 1 /\ k + (i - 1) = k + i - 1
    OBVIOUS
  <2> QED BY <2>1, <2>2
<1> QED BY <1>0, <1>1 DEF Slice

\* A slice of the whole.
LEMMA SliceAll ==
    ASSUME NEW s \in Octets, NEW n \in Nat, n = Len(s)
    PROVE  Slice(s, 0, n) = s
<1>1. \A i \in 1 .. n : Byte(s, 0 + i - 1) = s[i]
  <2> TAKE i \in 1 .. n
  <2>1. 0 + i - 1 < n /\ 0 + i - 1 + 1 = i
    OBVIOUS
  <2> QED BY <2>1 DEF Byte
<1>2. 1 .. n - 0 = 1 .. n
  OBVIOUS
<1>3. Slice(s, 0, n) = [i \in 1 .. n |-> s[i]]
  BY <1>1, <1>2 DEF Slice
<1>4. s = [i \in 1 .. n |-> s[i]]
  BY LenProperties DEF Octets
<1> QED BY <1>3, <1>4

LEMMA PaddedOctets ==
    ASSUME NEW name \in Octets, NEW n \in Nat
    PROVE  Padded(name, n) \in Octets /\ Len(Padded(name, n)) = n
<1>1. PICK m \in Nat : m = Len(name)
  BY DEF Octets
<1> DEFINE e(i) == IF i <= Len(name) THEN name[i] ELSE 0
<1>2. \A i \in 1..n : e(i) \in Octet
  <2> TAKE i \in 1..n
  <2>1. i <= m => name[i] \in Octet
    BY <1>1, ElementOfSeq DEF Octets
  <2> QED BY <1>1, <2>1 DEF Octet
<1> HIDE DEF e
<1>3. [i \in 1..n |-> e(i)] \in Seq(Octet) /\ Len([i \in 1..n |-> e(i)]) = n
  BY <1>2, IsASeq
<1> QED BY <1>3 DEF e, Padded, Octets

\* Text that fits a field is what is read from it.
LEMMA TextReadsBack ==
    ASSUME NEW name \in Octets, NEW n \in Nat, Len(name) <= n,
           \A i \in 1 .. Len(name) : name[i] # 0
    PROVE  Unpadded(Padded(name, n)) = name
<1> DEFINE b == Padded(name, n)
           kept == {i \in 1 .. n : b[i] # 0}
           at(k) == CHOOSE i \in kept : Cardinality({j \in kept : j <= i}) = k
<1>1. PICK m \in Nat : m = Len(name) /\ m <= n
  BY DEF Octets
<1>2. Len(b) = n /\ \A i \in 1 .. n : b[i] = IF i <= m THEN name[i] ELSE 0
  BY <1>1, PaddedOctets DEF Padded
<1> HIDE DEF b
<1>3. kept = 1 .. m
  BY <1>1, <1>2
<1>4. Unpadded(b) = [k \in 1 .. Cardinality(kept) |-> b[at(k)]]
  BY <1>2 DEF Unpadded
<1> HIDE DEF kept
<1>5. \A i \in 0 .. m : Cardinality(1 .. i) = i
  BY FS_Interval
<1>6. Cardinality(kept) = m
  BY <1>3, <1>5
<1>7. ASSUME NEW i \in kept PROVE Cardinality({j \in kept : j <= i}) = i
  <2>1. {j \in 1 .. m : j <= i} = 1 .. i /\ i \in 0 .. m
    BY <1>3
  <2> QED BY <1>3, <1>5, <2>1
<1>8. ASSUME NEW k \in 1 .. m PROVE at(k) = k
  BY <1>3, <1>7
<1> HIDE DEF at
<1>9. \A k \in 1 .. m : b[at(k)] = name[k]
  <2> TAKE k \in 1 .. m
  <2>1. k \in 1 .. n /\ k <= m
    BY <1>1
  <2> QED BY <1>2, <1>8, <2>1
<1>10. Unpadded(b) = [k \in 1 .. m |-> name[k]]
  BY <1>4, <1>6, <1>9
<1>11. name = [k \in 1 .. m |-> name[k]]
  BY <1>1, LenProperties DEF Octets
<1> QED BY <1>10, <1>11 DEF b

LEMMA MagicOctets ==
    /\ Magic \in Octets /\ Len(Magic) = 10
    /\ \A p : (\A i \in Nat : i < 10 => Byte(p, i) = Byte(Magic, i)) => Slice(p, 0, 10) = Magic
<1>1. Magic \in Octets
  BY DEF Magic, Octets, Octet
<1>2. Len(Magic) = 10
  BY DEF Magic
<1>3. ASSUME NEW p, \A i \in Nat : i < 10 => Byte(p, i) = Byte(Magic, i)
      PROVE  Slice(p, 0, 10) = Magic
  <2>1. Slice(p, 0, 10) = Slice(Magic, 0, 10)
    <3>1. Same(p, 0, Magic, 0, 10)
      BY <1>3 DEF Same
    <3>2. Slice(p, 0, 0 + 10) = Slice(Magic, 0, 0 + 10)
      BY <3>1, SliceEqual
    <3> QED BY <3>2
  <2>2. Slice(Magic, 0, 10) = Magic
    BY <1>1, <1>2, SliceAll
  <2> QED BY <2>1, <2>2
<1> QED BY <1>1, <1>2, <1>3

Joined(p, s, t, m) ==
    /\ p \in Octets /\ Len(p) = m + Len(t)
    /\ \A i \in Nat : i < m => Byte(p, i) = Byte(s, i)
    /\ \A i \in Nat : Byte(p, m + i) = Byte(t, i)

LEMMA Joining ==
    ASSUME NEW s \in Octets, NEW t \in Octets, NEW m \in Nat, m = Len(s)
    PROVE  Joined(s \o t, s, t, m)
<1>1. /\ s \o t \in Octets
      /\ Len(s \o t) = Len(s) + Len(t)
      /\ \A i \in 0 .. Len(s) - 1 : Byte(s \o t, i) = Byte(s, i)
      /\ \A i \in Nat : Byte(s \o t, Len(s) + i) = Byte(t, i)
  BY OctetsJoin
<1> QED BY <1>1 DEF Joined

\* The header, the type and the name of a packet, and its body behind them.
IsFrame(p, type, width, body) ==
    /\ p \in Octets /\ Len(p) = 11 + width + Len(body)
    /\ HasHeader(p) /\ Byte(p, 10) = type
    /\ \A i \in Nat : Byte(p, 11 + width + i) = Byte(body, i)

LEMMA FramedBytes ==
    ASSUME NEW type \in Octet, NEW name \in Octets, NEW width \in Nat, NEW body \in Octets
    PROVE  IsFrame(Magic \o <<type>> \o Padded(name, width) \o body, type, width, body)
<1> DEFINE N == Padded(name, width)
           h == Magic \o <<type>>
           g == h \o N
           p == g \o body
<1>1. N \in Octets /\ Len(N) = width
  BY PaddedOctets
<1> HIDE DEF N
<1>2. <<type>> \in Octets /\ Len(<<type>>) = 1 /\ Byte(<<type>>, 0) = type
  BY DEF Octets, Byte
<1>3. /\ h \in Octets /\ Len(h) = 11 /\ Byte(h, 10) = type
      /\ \A i \in Nat : i < 10 => Byte(h, i) = Byte(Magic, i)
  <2>1. Joined(h, Magic, <<type>>, 10)
    BY <1>2, MagicOctets, Joining
  <2> HIDE DEF h
  <2>2. Byte(h, 10 + 0) = Byte(<<type>>, 0)
    BY <2>1 DEF Joined
  <2> QED BY <1>2, <2>1, <2>2 DEF Joined
<1> HIDE DEF h
<1>4. /\ g \in Octets /\ Len(g) = 11 + width
      /\ \A i \in Nat : i < 11 => Byte(g, i) = Byte(h, i)
  <2>1. Joined(g, h, N, 11)
    BY <1>1, <1>3, Joining
  <2> HIDE DEF g
  <2> QED BY <1>1, <2>1 DEF Joined
<1> HIDE DEF g
<1>5. /\ p \in Octets /\ Len(p) = 11 + width + Len(body)
      /\ \A i \in Nat : i < 11 + width => Byte(p, i) = Byte(g, i)
      /\ \A i \in Nat : Byte(p, 11 + width + i) = Byte(body, i)
  <2>1. 11 + width \in Nat
    OBVIOUS
  <2>2. Joined(p, g, body, 11 + width)
    BY <1>4, <2>1, Joining
  <2> QED BY <2>2 DEF Joined
<1> HIDE DEF p
<1>6. \A i \in Nat : i < 10 => Byte(p, i) = Byte(Magic, i)
  BY <1>3, <1>4, <1>5
<1>7. HasHeader(p)
  <2>1. Slice(p, 0, 10) = Magic
    BY <1>6, MagicOctets
  <2>2. Len(p) >= 10
    BY <1>5 DEF Octets
  <2> QED BY <2>1, <2>2 DEF HasHeader
<1>8. Byte(p, 10) = type
  BY <1>3, <1>4, <1>5
<1> QED BY <1>5, <1>7, <1>8 DEF IsFrame, p, g, h, N

IsAnnounce(p, type, d, body) ==
    /\ p \in Octets /\ Len(p) = 36 + Len(body)
    /\ HasHeader(p) /\ Byte(p, 10) = type
    /\ Slice(p, 12, 32) = Padded(d.name, 20)
    /\ \A i \in Nat : Byte(p, 36 + i) = Byte(body, i)

LEMMA AnnouncedBytes ==
    ASSUME NEW type \in Octet, NEW d \in AnyHost, NEW structure \in Octet,
           NEW length \in Octet, NEW body \in Octets
    PROVE  IsAnnounce(Announced(type, d, structure, length, body), type, d, body)
<1> DEFINE p == Announced(type, d, structure, length, body)
           N == Padded(d.name, 20)
           h == Magic \o <<type, 0>>
           g == h \o N
           l == <<1, structure, 0, length>>
           f == g \o l
<1>1. N \in Octets /\ Len(N) = 20
  <2>1. PICK n \in Nat : n = 20
    OBVIOUS
  <2>2. d.name \in Octets
    BY DEF AnyHost
  <2> QED BY <2>1, <2>2, PaddedOctets
<1> HIDE DEF N
<1>2. /\ <<type, 0>> \in Octets /\ Len(<<type, 0>>) = 2 /\ Byte(<<type, 0>>, 0) = type
      /\ l \in Octets /\ Len(l) = 4
  BY DEF Octets, Byte, Octet
<1> HIDE DEF l
<1>3. /\ h \in Octets /\ Len(h) = 12 /\ Byte(h, 10) = type
      /\ \A i \in Nat : i < 10 => Byte(h, i) = Byte(Magic, i)
  <2>1. Joined(h, Magic, <<type, 0>>, 10)
    BY <1>2, MagicOctets, Joining
  <2> HIDE DEF h
  <2>2. Byte(h, 10 + 0) = Byte(<<type, 0>>, 0)
    BY <2>1 DEF Joined
  <2> QED BY <1>2, <2>1, <2>2 DEF Joined
<1> HIDE DEF h
<1>4. /\ g \in Octets /\ Len(g) = 32
      /\ \A i \in Nat : i < 12 => Byte(g, i) = Byte(h, i)
      /\ \A i \in Nat : Byte(g, 12 + i) = Byte(N, i)
  <2>1. Joined(g, h, N, 12)
    BY <1>1, <1>3, Joining
  <2> HIDE DEF g
  <2> QED BY <1>1, <2>1 DEF Joined
<1> HIDE DEF g
<1>5. /\ f \in Octets /\ Len(f) = 36
      /\ \A i \in Nat : i < 32 => Byte(f, i) = Byte(g, i)
  <2>1. Joined(f, g, l, 32)
    BY <1>2, <1>4, Joining
  <2> HIDE DEF f
  <2> QED BY <1>2, <2>1 DEF Joined
<1> HIDE DEF f
<1>6. /\ p \in Octets /\ Len(p) = 36 + Len(body)
      /\ \A i \in Nat : i < 36 => Byte(p, i) = Byte(f, i)
      /\ \A i \in Nat : Byte(p, 36 + i) = Byte(body, i)
  <2>1. p = f \o body
    BY DEF Announced, f, g, h, l, N
  <2> HIDE DEF p
  <2>2. Joined(p, f, body, 36)
    BY <1>5, <2>1, Joining
  <2> QED BY <2>2 DEF Joined
<1> HIDE DEF p
<1>7. \A i \in Nat : i < 10 => Byte(p, i) = Byte(Magic, i)
  BY <1>3, <1>4, <1>5, <1>6
<1>8. HasHeader(p)
  <2>1. Slice(p, 0, 10) = Magic
    BY <1>7, MagicOctets
  <2>2. Len(p) >= 10
    BY <1>6 DEF Octets
  <2> QED BY <2>1, <2>2 DEF HasHeader
<1>9. Byte(p, 10) = type
  BY <1>3, <1>4, <1>5, <1>6
<1>10. Slice(p, 12, 32) = N
  <2>1. Same(p, 12, N, 0, 20)
    <3> SUFFICES ASSUME NEW i \in Nat, i < 20 PROVE Byte(p, 12 + i) = Byte(N, 0 + i)
      BY DEF Same
    <3>1. 12 + i \in Nat /\ 12 + i < 32 /\ 12 + i < 36 /\ i \in Nat /\ 0 + i = i
      OBVIOUS
    <3> QED BY <1>4, <1>5, <1>6, <3>1
  <2>2. Slice(p, 12, 12 + 20) = Slice(N, 0, 0 + 20)
    BY <2>1, SliceEqual
  <2>3. Slice(N, 0, 20) = N
    BY <1>1, SliceAll
  <2> QED BY <2>2, <2>3
<1> QED BY <1>6, <1>8, <1>9, <1>10 DEF IsAnnounce, N, p

\* The body of a claim: the id and a byte, the addresses, the rest.
Claim(d, x, rest) == <<d.id, x>> \o d.mac \o d.ip \o rest

LEMMA SliceOne ==
    ASSUME NEW p, NEW k \in Nat
    PROVE  Slice(p, k, k + 1) = <<Byte(p, k)>>
<1>1. 1 .. k + 1 - k = 1 .. 1
  OBVIOUS
<1>2. \A i \in 1 .. 1 : k + i - 1 = k
  OBVIOUS
<1>3. Slice(p, k, k + 1) = [i \in 1 .. 1 |-> Byte(p, k)]
  BY <1>1, <1>2 DEF Slice
<1> QED BY <1>3

\* A packet that says it is a device, of that type.
Announces(p, d, type) ==
    /\ p \in Octets /\ Len(p) >= 54
    /\ HasHeader(p) /\ Byte(p, 10) = 6
    /\ Slice(p, 12, 32) = Padded(d.name, 20) /\ Slice(p, 36, 37) = <<d.id>>
    /\ Slice(p, 38, 44) = d.mac /\ Slice(p, 44, 48) = d.ip
    /\ Slice(p, 52, 53) = <<type>>

LEMMA ClaimBytes ==
    ASSUME NEW d \in AnyHost, NEW x \in Octet, NEW rest \in Octets, Len(rest) >= 6,
           NEW structure \in Octet, NEW length \in Octet
    PROVE  Announces(Announced(6, d, structure, length, Claim(d, x, rest)), d, Byte(rest, 4))
<1> DEFINE h == <<d.id, x>>
           m == h \o d.mac
           a == m \o d.ip
           body == a \o rest
           p == Announced(6, d, structure, length, body)
<1>1. /\ d.id \in Octet /\ d.mac \in Octets /\ Len(d.mac) = 6
      /\ d.ip \in Octets /\ Len(d.ip) = 4
  BY DEF AnyHost
<1>2. h \in Octets /\ Len(h) = 2 /\ Byte(h, 0) = d.id
  BY <1>1 DEF Octets, Octet, Byte
<1> HIDE DEF h
<1>3. Joined(m, h, d.mac, 2)
  BY <1>1, <1>2, Joining
<1> HIDE DEF m
<1>4. m \in Octets /\ Len(m) = 8
  BY <1>1, <1>3 DEF Joined
<1>5. Joined(a, m, d.ip, 8)
  BY <1>1, <1>4, Joining
<1> HIDE DEF a
<1>6. a \in Octets /\ Len(a) = 12
  BY <1>1, <1>5 DEF Joined
<1>7. Joined(body, a, rest, 12)
  BY <1>6, Joining
<1> HIDE DEF body
<1>8. body \in Octets /\ Len(body) = 12 + Len(rest)
  BY <1>7 DEF Joined
<1> HIDE DEF p
<1>9. /\ p \in Octets /\ Len(p) = 36 + Len(body)
      /\ HasHeader(p) /\ Byte(p, 10) = 6
      /\ Slice(p, 12, 32) = Padded(d.name, 20)
      /\ \A i \in Nat : Byte(p, 36 + i) = Byte(body, i)
  <2>1. 6 \in Octet
    BY DEF Octet
  <2>2. IsAnnounce(Announced(6, d, structure, length, body), 6, d, body)
    BY <1>8, <2>1, AnnouncedBytes
  <2> QED BY <2>2 DEF IsAnnounce, p
<1>10. Len(p) = 48 + Len(rest)
  BY <1>8, <1>9 DEF Octets
<1>11. \A i \in Nat : i < 2 => Byte(p, 36 + i) = Byte(h, i)
  BY <1>3, <1>5, <1>7, <1>9 DEF Joined
<1>12. Slice(p, 36, 37) = <<d.id>>
  <2>1. Byte(p, 36 + 0) = d.id
    BY <1>2, <1>11
  <2>2. Slice(p, 36, 36 + 1) = <<Byte(p, 36)>>
    BY SliceOne
  <2> QED BY <2>1, <2>2
<1>13. Slice(p, 38, 44) = d.mac
  <2>1. Same(p, 38, d.mac, 0, 6)
    <3> SUFFICES ASSUME NEW i \in Nat, i < 6 PROVE Byte(p, 38 + i) = Byte(d.mac, 0 + i)
      BY DEF Same
    <3>1. /\ 36 + (2 + i) = 38 + i /\ 0 + i = i
          /\ 2 + i \in Nat /\ 2 + i < 8 /\ 2 + i < 12
      OBVIOUS
    <3>2. Byte(p, 36 + (2 + i)) = Byte(m, 2 + i)
      BY <1>5, <1>7, <1>9, <3>1 DEF Joined
    <3> QED BY <1>3, <3>1, <3>2 DEF Joined
  <2>2. Slice(p, 38, 38 + 6) = Slice(d.mac, 0, 0 + 6)
    BY <2>1, SliceEqual
  <2>3. Slice(d.mac, 0, 6) = d.mac
    BY <1>1, SliceAll
  <2> QED BY <2>2, <2>3
<1>14. Slice(p, 44, 48) = d.ip
  <2>1. Same(p, 44, d.ip, 0, 4)
    <3> SUFFICES ASSUME NEW i \in Nat, i < 4 PROVE Byte(p, 44 + i) = Byte(d.ip, 0 + i)
      BY DEF Same
    <3>1. /\ 36 + (8 + i) = 44 + i /\ 0 + i = i /\ 8 + i \in Nat /\ 8 + i < 12
      OBVIOUS
    <3>2. Byte(p, 36 + (8 + i)) = Byte(a, 8 + i)
      BY <1>7, <1>9, <3>1 DEF Joined
    <3> QED BY <1>5, <3>1, <3>2 DEF Joined
  <2>2. Slice(p, 44, 44 + 4) = Slice(d.ip, 0, 0 + 4)
    BY <2>1, SliceEqual
  <2>3. Slice(d.ip, 0, 4) = d.ip
    BY <1>1, SliceAll
  <2> QED BY <2>2, <2>3
<1>15. Slice(p, 52, 53) = <<Byte(rest, 4)>>
  <2>1. Byte(p, 36 + (12 + 4)) = Byte(rest, 4)
    <3>1. 12 + 4 \in Nat /\ 4 \in Nat
      OBVIOUS
    <3>2. Byte(p, 36 + (12 + 4)) = Byte(body, 12 + 4)
      BY <1>9, <3>1
    <3> QED BY <1>7, <3>1, <3>2 DEF Joined
  <2>2. Slice(p, 52, 52 + 1) = <<Byte(p, 52)>>
    BY SliceOne
  <2> QED BY <2>1, <2>2
<1>16. Announces(p, d, Byte(rest, 4))
  <2>1. Len(p) >= 54
    BY <1>10 DEF Octets
  <2> QED BY <2>1, <1>9, <1>12, <1>13, <1>14, <1>15 DEF Announces
<1> QED BY <1>16 DEF p, body, a, m, h, Claim

\* The packets of a host that announce it, and the type each says.
Announcements(d) ==
    {[bytes |-> MakeAnnouncePacket(d), type |-> d.type],
     [bytes |-> MakeStagehand06(d), type |-> Stagehand]}
      \cup {[bytes |-> MakeStage06(d, peers), type |-> 0] : peers \in Octet}

AsDevice(d, type) ==
    [is |-> "device", name |-> Unpadded(Padded(d.name, 20)), id |-> <<d.id>>,
     mac |-> d.mac, ip |-> d.ip, type |-> <<type>>]

LEMMA AnnouncementsAnnounce ==
    ASSUME NEW d \in AnyHost, NEW a \in Announcements(d)
    PROVE  Announces(a.bytes, d, a.type)
<1>1. /\ d.type \in Octet /\ d.id \in Octet
      /\ 1 \in Octet /\ 2 \in Octet /\ 3 \in Octet /\ 54 \in Octet
  BY DEF AnyHost, Octet
<1>2. CASE a = [bytes |-> MakeAnnouncePacket(d), type |-> d.type]
  <2> DEFINE rest == <<2, 0, 0, 0, d.type, 100>>
  <2>1. rest \in Octets /\ Len(rest) >= 6 /\ Byte(rest, 4) = d.type
    BY <1>1 DEF Octets, Octet, Byte
  <2>2. a.bytes = Announced(6, d, 2, 54, Claim(d, d.type, rest)) /\ a.type = d.type
    BY <1>2 DEF MakeAnnouncePacket, Claim
  <2> HIDE DEF rest
  <2> QED BY <1>1, <2>1, <2>2, ClaimBytes
<1>3. CASE a = [bytes |-> MakeStagehand06(d), type |-> Stagehand]
  <2> DEFINE rest == <<1, 0, 0, 0, Stagehand, 32>>
  <2>1. rest \in Octets /\ Len(rest) >= 6 /\ Byte(rest, 4) = Stagehand
    BY DEF Octets, Octet, Byte, Stagehand
  <2>2. a.bytes = Announced(6, d, 3, 54, Claim(d, 1, rest)) /\ a.type = Stagehand
    BY <1>3 DEF MakeStagehand06, Claim
  <2> HIDE DEF rest
  <2> QED BY <1>1, <2>1, <2>2, ClaimBytes
<1>4. ASSUME NEW peers \in Octet, a = [bytes |-> MakeStage06(d, peers), type |-> 0]
      PROVE  Announces(a.bytes, d, a.type)
  <2> DEFINE last == IF High(d) THEN 100 ELSE 0
             rest == <<48, peers, 0, 0, 0, 1, last>>
  <2>1. rest \in Octets /\ Len(rest) >= 6 /\ Byte(rest, 4) = 0
    BY DEF Octets, Octet, Byte
  <2>2. a.bytes = Announced(6, d, 2, 54, Claim(d, 1, rest)) /\ a.type = 0
    BY <1>4 DEF MakeStage06, Claim
  <2> HIDE DEF rest
  <2> QED BY <1>1, <2>1, <2>2, ClaimBytes
<1> QED BY <1>2, <1>3, <1>4 DEF Announcements

\* Cut packets.
LEMMA CutBytes ==
    ASSUME NEW p \in Octets, NEW n \in Nat, n <= Len(p)
    PROVE  /\ SubSeq(p, 1, n) \in Octets /\ Len(SubSeq(p, 1, n)) = n
           /\ \A i \in Nat : i < n => Byte(SubSeq(p, 1, n), i) = Byte(p, i)
           /\ \A a, b \in Nat : b <= n => Slice(SubSeq(p, 1, n), a, b) = Slice(p, a, b)
<1> DEFINE q == SubSeq(p, 1, n)
<1>1. PICK m \in Nat : m = Len(p)
  BY DEF Octets
<1>2. q \in Octets /\ Len(q) = n /\ \A i \in 1 .. n : q[i] = p[i]
  <2>1. \A i \in 1 .. n : p[i] \in Octet
    BY <1>1, ElementOfSeq DEF Octets
  <2>2. /\ q \in Seq(Octet) /\ Len(q) = (IF 1 <= n THEN n - 1 + 1 ELSE 0)
        /\ \A i \in 1 .. n - 1 + 1 : q[i] = p[1 + i - 1]
    BY <2>1, SubSeqProperties
  <2>3. \A i \in 1 .. n : q[i] = p[i]
    <3> TAKE i \in 1 .. n
    <3>1. i \in 1 .. n - 1 + 1 /\ 1 + i - 1 = i
      OBVIOUS
    <3> QED BY <2>2, <3>1
  <2> QED BY <2>2, <2>3 DEF Octets
<1> HIDE DEF q
<1>3. \A i \in Nat : i < n => Byte(q, i) = Byte(p, i)
  BY <1>1, <1>2 DEF Byte
<1>4. ASSUME NEW a \in Nat, NEW b \in Nat, b <= n
      PROVE  Slice(q, a, b) = Slice(p, a, b)
  <2>1. \A i \in 1 .. b - a : Byte(q, a + i - 1) = Byte(p, a + i - 1)
    <3> TAKE i \in 1 .. b - a
    <3>1. a + i - 1 \in Nat /\ a + i - 1 < n
      BY <1>4
    <3> QED BY <1>3, <3>1
  <2> QED BY <2>1 DEF Slice
<1> QED BY <1>2, <1>3, <1>4 DEF q

\* Whatever device this process is, the packets that announce it are read back as it
\* by an active listener and, from 44 bytes on, with the address of the sender by a
\* passive one.
THEOREM AnnouncementsReadBack ==
    ASSUME NEW d \in AnyHost, NEW a \in Announcements(d)
    PROVE  /\ DeviceFromPacket(a.bytes) = AsDevice(d, a.type)
           /\ \A sender : DeviceFromPacketWithInfo(a.bytes, sender) = AsDevice(d, a.type)
           /\ \A n \in 44 .. Len(a.bytes) :
                LET cut == DeviceFromPacketWithInfo(SubSeq(a.bytes, 1, n), d.ip)
                IN \E type : cut = AsDevice(d, type)
<1> DEFINE p == a.bytes
           t == a.type
<1>1. Announces(p, d, t)
  BY AnnouncementsAnnounce
<1> HIDE DEF p, t
<1>2. PICK k \in Nat : k = Len(p)
  BY <1>1 DEF Announces, Octets
<1>3. DeviceFromPacket(p) = AsDevice(d, t)
  BY <1>1, <1>2 DEF DeviceFromPacket, Announces, AsDevice
<1>4. ASSUME NEW sender PROVE DeviceFromPacketWithInfo(p, sender) = AsDevice(d, t)
  BY <1>1, <1>2 DEF DeviceFromPacketWithInfo, Announces, AsDevice
<1>5. ASSUME NEW n \in 44 .. k
      PROVE  \E type : DeviceFromPacketWithInfo(SubSeq(p, 1, n), d.ip) = AsDevice(d, type)
  <2> DEFINE q == SubSeq(p, 1, n)
             type == IF n < 53 THEN TypeById(Byte(q, 36)) ELSE t
  <2>1. /\ q \in Octets /\ Len(q) = n
        /\ \A i \in Nat : i < n => Byte(q, i) = Byte(p, i)
        /\ \A b, e \in Nat : e <= n => Slice(q, b, e) = Slice(p, b, e)
    <3>1. p \in Octets /\ n \in Nat /\ n <= Len(p)
      BY <1>1, <1>2 DEF Announces
    <3> QED BY <3>1, CutBytes
  <2> HIDE DEF q
  <2>a. n \in Nat /\ 44 <= n /\ n <= k
    OBVIOUS
  <2>b. Slice(q, 0, 10) = Slice(p, 0, 10) /\ Slice(q, 12, 32) = Slice(p, 12, 32)
    BY <2>1, <2>a
  <2>c. Slice(q, 36, 37) = Slice(p, 36, 37) /\ Slice(q, 38, 44) = Slice(p, 38, 44)
    BY <2>1, <2>a
  <2>d. Byte(q, 10) = 6
    <3>1. 10 \in Nat /\ 10 < n
      BY <2>a
    <3>2. Byte(q, 10) = Byte(p, 10)
      BY <3>1, <2>1
    <3> QED BY <3>2, <1>1 DEF Announces
  <2>e. n >= 53 => Slice(q, 44, 48) = Slice(p, 44, 48) /\ Slice(q, 52, 53) = Slice(p, 52, 53)
    BY <2>1, <2>a
  <2>f. HasHeader(q)
    BY <1>1, <2>1, <2>a, <2>b DEF HasHeader, Announces
  <2>2. /\ HasHeader(q) /\ Byte(q, 10) = 6
        /\ Slice(q, 12, 32) = Slice(p, 12, 32) /\ Slice(q, 36, 37) = Slice(p, 36, 37)
        /\ Slice(q, 38, 44) = Slice(p, 38, 44)
        /\ n >= 53 => /\ Slice(q, 44, 48) = Slice(p, 44, 48)
                      /\ Slice(q, 52, 53) = Slice(p, 52, 53)
    BY <2>b, <2>c, <2>d, <2>e, <2>f
  <2>3. DeviceFromPacketWithInfo(q, d.ip) = AsDevice(d, type)
    BY <1>1, <2>1, <2>2 DEF DeviceFromPacketWithInfo, Announces, AsDevice
  <2> QED BY <2>3 DEF q
<1> QED BY <1>2, <1>3, <1>4, <1>5 DEF p, t

\* A packet no listener of a port makes anything of.
Ignored(port, p) ==
    /\ p \in Octets /\ HasHeader(p) /\ Byte(p, 10) # 6
    /\ 11 <= Len(p) /\ Len(p) < 192
    /\ port = "status" => /\ Len(p) >= 36
                          /\ ~(Byte(p, 32) = 0 /\ U16(p, 34) = 9)
                          /\ ~(Byte(p, 32) = 3 /\ U16(p, 34) = 17)
    /\ port = "beat" => Len(p) < 52 \/ Byte(p, 32) # 0
MeansNothing(port, p) ==
    /\ \A stagehand \in BOOLEAN : Heard(port, p, stagehand) = Nothing
    /\ \A sender : HeardPassive(port, p, sender) = Nothing

LEMMA IgnoredMeansNothing ==
    ASSUME NEW port \in {"announce", "status", "beat"}, NEW p, Ignored(port, p)
    PROVE  MeansNothing(port, p)
<1>1. PICK n \in Nat : n = Len(p) /\ 11 <= n /\ n < 192
  BY DEF Ignored, Octets
<1>2. CASE port = "announce"
  <2>1. DeviceFromPacket(p) = Nothing
    BY <1>1 DEF DeviceFromPacket, Ignored
  <2>2. \A sender : DeviceFromPacketWithInfo(p, sender) = Nothing
    BY <1>1 DEF DeviceFromPacketWithInfo, Ignored
  <2> QED BY <1>2, <2>1, <2>2 DEF Heard, HeardPassive, MeansNothing
<1>3. CASE port = "status"
  <2>1. MixerStateFromPacket(p) = Nothing
    BY <1>1 DEF MixerStateFromPacket
  <2>2. StatusFromPacket(p) = Nothing
    BY <1>1 DEF StatusFromPacket, Ignored
  <2>3. MediaSlotFromPacket(p) = Nothing
    BY <1>1 DEF MediaSlotFromPacket, Ignored
  <2>4. OnAirFromPacket(p) = Nothing
    BY <1>1, <1>3 DEF OnAirFromPacket, Ignored
  <2>5. ~Sound(Nothing)
    BY DEF Sound, Nothing
  <2>6. HandleStatusPassive(p) = Nothing
    BY <2>2, <2>3, <2>4, <2>5 DEF HandleStatusPassive
  <2>7. \A stagehand \in BOOLEAN : HandleStatus(p, stagehand) = Nothing
    BY <2>1, <2>2, <2>3, <2>4, <2>5 DEF HandleStatus
  <2> QED BY <1>3, <2>6, <2>7 DEF Heard, HeardPassive, MeansNothing
<1>4. CASE port = "beat"
  <2>1. VuFromPacket(p) = Nothing
    BY <1>1 DEF VuFromPacket
  <2>2. PositionFromPacket(p) = Nothing
    BY <1>1, <1>4 DEF PositionFromPacket, Ignored
  <2>3. ~Sound(Nothing)
    BY DEF Sound, Nothing
  <2>4. \A stagehand \in BOOLEAN : HandlePosition(p, stagehand) = Nothing
    BY <2>1, <2>2, <2>3 DEF HandlePosition
  <2> QED BY <1>4, <2>4 DEF Heard, HeardPassive, MeansNothing
<1> QED BY <1>2, <1>3, <1>4

\* An announcement of another type, and the body of any other packet.
LEMMA AnnouncedIgnored ==
    ASSUME NEW type \in Octet \ {6}, NEW d \in AnyHost, NEW structure \in Octet,
           NEW length \in Octet, NEW body \in Octets, Len(body) <= 100
    PROVE  MeansNothing("announce", Announced(type, d, structure, length, body))
<1> DEFINE p == Announced(type, d, structure, length, body)
<1>1. IsAnnounce(p, type, d, body)
  BY AnnouncedBytes
<1> HIDE DEF p
<1>2. 11 <= Len(p) /\ Len(p) < 192
  <2>1. PICK n \in Nat : n = Len(body)
    BY DEF Octets
  <2>2. Len(p) = 36 + n
    BY <1>1, <2>1 DEF IsAnnounce
  <2>3. n <= 100
    BY <2>1
  <2> QED BY <2>1, <2>2, <2>3
<1>3. Ignored("announce", p)
  BY <1>1, <1>2 DEF Ignored, IsAnnounce
<1> QED BY <1>3, IgnoredMeansNothing DEF p

\* The bytes that say what a packet is for, whatever follows.
Begins(p, type, at, body, n) ==
    /\ p \in Octets /\ Len(p) = n /\ n > 10 /\ n >= at + Len(body)
    /\ HasHeader(p) /\ Byte(p, 10) = type
    /\ \A i \in Nat : i < Len(body) => Byte(p, at + i) = Byte(body, i)

LEMMA LongerBegins ==
    ASSUME NEW p, NEW type, NEW at \in Nat, NEW body \in Octets, NEW n \in Nat,
           Begins(p, type, at, body, n), NEW m \in Nat, NEW rest \in Octets, Len(rest) = m
    PROVE  Begins(p \o rest, type, at, body, n + m)
<1> DEFINE q == p \o rest
<1>1. PICK k \in Nat : k = Len(body)
  BY DEF Octets
<1>2. Joined(q, p, rest, n)
  BY Joining DEF Begins
<1> HIDE DEF q
<1>3. q \in Octets /\ Len(q) = n + m /\ \A i \in Nat : i < n => Byte(q, i) = Byte(p, i)
  BY <1>2 DEF Joined
<1>4. \A i \in Nat : i < 10 => Byte(q, i) = Byte(p, i)
  BY <1>3 DEF Begins
<1>5. Slice(p, 0, 10) = Magic /\ HasHeader(p)
  BY DEF Begins, HasHeader
<1>6. Slice(q, 0, 10) = Slice(p, 0, 10)
  <2>1. Same(q, 0, p, 0, 10)
    BY <1>4 DEF Same
  <2>2. Slice(q, 0, 0 + 10) = Slice(p, 0, 0 + 10)
    BY <2>1, SliceEqual
  <2> QED BY <2>2
<1>7. HasHeader(q)
  <2>1. n + m >= 10
    BY DEF Begins
  <2> QED BY <1>3, <1>5, <1>6, <2>1 DEF HasHeader
<1>8. Byte(q, 10) = type
  BY <1>3 DEF Begins
<1>9. n > 10 /\ n >= at + k /\ \A i \in Nat : i < k => Byte(p, at + i) = Byte(body, i)
  BY <1>1 DEF Begins
<1>10. \A i \in Nat : i < k => Byte(q, at + i) = Byte(body, i)
  <2> TAKE i \in Nat
  <2>1. i < k => at + i \in Nat /\ at + i < n
    BY <1>9
  <2> QED BY <1>3, <1>9, <2>1
<1> QED BY <1>1, <1>3, <1>7, <1>8, <1>9, <1>10 DEF Begins, q

\* A packet whose name has 19 bytes.
LEMMA UnicastBegins ==
    ASSUME NEW type \in Octet, NEW name \in Octets, NEW body \in Octets,
           NEW k \in Nat, k = Len(body)
    PROVE  Begins(Magic \o <<type>> \o Padded(name, 19) \o body, type, 30, body, 30 + k)
<1> DEFINE p == Magic \o <<type>> \o Padded(name, 19) \o body
<1>1. IsFrame(p, type, 19, body)
  <2>1. PICK width \in Nat : width = 19
    OBVIOUS
  <2>2. IsFrame(Magic \o <<type>> \o Padded(name, width) \o body, type, width, body)
    BY FramedBytes
  <2> QED BY <2>1, <2>2
<1> HIDE DEF p
<1>2. \A i \in Nat : 11 + 19 + i = 30 + i
  OBVIOUS
<1>3. /\ p \in Octets /\ Len(p) = 30 + k /\ HasHeader(p) /\ Byte(p, 10) = type
      /\ \A i \in Nat : Byte(p, 30 + i) = Byte(body, i)
  BY <1>1, <1>2 DEF IsFrame
<1>4. 30 + k > 10 /\ 30 + k >= 30 + Len(body) /\ \A i \in Nat : i < Len(body) => i \in Nat
  OBVIOUS
<1> QED BY <1>3, <1>4 DEF Begins, p

LEMMA ZerosOctets ==
    \A n \in Nat : Zeros(n) \in Octets /\ Len(Zeros(n)) = n
<1> TAKE n \in Nat
<1>1. \A i \in 1 .. n : 0 \in Octet
  BY DEF Octet
<1> QED BY <1>1, IsASeq DEF Zeros, Octets

\* What the crate asks, commands and keeps alive with.
LEMMA RequestIgnored ==
    ASSUME NEW host \in AnyHost, NEW d \in AnyHost, NEW slot \in Octet
    PROVE  MeansNothing("status", MakeMediaSlotRequest(host, d, slot))
<1> DEFINE a == <<1, 0, host.id, 0, 12>>
           b == a \o host.ip
           c == <<0, 0, 0, d.id, 0, 0, 0, slot>>
           body == b \o c
           p == MakeMediaSlotRequest(host, d, slot)
<1>1. /\ host.name \in Octets /\ host.id \in Octet /\ d.id \in Octet
      /\ host.ip \in Octets /\ Len(host.ip) = 4
  BY DEF AnyHost
<1>2. 0 \in Octet /\ 1 \in Octet /\ 5 \in Octet /\ 12 \in Octet
  BY DEF Octet
<1>3. /\ a \in Octets /\ Len(a) = 5 /\ Byte(a, 1) = 0 /\ Byte(a, 3) = 0 /\ Byte(a, 4) = 12
      /\ c \in Octets /\ Len(c) = 8
  BY <1>1, <1>2 DEF Octets, Byte
<1> HIDE DEF a, c
<1>4. Joined(b, a, host.ip, 5)
  BY <1>1, <1>3, Joining
<1> HIDE DEF b
<1>5. b \in Octets /\ Len(b) = 9
  BY <1>1, <1>4 DEF Joined
<1>6. Joined(body, b, c, 9)
  BY <1>3, <1>5, Joining
<1> HIDE DEF body
<1>7. body \in Octets /\ Len(body) = 17
  BY <1>3, <1>6 DEF Joined
<1>8. \A i \in Nat : i < 5 => Byte(body, i) = Byte(a, i)
  BY <1>4, <1>6 DEF Joined
<1>9. p = Magic \o <<5>> \o Padded(host.name, 20) \o body
  BY DEF MakeMediaSlotRequest, Framed, body, b, c, a
<1> HIDE DEF p
<1>10. IsFrame(p, 5, 20, body)
  BY <1>1, <1>2, <1>7, <1>9, FramedBytes
<1>11. Byte(p, 11 + 20 + 1) = 0 /\ Byte(p, 11 + 20 + 3) = 0 /\ Byte(p, 11 + 20 + 4) = 12
  BY <1>3, <1>8, <1>10 DEF IsFrame
<1>12. Byte(p, 32) = 0 /\ Byte(p, 34) = 0 /\ Byte(p, 35) = 12
  BY <1>11
<1>13. U16(p, 34) = 12
  BY <1>12 DEF U16
<1>14. Ignored("status", p)
  BY <1>7, <1>10, <1>12, <1>13 DEF Ignored, IsFrame
<1> QED BY <1>14, IgnoredMeansNothing DEF p

LEMMA PlaystateIgnored ==
    ASSUME NEW host \in AnyHost, NEW d \in AnyHost, NEW cued \in BOOLEAN
    PROVE  MeansNothing("beat", MakePlaystate(host, d, cued))
<1> DEFINE a == <<1, 0, host.id, 0, 4>>
           e(i) == IF cued /\ i - 1 = d.id THEN 1 ELSE 0
           c == [i \in 1..4 |-> e(i)]
           body == a \o c
           p == MakePlaystate(host, d, cued)
<1>1. host.name \in Octets /\ host.id \in Octet
  BY DEF AnyHost
<1>2. 0 \in Octet /\ 1 \in Octet /\ 2 \in Octet /\ 4 \in Octet
  BY DEF Octet
<1>3. a \in Octets /\ Len(a) = 5
  BY <1>1, <1>2 DEF Octets
<1>4. c \in Octets /\ Len(c) = 4
  <2>1. \A i \in 1..4 : e(i) \in Octet
    BY <1>2
  <2> HIDE DEF e
  <2> QED BY <2>1, IsASeq DEF Octets
<1>9. p = Magic \o <<2>> \o Padded(host.name, 20) \o body
  BY DEF MakePlaystate, Framed
<1> HIDE DEF a, c
<1>5. Joined(body, a, c, 5)
  BY <1>3, <1>4, Joining
<1> HIDE DEF body
<1>7. body \in Octets /\ Len(body) = 9
  BY <1>4, <1>5 DEF Joined
<1> HIDE DEF p
<1>10. IsFrame(p, 2, 20, body)
  BY <1>1, <1>2, <1>7, <1>9, FramedBytes
<1>14. Ignored("beat", p)
  BY <1>7, <1>10 DEF Ignored, IsFrame
<1> QED BY <1>14, IgnoredMeansNothing DEF p

LEMMA TransportIgnored ==
    ASSUME NEW host \in AnyHost, NEW op \in Octet, NEW press \in Octet, NEW correlation \in Octet
    PROVE  MeansNothing("beat", MakeTransport(host, op, press, correlation))
<1> DEFINE a == <<1, 3, correlation, 0, 48, 0, 0, 0, 0, 58, 0, 0, 0, op, 0, press>>
           c == Zeros(9)
           body == a \o c
           p == MakeTransport(host, op, press, correlation)
<1>1. host.name \in Octets
  BY DEF AnyHost
<1>2. 0 \in Octet /\ 1 \in Octet /\ 3 \in Octet /\ 7 \in Octet /\ 48 \in Octet /\ 58 \in Octet
  BY DEF Octet
<1>3. a \in Octets /\ Len(a) = 16 /\ Byte(a, 1) = 3
  BY <1>2 DEF Octets, Byte
<1>4. c \in Octets /\ Len(c) = 9
  BY ZerosOctets
<1>9. p = Magic \o <<7>> \o Padded(host.name, 20) \o body
  BY DEF MakeTransport, Framed
<1> HIDE DEF a, c
<1>5. Joined(body, a, c, 16)
  BY <1>3, <1>4, Joining
<1> HIDE DEF body
<1>7. body \in Octets /\ Len(body) = 25 /\ Byte(body, 1) = 3
  BY <1>3, <1>4, <1>5 DEF Joined
<1> HIDE DEF p
<1>10. IsFrame(p, 7, 20, body)
  BY <1>1, <1>2, <1>7, <1>9, FramedBytes
<1>11. Byte(p, 11 + 20 + 1) = 3
  BY <1>7, <1>10 DEF IsFrame
<1>14. Ignored("beat", p)
  BY <1>7, <1>10, <1>11 DEF Ignored, IsFrame
<1> QED BY <1>14, IgnoredMeansNothing DEF p

LEMMA BeginsIgnored ==
    ASSUME NEW p, NEW type \in Octet \ {6}, NEW body \in Octets, Len(body) >= 6,
           NEW n \in Nat, n >= 36, n < 192, Begins(p, type, 30, body, n),
           Byte(body, 2) \in Octet, Byte(body, 4) = 0, Byte(body, 5) \notin {9, 17}
    PROVE  MeansNothing("status", p)
<1>1. Byte(p, 30 + 2) = Byte(body, 2) /\ Byte(p, 30 + 4) = 0 /\ Byte(p, 30 + 5) = Byte(body, 5)
  <2>1. PICK k \in Nat : k = Len(body)
    BY DEF Octets
  <2>2. \A i \in Nat : i < k => Byte(p, 30 + i) = Byte(body, i)
    BY <2>1 DEF Begins
  <2> QED BY <2>1, <2>2
<1>2. Byte(body, 5) \in Octet
  BY ByteOfOctets
<1>3. U16(p, 34) = Byte(body, 5)
  <2>1. Byte(p, 34) = 0 /\ Byte(p, 34 + 1) = Byte(body, 5)
    BY <1>1
  <2>2. U16(p, 34) = Byte(p, 34) * 256 + Byte(p, 34 + 1)
    BY DEF U16
  <2>3. \A v \in Octet : 0 * 256 + v = v
    BY DEF Octet
  <2> QED BY <1>2, <2>1, <2>2, <2>3
<1>4. Ignored("status", p)
  BY <1>1, <1>3 DEF Ignored, Begins
<1> QED BY <1>4, IgnoredMeansNothing

LEMMA HeartbeatIgnored ==
    ASSUME NEW host \in AnyHost
    PROVE  /\ MeansNothing("status", MakeMixerHeartbeat(host))
           /\ MeansNothing("status", MakePlayerHeartbeat(host))
<1>1. host.name \in Octets
  BY DEF AnyHost
<1>2. MeansNothing("status", MakeMixerHeartbeat(host))
  <2> DEFINE a == <<33, 2, 0, 254, 0, 4, 0, 28, 0, 0>>
             p == MakeMixerHeartbeat(host)
  <2>1. /\ a \in Octets /\ Len(a) = 10 /\ 10 \in Nat /\ 58 \in Octet /\ 58 \in Octet \ {6}
        /\ Byte(a, 2) \in Octet /\ Byte(a, 4) = 0 /\ Byte(a, 5) \notin {9, 17}
    BY DEF Octets, Octet, Byte
  <2>2. p = Magic \o <<58>> \o Padded(host.name, 19) \o a
    BY DEF MakeMixerHeartbeat
  <2> HIDE DEF a, p
  <2>3. Begins(p, 58, 30, a, 30 + 10)
    BY <1>1, <2>1, <2>2, UnicastBegins
  <2>4. Begins(p, 58, 30, a, 40) /\ 40 \in Nat /\ 40 >= 36 /\ 40 < 192 /\ Len(a) >= 6
    BY <2>1, <2>3
  <2>5. MeansNothing("status", p)
    BY <2>1, <2>4, BeginsIgnored
  <2> QED BY <2>5 DEF p
<1>3. MeansNothing("status", MakePlayerHeartbeat(host))
  <2> DEFINE a == <<3, 1, 0, 58, 0, 0>>
             p == MakePlayerHeartbeat(host)
  <2>1. /\ a \in Octets /\ Len(a) = 6 /\ 6 \in Nat /\ 104 \in Octet /\ 104 \in Octet \ {6}
        /\ Byte(a, 2) \in Octet /\ Byte(a, 4) = 0 /\ Byte(a, 5) \notin {9, 17}
    BY DEF Octets, Octet, Byte
  <2>2. p = Magic \o <<104>> \o Padded(host.name, 19) \o a
    BY DEF MakePlayerHeartbeat
  <2> HIDE DEF a, p
  <2>3. Begins(p, 104, 30, a, 30 + 6)
    BY <1>1, <2>1, <2>2, UnicastBegins
  <2>4. Begins(p, 104, 30, a, 36) /\ 36 \in Nat /\ 36 >= 36 /\ 36 < 192 /\ Len(a) >= 6
    BY <2>1, <2>3
  <2>5. MeansNothing("status", p)
    BY <2>1, <2>4, BeginsIgnored
  <2> QED BY <2>5 DEF p
<1> QED BY <1>2, <1>3

LEMMA PrefWriteIgnored ==
    ASSUME NEW host \in AnyHost, NEW onAir \in Octet, NEW quantize \in Octet
    PROVE  MeansNothing("status", MakePrefWrite(host, onAir, quantize))
<1> DEFINE a == <<3, 1, 3, 58, 0, 80, 1>>
           p0 == Magic \o <<107>> \o Padded(host.name, 19) \o a
           p1 == p0 \o Zeros(7)
           p2 == p1 \o <<onAir>>
           p3 == p2 \o Zeros(15)
           p4 == p3 \o <<quantize>>
           p5 == p4 \o Zeros(63)
<1>1. host.name \in Octets
  BY DEF AnyHost
<1>2. /\ a \in Octets /\ Len(a) = 7 /\ 7 \in Nat /\ 107 \in Octet /\ 107 \in Octet \ {6}
      /\ Byte(a, 2) \in Octet /\ Byte(a, 4) = 0 /\ Byte(a, 5) \notin {9, 17}
  BY DEF Octets, Octet, Byte
<1>3. \A x \in Octet : <<x>> \in Octets /\ Len(<<x>>) = 1
  BY DEF Octets
<1>n. /\ 1 \in Nat /\ 15 \in Nat /\ 63 \in Nat /\ 30 \in Nat
      /\ 37 \in Nat /\ 44 \in Nat /\ 45 \in Nat /\ 60 \in Nat /\ 61 \in Nat
  OBVIOUS
<1>s. /\ 37 + 7 = 44 /\ 44 + 1 = 45 /\ 45 + 15 = 60 /\ 60 + 1 = 61 /\ 61 + 63 = 124
  OBVIOUS
<1>t. 124 \in Nat /\ 124 >= 36 /\ 124 < 192 /\ Len(a) >= 6
  BY <1>2
<1> HIDE DEF a
<1>4. Begins(p0, 107, 30, a, 30 + 7)
  BY <1>1, <1>2, UnicastBegins
<1> HIDE DEF p0
<1>5. Begins(p0, 107, 30, a, 37)
  BY <1>4
<1>6. Begins(p1, 107, 30, a, 44)
  <2>1. Begins(p1, 107, 30, a, 37 + 7)
    BY <1>2, <1>n, <1>5, ZerosOctets, LongerBegins
  <2> QED BY <2>1, <1>s
<1> HIDE DEF p1
<1>7. Begins(p2, 107, 30, a, 45)
  <2>1. Begins(p2, 107, 30, a, 44 + 1)
    BY <1>2, <1>n, <1>6, <1>3, LongerBegins
  <2> QED BY <2>1, <1>s
<1> HIDE DEF p2
<1>8. Begins(p3, 107, 30, a, 60)
  <2>1. Begins(p3, 107, 30, a, 45 + 15)
    BY <1>2, <1>n, <1>7, ZerosOctets, LongerBegins
  <2> QED BY <2>1, <1>s
<1> HIDE DEF p3
<1>9. Begins(p4, 107, 30, a, 61)
  <2>1. Begins(p4, 107, 30, a, 60 + 1)
    BY <1>2, <1>n, <1>8, <1>3, LongerBegins
  <2> QED BY <2>1, <1>s
<1> HIDE DEF p4
<1>10. Begins(p5, 107, 30, a, 124)
  <2>1. Begins(p5, 107, 30, a, 61 + 63)
    BY <1>2, <1>n, <1>9, ZerosOctets, LongerBegins
  <2> QED BY <2>1, <1>s
<1> HIDE DEF p5
<1>11. MeansNothing("status", p5)
  BY <1>2, <1>t, <1>10, BeginsIgnored
<1> QED BY <1>11 DEF MakePrefWrite, p5, p4, p3, p2, p1, p0, a

\* A body that leaves an announcement short of a media slot's answer.
Short(body) == body \in Octets /\ Len(body) <= 100

LEMMA StagesIgnored ==
    ASSUME NEW d \in AnyHost, NEW counter \in Octet
    PROVE  /\ MeansNothing("announce", MakeStage0a(d))
           /\ MeansNothing("announce", MakeStage00(d, counter))
           /\ MeansNothing("announce", MakeStage02(d, counter))
           /\ MeansNothing("announce", MakeStage04(d, counter))
           /\ MeansNothing("announce", MakeStagehand0a(d))
           /\ MeansNothing("announce", MakeStagehand02(d, counter))
<1>1. /\ d.id \in Octet /\ d.mac \in Octets /\ Len(d.mac) = 6
      /\ d.ip \in Octets /\ Len(d.ip) = 4
  BY DEF AnyHost
<1>2. /\ 0 \in Octet \ {6} /\ 1 \in Octet /\ 2 \in Octet \ {6} /\ 3 \in Octet
      /\ 4 \in Octet \ {6} /\ 5 \in Octet /\ 10 \in Octet \ {6} /\ 37 \in Octet /\ 38 \in Octet
      /\ 44 \in Octet /\ 48 \in Octet /\ 50 \in Octet /\ 58 \in Octet /\ 64 \in Octet
  BY DEF Octet
<1>3. /\ \A x \in Octet : Short(<<x>>)
      /\ \A x, y \in Octet : <<x, y>> \in Octets /\ Short(<<x, y>>)
  BY DEF Octets, Short
<1>4. Structure(d) \in Octet
  BY <1>2 DEF Structure
<1>6. ASSUME NEW type \in Octet \ {6}, NEW structure \in Octet, NEW length \in Octet,
             NEW body, Short(body)
      PROVE  MeansNothing("announce", Announced(type, d, structure, length, body))
  BY <1>6, AnnouncedIgnored DEF Short
<1>7. MeansNothing("announce", MakeStage0a(d))
  BY <1>2, <1>3, <1>6 DEF MakeStage0a
<1>8. MeansNothing("announce", MakeStagehand0a(d))
  BY <1>2, <1>3, <1>6 DEF MakeStagehand0a, Stagehand
<1>9. MeansNothing("announce", MakeStage04(d, counter))
  BY <1>1, <1>2, <1>3, <1>4, <1>6 DEF MakeStage04
<1>10. MeansNothing("announce", MakeStage00(d, counter))
  <2> DEFINE c == <<counter, 1>>
  <2>1. c \in Octets /\ Len(c) = 2
    BY <1>2, <1>3
  <2>3. MakeStage00(d, counter) = Announced(0, d, Structure(d), 44, c \o d.mac)
    BY DEF MakeStage00
  <2> HIDE DEF c
  <2>2. Joined(c \o d.mac, c, d.mac, 2)
    BY <1>1, <2>1, Joining
  <2>4. Short(c \o d.mac)
    BY <1>1, <2>2 DEF Joined, Short
  <2> QED BY <1>2, <1>4, <1>6, <2>3, <2>4
<1>11. ASSUME NEW c \in Octets, Len(c) \in 4 .. 5
       PROVE  Short(d.ip \o d.mac \o c)
  <2> DEFINE b == d.ip \o d.mac
  <2>1. Joined(b, d.ip, d.mac, 4)
    BY <1>1, Joining
  <2> HIDE DEF b
  <2>2. b \in Octets /\ Len(b) = 10
    BY <1>1, <2>1 DEF Joined
  <2>3. Joined(b \o c, b, c, 10)
    BY <2>2, Joining
  <2>4. PICK k \in 4 .. 5 : k = Len(c)
    BY <1>11
  <2>5. b \o c \in Octets /\ Len(b \o c) = 10 + k
    BY <2>3, <2>4 DEF Joined
  <2>6. Short(b \o c)
    BY <2>4, <2>5 DEF Short
  <2> QED BY <2>6 DEF b
<1>12. MeansNothing("announce", MakeStage02(d, counter))
  <2> DEFINE c == <<d.id, counter, 48, 1, 1>>
  <2>1. c \in Octets /\ Len(c) \in 4 .. 5
    BY <1>1, <1>2 DEF Octets
  <2>2. MakeStage02(d, counter) = Announced(2, d, Structure(d), 50, d.ip \o d.mac \o c)
    BY DEF MakeStage02
  <2> HIDE DEF c
  <2>3. Short(d.ip \o d.mac \o c)
    BY <1>11, <2>1
  <2> QED BY <1>2, <1>4, <1>6, <2>2, <2>3
<1>13. MeansNothing("announce", MakeStagehand02(d, counter))
  <2> DEFINE c == <<58, counter, Stagehand, 1>>
  <2>1. c \in Octets /\ Len(c) \in 4 .. 5
    BY <1>1, <1>2 DEF Octets, Stagehand
  <2>2. MakeStagehand02(d, counter) = Announced(2, d, 3, 50, d.ip \o d.mac \o c)
    BY DEF MakeStagehand02
  <2> HIDE DEF c
  <2>3. Short(d.ip \o d.mac \o c)
    BY <1>11, <2>1
  <2> QED BY <1>2, <1>6, <2>2, <2>3
<1> QED BY <1>7, <1>8, <1>9, <1>10, <1>12, <1>13

\* Nothing the crate sends besides its announcements and its status means anything to a
\* listener of the port it goes to, for the network or for a capture: whatever devices
\* there are and whatever is asked, commanded or kept alive, no such packet is taken for
\* a device, a status, a medium, a position or a channel mask.
THEOREM NothingSentIsMisread ==
    ASSUME NEW host \in AnyHost, NEW peer \in AnyHost, NEW x \in Octet, NEW y \in Octet,
           NEW correlation \in Octet
    PROVE  /\ \A p \in {MakeStage0a(host), MakeStage00(host, x), MakeStage02(host, x),
                        MakeStage04(host, x), MakeStagehand0a(host),
                        MakeStagehand02(host, x)} : MeansNothing("announce", p)
           /\ \A p \in {MakeMediaSlotRequest(host, peer, x), MakePrefWrite(host, x, y)}
                         \cup ({Heartbeat(host, peer)} \ {<<>>}) : MeansNothing("status", p)
           /\ \A p \in {MakePlaystate(host, peer, TRUE), MakePlaystate(host, peer, FALSE),
                        MakeTransport(host, x, y, correlation)} : MeansNothing("beat", p)
<1>1. Heartbeat(host, peer) \in {<<>>, MakeMixerHeartbeat(host), MakePlayerHeartbeat(host)}
  BY DEF Heartbeat, Mixer, Cdj
<1> QED BY <1>1, StagesIgnored, RequestIgnored, PrefWriteIgnored, HeartbeatIgnored,
           PlaystateIgnored, TransportIgnored

\* The status the crate sends, wherever it is received, is a player with the id of this
\* device that has no track, no tempo, no beat and no cue to count down to.
THEOREM StatusReadsBack ==
    ASSUME NEW host \in AnyHost, NEW stagehand \in BOOLEAN, NEW sender
    PROVE  LET status == Heard("status", MakeStatusPacket(host), stagehand)
           IN /\ status.is = "status" /\ status.id = <<host.id>>
              /\ status.track = Zeros(8)
              /\ status.bpm = <<>> /\ status.beat = <<>> /\ status.cue = <<>>
              /\ HeardPassive("status", MakeStatusPacket(host), sender) = status
<1> DEFINE body == <<1, 3, host.id, 0, 248, host.id>>
           fixed == Framed(10, host, body)
           p == MakeStatusPacket(host)
           e(i) == CASE i <= Len(fixed) -> fixed[i]
                     [] i - 1 \in (146..147) \cup (160..163) \cup {165} -> 255
                     [] i - 1 \in {38, 164} -> 1
                     [] i - 1 = 137 -> 156
                     [] i - 1 \in {141, 153, 193, 197} -> 16
                     [] i - 1 = 204 -> 15
                     [] OTHER -> 0
<1>1. /\ host.name \in Octets /\ host.id \in Octet
      /\ body \in Octets /\ Len(body) = 6 /\ Byte(body, 2) = host.id
      /\ 10 \in Octet /\ 20 \in Nat
  <2>1. host.name \in Octets /\ host.id \in Octet
    BY DEF AnyHost
  <2>2. /\ 0 \in Octet /\ 1 \in Octet /\ 3 \in Octet /\ 10 \in Octet /\ 248 \in Octet
    BY DEF Octet
  <2> QED BY <2>1, <2>2 DEF Octets, Byte
<1>2. p = [i \in 1..284 |-> e(i)]
  BY DEF MakeStatusPacket
<1>a. fixed = Magic \o <<10>> \o Padded(host.name, 20) \o body
  BY DEF Framed
<1> HIDE DEF body, fixed, p
<1>3. IsFrame(fixed, 10, 20, body)
  BY <1>1, <1>a, FramedBytes
<1>4. /\ fixed \in Octets /\ Len(fixed) = 37
      /\ Slice(fixed, 0, 10) = Magic /\ Byte(fixed, 10) = 10 /\ Byte(fixed, 33) = host.id
  <2>1. Byte(fixed, 11 + 20 + 2) = host.id
    BY <1>1, <1>3 DEF IsFrame
  <2> QED BY <1>1, <1>3, <2>1 DEF IsFrame, HasHeader
<1>5. Len(p) = 284
  BY <1>2
<1> HIDE DEF e
<1>6. \A k \in Nat : k < 284 => Byte(p, k) = e(k + 1)
  <2> TAKE k \in Nat
  <2>1. k < 284 => k + 1 \in 1..284
    OBVIOUS
  <2> QED BY <1>2, <1>5, <2>1 DEF Byte
<1>7. \A k \in Nat : k < 37 => Byte(p, k) = Byte(fixed, k)
  <2>1. \A k \in Nat : k < 37 => e(k + 1) = fixed[k + 1]
    BY <1>4 DEF e
  <2>2. \A k \in Nat : k < 37 => Byte(fixed, k) = fixed[k + 1] /\ k < 284
    BY <1>4 DEF Byte
  <2> QED BY <1>6, <2>1, <2>2
<1>8. /\ \A k \in 40 .. 47 : Byte(p, k) = 0
      /\ \A k \in 146 .. 147 : Byte(p, k) = 255
      /\ \A k \in 160 .. 163 : Byte(p, k) = 255
      /\ Byte(p, 164) = 1 /\ Byte(p, 165) = 255
  BY <1>4, <1>6 DEF e
<1>9. /\ HasHeader(p) /\ Byte(p, 10) = 10 /\ Slice(p, 33, 34) = <<host.id>>
  <2>1. Same(p, 0, fixed, 0, 10)
    BY <1>7 DEF Same
  <2>2. Slice(p, 0, 0 + 10) = Slice(fixed, 0, 0 + 10)
    BY <2>1, SliceEqual
  <2>3. Byte(p, 33) = host.id
    BY <1>4, <1>7
  <2>4. Slice(p, 33, 33 + 1) = <<Byte(p, 33)>>
    BY SliceOne
  <2> QED BY <1>4, <1>5, <1>7, <2>2, <2>3, <2>4 DEF HasHeader
<1>10. /\ Slice(p, 40, 48) = Zeros(8)
       /\ Slice(p, 146, 148) = <<255, 255>>
       /\ Slice(p, 160, 164) = <<255, 255, 255, 255>>
       /\ Slice(p, 164, 166) = <<1, 255>>
  <2>1. Slice(p, 40, 48) = Zeros(8)
    BY <1>8 DEF Slice, Zeros
  <2>2. Slice(p, 146, 148) = <<255, 255>>
    BY <1>8 DEF Slice
  <2>3. Slice(p, 160, 164) = <<255, 255, 255, 255>>
    BY <1>8 DEF Slice
  <2>4. Slice(p, 164, 166) = <<1, 255>>
    BY <1>8 DEF Slice
  <2> QED BY <2>1, <2>2, <2>3, <2>4
<1>11. MixerStateFromPacket(p) = Nothing
  BY <1>9 DEF MixerStateFromPacket
<1> DEFINE status == StatusFromPacket(p)
<1>12. /\ status.is = "status" /\ status.id = <<host.id>>
       /\ status.track = Zeros(8)
       /\ status.bpm = <<>> /\ status.beat = <<>> /\ status.cue = <<>>
  BY <1>5, <1>9, <1>10 DEF StatusFromPacket, Unless
<1> HIDE DEF status
<1>13. Sound(status) /\ status # Nothing /\ ~Sound(Nothing)
  BY <1>12 DEF Sound, Nothing
<1>14. HandleStatus(p, stagehand) = status /\ HandleStatusPassive(p) = status
  BY <1>11, <1>13 DEF HandleStatus, HandleStatusPassive, status
<1>15. Heard("status", p, stagehand) = status /\ HeardPassive("status", p, sender) = status
  BY <1>14 DEF Heard, HeardPassive
<1> QED BY <1>12, <1>15 DEF p

-----------------------------------------------------------------------------
(* Fields of the remote database and opaque data of NFS, wherever their     *)
(* bytes stand in what a connection or a datagram has brought so far.       *)

Ms == INSTANCE Messages     \* the remote database
Xd == INSTANCE Xdr          \* NFS

\* The readers of packets, of messages and of XDR mean the same bytes.
LEMMA SameBytes ==
    /\ \A p, i : Ms!Byte(p, i) = Byte(p, i) /\ Xd!Byte(p, i) = Byte(p, i)
    /\ \A p, a, b : Ms!Slice(p, a, b) = Slice(p, a, b) /\ Xd!Slice(p, a, b) = Slice(p, a, b)
    /\ \A n : Ms!Word(n) = Word(n) /\ Xd!Word(n) = Word(n)
    /\ \A p, i : Ms!U32(p, i) = U32(p, i) /\ Xd!U32(p, i) = U32(p, i)
<1>1. \A p, i : Ms!Byte(p, i) = Byte(p, i) /\ Xd!Byte(p, i) = Byte(p, i)
  BY DEF Byte, Ms!Byte, Xd!Byte, Panic, Ms!Panic, Xd!Panic
<1>2. \A p, a, b : Ms!Slice(p, a, b) = Slice(p, a, b) /\ Xd!Slice(p, a, b) = Slice(p, a, b)
  BY <1>1 DEF Slice, Ms!Slice, Xd!Slice
<1>3. \A n : Ms!Word(n) = Word(n) /\ Xd!Word(n) = Word(n)
  BY DEF Word, Ms!Word, Xd!Word, Half, Ms!Half, Xd!Half, Huge, Ms!Huge, Xd!Huge
<1>4. \A p, i : Ms!U32(p, i) = U32(p, i) /\ Xd!U32(p, i) = U32(p, i)
  BY <1>1 DEF U32, Ms!U32, Xd!U32, U16, Ms!U16, Xd!U16, Huge, Ms!Huge, Xd!Huge
<1> QED BY <1>1, <1>2, <1>3, <1>4

\* A number of four bytes that is no Huge one is read back.
LEMMA WordBytes ==
    ASSUME NEW n \in Nat, n < Huge
    PROVE  Word(n) \in Octets /\ Len(Word(n)) = 4 /\ U32(Word(n), 0) = n
<1> DEFINE a == n \div 65536
           b == (n % 65536) \div 256
           c == (n % 65536) % 256
<1>1. /\ a \in Octet /\ b \in Octet /\ c \in Octet /\ n \div Huge = 0
      /\ n = a * 65536 + (b * 256 + c) /\ (n \div 65536) % 256 = a
  BY DEF Huge, Octet
<1>3. Word(n) = <<0, a>> \o <<b, c>>
  BY <1>1 DEF Word, Half
<1> HIDE DEF a, b, c
<1>6. 0 \in Octet
  BY DEF Octet
<1>2. /\ <<0, a>> \in Octets /\ Len(<<0, a>>) = 2
      /\ <<b, c>> \in Octets /\ Len(<<b, c>>) = 2
  BY <1>1, <1>6 DEF Octets
<1>4. Joined(Word(n), <<0, a>>, <<b, c>>, 2)
  BY <1>2, <1>3, Joining
<1>8. Word(n) \in Octets /\ Len(Word(n)) = 4
  BY <1>2, <1>4 DEF Joined
<1>5. /\ Byte(Word(n), 0) = 0 /\ Byte(Word(n), 0 + 1) = a
      /\ Byte(Word(n), 0 + 2) = b /\ Byte(Word(n), 0 + 2 + 1) = c
  <2>1. /\ Byte(<<0, a>>, 0) = 0 /\ Byte(<<0, a>>, 1) = a
        /\ Byte(<<b, c>>, 0) = b /\ Byte(<<b, c>>, 1) = c
    BY DEF Byte
  <2>2. Byte(Word(n), 2 + 0) = b /\ Byte(Word(n), 2 + 1) = c
    BY <1>4, <2>1 DEF Joined
  <2> QED BY <1>4, <2>1, <2>2 DEF Joined
<1>7. U32(Word(n), 0) = a * 65536 + (b * 256 + c)
  BY <1>5 DEF U32, U16
<1> QED BY <1>1, <1>8, <1>7

\* The bytes of mid stand at an offset of a string, or the string ends within them.
Holds(s, at, mid) ==
    /\ at + Len(mid) <= Len(s)
    /\ \A i \in Nat : i < Len(mid) => Byte(s, at + i) = Byte(mid, i)
EndsWithin(s, at, mid) ==
    /\ at <= Len(s) /\ Len(s) < at + Len(mid)
    /\ \A i \in Nat : at + i < Len(s) => Byte(s, at + i) = Byte(mid, i)

Agree(s, at, mid, n) == \A i \in Nat : i < n => Byte(s, at + i) = Byte(mid, i)

SameSlice(s, at, mid, a, n) == Slice(s, at + a, at + a + n) = Slice(mid, a, a + n)

LEMMA HeldSlice ==
    ASSUME NEW s, NEW at \in Nat, NEW mid, NEW a \in Nat, NEW n \in Nat,
           Agree(s, at, mid, a + n)
    PROVE  SameSlice(s, at, mid, a, n)
<1>1. Same(s, at + a, mid, a, n)
  <2> SUFFICES ASSUME NEW i \in Nat, i < n PROVE Byte(s, at + a + i) = Byte(mid, a + i)
    BY DEF Same
  <2>1. a + i \in Nat /\ a + i < a + n /\ at + (a + i) = at + a + i
    OBVIOUS
  <2> QED BY <2>1 DEF Agree
<1>2. at + a \in Nat
  OBVIOUS
<1> QED BY <1>1, <1>2, SliceEqual DEF SameSlice

LEMMA HeldNumber ==
    ASSUME NEW s, NEW at \in Nat, NEW mid, NEW a \in Nat,
           Agree(s, at, mid, a + 4)
    PROVE  U32(s, at + a) = U32(mid, a)
<1>1. ASSUME NEW i \in 0 .. 3 PROVE Byte(s, at + a + i) = Byte(mid, a + i)
  <2>1. a + i \in Nat /\ a + i < a + 4 /\ at + (a + i) = at + a + i
    OBVIOUS
  <2> QED BY <2>1 DEF Agree
<1>2. Byte(s, at + a) = Byte(mid, a)
  <2>1. Byte(s, at + a + 0) = Byte(mid, a + 0)
    BY <1>1
  <2> QED BY <2>1
<1>3. Byte(s, at + a + 1) = Byte(mid, a + 1) /\ Byte(s, at + a + 2) = Byte(mid, a + 2)
  BY <1>1
<1>4. Byte(s, at + a + 2 + 1) = Byte(mid, a + 2 + 1)
  <2>1. Byte(s, at + a + 3) = Byte(mid, a + 3)
    BY <1>1
  <2> QED BY <2>1
<1> QED BY <1>2, <1>3, <1>4 DEF U32, U16

\* A header, bytes of which there are n and others behind them.
Sized(mid, head, value, rest) ==
    /\ mid \in Octets /\ Len(mid) = Len(head) + Len(value) + rest
    /\ \A i \in Nat : i < Len(head) => Byte(mid, i) = Byte(head, i)
    /\ Slice(mid, Len(head), Len(head) + Len(value)) = value

LEMMA SizedBytes ==
    ASSUME NEW head \in Octets, NEW value \in Octets, NEW tail \in Octets
    PROVE  /\ Sized(head \o value, head, value, 0)
           /\ Sized((head \o value) \o tail, head, value, Len(tail))
           /\ Sized(head \o (value \o tail), head, value, Len(tail))
<1>1. PICK h \in Nat : h = Len(head)
  BY DEF Octets
<1>2. PICK n \in Nat : n = Len(value)
  BY DEF Octets
<1>3. PICK k \in Nat : k = Len(tail)
  BY DEF Octets
<1>4. ASSUME NEW mid \in Octets, NEW rest \in Nat, Len(mid) = h + n + rest,
             \A i \in Nat : i < h => Byte(mid, i) = Byte(head, i),
             \A i \in Nat : i < n => Byte(mid, h + i) = Byte(value, i)
      PROVE  Sized(mid, head, value, rest)
  <2>1. Same(mid, h, value, 0, n)
    BY <1>4 DEF Same
  <2>2. Slice(mid, h, h + n) = Slice(value, 0, 0 + n)
    BY <2>1, SliceEqual
  <2>3. Slice(value, 0, n) = value
    BY <1>2, SliceAll
  <2>4. Slice(mid, h, h + n) = value
    BY <2>2, <2>3
  <2> QED BY <1>1, <1>2, <1>4, <2>4 DEF Sized
<1> DEFINE a == head \o value
           b == value \o tail
<1>5. Joined(a, head, value, h)
  BY <1>1, Joining
<1>6. Joined(b, value, tail, n)
  BY <1>2, Joining
<1> HIDE DEF a, b
<1>7. Sized(a, head, value, 0)
  <2>1. /\ a \in Octets /\ Len(a) = h + n + 0 /\ 0 \in Nat
        /\ \A i \in Nat : i < h => Byte(a, i) = Byte(head, i)
        /\ \A i \in Nat : i < n => Byte(a, h + i) = Byte(value, i)
    BY <1>2, <1>5 DEF Joined
  <2> QED BY <1>4, <2>1
<1>8. Sized(a \o tail, head, value, k)
  <2>1. a \in Octets /\ Len(a) = h + n /\ h + n \in Nat
    BY <1>2, <1>5 DEF Joined
  <2>2. Joined(a \o tail, a, tail, h + n)
    BY <2>1, Joining
  <2> DEFINE c == a \o tail
  <2> HIDE DEF c
  <2>3. c \in Octets /\ Len(c) = h + n + k
    BY <1>3, <2>2 DEF Joined, c
  <2>4. \A i \in Nat : i < h + n => Byte(c, i) = Byte(a, i)
    BY <2>2 DEF Joined, c
  <2>5. \A i \in Nat : i < h => Byte(c, i) = Byte(head, i)
    BY <1>5, <2>4 DEF Joined
  <2>6. \A i \in Nat : i < n => Byte(c, h + i) = Byte(value, i)
    <3> TAKE i \in Nat
    <3>1. i < n => h + i \in Nat /\ h + i < h + n
      OBVIOUS
    <3> QED BY <1>5, <2>4, <3>1 DEF Joined
  <2> QED BY <1>4, <2>3, <2>5, <2>6 DEF c
<1>9. Sized(head \o b, head, value, k)
  <2>a. b \in Octets
    BY <1>6 DEF Joined
  <2>1. Joined(head \o b, head, b, h)
    BY <1>1, <2>a, Joining
  <2> DEFINE c == head \o b
  <2> HIDE DEF c
  <2>2. Len(b) = n + k
    BY <1>3, <1>6 DEF Joined
  <2>3. c \in Octets /\ Len(c) = h + n + k
    BY <2>1, <2>2 DEF Joined, c
  <2>5. \A i \in Nat : i < h => Byte(c, i) = Byte(head, i)
    BY <2>1 DEF Joined, c
  <2>6. \A i \in Nat : i < n => Byte(c, h + i) = Byte(value, i)
    BY <1>6, <2>1 DEF Joined, c
  <2> QED BY <1>4, <2>3, <2>5, <2>6 DEF c
<1> QED BY <1>3, <1>7, <1>8, <1>9 DEF a, b

\* What a reader of a sized value finds where its bytes stand, and where they are cut off.
Found(s, at, mid, head, h, value, rest) ==
    /\ Holds(s, at, mid) =>
         /\ \A i \in Nat : i < h => Byte(s, at + i) = Byte(head, i)
         /\ \A k \in Nat : k + 4 <= h => U32(s, at + k) = U32(head, k)
         /\ Slice(s, at + h, at + h + Len(value)) = value
         /\ Len(s) >= at + h + Len(value) + rest
    /\ EndsWithin(s, at, mid) =>
         /\ Len(s) < at + h + Len(value) + rest
         /\ \A i \in Nat : i < h /\ at + i < Len(s) => Byte(s, at + i) = Byte(head, i)
         /\ Len(s) >= at + h => \A k \in Nat : k + 4 <= h => U32(s, at + k) = U32(head, k)

LEMMA SizedRead ==
    ASSUME NEW s \in Octets, NEW at \in Nat, NEW mid, NEW head \in Octets, NEW value \in Octets,
           NEW rest \in Nat, Sized(mid, head, value, rest), NEW h \in Nat, Len(head) = h
    PROVE  Found(s, at, mid, head, h, value, rest)
<1>1. PICK m \in Nat : m = Len(s)
  BY DEF Octets
<1>2. PICK n \in Nat : n = Len(value)
  BY DEF Octets
<1>3. /\ Len(mid) = h + n + rest
      /\ \A i \in Nat : i < h => Byte(mid, i) = Byte(head, i)
      /\ Slice(mid, h, h + n) = value
  BY <1>2 DEF Sized
<1>4. ASSUME NEW k \in Nat, k + 4 <= h, \A i \in Nat : i < h => Byte(s, at + i) = Byte(head, i)
      PROVE  U32(s, at + k) = U32(head, k)
  <2>1. Agree(s, at, head, k + 4)
    BY <1>4 DEF Agree
  <2> QED BY <2>1, HeldNumber
<1>5. ASSUME Holds(s, at, mid)
      PROVE  /\ \A i \in Nat : i < h => Byte(s, at + i) = Byte(head, i)
             /\ Slice(s, at + h, at + h + n) = value
             /\ m >= at + h + n + rest
  <2>1. m >= at + (h + n + rest) /\ \A i \in Nat : i < h + n + rest => Byte(s, at + i) = Byte(mid, i)
    BY <1>1, <1>3, <1>5 DEF Holds
  <2>2. Agree(s, at, mid, h + n)
    BY <2>1 DEF Agree
  <2>3. Slice(s, at + h, at + h + n) = Slice(mid, h, h + n)
    <3>1. SameSlice(s, at, mid, h, n)
      BY <2>2, HeldSlice
    <3> QED BY <3>1 DEF SameSlice
  <2>4. \A i \in Nat : i < h => Byte(s, at + i) = Byte(head, i)
    BY <1>3, <2>1
  <2> QED BY <1>3, <2>1, <2>3, <2>4
<1>6. ASSUME EndsWithin(s, at, mid)
      PROVE  /\ m < at + h + n + rest
             /\ \A i \in Nat : i < h /\ at + i < m => Byte(s, at + i) = Byte(head, i)
  BY <1>1, <1>3, <1>6 DEF EndsWithin
<1>7. ASSUME EndsWithin(s, at, mid), m >= at + h
      PROVE  \A i \in Nat : i < h => Byte(s, at + i) = Byte(head, i)
  BY <1>6, <1>7
<1> QED BY <1>1, <1>2, <1>4, <1>5, <1>6, <1>7 DEF Found

\* Opaque data of any length an NFS answer or call may have is read back from wherever it
\* stands, with its padding, and is refused if any byte of it or of the padding is missing.
THEOREM OpaqueReadsBack ==
    ASSUME NEW data \in Octets, Len(data) < Huge,
           NEW s \in Octets, NEW at \in Nat, NEW got
    PROVE  LET sized == Xd!OpaqueVar(data)
               fixed == Xd!OpaqueFixed(data)
               r == Xd!At(at, got)
           IN /\ Holds(s, at, sized) =>
                   Xd!TakeVar(r, s) = Xd!At(at + Len(sized), Append(got, data))
              /\ EndsWithin(s, at, sized) => Xd!TakeVar(r, s) = Xd!NoReply
              /\ Holds(s, at, fixed) =>
                   Xd!TakeFixed(r, s, Len(data)) = Xd!At(at + Len(fixed), Append(got, data))
              /\ EndsWithin(s, at, fixed) => Xd!TakeFixed(r, s, Len(data)) = Xd!NoReply
<1>1. PICK n \in Nat : n = Len(data) /\ n < Huge
  BY DEF Octets
<1>2. PICK m \in Nat : m = Len(s)
  BY DEF Octets
<1>3. PICK k \in Nat : k = Xd!Padding(n)
  BY DEF Xd!Padding
<1> DEFINE tail == Zeros(k)
           w == Word(n)
           fixed == data \o tail
           sized == w \o fixed
<1>4. tail \in Octets /\ Len(tail) = k
  BY ZerosOctets
<1>5. w \in Octets /\ Len(w) = 4 /\ U32(w, 0) = n
  BY <1>1, WordBytes
<1>6. <<>> \in Octets /\ Len(<<>>) = 0
  BY DEF Octets
<1>7. Xd!OpaqueFixed(data) = fixed /\ Xd!OpaqueVar(data) = sized
  BY <1>1, <1>3, SameBytes DEF Xd!OpaqueFixed, Xd!OpaqueVar, Xd!Zeros, Zeros
<1> HIDE DEF tail, w
<1>8. Sized(sized, w, data, k)
  BY <1>4, <1>5, SizedBytes
<1>9. Sized(fixed, <<>>, data, k)
  <2>1. Joined(fixed, data, tail, n)
    BY <1>1, <1>4, Joining
  <2>2. Same(fixed, 0, data, 0, n)
    BY <2>1 DEF Same, Joined
  <2>3. Slice(fixed, 0, 0 + n) = Slice(data, 0, 0 + n)
    BY <2>2, SliceEqual
  <2>4. Slice(data, 0, n) = data
    BY <1>1, SliceAll
  <2> HIDE DEF fixed
  <2> QED BY <1>1, <1>4, <1>6, <2>1, <2>3, <2>4 DEF Sized, Joined
<1> HIDE DEF fixed, sized
<1>10. ASSUME NEW a \in Nat
       PROVE  Xd!TakeFixed(Xd!At(a, got), s, n) =
                IF m >= a + n + k THEN Xd!At(a + n + k, Append(got, Slice(s, a, a + n)))
                ELSE Xd!NoReply
  <2> DEFINE r == Xd!At(a, got)
  <2>1. r.ok /\ r.at = a /\ r.got = got
    BY DEF Xd!At
  <2>2. Xd!Fits(s, a, n + k) <=> m >= a + n + k
    BY <1>2 DEF Xd!Fits
  <2> HIDE DEF r
  <2>3. Xd!TakeFixed(r, s, n) = IF m >= a + n + k
                                THEN Xd!At(a + n + k, Append(got, Xd!Slice(s, a, a + n)))
                                ELSE Xd!NoReply
    BY <1>3, <2>1, <2>2 DEF Xd!TakeFixed
  <2> QED BY <2>3, SameBytes DEF r
<1>11. Xd!TakeVar(Xd!At(at, got), s) =
         IF m >= at + 4 THEN Xd!TakeFixed(Xd!At(at + 4, got), s, U32(s, at)) ELSE Xd!NoReply
  BY <1>2, SameBytes DEF Xd!TakeVar, Xd!At, Xd!Fits
<1>12. Len(sized) = 4 + n + k /\ Len(fixed) = n + k
  BY <1>1, <1>5, <1>6, <1>8, <1>9 DEF Sized
<1>f. Found(s, at, sized, w, 4, data, k)
  <2>1. 4 \in Nat
    OBVIOUS
  <2> QED BY <1>5, <1>8, <2>1, SizedRead
<1>g. Found(s, at, fixed, <<>>, 0, data, k)
  <2>1. 0 \in Nat
    OBVIOUS
  <2> QED BY <1>6, <1>9, <2>1, SizedRead
<1>13. ASSUME Holds(s, at, sized)
       PROVE  Xd!TakeVar(Xd!At(at, got), s) = Xd!At(at + Len(sized), Append(got, data))
  <2>1. /\ \A x \in Nat : x + 4 <= 4 => U32(s, at + x) = U32(w, x)
        /\ Slice(s, at + 4, at + 4 + n) = data /\ m >= at + 4 + n + k
    BY <1>1, <1>2, <1>f, <1>13 DEF Found
  <2>2. U32(s, at + 0) = n
    BY <1>5, <2>1
  <2>3. U32(s, at) = n
    BY <2>2
  <2>4. at + 4 \in Nat /\ m >= at + 4 /\ at + 4 + n + k = at + (4 + n + k)
    BY <2>1
  <2> QED BY <1>10, <1>11, <1>12, <2>1, <2>3, <2>4
<1>14. ASSUME EndsWithin(s, at, sized)
       PROVE  Xd!TakeVar(Xd!At(at, got), s) = Xd!NoReply
  <2>1. /\ m < at + 4 + n + k
        /\ m >= at + 4 => \A x \in Nat : x + 4 <= 4 => U32(s, at + x) = U32(w, x)
    BY <1>1, <1>2, <1>f, <1>14 DEF Found
  <2>2. m >= at + 4 => U32(s, at + 0) = n
    BY <1>5, <2>1
  <2>3. m >= at + 4 => U32(s, at) = n
    BY <2>2
  <2>4. at + 4 \in Nat /\ ~(m >= at + 4 + n + k)
    BY <2>1
  <2> QED BY <1>10, <1>11, <2>3, <2>4
<1>15. ASSUME Holds(s, at, fixed)
       PROVE  Xd!TakeFixed(Xd!At(at, got), s, n) = Xd!At(at + Len(fixed), Append(got, data))
  <2>1. Slice(s, at + 0, at + 0 + n) = data /\ m >= at + 0 + n + k
    BY <1>1, <1>2, <1>g, <1>15 DEF Found
  <2>2. at + 0 = at /\ at + n + k = at + (n + k) /\ m >= at + n + k
    BY <2>1
  <2> QED BY <1>10, <1>12, <2>1, <2>2
<1>16. ASSUME EndsWithin(s, at, fixed)
       PROVE  Xd!TakeFixed(Xd!At(at, got), s, n) = Xd!NoReply
  <2>1. m < at + 0 + n + k
    BY <1>1, <1>2, <1>g, <1>16 DEF Found
  <2>2. ~(m >= at + n + k)
    BY <2>1
  <2> QED BY <1>10, <2>2
<1> QED BY <1>1, <1>7, <1>13, <1>14, <1>15, <1>16

\* The fields a message may have, with values of a length that a field can state.
Sizes == [t \in {Ms!UInt8, Ms!UInt16, Ms!UInt32} |->
            IF t = Ms!UInt8 THEN 1 ELSE IF t = Ms!UInt16 THEN 2 ELSE 4]
IsField(f) ==
    /\ f.value \in Octets /\ f = Ms!Field(f.type, f.value)
    /\ \/ f.type \in DOMAIN Sizes /\ Len(f.value) = Sizes[f.type]
       \/ f.type = Ms!Binary /\ Len(f.value) < Huge
       \/ /\ f.type = Ms!String16 /\ Len(f.value) % 2 = 0
          /\ Len(f.value) \div 2 + 1 < Huge

\* A field of any type and value is read back from wherever it stands in a stream, and
\* what follows it is left; no part of it is taken for it when the stream ends within it.
ReadsBack(f, s, at, fields) ==
    LET bytes == Ms!FieldToBytes(f)
        read == Ms!ReadField(Ms!Reader(at, fields), s, f.type)
    IN /\ Holds(s, at, bytes) => read = Ms!Reader(at + Len(bytes), Append(fields, f))
       /\ EndsWithin(s, at, bytes) => read = Ms!Failed

LEMMA NumberReadsBack ==
    ASSUME NEW f, IsField(f), f.type \in DOMAIN Sizes,
           NEW s \in Octets, NEW at \in Nat, NEW fields
    PROVE  ReadsBack(f, s, at, fields)
<1> DEFINE t == f.type
           v == f.value
           head == <<t>>
           mid == head \o v
           r == Ms!Reader(at, fields)
<1>1. /\ t \in {Ms!UInt8, Ms!UInt16, Ms!UInt32} /\ v \in Octets /\ f = Ms!Field(t, v)
      /\ t \notin {Ms!Binary, Ms!String16} /\ t \in Octet
      /\ Len(v) = IF t = Ms!UInt8 THEN 1 ELSE IF t = Ms!UInt16 THEN 2 ELSE 4
  <2>1. /\ t \in {Ms!UInt8, Ms!UInt16, Ms!UInt32} /\ v \in Octets /\ f = Ms!Field(t, v)
    BY DEF IsField, Sizes
  <2>2. t \notin {Ms!Binary, Ms!String16} /\ t \in Octet
    BY <2>1 DEF Ms!UInt8, Ms!UInt16, Ms!UInt32, Ms!Binary, Ms!String16, Octet
  <2>3. Len(v) = Sizes[t]
    BY <2>2 DEF IsField
  <2>4. Sizes[t] = IF t = Ms!UInt8 THEN 1 ELSE IF t = Ms!UInt16 THEN 2 ELSE 4
    BY <2>1 DEF Sizes
  <2> QED BY <2>1, <2>2, <2>3, <2>4
<1>2. PICK n \in Nat : n = Len(v)
  BY <1>1
<1>3. PICK m \in Nat : m = Len(s)
  BY DEF Octets
<1>4. Ms!FieldToBytes(f) = mid
  BY <1>1 DEF Ms!FieldToBytes
<1>5. r.ok /\ r.at = at /\ r.fields = fields
  BY DEF Ms!Reader
<1> HIDE DEF r, t, v
<1>6. head \in Octets /\ Len(head) = 1 /\ Byte(head, 0) = t
  BY <1>1 DEF Octets, Byte
<1> HIDE DEF head
<1>7. Sized(mid, head, v, 0)
  <2>1. <<>> \in Octets
    BY DEF Octets
  <2> QED BY <1>1, <1>6, <2>1, SizedBytes
<1> HIDE DEF mid
<1>8. Found(s, at, mid, head, 1, v, 0)
  <2>1. 0 \in Nat /\ 1 \in Nat
    OBVIOUS
  <2> QED BY <1>1, <1>6, <1>7, <2>1, SizedRead
<1>9. Ms!ReadField(r, s, t) =
        IF Byte(s, at) # t \/ ~(m >= at + 1) \/ ~(m >= at + 1 + n) THEN Ms!Failed
        ELSE Ms!Reader(at + 1 + n, Append(fields, Ms!Field(t, Slice(s, at + 1, at + 1 + n))))
  <2>1. /\ Ms!Fits(s, at + 1, 0) <=> m >= at + 1
        /\ Ms!Fits(s, at + 1, n) <=> m >= at + 1 + n
    BY <1>3 DEF Ms!Fits
  <2>2. /\ t \in {Ms!UInt8, Ms!UInt16, Ms!UInt32} /\ t \notin {Ms!Binary, Ms!String16}
        /\ t # Ms!String16
        /\ n = IF t = Ms!UInt8 THEN 1 ELSE IF t = Ms!UInt16 THEN 2 ELSE 4
    BY <1>1, <1>2
  <2>3. n = CASE t = Ms!UInt8 -> 1
              [] t = Ms!UInt16 -> 2
              [] t = Ms!UInt32 -> 4
              [] t = Ms!Binary -> Ms!U32(s, at + 1)
              [] t = Ms!String16 -> 2 * Ms!U32(s, at + 1)
    BY <2>2 DEF Ms!UInt8, Ms!UInt16, Ms!UInt32, Ms!Binary, Ms!String16
  <2> DEFINE size == CASE t = Ms!UInt8 -> 1
              [] t = Ms!UInt16 -> 2
              [] t = Ms!UInt32 -> 4
              [] t = Ms!Binary -> Ms!U32(s, at + 1)
              [] t = Ms!String16 -> 2 * Ms!U32(s, at + 1)
             kept == IF t = Ms!String16 THEN Ms!MostOf(size - 2, 0) ELSE size
             from == IF t \in {Ms!Binary, Ms!String16} THEN at + 5 ELSE at + 1
  <2>4. Ms!ReadField(r, s, t) =
          IF ~r.ok THEN Ms!Failed
          ELSE IF Ms!Byte(s, r.at) # t \/ ~Ms!Fits(s, from, 0) \/ ~Ms!Fits(s, from, size)
          THEN Ms!Failed
          ELSE Ms!Reader(from + size,
                 Append(r.fields, Ms!Field(t, Ms!Slice(s, from, from + kept))))
    BY <1>5 DEF Ms!ReadField
  <2>5. size = n /\ kept = n /\ from = at + 1
    BY <2>2, <2>3
  <2> HIDE DEF size, kept, from
  <2> QED BY <1>5, <2>1, <2>4, <2>5, SameBytes
<1>10. Holds(s, at, mid) =>
         Ms!ReadField(r, s, t) = Ms!Reader(at + Len(mid), Append(fields, f))
  <2> SUFFICES ASSUME Holds(s, at, mid)
               PROVE  Ms!ReadField(r, s, t) = Ms!Reader(at + Len(mid), Append(fields, f))
    OBVIOUS
  <2>1. /\ \A i \in Nat : i < 1 => Byte(s, at + i) = Byte(head, i)
        /\ Slice(s, at + 1, at + 1 + n) = v /\ m >= at + 1 + n + 0
    BY <1>2, <1>3, <1>8 DEF Found
  <2>2. Byte(s, at + 0) = t
    BY <1>6, <2>1
  <2>3. Byte(s, at) = t /\ m >= at + 1 /\ m >= at + 1 + n
    BY <2>1, <2>2
  <2>4. at + Len(mid) = at + 1 + n
    BY <1>2, <1>6, <1>7 DEF Sized
  <2> QED BY <1>1, <1>9, <2>1, <2>3, <2>4
<1>11. EndsWithin(s, at, mid) => Ms!ReadField(r, s, t) = Ms!Failed
  <2> SUFFICES ASSUME EndsWithin(s, at, mid) PROVE Ms!ReadField(r, s, t) = Ms!Failed
    OBVIOUS
  <2>1. m < at + 1 + n + 0
    BY <1>2, <1>3, <1>8 DEF Found
  <2>2. ~(m >= at + 1 + n)
    BY <2>1
  <2> QED BY <1>9, <2>2
<1> QED BY <1>4, <1>10, <1>11 DEF ReadsBack, r, t

LEMMA SizedFieldReadsBack ==
    ASSUME NEW f, IsField(f), f.type \in {Ms!Binary, Ms!String16},
           NEW s \in Octets, NEW at \in Nat, NEW fields
    PROVE  ReadsBack(f, s, at, fields)
<1> DEFINE t == f.type
           v == f.value
           k == IF t = Ms!Binary THEN Len(v) ELSE Len(v) \div 2 + 1
           tail == IF t = Ms!Binary THEN <<>> ELSE <<0, 0>>
           rest == IF t = Ms!Binary THEN 0 ELSE 2
           head == <<t>> \o Word(k)
           mid == IF t = Ms!Binary THEN head \o v ELSE head \o v \o tail
           r == Ms!Reader(at, fields)
<1>1. /\ t \in {Ms!Binary, Ms!String16} /\ v \in Octets /\ f = Ms!Field(t, v)
      /\ t \notin {Ms!UInt8, Ms!UInt16, Ms!UInt32} /\ t \in Octet
      /\ Ms!Binary # Ms!String16 /\ tail \in Octets /\ Len(tail) = rest
  <2>1. /\ t \in {Ms!Binary, Ms!String16} /\ v \in Octets /\ f = Ms!Field(t, v)
    BY DEF IsField
  <2>2. t \notin {Ms!UInt8, Ms!UInt16, Ms!UInt32} /\ t \in Octet /\ Ms!Binary # Ms!String16
    BY <2>1 DEF Ms!UInt8, Ms!UInt16, Ms!UInt32, Ms!Binary, Ms!String16, Octet
  <2>3. tail \in Octets /\ Len(tail) = rest
    <3>1. <<>> \in Octets /\ Len(<<>>) = 0
      BY DEF Octets
    <3>2. <<0, 0>> \in Octets /\ Len(<<0, 0>>) = 2
      BY DEF Octets, Octet
    <3> QED BY <3>1, <3>2
  <2> QED BY <2>1, <2>2, <2>3
<1>2. PICK n \in Nat : n = Len(v)
  BY <1>1
<1>3. PICK m \in Nat : m = Len(s)
  BY DEF Octets
<1>4. Ms!FieldToBytes(f) = mid
  BY <1>1, SameBytes DEF Ms!FieldToBytes
<1>5. r.ok /\ r.at = at /\ r.fields = fields
  BY DEF Ms!Reader
<1>a. /\ k \in Nat /\ k < Huge /\ rest \in Nat
      /\ t = Ms!Binary => n = k /\ rest = 0
      /\ t # Ms!Binary => 2 * k = n + 2 /\ rest = 2
  <2>1. t = Ms!Binary => n < Huge
    BY <1>1, <1>2 DEF IsField, Sizes, Ms!UInt8, Ms!UInt16, Ms!UInt32, Ms!Binary, Ms!String16
  <2>2. t # Ms!Binary => n % 2 = 0 /\ n \div 2 + 1 < Huge
    BY <1>1, <1>2 DEF IsField, Sizes, Ms!UInt8, Ms!UInt16, Ms!UInt32, Ms!Binary, Ms!String16
  <2>3. n % 2 = 0 => n = 2 * (n \div 2)
    OBVIOUS
  <2>4. n \div 2 \in Nat
    OBVIOUS
  <2>5. CASE t = Ms!Binary
    <3>1. k = n /\ rest = 0
      BY <1>2, <2>5
    <3> HIDE DEF k, rest
    <3> QED BY <2>1, <2>5, <3>1
  <2>6. CASE t # Ms!Binary
    <3>1. k = n \div 2 + 1 /\ rest = 2
      BY <1>2, <2>6
    <3> HIDE DEF k, rest
    <3> QED BY <2>2, <2>3, <2>4, <2>6, <3>1
  <2> QED BY <2>5, <2>6
<1> HIDE DEF r, t, v, k, rest, tail
<1>b. Word(k) \in Octets /\ Len(Word(k)) = 4 /\ U32(Word(k), 0) = k
  BY <1>a, WordBytes
<1>6. head \in Octets /\ Len(head) = 5 /\ Byte(head, 0) = t /\ U32(head, 1) = k
  <2>1. <<t>> \in Octets /\ Len(<<t>>) = 1 /\ Byte(<<t>>, 0) = t
    BY <1>1 DEF Octets, Byte
  <2>2. Joined(head, <<t>>, Word(k), 1)
    BY <1>b, <2>1, Joining
  <2> HIDE DEF head
  <2>3. Agree(head, 1, Word(k), 0 + 4)
    BY <2>2 DEF Joined, Agree
  <2>4. U32(head, 1 + 0) = U32(Word(k), 0)
    BY <2>3, HeldNumber
  <2>5. Byte(head, 0) = t
    BY <2>1, <2>2 DEF Joined
  <2> QED BY <1>b, <2>1, <2>2, <2>4, <2>5 DEF Joined
<1> HIDE DEF head
<1>7. Sized(mid, head, v, rest)
  <2>1. CASE t = Ms!Binary
    BY <1>1, <1>6, <1>a, <2>1, SizedBytes
  <2>2. CASE t # Ms!Binary
    BY <1>1, <1>6, <1>a, <2>2, SizedBytes
  <2> QED BY <2>1, <2>2
<1> HIDE DEF mid
<1>8. Found(s, at, mid, head, 5, v, rest)
  <2>1. rest \in Nat /\ 5 \in Nat
    BY <1>a
  <2> QED BY <1>1, <1>6, <1>7, <2>1, SizedRead
<1>9. ASSUME U32(s, at + 1) = k
      PROVE  Ms!ReadField(r, s, t) =
        IF Byte(s, at) # t \/ ~(m >= at + 5) \/ ~(m >= at + 5 + n + rest) THEN Ms!Failed
        ELSE Ms!Reader(at + 5 + n + rest,
               Append(fields, Ms!Field(t, Slice(s, at + 5, at + 5 + n))))
  <2> DEFINE size == CASE t = Ms!UInt8 -> 1
              [] t = Ms!UInt16 -> 2
              [] t = Ms!UInt32 -> 4
              [] t = Ms!Binary -> Ms!U32(s, at + 1)
              [] t = Ms!String16 -> 2 * Ms!U32(s, at + 1)
             kept == IF t = Ms!String16 THEN Ms!MostOf(size - 2, 0) ELSE size
             from == IF t \in {Ms!Binary, Ms!String16} THEN at + 5 ELSE at + 1
  <2>4. Ms!ReadField(r, s, t) =
          IF ~r.ok THEN Ms!Failed
          ELSE IF Ms!Byte(s, r.at) # t \/ ~Ms!Fits(s, from, 0) \/ ~Ms!Fits(s, from, size)
          THEN Ms!Failed
          ELSE Ms!Reader(from + size,
                 Append(r.fields, Ms!Field(t, Ms!Slice(s, from, from + kept))))
    BY <1>5 DEF Ms!ReadField
  <2>1. Ms!U32(s, at + 1) = k
    BY <1>9, SameBytes
  <2>2. size = n + rest
    <3>1. CASE t = Ms!Binary
      BY <1>1, <1>a, <2>1, <3>1
    <3>2. CASE t = Ms!String16
      BY <1>1, <1>a, <2>1, <3>2
    <3> QED BY <1>1, <3>1, <3>2
  <2>3. from = at + 5
    BY <1>1
  <2> HIDE DEF size, from
  <2>5. kept = n
    BY <1>1, <1>a, <2>2 DEF Ms!MostOf
  <2> HIDE DEF kept
  <2>6. /\ Ms!Fits(s, at + 5, 0) <=> m >= at + 5
        /\ Ms!Fits(s, at + 5, n + rest) <=> m >= at + 5 + n + rest
        /\ at + 5 + (n + rest) = at + 5 + n + rest
    BY <1>3, <1>a DEF Ms!Fits
  <2> QED BY <1>5, <2>2, <2>3, <2>4, <2>5, <2>6, SameBytes
<1>c. ~(m >= at + 5) => Ms!ReadField(r, s, t) = Ms!Failed
  <2>1. Ms!Fits(s, at + 5, 0) <=> m >= at + 5
    BY <1>3 DEF Ms!Fits
  <2> QED BY <1>1, <1>5, <2>1 DEF Ms!ReadField
<1>10. Holds(s, at, mid) =>
         Ms!ReadField(r, s, t) = Ms!Reader(at + Len(mid), Append(fields, f))
  <2> SUFFICES ASSUME Holds(s, at, mid)
               PROVE  Ms!ReadField(r, s, t) = Ms!Reader(at + Len(mid), Append(fields, f))
    OBVIOUS
  <2>1. /\ \A i \in Nat : i < 5 => Byte(s, at + i) = Byte(head, i)
        /\ \A x \in Nat : x + 4 <= 5 => U32(s, at + x) = U32(head, x)
        /\ Slice(s, at + 5, at + 5 + n) = v /\ m >= at + 5 + n + rest
    BY <1>2, <1>3, <1>8 DEF Found
  <2>2. Byte(s, at + 0) = t /\ U32(s, at + 1) = k
    BY <1>6, <2>1
  <2>3. Byte(s, at) = t /\ m >= at + 5
    BY <1>a, <2>1, <2>2
  <2>4. at + Len(mid) = at + 5 + n + rest
    BY <1>2, <1>6, <1>7, <1>a DEF Sized
  <2> QED BY <1>1, <1>9, <2>1, <2>2, <2>3, <2>4
<1>11. EndsWithin(s, at, mid) => Ms!ReadField(r, s, t) = Ms!Failed
  <2> SUFFICES ASSUME EndsWithin(s, at, mid), m >= at + 5
               PROVE  Ms!ReadField(r, s, t) = Ms!Failed
    BY <1>c
  <2>1. /\ m < at + 5 + n + rest
        /\ \A x \in Nat : x + 4 <= 5 => U32(s, at + x) = U32(head, x)
    BY <1>2, <1>3, <1>8 DEF Found
  <2>2. ~(m >= at + 5 + n + rest)
    BY <1>a, <2>1
  <2>3. U32(s, at + 1) = k
    BY <1>6, <2>1
  <2> QED BY <1>9, <2>2, <2>3
<1> QED BY <1>4, <1>10, <1>11 DEF ReadsBack, r, t

\* Every field of a remote database message is read back from wherever it stands in the
\* stream of a connection, and is refused if the stream ends within it.
THEOREM FieldReadsBack ==
    ASSUME NEW f, IsField(f), NEW s \in Octets, NEW at \in Nat, NEW fields
    PROVE  ReadsBack(f, s, at, fields)
<1>1. f.type \in DOMAIN Sizes \/ f.type \in {Ms!Binary, Ms!String16}
  BY DEF IsField
<1> QED BY <1>1, NumberReadsBack, SizedFieldReadsBack

-----------------------------------------------------------------------------
(* Wire: everything on its way, whole or cut off.                           *)

LEMMA StatusOctets ==
    ASSUME NEW host \in AnyHost
    PROVE  MakeStatusPacket(host) \in Octets
<1> DEFINE body == <<1, 3, host.id, 0, 248, host.id>>
           fixed == Framed(10, host, body)
           e(i) == CASE i <= Len(fixed) -> fixed[i]
                     [] i - 1 \in (146..147) \cup (160..163) \cup {165} -> 255
                     [] i - 1 \in {38, 164} -> 1
                     [] i - 1 = 137 -> 156
                     [] i - 1 \in {141, 153, 193, 197} -> 16
                     [] i - 1 = 204 -> 15
                     [] OTHER -> 0
<1>1. host.name \in Octets /\ body \in Octets /\ 10 \in Octet /\ 20 \in Nat
  BY DEF AnyHost, Octets, Octet
<1>2. fixed \in Octets
  <2> HIDE DEF body
  <2> QED BY <1>1, FramedBytes DEF Framed, IsFrame
<1>3. MakeStatusPacket(host) = [i \in 1..284 |-> e(i)]
  BY DEF MakeStatusPacket
<1> HIDE DEF fixed
<1>4. \A i \in 1..284 : e(i) \in Octet
  <2> TAKE i \in 1..284
  <2>1. PICK n \in Nat : n = Len(fixed)
    BY <1>2 DEF Octets
  <2>2. i <= n => fixed[i] \in Octet
    BY <1>2, <2>1, ElementOfSeq DEF Octets
  <2>3. 255 \in Octet /\ 156 \in Octet /\ 16 \in Octet /\ 15 \in Octet /\ 0 \in Octet /\ 1 \in Octet
    BY DEF Octet
  <2> HIDE DEF Octet
  <2> QED BY <2>1, <2>2, <2>3
<1> HIDE DEF e
<1>5. [i \in 1..284 |-> e(i)] \in Seq(Octet)
  BY <1>4, IsASeq
<1> QED BY <1>3, <1>5 DEF Octets

\* What is sent, by the port it goes to and what it is to be taken for.
LEMMA SentPackets ==
    ASSUME NEW host, NEW peer, NEW p \in Sent(host, peer)
    PROVE  \/ p.port = "announce" /\ p.as = "device" /\ p.bytes \in Announcing(host)
           \/ p.port = "announce" /\ p.as = "nothing" /\ p.bytes \in Starting(host)
           \/ p.port = "status" /\ p.as = "status" /\ p.bytes \in Playing(host)
           \/ p.port = "status" /\ p.as = "nothing" /\ p.bytes \in Asking(host, peer)
           \/ p.port = "beat" /\ p.as = "nothing" /\ p.bytes \in Commanding(host, peer)
<1>1. ASSUME NEW port, NEW as, NEW all, p \in Outgoing(port, as, all)
      PROVE  p.port = port /\ p.as = as /\ p.bytes \in all
  <2>1. PICK b \in all : p = [port |-> port, as |-> as, bytes |-> b]
    BY <1>1 DEF Outgoing
  <2> QED BY <2>1
<1> QED BY <1>1 DEF Sent

\* Every packet the crate sends is bytes, for a listener of some port.
LEMMA SentOctets ==
    ASSUME NEW host \in AnyHost, NEW peer \in AnyHost, NEW p \in Sent(host, peer)
    PROVE  p.bytes \in Octets /\ p.port \in {"announce", "status", "beat"}
<1> DEFINE name(n) == Padded(host.name, n)
<1>1. /\ host.name \in Octets /\ host.id \in Octet /\ host.type \in Octet
      /\ host.mac \in Octets /\ host.ip \in Octets /\ peer.id \in Octet
  BY DEF AnyHost
<1>2. \A s, t \in Octets : s \o t \in Octets
  BY OctetsJoin
<1>3. Magic \in Octets /\ (\A n \in Nat : Zeros(n) \in Octets) /\ name(19) \in Octets /\ name(20) \in Octets
  BY <1>1, MagicOctets, ZerosOctets, PaddedOctets
<1>4. ASSUME NEW type \in Octet, NEW structure \in Octet, NEW length \in Octet, NEW body \in Octets
      PROVE  Announced(type, host, structure, length, body) \in Octets
  BY AnnouncedBytes DEF IsAnnounce
<1>5. ASSUME NEW type \in Octet, NEW body \in Octets
      PROVE  Framed(type, host, body) \in Octets
  <2>1. <<type>> \in Octets
    BY DEF Octets
  <2> QED BY <1>2, <1>3, <2>1 DEF Framed
<1>6. /\ \A n \in 0 .. 255 : n \in Octet
      /\ 0 \in Octet /\ 1 \in Octet /\ 2 \in Octet /\ 3 \in Octet /\ 4 \in Octet /\ 10 \in Octet
      /\ 37 \in Octet /\ 38 \in Octet /\ 44 \in Octet /\ 50 \in Octet
  BY DEF Octet
<1> HIDE DEF name
<1>7. MakePrefWrite(host, 129, 130) \in Octets
  <2>1. /\ <<107>> \in Octets /\ <<3, 1, 3, 58, 0, 80, 1>> \in Octets /\ <<129>> \in Octets
        /\ <<130>> \in Octets
    BY DEF Octets, Octet
  <2> QED BY <1>2, <1>3, <2>1 DEF MakePrefWrite, name
<1>8. MakeMediaSlotRequest(host, peer, 3) \in Octets
  <2>1. <<1, 0, host.id, 0, 12>> \in Octets /\ <<0, 0, 0, peer.id, 0, 0, 0, 3>> \in Octets
    BY <1>1, <1>6 DEF Octets
  <2> QED BY <1>1, <1>2, <1>5, <1>6, <2>1 DEF MakeMediaSlotRequest
<1>9. MakeStagehand0a(host) \in Octets /\ MakeStagehand02(host, 1) \in Octets
  <2>1. <<Stagehand>> \in Octets /\ <<58, 1, Stagehand, 1>> \in Octets
    BY DEF Octets, Octet, Stagehand
  <2>2. host.ip \o host.mac \o <<58, 1, Stagehand, 1>> \in Octets
    BY <1>1, <1>2, <2>1
  <2>3. MakeStagehand0a(host) \in Octets
    BY <1>4, <1>6, <2>1 DEF MakeStagehand0a
  <2> QED BY <1>4, <1>6, <2>2, <2>3 DEF MakeStagehand02
<1>10. ASSUME Heartbeat(host, peer) # <<>> PROVE Heartbeat(host, peer) \in Octets
  <2>1. /\ <<58>> \in Octets /\ <<33, 2, 0, 254, 0, 4, 0, 28, 0, 0>> \in Octets
        /\ <<104>> \in Octets /\ <<3, 1, 0, 58, 0, 0>> \in Octets
    BY DEF Octets, Octet
  <2>2. MakeMixerHeartbeat(host) \in Octets /\ MakePlayerHeartbeat(host) \in Octets
    BY <1>2, <1>3, <2>1 DEF MakeMixerHeartbeat, MakePlayerHeartbeat, name
  <2>3. Heartbeat(host, peer) \in {<<>>, MakeMixerHeartbeat(host), MakePlayerHeartbeat(host)}
    BY DEF Heartbeat, Mixer, Cdj
  <2> QED BY <1>10, <2>2, <2>3
<1>11. MakeTransport(host, 15, 1, 171) \in Octets
  <2>1. <<1, 3, 171, 0, 48, 0, 0, 0, 0, 58, 0, 0, 0, 15, 0, 1>> \in Octets
    BY DEF Octets, Octet
  <2> QED BY <1>2, <1>3, <1>5, <1>6, <2>1 DEF MakeTransport
<1>12. /\ MakeStage0a(host) \in Octets /\ MakeStage00(host, 1) \in Octets
       /\ MakeStage02(host, 2) \in Octets /\ MakeStage04(host, 3) \in Octets
  <2>1. Structure(host) \in Octet
    BY <1>6 DEF Structure
  <2>2. /\ <<1, 64>> \in Octets /\ <<1>> \in Octets /\ <<1, 1>> \in Octets
        /\ <<host.id, 2, 48, 1, 1>> \in Octets /\ <<host.id, 3>> \in Octets
    BY <1>1, <1>6 DEF Octets
  <2>3. MakeStage0a(host) \in Octets
    BY <1>4, <1>6, <2>2 DEF MakeStage0a
  <2>4. MakeStage00(host, 1) \in Octets
    BY <1>1, <1>2, <1>4, <1>6, <2>1, <2>2 DEF MakeStage00
  <2>5. MakeStage02(host, 2) \in Octets
    BY <1>1, <1>2, <1>4, <1>6, <2>1, <2>2 DEF MakeStage02
  <2>6. MakeStage04(host, 3) \in Octets
    BY <1>1, <1>2, <1>4, <1>6, <2>1, <2>2 DEF MakeStage04
  <2> QED BY <2>3, <2>4, <2>5, <2>6
<1>13. ASSUME NEW cued \in BOOLEAN PROVE MakePlaystate(host, peer, cued) \in Octets
  <2> DEFINE slots == [i \in 1..4 |-> IF cued /\ i - 1 = peer.id THEN 1 ELSE 0]
  <2>1. slots \in Octets
    <3>1. \A i \in 1..4 : (IF cued /\ i - 1 = peer.id THEN 1 ELSE 0) \in Octet
      BY DEF Octet
    <3> QED BY <3>1, IsASeq DEF Octets
  <2>2. <<1, 0, host.id, 0, 4>> \in Octets
    BY <1>1, <1>6 DEF Octets
  <2>3. MakePlaystate(host, peer, cued) = Framed(2, host, <<1, 0, host.id, 0, 4>> \o slots)
    BY DEF MakePlaystate
  <2> HIDE DEF slots
  <2> QED BY <1>2, <1>5, <1>6, <2>1, <2>2, <2>3
<1>14. /\ MakeAnnouncePacket(host) \in Octets /\ MakeStagehand06(host) \in Octets
       /\ MakeStage06(host, 2) \in Octets
  <2>1. \A a \in Announcements(host) : a.bytes \in Octets
    BY AnnouncementsAnnounce DEF Announces
  <2>2. 2 \in Octet
    BY <1>6
  <2>3. /\ [bytes |-> MakeAnnouncePacket(host), type |-> host.type] \in Announcements(host)
        /\ [bytes |-> MakeStagehand06(host), type |-> Stagehand] \in Announcements(host)
        /\ [bytes |-> MakeStage06(host, 2), type |-> 0] \in Announcements(host)
    BY <2>2 DEF Announcements
  <2> QED BY <2>1, <2>3
<1>15. MakeStatusPacket(host) \in Octets
  BY StatusOctets
<1>16. /\ \A b \in Announcing(host) \cup Starting(host) \cup Playing(host) : b \in Octets
       /\ \A b \in Asking(host, peer) \cup Commanding(host, peer) : b \in Octets
  BY <1>7, <1>8, <1>9, <1>10, <1>11, <1>12, <1>13, <1>14, <1>15
     DEF Announcing, Starting, Playing, Asking, Commanding
<1> QED BY <1>16, SentPackets

LEMMA OctetsUnbroken ==
    ASSUME NEW b \in Octets
    PROVE  ~Broken(b)
<1> SUFFICES ASSUME NEW i \in 1 .. Len(b), b[i] = Panic PROVE FALSE
  BY DEF Broken
<1>1. b[i] \in Octet
  BY ElementOfSeq DEF Octets
<1> QED BY <1>1 DEF Panic, Octet

LEMMA HalfOctets ==
    ASSUME NEW n \in Nat, n < 65536
    PROVE  /\ Half(n) \in Octets /\ Len(Half(n)) = 2
           /\ Byte(Half(n), 0) * 256 + Byte(Half(n), 1) = n
<1> DEFINE a == n \div 256
           b == n % 256
<1>1. a \in Octet /\ b \in Octet /\ a * 256 + b = n
  BY DEF Octet
<1>2. Half(n) = <<a, b>>
  BY DEF Half
<1> HIDE DEF a, b
<1>3. <<a, b>> \in Octets /\ Len(<<a, b>>) = 2 /\ Byte(<<a, b>>, 0) = a /\ Byte(<<a, b>>, 1) = b
  BY <1>1 DEF Octets, Byte
<1>4. Byte(Half(n), 0) = a /\ Byte(Half(n), 1) = b
  BY <1>2, <1>3
<1> QED BY <1>1, <1>2, <1>3, <1>4

LEMMA FrameOctets ==
    ASSUME NEW f, IsEthernet(f)
    PROVE  FrameOf(f) \in Octets
<1>1. /\ f.options \in Octets /\ f.payload \in Octets /\ f.padding \in Octets
      /\ f.sender \in Octets /\ f.receiver \in Octets /\ f.port \in Octets
      /\ f.tag \in Octets
  <2>1. <<>> \in Octets
    BY DEF Octets
  <2> QED BY <2>1 DEF IsEthernet, Long
<1>2. PICK k \in 0 .. 10 : Len(f.options) = 4 * k
  BY DEF IsEthernet
<1>3. PICK m \in Nat : m = Len(f.payload)
  BY <1>1 DEF Octets
<1>4. 4 * k + m <= Room
  <2>1. Carried(f) <= Room
    BY DEF IsEthernet
  <2>2. Carried(f) = 4 * k + m
    BY <1>2, <1>3 DEF Carried
  <2> QED BY <2>1, <2>2
<1> DEFINE first == <<69 + ((4 * k) \div 4), 0>>
           total == Half(28 + (4 * k + m))
           size == Half(8 + m)
           middle == <<0, 0, 0, 0, 64, 17, 0, 0>>
           source == Half(50000)
           ip == first \o total \o middle \o f.sender \o f.receiver \o f.options
           udp == source \o f.port \o size \o <<0, 0>>
<1>5. first \in Octets
  <2>1. 69 + ((4 * k) \div 4) \in Octet /\ 0 \in Octet
    BY DEF Octet
  <2> QED BY <2>1 DEF Octets
<1>6. total \in Octets /\ size \in Octets /\ source \in Octets
  <2>1. /\ 28 + (4 * k + m) \in Nat /\ 28 + (4 * k + m) < 65536
        /\ 8 + m \in Nat /\ 8 + m < 65536
        /\ 50000 \in Nat /\ 50000 < 65536
    BY <1>4 DEF Room
  <2> QED BY <2>1, HalfOctets
<1>7. middle \in Octets /\ <<0, 0>> \in Octets /\ <<8, 0>> \in Octets
  BY DEF Octets, Octet
<1>8. Zeros(12) \in Octets
  BY ZerosOctets
<1>9. FrameOf(f) = Zeros(12) \o f.tag \o <<8, 0>> \o ip \o udp \o f.payload \o f.padding
  BY <1>2, <1>3 DEF FrameOf, Carried
<1> HIDE DEF first, total, middle, size, source
<1>10. \A s, t \in Octets : s \o t \in Octets
  BY OctetsJoin
<1>11. ip \in Octets
  BY <1>1, <1>5, <1>6, <1>7, <1>10
<1>12. udp \in Octets
  BY <1>1, <1>6, <1>7, <1>10
<1> HIDE DEF ip, udp
<1> QED BY <1>1, <1>7, <1>8, <1>9, <1>10, <1>11, <1>12

\* What is considered is nothing yet or one of the inputs.
Considered ==
    \/ case = [of |-> "none"]
    \/ \E host \in Senders, peer \in Peers :
         \E p \in Sent(host, peer) : \E n \in 0 .. Len(p.bytes) : case = SentInput(host, p, n)
    \/ \E p \in Foreign : \E n \in 0 .. Len(p.bytes) : case = HeardInput(p, n)
    \/ \E f \in Frames : \E n \in 0 .. Len(FrameOf(f)) : case = FrameInput(f, n)

LEMMA ConsideredHolds == WireSpec => []Considered
<1>1. WireInit => Considered
  BY DEF WireInit, Considered
<1>2. Considered /\ [WireNext]_case => Considered'
  <2> SUFFICES ASSUME Considered, [WireNext]_case PROVE Considered'
    OBVIOUS
  <2>1. ASSUME NEW host \in Senders, NEW peer \in Peers, Send(host, peer) PROVE Considered'
    BY <2>1 DEF Send, Consider, Considered
  <2>2. ASSUME NEW p \in Foreign, Hear(p) PROVE Considered'
    BY <2>2 DEF Hear, Consider, Considered
  <2>3. ASSUME NEW f \in Frames, Capture(f) PROVE Considered'
    BY <2>3 DEF Capture, Consider, Considered
  <2>4. CASE UNCHANGED case
    BY <2>4 DEF Considered
  <2> QED BY <2>1, <2>2, <2>3, <2>4 DEF WireNext
<1> QED BY <1>1, <1>2, PTL DEF WireSpec

LEMMA InputsAreOctets ==
    ASSUME Considered
    PROVE  /\ Of({"sent", "heard", "frame"}) => case.bytes \in Octets
           /\ Of({"sent", "heard"}) => case.port \in {"announce", "status", "beat"}
<1>1. ASSUME NEW p \in Octets, NEW n \in 0 .. Len(p) PROVE Cut(p, n) \in Octets
  <2>1. n \in Nat /\ n <= Len(p)
    BY DEF Octets
  <2> QED BY <2>1, CutBytes DEF Cut
<1>2. CASE case = [of |-> "none"]
  BY <1>2 DEF Of
<1>3. ASSUME NEW host \in Senders, NEW peer \in Peers, NEW p \in Sent(host, peer),
             NEW n \in 0 .. Len(p.bytes), case = SentInput(host, p, n)
      PROVE  case.bytes \in Octets /\ case.port \in {"announce", "status", "beat"}
  <2>1. host \in AnyHost /\ peer \in AnyHost
    BY DevicesAssumption
  <2>2. p.bytes \in Octets /\ p.port \in {"announce", "status", "beat"}
    BY <2>1, SentOctets
  <2> QED BY <1>1, <1>3, <2>2 DEF SentInput
<1>4. ASSUME NEW p \in Foreign, NEW n \in 0 .. Len(p.bytes), case = HeardInput(p, n)
      PROVE  case.bytes \in Octets /\ case.port \in {"announce", "status", "beat"}
  <2>1. p.bytes \in Octets /\ p.port \in {"announce", "status", "beat"}
    BY ForeignAssumption DEF IsForeign, HasShape, KindOf
  <2> QED BY <1>1, <1>4, <2>1 DEF HeardInput
<1>5. ASSUME NEW f \in Frames, NEW n \in 0 .. Len(FrameOf(f)), case = FrameInput(f, n)
      PROVE  case.bytes \in Octets /\ case.of = "frame"
  <2>1. FrameOf(f) \in Octets
    BY FramesAssumption, FrameOctets
  <2> QED BY <1>1, <1>5, <2>1 DEF FrameInput
<1> QED BY <1>2, <1>3, <1>4, <1>5 DEF Considered, Of

\* Wherever a packet or a frame is cut off, no parser reads a byte of it that is not
\* there.
THEOREM NeverPastTheEndHolds == WireSpec => []NeverPastTheEnd
<1>1. Considered => NeverPastTheEnd
  <2> SUFFICES ASSUME Considered PROVE NeverPastTheEnd
    OBVIOUS
  <2> DEFINE sender == <<10, 0, 0, 9>>
  <2>1. sender \in Octets
    BY DEF Octets, Octet
  <2>2. ASSUME NEW r, AllRead(r), NEW field \in FieldsOf(r) PROVE ~Broken(field)
    <3>1. field \in Octets
      BY <2>2 DEF FieldsOf, AllRead, Read
    <3> QED BY <3>1, OctetsUnbroken
  <2> HIDE DEF sender
  <2>3. ASSUME NEW stagehand \in BOOLEAN, Of({"sent", "heard"})
        PROVE  /\ AllRead(Heard(case.port, case.bytes, stagehand))
               /\ AllRead(HeardPassive(case.port, case.bytes, sender))
               /\ AllRead(ParseConflictPacket(case.bytes))
    <3>1. case.bytes \in Octets /\ case.port \in {"announce", "status", "beat"}
      BY <2>3, InputsAreOctets DEF Of
    <3> QED BY <2>1, <3>1, NoPacketIsReadPastItsEnd
  <2>4. ASSUME Of({"frame"}) PROVE AllRead(DecodeUdpFrame(case.bytes))
    <3>1. case.bytes \in Octets
      BY <2>4, InputsAreOctets DEF Of
    <3> QED BY <3>1, NoPacketIsReadPastItsEnd
  <2> QED BY <2>2, <2>3, <2>4 DEF NeverPastTheEnd, sender
<1> QED BY <1>1, ConsideredHolds, PTL

\* A number of two bytes, wherever it is read.
LEMMA NumberOfOctets ==
    ASSUME NEW s \in Octets, NEW k \in Nat
    PROVE  U16(s, k) \in Int
<1>1. PICK n \in Nat : n = Len(s)
  BY DEF Octets
<1>2. ASSUME NEW i \in Nat PROVE Byte(s, i) \in Int
  <2>1. CASE i < n
    <3>1. Byte(s, i) \in Octet
      BY <1>1, <2>1, ByteOfOctets
    <3> QED BY <3>1 DEF Octet
  <2>2. CASE ~(i < n)
    BY <1>1, <2>2 DEF Byte, Panic
  <2> QED BY <2>1, <2>2
<1>3. k + 1 \in Nat
  OBVIOUS
<1>4. Byte(s, k) \in Int /\ Byte(s, k + 1) \in Int
  BY <1>2, <1>3
<1> QED BY <1>4 DEF U16

\* What players and mixers send is the event of its kind, or one it may be mistaken for.
LEMMA ForeignTaken ==
    ASSUME NEW p, IsForeign(p), case.port = p.port, case.as = p.as, case.bytes = p.bytes,
           NEW stagehand \in BOOLEAN, NEW sender
    PROVE  /\ Taken(Heard(case.port, case.bytes, stagehand).is, stagehand)
           /\ Taken(HeardPassive(case.port, case.bytes, sender).is, FALSE)
<1> DEFINE b == case.bytes
<1>0. p.bytes = b /\ b \in Octets /\ HasHeader(b) /\ HasShape(p, Len(b))
  BY DEF IsForeign
<1>1. PICK n \in Nat : n = Len(b)
  BY <1>0 DEF Octets
<1>a. U16(b, 34) \in Int
  BY <1>0, NumberOfOctets
<1>2. HasHeader(b)
  BY <1>0
<1>3. \/ case.as = "status" /\ case.port = "status" /\ Byte(b, 10) = 10 /\ n >= 204
      \/ case.as = "mediaSlot" /\ case.port = "status" /\ Byte(b, 10) = 6 /\ n >= 192
      \/ /\ case.as = "onAir" /\ case.port = "status" /\ Byte(b, 10) = 3
         /\ \/ n >= 46 /\ Byte(b, 32) = 0 /\ U16(b, 34) = 9
            \/ n >= 54 /\ Byte(b, 32) = 3 /\ U16(b, 34) = 17
      \/ case.as = "mixerState" /\ case.port = "status" /\ Byte(b, 10) = 57 /\ n >= 266
      \/ /\ case.as = "position" /\ case.port = "beat" /\ Byte(b, 10) = 11 /\ n >= 52
         /\ Byte(b, 32) = 0 /\ U16(b, 34) >= 12
      \/ case.as = "beat" /\ case.port = "beat" /\ Byte(b, 10) = 40
      \/ case.as = "vu" /\ case.port = "beat" /\ Byte(b, 10) = 88 /\ n >= 584
  BY <1>0, <1>1 DEF HasShape, KindOf, States
<1> HIDE DEF b
<1>4. ~Sound(Nothing)
  BY DEF Sound, Nothing
<1>5. \A r : r.is \in {"status", "mediaSlot", "mixerState", "vu"} => Sound(r) /\ r # Nothing
  BY DEF Sound, Nothing
<1>6. Byte(b, 10) # 57 => MixerStateFromPacket(b) = Nothing
  BY DEF MixerStateFromPacket
<1>7. /\ n < 204 => StatusFromPacket(b) = Nothing
      /\ n >= 204 => StatusFromPacket(b).is = "status"
  BY <1>1, <1>2 DEF StatusFromPacket
<1>8. ASSUME n >= 204
      PROVE  /\ HandleStatusPassive(b).is = "status"
             /\ \A s \in BOOLEAN :
                  ~(s /\ Byte(b, 10) = 57) => HandleStatus(b, s).is = "status"
  <2>1. StatusFromPacket(b).is = "status"
    BY <1>7, <1>8
  <2>2. HandleStatusPassive(b) = StatusFromPacket(b)
    BY <1>5, <2>1 DEF HandleStatusPassive
  <2>3. ASSUME NEW s \in BOOLEAN, ~(s /\ Byte(b, 10) = 57)
        PROVE  HandleStatus(b, s) = StatusFromPacket(b)
    BY <1>4, <1>5, <1>6, <2>1, <2>3 DEF HandleStatus
  <2> QED BY <2>1, <2>2, <2>3
<1>9. HandlePosition(b, FALSE) = PositionFromPacket(b)
      /\ (Byte(b, 10) # 88 => HandlePosition(b, stagehand) = PositionFromPacket(b))
  <2>1. Byte(b, 10) # 88 => VuFromPacket(b) = Nothing
    BY DEF VuFromPacket
  <2> QED BY <1>4, <2>1 DEF HandlePosition
<1>10. PositionFromPacket(b).is \in {"position", "nothing"}
  BY DEF PositionFromPacket, Nothing
\* The listeners of the two ports.
<1>11. ASSUME case.port = "status", Taken(HandleStatus(b, stagehand).is, stagehand),
              Taken(HandleStatusPassive(b).is, FALSE)
       PROVE  /\ Taken(Heard(case.port, case.bytes, stagehand).is, stagehand)
              /\ Taken(HeardPassive(case.port, case.bytes, sender).is, FALSE)
  BY <1>11 DEF Heard, HeardPassive, b
<1>12. ASSUME case.port = "beat", Taken(HandlePosition(b, stagehand).is, stagehand),
              Taken(HandlePosition(b, FALSE).is, FALSE)
       PROVE  /\ Taken(Heard(case.port, case.bytes, stagehand).is, stagehand)
              /\ Taken(HeardPassive(case.port, case.bytes, sender).is, FALSE)
  BY <1>12 DEF Heard, HeardPassive, b
<1>13. CASE case.as = "status"
  <2>a. Byte(b, 10) # 57 /\ n >= 204 /\ case.port = "status"
    BY <1>3, <1>13
  <2>1. \A s : Taken("status", s)
    BY <1>13 DEF Taken
  <2> QED BY <1>8, <1>11, <2>a, <2>1
<1>14. CASE case.as \in {"mediaSlot", "onAir"} /\ n >= 204
  <2>1. \A s \in BOOLEAN : Taken("status", s)
    BY <1>1, <1>14 DEF Taken, Mistaken, b
  <2>2. case.port = "status" /\ Byte(b, 10) # 57
    BY <1>3, <1>14
  <2> QED BY <1>8, <1>11, <1>14, <2>1, <2>2
<1>15. CASE case.as = "mediaSlot" /\ n < 204
  <2>a. Byte(b, 10) = 6 /\ n >= 192 /\ case.port = "status"
    BY <1>3, <1>15
  <2>1. MediaSlotFromPacket(b).is = "mediaSlot"
    BY <1>1, <1>2, <2>a DEF MediaSlotFromPacket
  <2>2. StatusFromPacket(b) = Nothing
    BY <1>7, <1>15
  <2>3. HandleStatus(b, stagehand) = MediaSlotFromPacket(b)
    BY <1>4, <1>5, <1>6, <2>a, <2>1, <2>2 DEF HandleStatus
  <2>4. HandleStatusPassive(b) = MediaSlotFromPacket(b)
    BY <1>4, <1>5, <2>1, <2>2 DEF HandleStatusPassive
  <2> QED BY <1>11, <1>15, <2>a, <2>1, <2>3, <2>4 DEF Taken
<1>16. CASE case.as = "onAir" /\ n < 204
  <2>a. /\ Byte(b, 10) = 3 /\ case.port = "status"
        /\ \/ n >= 46 /\ Byte(b, 32) = 0 /\ U16(b, 34) = 9
           \/ n >= 54 /\ Byte(b, 32) = 3 /\ U16(b, 34) = 17
    BY <1>3, <1>16
  <2>1. OnAirFromPacket(b).is = "onAir"
    <3>1. CASE n >= 46 /\ Byte(b, 32) = 0 /\ U16(b, 34) = 9
      BY <1>1, <1>2, <3>1 DEF OnAirFromPacket
    <3>2. CASE n >= 54 /\ Byte(b, 32) = 3 /\ U16(b, 34) = 17
      BY <1>1, <1>2, <3>2 DEF OnAirFromPacket
    <3> QED BY <2>a, <3>1, <3>2
  <2>2. StatusFromPacket(b) = Nothing
    BY <1>7, <1>16
  <2>3. MediaSlotFromPacket(b) = Nothing
    BY <1>1, <1>2, <2>a DEF MediaSlotFromPacket
  <2>4. HandleStatus(b, stagehand) = OnAirFromPacket(b)
    BY <1>4, <1>6, <2>a, <2>2, <2>3 DEF HandleStatus
  <2>5. HandleStatusPassive(b) = OnAirFromPacket(b)
    BY <1>4, <2>2, <2>3 DEF HandleStatusPassive
  <2> QED BY <1>11, <1>16, <2>a, <2>1, <2>4, <2>5 DEF Taken
<1>17. CASE case.as = "mixerState"
  <2>a. Byte(b, 10) = 57 /\ n >= 266 /\ case.port = "status"
    BY <1>3, <1>17
  <2>1. MixerStateFromPacket(b).is = "mixerState"
    BY <1>1, <1>2, <2>a DEF MixerStateFromPacket
  <2>2. stagehand => HandleStatus(b, stagehand) = MixerStateFromPacket(b)
    BY <1>5, <2>1 DEF HandleStatus
  <2>3. ~stagehand => HandleStatus(b, stagehand).is = "status"
    BY <1>8, <2>a
  <2>4. Taken("status", FALSE) /\ (~stagehand => Taken("status", stagehand))
    BY <1>1, <1>17, <2>a DEF Taken, Mistaken, b
  <2>5. Taken("mixerState", stagehand)
    BY <1>17 DEF Taken
  <2>6. HandleStatus(b, stagehand).is =
          IF stagehand THEN "mixerState" ELSE "status"
    BY <2>1, <2>2, <2>3
  <2>7. Taken(HandleStatus(b, stagehand).is, stagehand)
    BY <2>4, <2>5, <2>6
  <2>8. HandleStatusPassive(b).is = "status"
    BY <1>8, <2>a
  <2> QED BY <1>11, <2>a, <2>4, <2>7, <2>8
<1>18. CASE case.as = "position"
  <2>a. n >= 52 /\ Byte(b, 32) = 0 /\ U16(b, 34) >= 12 /\ case.port = "beat" /\ Byte(b, 10) # 88
    BY <1>3, <1>18
  <2>1. PositionFromPacket(b).is = "position"
    BY <1>1, <1>2, <1>a, <2>a DEF PositionFromPacket
  <2> QED BY <1>9, <1>12, <1>18, <2>a, <2>1 DEF Taken
<1>19. CASE case.as = "beat"
  <2>1. case.port = "beat" /\ Byte(b, 10) # 88
    BY <1>3, <1>19
  <2>2. \A s \in BOOLEAN : Taken(PositionFromPacket(b).is, s)
    BY <1>10, <1>19 DEF Taken, Mistaken
  <2> QED BY <1>9, <1>12, <2>1, <2>2
<1>20. CASE case.as = "vu"
  <2>a. Byte(b, 10) = 88 /\ n >= 584 /\ case.port = "beat"
    BY <1>3, <1>20
  <2>1. VuFromPacket(b).is = "vu"
    BY <1>1, <1>2, <2>a DEF VuFromPacket
  <2>2. stagehand => HandlePosition(b, stagehand) = VuFromPacket(b)
    BY <1>5, <2>1 DEF HandlePosition
  <2>3. Taken(PositionFromPacket(b).is, FALSE)
    BY <1>10, <1>20 DEF Taken, Mistaken
  <2>4. Taken("vu", stagehand)
    BY <1>20 DEF Taken
  <2> QED BY <1>9, <1>12, <2>a, <2>1, <2>2, <2>3, <2>4
<1>21. n < 204 \/ n >= 204
  OBVIOUS
<1>22. case.as \in {"status", "mediaSlot", "onAir", "mixerState", "position", "beat", "vu"}
  BY <1>3
<1> QED BY <1>13, <1>14, <1>15, <1>16, <1>17, <1>18, <1>19, <1>20, <1>21, <1>22

\* What is cut off at its end is whole.
LEMMA WholeIsUncut ==
    ASSUME NEW s \in Octets
    PROVE  Cut(s, Len(s)) = s
<1>1. PICK n \in Nat : n = Len(s)
  BY DEF Octets
<1>2. Cut(s, n) \in Octets /\ Len(Cut(s, n)) = n
      /\ \A a, b \in Nat : b <= n => Slice(Cut(s, n), a, b) = Slice(s, a, b)
  BY <1>1, CutBytes DEF Cut
<1>3. Slice(Cut(s, n), 0, n) = Slice(s, 0, n)
  BY <1>2
<1>4. Slice(Cut(s, n), 0, n) = Cut(s, n) /\ Slice(s, 0, n) = s
  BY <1>1, <1>2, SliceAll
<1> QED BY <1>1, <1>3, <1>4

\* What the crate sends is what it is sent as.
LEMMA SentTaken ==
    ASSUME NEW host \in AnyHost, NEW peer \in AnyHost, NEW p \in Sent(host, peer),
           NEW stagehand \in BOOLEAN, NEW sender
    PROVE  /\ Heard(p.port, p.bytes, stagehand).is = p.as
           /\ HeardPassive(p.port, p.bytes, sender).is = p.as
<1>1. /\ 1 \in Octet /\ 2 \in Octet /\ 3 \in Octet /\ 15 \in Octet /\ 129 \in Octet
      /\ 130 \in Octet /\ 171 \in Octet
  BY DEF Octet
<1>2. ASSUME MeansNothing(p.port, p.bytes), p.as = "nothing"
      PROVE  /\ Heard(p.port, p.bytes, stagehand).is = p.as
             /\ HeardPassive(p.port, p.bytes, sender).is = p.as
  BY <1>2 DEF MeansNothing, Nothing
<1>3. CASE p.port = "announce" /\ p.as = "device" /\ p.bytes \in Announcing(host)
  <2>1. PICK type : [bytes |-> p.bytes, type |-> type] \in Announcements(host)
    BY <1>1, <1>3 DEF Announcing, Announcements
  <2>2. /\ DeviceFromPacket(p.bytes) = AsDevice(host, type)
        /\ DeviceFromPacketWithInfo(p.bytes, sender) = AsDevice(host, type)
    BY <2>1, AnnouncementsReadBack
  <2>3. AsDevice(host, type).is = "device"
    BY DEF AsDevice
  <2> QED BY <1>3, <2>2, <2>3 DEF Heard, HeardPassive
<1>4. CASE p.port = "announce" /\ p.as = "nothing" /\ p.bytes \in Starting(host)
  <2>1. MeansNothing("announce", p.bytes)
    BY <1>1, <1>4, StagesIgnored DEF Starting
  <2> QED BY <1>2, <1>4, <2>1
<1>5. CASE p.port = "status" /\ p.as = "status" /\ p.bytes \in Playing(host)
  <2>1. p.bytes = MakeStatusPacket(host)
    BY <1>5 DEF Playing
  <2>2. /\ Heard("status", MakeStatusPacket(host), stagehand).is = "status"
        /\ HeardPassive("status", MakeStatusPacket(host), sender).is = "status"
    BY StatusReadsBack
  <2> QED BY <1>5, <2>1, <2>2
<1>6. CASE p.port = "status" /\ p.as = "nothing" /\ p.bytes \in Asking(host, peer)
  <2>1. MeansNothing("status", p.bytes)
    <3>1. \/ p.bytes \in {MakePrefWrite(host, 129, 130), MakeMediaSlotRequest(host, peer, 3)}
          \/ p.bytes \in {Heartbeat(host, peer)} \ {<<>>}
      BY <1>6 DEF Asking
    <3>2. MeansNothing("status", MakePrefWrite(host, 129, 130))
      BY <1>1, PrefWriteIgnored
    <3>3. MeansNothing("status", MakeMediaSlotRequest(host, peer, 3))
      BY <1>1, RequestIgnored
    <3>4. \A q \in {Heartbeat(host, peer)} \ {<<>>} : MeansNothing("status", q)
      BY <1>1, NothingSentIsMisread
    <3> QED BY <3>1, <3>2, <3>3, <3>4
  <2> QED BY <1>2, <1>6, <2>1
<1>7. CASE p.port = "beat" /\ p.as = "nothing" /\ p.bytes \in Commanding(host, peer)
  <2>a. p.bytes \in {MakePlaystate(host, peer, TRUE), MakePlaystate(host, peer, FALSE),
                     MakeTransport(host, 15, 1, 171)}
    BY <1>7 DEF Commanding
  <2>b. \A cued \in BOOLEAN : MeansNothing("beat", MakePlaystate(host, peer, cued))
    BY PlaystateIgnored
  <2>c. MeansNothing("beat", MakeTransport(host, 15, 1, 171))
    BY <1>1, TransportIgnored
  <2>1. MeansNothing("beat", p.bytes)
    BY <2>a, <2>b, <2>c
  <2> QED BY <1>2, <1>7, <2>1
<1> QED BY <1>3, <1>4, <1>5, <1>6, <1>7, SentPackets

\* No packet on the three ports is taken for one of another kind: not by another process
\* running this crate, whatever device it is and whatever devices there are, and not what
\* players and mixers send by this one or by a capture, but for the confusions that
\* Mistaken names: of long packets with a status, of beats and levels with a position.
THEOREM NothingMisreadHolds == WireSpec => []NothingMisread
<1>1. Considered => NothingMisread
  <2> DEFINE sender == <<10, 0, 0, 9>>
  <2> SUFFICES ASSUME Considered, WholeOf({"sent", "heard"}), NEW stagehand \in BOOLEAN
               PROVE  /\ Taken(Heard(case.port, case.bytes, stagehand).is, stagehand)
                      /\ Taken(HeardPassive(case.port, case.bytes, sender).is, FALSE)
    BY DEF NothingMisread
  <2> HIDE DEF sender
  <2>1. case.of \in {"sent", "heard"} /\ case.whole
    BY DEF WholeOf, Of
  <2>2. ASSUME NEW host \in Senders, NEW peer \in Peers, NEW p \in Sent(host, peer),
               NEW n \in 0 .. Len(p.bytes), case = SentInput(host, p, n)
        PROVE  /\ Taken(Heard(case.port, case.bytes, stagehand).is, stagehand)
               /\ Taken(HeardPassive(case.port, case.bytes, sender).is, FALSE)
    <3>1. host \in AnyHost /\ peer \in AnyHost
      BY DevicesAssumption
    <3>2. n = Len(p.bytes) /\ case.bytes = Cut(p.bytes, n)
          /\ case.port = p.port /\ case.as = p.as
      BY <2>1, <2>2 DEF SentInput
    <3>3. case.bytes = p.bytes
      BY <3>1, <3>2, SentOctets, WholeIsUncut
    <3> QED BY <3>1, <3>2, <3>3, SentTaken DEF Taken
  <2>3. ASSUME NEW p \in Foreign, NEW n \in 0 .. Len(p.bytes), case = HeardInput(p, n)
        PROVE  /\ Taken(Heard(case.port, case.bytes, stagehand).is, stagehand)
               /\ Taken(HeardPassive(case.port, case.bytes, sender).is, FALSE)
    <3>1. IsForeign(p)
      BY ForeignAssumption
    <3>2. n = Len(p.bytes) /\ case.bytes = Cut(p.bytes, n)
          /\ case.port = p.port /\ case.as = p.as
      BY <2>1, <2>3 DEF HeardInput
    <3>3. p.bytes \in Octets
      BY <3>1 DEF IsForeign
    <3>4. case.bytes = p.bytes
      BY <3>2, <3>3, WholeIsUncut
    <3> QED BY <3>1, <3>2, <3>4, ForeignTaken
  <2>4. ~(case = [of |-> "none"])
    BY <2>1
  <2>5. \A f, n : case # FrameInput(f, n)
    BY <2>1 DEF FrameInput
  <2> QED BY <2>2, <2>3, <2>4, <2>5 DEF Considered
<1> QED BY <1>1, ConsideredHolds, PTL

\* The bytes of two joined pieces stand one behind the other.
LEMMA Pieces ==
    ASSUME NEW s, NEW at \in Nat, NEW l, NEW r, NEW a \in Nat, Long(a, l),
           NEW b \in Nat, Long(b, r), Agree(s, at, l \o r, a + b)
    PROVE  Agree(s, at, l, a) /\ Agree(s, at + a, r, b)
<1>1. Joined(l \o r, l, r, a)
  BY Joining DEF Long
<1>2. ASSUME NEW i \in Nat, i < a PROVE Byte(s, at + i) = Byte(l, i)
  <2>1. i < a + b
    BY <1>2
  <2> QED BY <1>1, <1>2, <2>1 DEF Agree, Joined
<1>3. ASSUME NEW i \in Nat, i < b PROVE Byte(s, at + a + i) = Byte(r, i)
  <2>1. a + i \in Nat /\ a + i < a + b /\ at + (a + i) = at + a + i
    BY <1>3
  <2>2. Byte(s, at + (a + i)) = Byte(l \o r, a + i)
    BY <2>1 DEF Agree
  <2>3. Byte(l \o r, a + i) = Byte(r, i)
    BY <1>1 DEF Joined
  <2> QED BY <2>1, <2>2, <2>3
<1> QED BY <1>2, <1>3 DEF Agree

\* What stands in a string stands in a slice of it.
LEMMA AgreeInSlice ==
    ASSUME NEW s, NEW a \in Nat, NEW size \in Nat, NEW at \in Nat, NEW mid, NEW n \in Nat,
           at + n <= size, Agree(s, a + at, mid, n)
    PROVE  Agree(Slice(s, a, a + size), at, mid, n)
<1> SUFFICES ASSUME NEW i \in Nat, i < n PROVE Byte(Slice(s, a, a + size), at + i) = Byte(mid, i)
  BY DEF Agree
<1>1. a + size - a = size
  OBVIOUS
<1>2. Slice(s, a, a + size) = [j \in 1 .. size |-> Byte(s, a + j - 1)]
  BY <1>1 DEF Slice
<1>3. Len(Slice(s, a, a + size)) = size
  BY <1>2
<1>4. at + i < size /\ at + i + 1 \in 1 .. size /\ a + (at + i + 1) - 1 = a + at + i
  OBVIOUS
<1>5. Slice(s, a, a + size)[at + i + 1] = Byte(s, a + at + i)
  BY <1>2, <1>4
<1>6. Byte(Slice(s, a, a + size), at + i) = Byte(s, a + at + i)
  BY <1>3, <1>4, <1>5 DEF Byte
<1>7. Byte(s, a + at + i) = Byte(mid, i)
  BY DEF Agree
<1> QED BY <1>6, <1>7

\* A piece is read as a slice.
LEMMA AgreeIsSlice ==
    ASSUME NEW s, NEW at \in Nat, NEW mid, NEW n \in Nat, Long(n, mid), Agree(s, at, mid, n)
    PROVE  Slice(s, at, at + n) = mid
<1>0. mid \in Octets /\ n = Len(mid)
  BY DEF Long
<1>1. Same(s, at, mid, 0, n)
  <2> SUFFICES ASSUME NEW i \in Nat, i < n PROVE Byte(s, at + i) = Byte(mid, 0 + i)
    BY DEF Same
  <2>1. 0 + i = i
    OBVIOUS
  <2> QED BY <2>1 DEF Agree
<1>2. Slice(s, at, at + n) = Slice(mid, 0, 0 + n)
  BY <1>1, SliceEqual
<1>3. Slice(mid, 0, n) = mid
  BY <1>0, SliceAll
<1>4. 0 + n = n
  OBVIOUS
<1> QED BY <1>2, <1>3, <1>4

LEMMA Longer ==
    ASSUME NEW m \in Nat, NEW n \in Nat, NEW s, NEW t, Long(m, s), Long(n, t)
    PROVE  Long(m + n, s \o t)
<1>1. s \in Octets /\ t \in Octets /\ m = Len(s) /\ n = Len(t)
  BY DEF Long
<1>2. Joined(s \o t, s, t, m)
  BY <1>1, Joining
<1> QED BY <1>1, <1>2 DEF Joined, Long

\* Where the fields of a frame are, behind a tag of t bytes and x bytes of options, for a
\* payload of m bytes and a padding of r.
Laid(s, f, t, x, m, r) ==
    /\ s \in Octets /\ Len(s) = 14 + t + (28 + x + m + r)
    /\ Agree(s, 12, f.tag, t) /\ Agree(s, 12 + t, <<8, 0>>, 2)
    /\ Agree(s, 14 + t, <<69 + (x \div 4), 0>>, 2)
    /\ Agree(s, 14 + t + 2, Half(28 + (x + m)), 2)
    /\ Agree(s, 14 + t + 4, <<0, 0, 0, 0, 64, 17, 0, 0>>, 8)
    /\ Agree(s, 14 + t + 12, f.sender, 4)
    /\ Agree(s, 14 + t + (20 + x + 2), f.port, 2)
    /\ Agree(s, 14 + t + (20 + x + 4), Half(8 + m), 2)
    /\ Agree(s, 14 + t + (20 + x + 8), f.payload, m)

\* The bytes of a frame's IP header and of its UDP header.
LEMMA IpHeader ==
    ASSUME NEW s, NEW at \in Nat, NEW first, Long(2, first), NEW total, Long(2, total),
           NEW middle, Long(8, middle), NEW sender, Long(4, sender),
           NEW receiver, Long(4, receiver), NEW options, NEW x \in Nat, Long(x, options)
    PROVE  LET ip == first \o total \o middle \o sender \o receiver \o options
           IN /\ Long(20 + x, ip)
              /\ Agree(s, at, ip, 20 + x) =>
                   /\ Agree(s, at, first, 2) /\ Agree(s, at + 2, total, 2)
                   /\ Agree(s, at + 4, middle, 8) /\ Agree(s, at + 12, sender, 4)
<1> DEFINE a == first \o total
           b == a \o middle
           c == b \o sender
           d == c \o receiver
           ip == d \o options
<1>0. 2 \in Nat /\ 4 \in Nat /\ 8 \in Nat /\ 12 \in Nat /\ 16 \in Nat /\ 20 \in Nat
  OBVIOUS
<1>1. Long(4, a)
  BY Longer
<1> HIDE DEF a
<1>2. Long(12, b)
  BY <1>1, Longer
<1> HIDE DEF b
<1>3. Long(16, c)
  BY <1>2, Longer
<1> HIDE DEF c
<1>4. Long(20, d)
  BY <1>3, Longer
<1> HIDE DEF d
<1>5. Long(20 + x, ip)
  BY <1>4, Longer
<1>6. ASSUME Agree(s, at, ip, 20 + x)
      PROVE  /\ Agree(s, at, first, 2) /\ Agree(s, at + 2, total, 2)
             /\ Agree(s, at + 4, middle, 8) /\ Agree(s, at + 12, sender, 4)
  <2>1. Agree(s, at, d, 20)
    BY <1>0, <1>4, <1>6, Pieces, Zenon
  <2>2. Agree(s, at, c \o receiver, 16 + 4)
    BY <2>1 DEF d
  <2>3. Agree(s, at, c, 16)
    BY <1>0, <1>3, <2>2, Pieces, Zenon
  <2>4. Agree(s, at, b \o sender, 12 + 4)
    BY <2>3 DEF c
  <2>5. Agree(s, at, b, 12) /\ Agree(s, at + 12, sender, 4)
    BY <1>0, <1>2, <2>4, Pieces, Zenon
  <2>6. Agree(s, at, a \o middle, 4 + 8)
    BY <2>5 DEF b
  <2>7. Agree(s, at, a, 4) /\ Agree(s, at + 4, middle, 8)
    BY <1>0, <1>1, <2>6, Pieces, Zenon
  <2>8. Agree(s, at, first \o total, 2 + 2)
    BY <2>7 DEF a
  <2>9. Agree(s, at, first, 2) /\ Agree(s, at + 2, total, 2)
    BY <1>0, <2>8, Pieces, Zenon
  <2> QED BY <2>5, <2>7, <2>9
<1> QED BY <1>5, <1>6 DEF a, b, c, d

LEMMA UdpHeader ==
    ASSUME NEW s, NEW at \in Nat, NEW source, Long(2, source), NEW port, Long(2, port),
           NEW size, Long(2, size), NEW rest, Long(2, rest)
    PROVE  LET udp == source \o port \o size \o rest
           IN /\ Long(8, udp)
              /\ Agree(s, at, udp, 8) => Agree(s, at + 2, port, 2) /\ Agree(s, at + 4, size, 2)
<1> DEFINE a == source \o port
           b == a \o size
           udp == b \o rest
<1>0. 2 \in Nat /\ 4 \in Nat /\ 6 \in Nat
  OBVIOUS
<1>1. Long(4, a)
  BY Longer
<1> HIDE DEF a
<1>2. Long(6, b)
  BY <1>1, Longer
<1> HIDE DEF b
<1>3. Long(8, udp)
  BY <1>2, Longer
<1>4. ASSUME Agree(s, at, udp, 8)
      PROVE  Agree(s, at + 2, port, 2) /\ Agree(s, at + 4, size, 2)
  <2>1. Agree(s, at, b \o rest, 6 + 2)
    BY <1>4
  <2>2. Agree(s, at, b, 6)
    BY <1>0, <1>2, <2>1, Pieces, Zenon
  <2>3. Agree(s, at, a \o size, 4 + 2)
    BY <2>2 DEF b
  <2>4. Agree(s, at, a, 4) /\ Agree(s, at + 4, size, 2)
    BY <1>0, <1>1, <2>3, Pieces, Zenon
  <2>5. Agree(s, at, source \o port, 2 + 2)
    BY <2>4 DEF a
  <2>6. Agree(s, at + 2, port, 2)
    BY <1>0, <2>5, Pieces, Zenon
  <2> QED BY <2>4, <2>6
<1> QED BY <1>3, <1>4 DEF a, b

\* Every frame is laid out so.
LEMMA FrameLaid ==
    ASSUME NEW f, IsEthernet(f), NEW t \in Nat, Long(t, f.tag), NEW k \in 0 .. 10,
           Long(4 * k, f.options), NEW m \in Nat, Long(m, f.payload), 4 * k + m <= Room,
           NEW r \in Nat, Long(r, f.padding)
    PROVE  Laid(FrameOf(f), f, t, 4 * k, m, r)
<1>1. PICK x \in Nat : x = 4 * k /\ x + m <= Room
  OBVIOUS
<1> DEFINE F == FrameOf(f)
           first == <<69 + (x \div 4), 0>>
           total == Half(28 + (x + m))
           size == Half(8 + m)
           middle == <<0, 0, 0, 0, 64, 17, 0, 0>>
           source == Half(50000)
           none == <<0, 0>>
           type == <<8, 0>>
           ip == first \o total \o middle \o f.sender \o f.receiver \o f.options
           udp == source \o f.port \o size \o none
           A1 == Zeros(12) \o f.tag
           A2 == A1 \o type
           A3 == A2 \o ip
           A4 == A3 \o udp
           A5 == A4 \o f.payload
<1>2. F = A5 \o f.padding
  <2>1. Carried(f) = x + m /\ Len(f.options) = x /\ Len(f.payload) = m
    BY <1>1 DEF Carried, Long
  <2> QED BY <2>1 DEF FrameOf
<1>3. Long(2, first)
  <2>1. x \div 4 = k
    BY <1>1
  <2>2. 69 + k \in Octet /\ 0 \in Octet
    BY DEF Octet
  <2> QED BY <2>1, <2>2 DEF Long, Octets
<1>4. Long(2, total) /\ Long(2, size) /\ Long(2, source)
  <2>1. /\ 28 + (x + m) \in Nat /\ 28 + (x + m) < 65536
        /\ 8 + m \in Nat /\ 8 + m < 65536
        /\ 50000 \in Nat /\ 50000 < 65536
    BY <1>1 DEF Room
  <2> QED BY <2>1, HalfOctets DEF Long
<1>5. Long(8, middle) /\ Long(2, none) /\ Long(2, type)
  BY DEF Long, Octets, Octet
<1>6. Long(12, Zeros(12))
  <2>1. 12 \in Nat
    OBVIOUS
  <2> QED BY <2>1, ZerosOctets, Zenon DEF Long
<1>7. Long(4, f.sender) /\ Long(4, f.receiver) /\ Long(2, f.port)
  BY DEF IsEthernet
<1> HIDE DEF F, first, total, size, middle, source, none, type
<1>8. PICK a \in Nat : a = 14 + t
  OBVIOUS
<1>9. PICK u \in Nat : u = a + (20 + x)
  OBVIOUS
<1>10. Long(20 + x, ip)
  <2>1. Long(x, f.options)
    BY <1>1
  <2> QED BY <1>3, <1>4, <1>5, <1>7, <2>1, IpHeader
<1>11. Long(8, udp)
  BY <1>4, <1>5, <1>7, UdpHeader
<1> HIDE DEF ip, udp
<1>a. PICK b \in Nat : b = 12 + t /\ a = b + 2
  BY <1>8
<1>b. PICK y \in Nat : y = 20 + x /\ u = a + y
  BY <1>9
<1>c. PICK v \in Nat, w \in Nat, z \in Nat : v = u + 8 /\ w = v + m /\ z = w + r
  OBVIOUS
<1>n. 2 \in Nat /\ 8 \in Nat /\ 12 \in Nat /\ 0 \in Nat
  OBVIOUS
<1>12. Long(b, A1)
  BY <1>n, <1>a, <1>6, Longer, Zenon
<1> HIDE DEF A1
<1>13. Long(a, A2)
  BY <1>n, <1>a, <1>5, <1>12, Longer, Zenon
<1> HIDE DEF A2
<1>14. Long(y, ip) /\ Long(u, A3)
  BY <1>b, <1>10, <1>13, Longer, Zenon
<1> HIDE DEF A3
<1>15. Long(v, A4)
  BY <1>n, <1>c, <1>11, <1>14, Longer, Zenon
<1> HIDE DEF A4
<1>16. Long(w, A5)
  BY <1>c, <1>15, Longer, Zenon
<1> HIDE DEF A5
<1>17. Long(z, F)
  BY <1>2, <1>c, <1>16, Longer, Zenon
<1>18. Agree(F, 0, A5, w)
  <2>1. Agree(F, 0, A5 \o f.padding, w + r)
    BY <1>2 DEF Agree
  <2> QED BY <1>n, <1>16, <2>1, Pieces, Zenon
<1>19. Agree(F, 0, A4, v) /\ Agree(F, 0 + v, f.payload, m)
  <2>1. Agree(F, 0, A4 \o f.payload, v + m)
    BY <1>c, <1>18, Zenon DEF A5
  <2>2. Long(m, f.payload) /\ Long(v, A4)
    BY <1>15
  <2> HIDE DEF F
  <2> QED BY <1>n, <2>1, <2>2, Pieces
<1>20. Agree(F, 0, A3, u) /\ Agree(F, 0 + u, udp, 8)
  <2>1. Agree(F, 0, A3 \o udp, u + 8)
    BY <1>c, <1>19 DEF A4
  <2> QED BY <1>n, <1>11, <1>14, <2>1, Pieces, Zenon
<1>21. Agree(F, 0, A2, a) /\ Agree(F, 0 + a, ip, y)
  <2>1. Agree(F, 0, A2 \o ip, a + y)
    BY <1>b, <1>20, Zenon DEF A3
  <2> QED BY <1>n, <1>13, <1>14, <2>1, Pieces, Zenon
<1>22. Agree(F, 0, A1, b) /\ Agree(F, 0 + b, type, 2)
  <2>1. Agree(F, 0, A1 \o type, b + 2)
    BY <1>a, <1>21, Zenon DEF A2
  <2> QED BY <1>n, <1>5, <1>12, <2>1, Pieces, Zenon
<1>23. Agree(F, 0 + 12, f.tag, t)
  <2>1. Agree(F, 0, Zeros(12) \o f.tag, 12 + t)
    BY <1>a, <1>22, Zenon DEF A1
  <2> QED BY <1>n, <1>6, <2>1, Pieces, Zenon
<1>24. /\ Agree(F, a, first, 2) /\ Agree(F, a + 2, total, 2)
       /\ Agree(F, a + 4, middle, 8) /\ Agree(F, a + 12, f.sender, 4)
  <2>1. Agree(F, a, ip, 20 + x)
    BY <1>b, <1>21
  <2>2. Long(x, f.options)
    BY <1>1
  <2> QED BY <1>3, <1>4, <1>5, <1>7, <2>1, <2>2, IpHeader DEF ip
<1>25. Agree(F, u + 2, f.port, 2) /\ Agree(F, u + 4, size, 2)
  <2>1. Agree(F, u, udp, 8)
    BY <1>20
  <2> QED BY <1>4, <1>5, <1>7, <2>1, UdpHeader DEF udp
<1>26. /\ F \in Octets /\ Len(F) = 14 + t + (28 + x + m + r)
  <2>1. F \in Octets /\ Len(F) = z
    BY <1>17 DEF Long
  <2>2. z = 14 + t + (28 + x + m + r)
    BY <1>8, <1>9, <1>c
  <2> QED BY <2>1, <2>2
<1>27. /\ Agree(F, 12, f.tag, t) /\ Agree(F, 12 + t, type, 2)
       /\ Agree(F, 14 + t + (20 + x + 8), f.payload, m)
  <2>1. 0 + v = 14 + t + (20 + x + 8) /\ 0 + b = 12 + t /\ 0 + 12 = 12
    BY <1>8, <1>9, <1>a, <1>c
  <2> QED BY <1>19, <1>22, <1>23, <2>1, Zenon
<1>28. Agree(F, 14 + t + (20 + x + 2), f.port, 2) /\ Agree(F, 14 + t + (20 + x + 4), size, 2)
  <2>1. u + 2 = 14 + t + (20 + x + 2) /\ u + 4 = 14 + t + (20 + x + 4)
    BY <1>8, <1>9
  <2> QED BY <1>25, <2>1
<1>29. Laid(F, f, t, x, m, r)
  BY <1>8, <1>24, <1>26, <1>27, <1>28 DEF Laid, first, total, middle, size, type
<1> QED BY <1>1, <1>29 DEF F

\* A number of two bytes where one stands.
LEMMA AgreeNumber ==
    ASSUME NEW s, NEW at \in Nat, NEW mid, Agree(s, at, mid, 2)
    PROVE  Byte(s, at) = Byte(mid, 0) /\ U16(s, at) = U16(mid, 0)
<1>1. Byte(s, at + 0) = Byte(mid, 0) /\ Byte(s, at + 1) = Byte(mid, 1)
  BY DEF Agree
<1>2. at + 0 = at /\ 0 + 1 = 1
  OBVIOUS
<1> QED BY <1>1, <1>2 DEF U16

LEMMA SliceLength ==
    ASSUME NEW s, NEW a \in Nat, NEW n \in Nat
    PROVE  Len(Slice(s, a, a + n)) = n
<1>1. a + n - a = n
  OBVIOUS
<1>2. Slice(s, a, a + n) = [i \in 1 .. n |-> Byte(s, a + i - 1)]
  BY <1>1 DEF Slice
<1> QED BY <1>2

\* The payload of a frame, whatever is around it.
LEMMA FrameReadsBack ==
    ASSUME NEW s, NEW f, IsEthernet(f), NEW t \in {0, 4}, Long(t, f.tag), NEW k \in 0 .. 10,
           NEW x \in Nat, x = 4 * k, NEW m \in Nat, Long(m, f.payload), x + m <= Room,
           NEW r \in Nat, Laid(s, f, t, x, m, r)
    PROVE  DecodeUdpFrame(s) =
             IF m = 0 THEN Nothing
             ELSE [is |-> "datagram", port |-> f.port, sender |-> f.sender,
                   payload |-> f.payload]
<1>1. x = 4 * k /\ x + m <= Room
  OBVIOUS
<1>2. PICK a \in Nat : a = 14 + t /\ a \in {14, 18}
  OBVIOUS
<1>3. PICK n \in Nat : n = 28 + x + m + r
  OBVIOUS
<1> DEFINE first == <<69 + (x \div 4), 0>>
           total == Half(28 + (x + m))
           size == Half(8 + m)
           middle == <<0, 0, 0, 0, 64, 17, 0, 0>>
           type == <<8, 0>>
<1>4. /\ s \in Octets /\ Len(s) = a + n
      /\ Agree(s, 12, f.tag, t) /\ Agree(s, 12 + t, type, 2)
      /\ Agree(s, a, first, 2) /\ Agree(s, a + 2, total, 2) /\ Agree(s, a + 4, middle, 8)
      /\ Agree(s, a + 12, f.sender, 4)
      /\ Agree(s, a + (20 + x + 2), f.port, 2) /\ Agree(s, a + (20 + x + 4), size, 2)
      /\ Agree(s, a + (20 + x + 8), f.payload, m)
  BY <1>1, <1>2, <1>3 DEF Laid
<1>5. Long(4, f.sender) /\ Long(2, f.port)
  BY DEF IsEthernet
<1>6. Byte(first, 0) = 69 + k /\ Byte(middle, 5) = 17 /\ U16(type, 0) = 2048
  <2>1. x \div 4 = k
    BY <1>1
  <2>2. Byte(first, 0) = 69 + k
    BY <2>1 DEF Byte
  <2> QED BY <2>2 DEF Byte, U16
<1>7. U16(total, 0) = 28 + (x + m) /\ U16(size, 0) = 8 + m
  <2>1. /\ 28 + (x + m) \in Nat /\ 28 + (x + m) < 65536
        /\ 8 + m \in Nat /\ 8 + m < 65536 /\ 0 + 1 = 1
    BY <1>1 DEF Room
  <2> QED BY <2>1, HalfOctets DEF U16
<1>8. t = 4 => U16(f.tag, 0) = Vlan
  <2> SUFFICES ASSUME t = 4 PROVE U16(f.tag, 0) = Vlan
    OBVIOUS
  <2>1. f.tag \in Octets /\ Len(f.tag) = 4
    BY DEF Long
  <2>2. Half(Vlan) = SubSeq(f.tag, 1, 2)
    <3>1. f.tag # <<>>
      <4> SUFFICES ASSUME f.tag = <<>> PROVE FALSE
        OBVIOUS
      <4>1. Len(f.tag) = 0
        OBVIOUS
      <4> QED BY <2>1, <4>1
    <3> QED BY <3>1 DEF IsEthernet
  <2>3. \A i \in Nat : i < 2 => Byte(SubSeq(f.tag, 1, 2), i) = Byte(f.tag, i)
    <3>1. PICK two \in Nat : two = 2 /\ two <= Len(f.tag)
      BY <2>1
    <3>2. \A i \in Nat : i < two => Byte(SubSeq(f.tag, 1, two), i) = Byte(f.tag, i)
      BY <2>1, <3>1, CutBytes
    <3> QED BY <3>1, <3>2
  <2>4. U16(SubSeq(f.tag, 1, 2), 0) = U16(f.tag, 0)
    BY <2>3 DEF U16
  <2>5. U16(Half(Vlan), 0) = Vlan
    <3>1. Vlan \in Nat /\ Vlan < 65536 /\ 0 + 1 = 1
      BY DEF Vlan
    <3> QED BY <3>1, HalfOctets DEF U16
  <2> QED BY <2>2, <2>4, <2>5
<1> HIDE DEF first, total, size, middle, type
<1>9. U16(s, 12 + t) = 2048
  <2>1. 12 + t \in Nat
    OBVIOUS
  <2>2. U16(s, 12 + t) = U16(type, 0)
    <3>1. Agree(s, 12 + t, type, 2)
      BY <1>4
    <3> QED BY <2>1, <3>1, AgreeNumber
  <2> QED BY <1>6, <2>2
<1>10. IpAt(s) = a
  <2>1. Len(s) >= 14
    BY <1>2, <1>4
  <2>2. CASE t = 4
    <3>1. Agree(s, 12, f.tag, 2)
      BY <1>4, <2>2 DEF Agree
    <3>2. U16(s, 12) = Vlan
      BY <1>8, <2>2, <3>1, AgreeNumber
    <3> QED BY <1>2, <2>1, <2>2, <3>2 DEF IpAt, Vlan
  <2>3. CASE t = 0
    <3>1. U16(s, 12) = 2048
      BY <1>9, <2>3
    <3> QED BY <1>2, <2>3, <3>1 DEF IpAt
  <2> QED BY <2>2, <2>3
<1> DEFINE ip == Slice(s, a, a + n)
           at == 20 + x
<1>11. Len(ip) = n
  BY SliceLength
<1>12. /\ Agree(ip, 0, first, 2) /\ Agree(ip, 2, total, 2) /\ Agree(ip, 4, middle, 8)
       /\ Agree(ip, 12, f.sender, 4)
       /\ Agree(ip, at + 2, f.port, 2) /\ Agree(ip, at + 4, size, 2)
       /\ Agree(ip, at + 8, f.payload, m)
  <2>1. Agree(s, a + 0, first, 2)
    BY <1>4
  <2>2. /\ 0 + 2 <= n /\ 2 + 2 <= n /\ 4 + 8 <= n /\ 12 + 4 <= n
        /\ at + 2 + 2 <= n /\ at + 4 + 2 <= n /\ at + 8 + m <= n
        /\ at + 2 \in Nat /\ at + 4 \in Nat /\ at + 8 \in Nat
        /\ 0 \in Nat /\ 2 \in Nat /\ 4 \in Nat /\ 8 \in Nat /\ 12 \in Nat
    BY <1>3
  <2>3. /\ Agree(s, a + (at + 2), f.port, 2) /\ Agree(s, a + (at + 4), size, 2)
        /\ Agree(s, a + (at + 8), f.payload, m)
    BY <1>4
  <2> HIDE DEF at
  <2>4. ASSUME NEW i \in Nat, NEW mid, NEW l \in Nat, i + l <= n, Agree(s, a + i, mid, l)
        PROVE  Agree(ip, i, mid, l)
    BY <2>4, AgreeInSlice
  <2> HIDE DEF ip
  <2>5. Agree(ip, 0, first, 2)
    <3>1. 0 \in Nat /\ 2 \in Nat /\ 0 + 2 <= n
      BY <2>2
    <3>2. Agree(s, a + 0, first, 2)
      BY <2>1
    <3> QED BY <2>4, <3>1, <3>2
  <2>6. Agree(ip, 2, total, 2)
    <3>1. 2 \in Nat /\ 2 \in Nat /\ 2 + 2 <= n
      BY <2>2
    <3>2. Agree(s, a + 2, total, 2)
      BY <1>4
    <3> QED BY <2>4, <3>1, <3>2
  <2>7. Agree(ip, 4, middle, 8)
    <3>1. 4 \in Nat /\ 8 \in Nat /\ 4 + 8 <= n
      BY <2>2
    <3>2. Agree(s, a + 4, middle, 8)
      BY <1>4
    <3> QED BY <2>4, <3>1, <3>2
  <2>8. Agree(ip, 12, f.sender, 4)
    <3>1. 12 \in Nat /\ 4 \in Nat /\ 12 + 4 <= n
      BY <2>2
    <3>2. Agree(s, a + 12, f.sender, 4)
      BY <1>4
    <3> QED BY <2>4, <3>1, <3>2
  <2>9. Agree(ip, at + 2, f.port, 2)
    <3>1. at + 2 \in Nat /\ 2 \in Nat /\ at + 2 + 2 <= n
      BY <2>2
    <3>2. Agree(s, a + (at + 2), f.port, 2)
      BY <2>3
    <3> QED BY <2>4, <3>1, <3>2
  <2>10. Agree(ip, at + 4, size, 2)
    <3>1. at + 4 \in Nat /\ 2 \in Nat /\ at + 4 + 2 <= n
      BY <2>2
    <3>2. Agree(s, a + (at + 4), size, 2)
      BY <2>3
    <3> QED BY <2>4, <3>1, <3>2
  <2>11. Agree(ip, at + 8, f.payload, m)
    BY <2>2, <2>3, <2>4, Zenon
  <2> QED BY <2>5, <2>6, <2>7, <2>8, <2>9, <2>10, <2>11
<1>13. HeaderSize(ip) = at /\ Byte(ip, 0) \div 16 = 4
  <2>1. Byte(ip, 0) = 69 + k
    BY <1>6, <1>12, AgreeNumber
  <2>2. (69 + k) % 16 = 5 + k /\ (69 + k) \div 16 = 4 /\ (5 + k) * 4 = at
    BY <1>1
  <2> QED BY <2>1, <2>2 DEF HeaderSize
<1>14. Byte(ip, 9) = 17
  <2>1. Byte(ip, 4 + 5) = Byte(middle, 5)
    BY <1>12 DEF Agree
  <2> QED BY <1>6, <2>1
<1>15. U16(ip, 2) = 28 + (x + m)
  BY <1>7, <1>12, AgreeNumber
<1> HIDE DEF ip
<1> DEFINE udp == Slice(ip, at, at + (8 + m))
<1>16. UdpOf(ip) = udp
  <2>1. LeastOf(n, MostOf(28 + (x + m), at)) = at + (8 + m)
    BY <1>3 DEF LeastOf, MostOf
  <2> QED BY <1>11, <1>13, <1>15, <2>1 DEF UdpOf
<1>17. at \in Nat /\ 8 + m \in Nat /\ 2 \in Nat /\ 4 \in Nat /\ 8 \in Nat /\ 12 \in Nat
  OBVIOUS
<1>18. n >= at /\ at >= 20 /\ n >= 20
  BY <1>3
<1> HIDE DEF at
<1>a. PICK c \in Nat : c = 8 + m
  OBVIOUS
<1>19. Len(udp) = 8 + m
  <2>1. udp = Slice(ip, at, at + c)
    BY <1>a
  <2> HIDE DEF udp
  <2>2. Len(Slice(ip, at, at + c)) = c
    BY <1>17, SliceLength
  <2> QED BY <1>a, <2>1, <2>2
<1>20. Agree(udp, 2, f.port, 2) /\ Agree(udp, 4, size, 2) /\ Agree(udp, 8, f.payload, m)
  <2>1. 2 + 2 <= c /\ 4 + 2 <= c /\ 8 + m <= c
    BY <1>a
  <2>2. udp = Slice(ip, at, at + c)
    BY <1>a
  <2> HIDE DEF udp
  <2>3. ASSUME NEW i \in Nat, NEW mid, NEW l \in Nat, i + l <= c, Agree(ip, at + i, mid, l)
        PROVE  Agree(udp, i, mid, l)
    BY <1>17, <2>2, <2>3, AgreeInSlice
  <2>4. Agree(udp, 2, f.port, 2)
    <3>1. 2 \in Nat /\ 2 \in Nat /\ 2 + 2 <= c
      BY <2>1
    <3>2. Agree(ip, at + 2, f.port, 2)
      BY <1>12
    <3> QED BY <2>3, <3>1, <3>2
  <2>5. Agree(udp, 4, size, 2)
    <3>1. 4 \in Nat /\ 2 \in Nat /\ 4 + 2 <= c
      BY <2>1
    <3>2. Agree(ip, at + 4, size, 2)
      BY <1>12
    <3> QED BY <2>3, <3>1, <3>2
  <2>6. Agree(udp, 8, f.payload, m)
    <3>1. 8 \in Nat /\ m \in Nat /\ 8 + m <= c
      BY <2>1
    <3>2. Agree(ip, at + 8, f.payload, m)
      BY <1>12
    <3> QED BY <2>3, <3>1, <3>2
  <2> QED BY <2>4, <2>5, <2>6
<1> HIDE DEF udp
<1>21. U16(udp, 4) = 8 + m
  BY <1>7, <1>20, AgreeNumber
<1>22. PayloadSize(udp) = m
  BY <1>19, <1>21 DEF PayloadSize, LeastOf
<1>23. /\ Slice(udp, 2, 4) = f.port /\ Slice(ip, 12, 16) = f.sender
       /\ Slice(udp, 8, 8 + m) = f.payload
  <2>1. Slice(udp, 2, 2 + 2) = f.port
    <3>1. 2 \in Nat /\ 2 \in Nat /\ Long(2, f.port) /\ Agree(udp, 2, f.port, 2)
      BY <1>5, <1>17, <1>20
    <3> QED BY <3>1, AgreeIsSlice
  <2>2. Slice(ip, 12, 12 + 4) = f.sender
    <3>1. 12 \in Nat /\ 4 \in Nat /\ Long(4, f.sender) /\ Agree(ip, 12, f.sender, 4)
      BY <1>5, <1>12, <1>17
    <3> QED BY <3>1, AgreeIsSlice
  <2>3. Slice(udp, 8, 8 + m) = f.payload
    BY <1>17, <1>20, AgreeIsSlice, Zenon
  <2> QED BY <2>1, <2>2, <2>3
<1>24. Datagram(ip, udp) =
         IF m = 0 THEN Nothing
         ELSE [is |-> "datagram", port |-> f.port, sender |-> f.sender,
               payload |-> f.payload]
  <2>1. /\ ~(Len(ip) < 20) /\ ~(HeaderSize(ip) < 20) /\ ~(Len(ip) < HeaderSize(ip))
        /\ ~(Len(udp) < 8) /\ (PayloadSize(udp) <= 0 <=> m = 0)
    BY <1>11, <1>13, <1>17, <1>18, <1>19, <1>22
  <2> QED BY <1>13, <1>14, <1>22, <1>23, <2>1 DEF Datagram
<1>25. Slice(s, IpAt(s), Len(s)) = ip
  BY <1>4, <1>10 DEF ip
<1>26. ~(Len(s) < IpAt(s)) /\ U16(s, IpAt(s) - 2) = 2048
  <2>1. a - 2 = 12 + t /\ ~(a + n < a)
    BY <1>2
  <2> QED BY <1>4, <1>9, <1>10, <2>1
<1> QED BY <1>16, <1>24, <1>25, <1>26 DEF DecodeUdpFrame

\* A name that fits is read back with the device.
LEMMA DeviceSays ==
    ASSUME NEW host \in AnyHost, NEW type
    PROVE  Says(AsDevice(host, type), host)
<1>1. ASSUME Len(host.name) <= 20, \A i \in 1 .. Len(host.name) : host.name[i] # 0
      PROVE  Unpadded(Padded(host.name, 20)) = host.name
  <2>1. host.name \in Octets
    BY DEF AnyHost
  <2>2. PICK n \in Nat : n = 20
    OBVIOUS
  <2>3. Unpadded(Padded(host.name, n)) = host.name
    BY <1>1, <2>1, <2>2, TextReadsBack
  <2> QED BY <2>2, <2>3
<1> DEFINE device == AsDevice(host, type)
<1>2. /\ device.id = <<host.id>> /\ device.mac = host.mac /\ device.ip = host.ip
      /\ device.name = Unpadded(Padded(host.name, 20))
  BY DEF AsDevice
<1> HIDE DEF device
<1>3. Says(device, host)
  BY <1>1, <1>2 DEF Says
<1> QED BY <1>3 DEF device

\* What is announced, whole and cut off.
LEMMA AnnouncedReadsBack ==
    ASSUME NEW host \in AnyHost, NEW b \in Announcing(host)
    PROVE  /\ b \in Octets
           /\ \A n \in Nat : 44 <= n /\ n <= Len(b) =>
                Says(DeviceFromPacketWithInfo(Cut(b, n), host.ip), host)
           /\ LET active == DeviceFromPacket(b)
              IN /\ Says(active, host)
                 /\ b # MakeStage06(host, 2) => active.type = <<host.type>>
                 /\ DeviceFromPacketWithInfo(b, host.ip) = active
<1>1. 2 \in Octet
  BY DEF Octet
<1>2. \/ b = MakeAnnouncePacket(host) \/ b = MakeStage06(host, 2)
      \/ b = MakeStagehand06(host) /\ host.type = Stagehand
  BY DEF Announcing
<1>3. PICK type : /\ [bytes |-> b, type |-> type] \in Announcements(host)
                  /\ b # MakeStage06(host, 2) => type = host.type
  BY <1>1, <1>2 DEF Announcements
<1> DEFINE a == [bytes |-> b, type |-> type]
<1>4. a.bytes = b /\ a.type = type
  OBVIOUS
<1>5. a \in Announcements(host)
  BY <1>3
<1> HIDE DEF a
<1>6. b \in Octets
  BY <1>4, <1>5, AnnouncementsAnnounce DEF Announces
<1>7. /\ DeviceFromPacket(b) = AsDevice(host, type)
      /\ DeviceFromPacketWithInfo(b, host.ip) = AsDevice(host, type)
  BY <1>4, <1>5, AnnouncementsReadBack
<1>8. ASSUME NEW n \in Nat, 44 <= n, n <= Len(b)
      PROVE  Says(DeviceFromPacketWithInfo(Cut(b, n), host.ip), host)
  <2>1. PICK m \in Nat : m = Len(b)
    BY <1>6 DEF Octets
  <2>2. n \in 44 .. Len(a.bytes)
    BY <1>4, <1>8, <2>1
  <2>3. \E other : DeviceFromPacketWithInfo(SubSeq(a.bytes, 1, n), host.ip) = AsDevice(host, other)
    BY <1>5, <2>2, AnnouncementsReadBack
  <2> QED BY <1>4, <2>3, DeviceSays DEF Cut
<1>9. AsDevice(host, type).type = <<type>>
  BY DEF AsDevice
<1> QED BY <1>3, <1>6, <1>7, <1>8, <1>9, DeviceSays

\* What the crate announces is read back as the device it is, also from a packet cut off
\* before the type; the status it sends is a player without a track; a captured frame
\* gives its payload, whatever is around it.
THEOREM SentReadsBackHolds == WireSpec => []SentReadsBack
<1>1. Considered => SentReadsBack
  <2> SUFFICES ASSUME Considered PROVE SentReadsBack
    OBVIOUS
  <2> DEFINE
        Device ==
          Of({"sent"}) /\ case.as = "device" =>
            LET host == case.host
                active == DeviceFromPacket(case.bytes)
                passive == DeviceFromPacketWithInfo(case.bytes, host.ip)
            IN /\ Len(case.bytes) >= 44 => Says(passive, host)
               /\ case.whole => /\ Says(active, host) /\ SaysType(active, host)
                                /\ passive = active
        Status ==
          WholeOf({"sent"}) /\ case.as = "status" =>
            LET status == Heard(case.port, case.bytes, FALSE)
            IN /\ status.id = <<case.host.id>> /\ status.track = Zeros(8)
               /\ <<>> = status.bpm /\ <<>> = status.beat /\ <<>> = status.cue
        Frame ==
          WholeOf({"frame"}) =>
            LET f == case.frame
            IN DecodeUdpFrame(case.bytes) =
                 IF f.payload = <<>> THEN Nothing
                 ELSE [is |-> "datagram", port |-> f.port, sender |-> f.sender,
                       payload |-> f.payload]
  <2>1. CASE case.of # "sent" /\ case.of # "frame"
    BY <2>1 DEF SentReadsBack, WholeOf, Of
  <2>2. ASSUME NEW host \in Senders, NEW peer \in Peers, NEW p \in Sent(host, peer),
               NEW n \in 0 .. Len(p.bytes), case = SentInput(host, p, n)
        PROVE  SentReadsBack
    <3>1. host \in AnyHost /\ peer \in AnyHost
      BY DevicesAssumption
    <3>2. p.bytes \in Octets
      BY <3>1, SentOctets
    <3>3. /\ case.of = "sent" /\ case.bytes = Cut(p.bytes, n) /\ case.port = p.port
          /\ case.as = p.as /\ case.host = host
          /\ case.whole <=> n = Len(p.bytes)
      BY <2>2 DEF SentInput
    <3>4. PICK m \in Nat : m = Len(p.bytes) /\ n \in Nat /\ n <= m
      BY <3>2 DEF Octets
    <3>5. Len(case.bytes) = n
      BY <3>2, <3>3, <3>4, CutBytes DEF Cut
    <3>6. case.whole => case.bytes = p.bytes
      BY <3>2, <3>3, WholeIsUncut
    <3>7. Device
      <4> SUFFICES ASSUME case.as = "device" PROVE Device
        OBVIOUS
      <4>1. p.bytes \in Announcing(host)
        BY <3>3, SentPackets
      <4>2. n >= 44 => Says(DeviceFromPacketWithInfo(Cut(p.bytes, n), host.ip), host)
        BY <3>1, <3>4, <4>1, AnnouncedReadsBack
      <4>3. /\ Says(DeviceFromPacket(p.bytes), host)
            /\ p.bytes # MakeStage06(host, 2) => DeviceFromPacket(p.bytes).type = <<host.type>>
            /\ DeviceFromPacketWithInfo(p.bytes, host.ip) = DeviceFromPacket(p.bytes)
        BY <3>1, <4>1, AnnouncedReadsBack
      <4> QED BY <3>3, <3>5, <3>6, <4>2, <4>3 DEF SaysType
    <3>8. Status
      <4> SUFFICES ASSUME case.as = "status", case.whole PROVE Status
        BY DEF WholeOf
      <4>1. p.port = "status" /\ p.bytes = MakeStatusPacket(host)
        BY <3>3, SentPackets DEF Playing
      <4>2. /\ Heard("status", MakeStatusPacket(host), FALSE).id = <<host.id>>
            /\ Heard("status", MakeStatusPacket(host), FALSE).track = Zeros(8)
            /\ Heard("status", MakeStatusPacket(host), FALSE).bpm = <<>>
            /\ Heard("status", MakeStatusPacket(host), FALSE).beat = <<>>
            /\ Heard("status", MakeStatusPacket(host), FALSE).cue = <<>>
        BY <3>1, StatusReadsBack
      <4> QED BY <3>3, <3>6, <4>1, <4>2
    <3>9. Frame
      BY <3>3 DEF WholeOf, Of
    <3> QED BY <3>7, <3>8, <3>9 DEF SentReadsBack
  <2>3. ASSUME NEW f \in Frames, NEW n \in 0 .. Len(FrameOf(f)), case = FrameInput(f, n)
        PROVE  SentReadsBack
    <3>1. /\ case.of = "frame" /\ case.frame = f /\ case.bytes = Cut(FrameOf(f), n)
          /\ case.whole <=> n = Len(FrameOf(f))
      BY <2>3 DEF FrameInput
    <3>2. Device /\ Status
      BY <3>1 DEF WholeOf, Of
    <3>3. IsEthernet(f)
      BY FramesAssumption
    <3>4. case.whole => case.bytes = FrameOf(f)
      BY <3>1, <3>3, FrameOctets, WholeIsUncut
    <3>5. PICK t \in {0, 4} : Long(t, f.tag)
      <4>1. Len(<<>>) = 0 /\ <<>> \in Octets
        BY DEF Octets
      <4>2. f.tag = <<>> \/ Long(4, f.tag)
        BY <3>3 DEF IsEthernet
      <4> QED BY <4>1, <4>2 DEF Long
    <3>6. PICK k \in 0 .. 10 : Long(4 * k, f.options)
      BY <3>3 DEF IsEthernet, Long
    <3>7. PICK m \in Nat : Long(m, f.payload)
      BY <3>3 DEF IsEthernet, Long, Octets
    <3>8. PICK r \in Nat : Long(r, f.padding)
      BY <3>3 DEF IsEthernet, Long, Octets
    <3>9. 4 * k + m <= Room
      <4>1. Carried(f) <= Room
        BY <3>3 DEF IsEthernet
      <4>2. Carried(f) = 4 * k + m
        BY <3>6, <3>7 DEF Carried, Long
      <4> QED BY <4>1, <4>2
    <3>10. t \in Nat
      OBVIOUS
    <3>11. Laid(FrameOf(f), f, t, 4 * k, m, r)
      BY <3>3, <3>5, <3>6, <3>7, <3>8, <3>9, <3>10, FrameLaid
    <3>a. PICK x \in Nat : x = 4 * k /\ x + m <= Room /\ Laid(FrameOf(f), f, t, x, m, r)
      BY <3>9, <3>11
    <3>12. DecodeUdpFrame(FrameOf(f)) =
             IF m = 0 THEN Nothing
             ELSE [is |-> "datagram", port |-> f.port, sender |-> f.sender,
                   payload |-> f.payload]
      BY <3>3, <3>5, <3>7, <3>a, FrameReadsBack
    <3>13. m = 0 <=> f.payload = <<>>
      BY <3>7, EmptySeq DEF Long, Octets
    <3>14. Frame
      BY <3>1, <3>4, <3>12, <3>13 DEF WholeOf
    <3> QED BY <3>2, <3>14 DEF SentReadsBack
  <2>4. CASE case = [of |-> "none"]
    BY <2>1, <2>4
  <2>5. ASSUME NEW p, NEW n, case = HeardInput(p, n) PROVE SentReadsBack
    BY <2>1, <2>5 DEF HeardInput
  <2> QED BY <2>2, <2>3, <2>4, <2>5 DEF Considered
<1> QED BY <1>1, ConsideredHolds, PTL

-----------------------------------------------------------------------------
(* The database service (Database) that asks the local and the remote       *)
(* database: for any number of lookups and media, what they answer is of    *)
(* one medium and they fail only if they must.                              *)

Names == {"row", "info", "beatGrid", "hd", "preview", "detailed", "dat", "ext", "twoEx"} \cup Ops
Parts == [what : Names, failed : {"error", "none", "skip"}]
GoodCalls ==
    {call \in [step : {"idle", "ask", "open", "remote", "parts", "done"},
               op : Ops, track : TrackTypes, plan : Seq(Parts),
               got : SUBSET [what : Names, medium : Media],
               asked : SUBSET {"local", "remote"}, medium : Media \cup {Missing},
               failure : {"no", "error", "none", "skip"}, fallback : BOOLEAN, late : BOOLEAN,
               end : {"no", "none", "error", "found"}] :
       /\ call.step = "parts" => call.plan # <<>>
       /\ call.step = "open" => call.medium \in Media}

Active(call) == call.step \notin {"idle", "done"}

\* What is looked up goes to the player itself, for a track that is in no database
\* of a player.
Undescribed == {"streaming", "unanalyzed", "audioCd"}

\* The lookups that can do without a part of their answer: all they ask for, and
\* that part.
Lenient(call) ==
    \/ call.op = "analysis"
    \/ call.op = "metadata" /\ call.track \in Undescribed
Whole(call) ==
    IF call.op = "analysis" THEN FilePlan("analysis") ELSE RemotePlan("metadata", call.track)
Optional(call) == <<Part(IF call.op = "analysis" THEN "twoEx" ELSE "info", "skip")>>

Careful(call) ==
    /\ call.op = "metadata" /\ call.end = "none" /\ "local" \in call.asked
         => "remote" \in call.asked \/ call.failure # "no"
    /\ call.end = "error" => ~call.fallback
    /\ call.op = "metadata" /\ call.track \in Undescribed => call.step \notin {"ask", "open"}
    /\ call.op = "analysis" => call.step # "remote"
    /\ Lenient(call) /\ call.step = "parts" =>
         \/ call.got = {} /\ call.plan = Whole(call)
         \/ call.plan = Optional(call)
    /\ HasEnough(call) => call.end \in {"no", "found"}
    /\ call.step # "done" => call.end = "no" /\ call.failure \in {"no", "skip"}
    /\ call.step \in {"ask", "open", "remote"} => call.got = {}

\* What a lookup that was not overtaken by a swap has, is of the medium in the slot.
Current(call) ==
    /\ call.late \/ \A p, q \in call.got : p.medium = q.medium
    /\ Active(call) /\ ~call.late => \A p \in call.got : p.medium = media
    /\ call.step = "open" /\ ~call.late => call.medium = media

LookupInv ==
    /\ media \in Media /\ local \in [Media -> Media \cup {Missing}]
    /\ calls \in [Callers -> GoodCalls]
    /\ \A c \in Callers : Careful(calls[c]) /\ Current(calls[c])

LEMMA IdleLookupIsGood == Idle \in GoodCalls /\ Careful(Idle) /\ Current(Idle)
<1>1. Idle \in GoodCalls
  <2>1. <<>> \in Seq(Parts)
    OBVIOUS
  <2> QED BY <2>1 DEF Idle, GoodCalls, Ops, TrackTypes
<1>2. Careful(Idle) /\ Current(Idle)
  BY DEF Idle, Careful, Current, Active, Undescribed, HasEnough
<1> QED BY <1>1, <1>2

LEMMA LookupsStart == DatabaseInit => LookupInv
BY IdleLookupIsGood DEF DatabaseInit, LookupInv

\* A step of one lookup.
LEMMA LookupMoves ==
  ASSUME LookupInv, NEW c \in Callers, NEW m \in GoodCalls, Careful(m), Current(m),
         Becomes(c, m), UNCHANGED media,
         local' \in [Media -> Media \cup {Missing}]
  PROVE  LookupInv'
BY DEF LookupInv, Becomes, Careful, Current, Active

\* One that ends.
LEMMA Ending ==
  ASSUME LookupInv, NEW c \in Callers, NEW m \in GoodCalls, Current(m),
         NEW end \in {"none", "error", "found"}, Ends(c, m, end),
         UNCHANGED media, local' \in [Media -> Media \cup {Missing}],
         /\ m.op = "metadata" /\ end = "none" /\ "local" \in m.asked
              => "remote" \in m.asked \/ m.failure # "no",
         end = "error" => ~m.fallback,
         end # "found" => ~HasEnough(m)
  PROVE  LookupInv'
<1> DEFINE w == [m EXCEPT !.step = "done", !.plan = <<>>, !.end = end]
<1>0. <<>> \in Seq(Parts)
  OBVIOUS
<1>1. /\ w.op = m.op /\ w.end = end /\ w.asked = m.asked /\ w.failure = m.failure
      /\ w.step = "done" /\ w.fallback = m.fallback /\ w.track = m.track /\ w.got = m.got
      /\ w.late = m.late /\ w \in GoodCalls
  BY <1>0 DEF GoodCalls
<1>2. Becomes(c, w)
  BY DEF Ends
<1> HIDE DEF w
<1>3. Careful(w) /\ Current(w)
  BY <1>1 DEF Careful, Current, Active, HasEnough
<1> QED BY <1>1, <1>2, <1>3, LookupMoves

\* What is asked for, and what there is to ask for it.
LEMMA PlansTyped ==
  ASSUME NEW op \in Ops, NEW track \in TrackTypes
  PROVE  /\ RemotePlan(op, track) \in Seq(Parts) /\ RemotePlan(op, track) # <<>>
         /\ op # "playlist" => FilePlan(op) \in Seq(Parts) /\ FilePlan(op) # <<>>
<1>1. \A what \in Names, failed \in {"error", "none", "skip"} : Part(what, failed) \in Parts
  BY DEF Part, Parts
<1>2. ASSUME NEW what \in Names
      PROVE  Required(<<what>>) = <<Part(what, "error")>>
  <2>1. DOMAIN Required(<<what>>) = 1 .. 1
    BY DEF Required
  <2>2. Required(<<what>>)[1] = Part(what, "error")
    BY DEF Required
  <2> QED BY <2>1, <2>2 DEF Required
<1>3. ASSUME NEW parts \in Seq(Names), Len(parts) = 3
      PROVE  Required(parts) \in Seq(Parts) /\ Required(parts) # <<>>
  <2> DEFINE r == Required(parts)
  <2>1. r = [i \in 1 .. 3 |-> Part(parts[i], "error")]
    BY <1>3 DEF Required
  <2>2. ASSUME NEW i \in 1 .. 3 PROVE Part(parts[i], "error") \in Parts
    <3>1. parts[i] \in Names
      BY <1>3, ElementOfSeq
    <3> QED BY <1>1, <3>1
  <2>3. r \in [1 .. 3 -> Parts]
    BY <2>1, <2>2
  <2> HIDE DEF r
  <2>4. r \in Seq(Parts) /\ Len(r) = 3
    <3>1. PICK n \in Nat : n = 3
      OBVIOUS
    <3>2. r \in [1 .. n -> Parts]
      BY <2>3, <3>1
    <3>3. r \in Seq(Parts) /\ Len(r) = n
      BY <3>2, SeqDef
    <3> QED BY <3>1, <3>3
  <2> QED BY <2>4, EmptySeq DEF r
<1>4. \A what \in Names, failed \in {"error", "none", "skip"} :
        <<Part(what, failed)>> \in Seq(Parts) /\ <<Part(what, failed)>> # <<>>
  BY <1>1
<1>5. /\ RemotePlan(op, track) \in Seq(Parts) /\ RemotePlan(op, track) # <<>>
  <2>1. CASE op = "metadata" /\ track \in {"unanalyzed", "audioCd", "streaming"}
    <3>1. RemotePlan(op, track) = <<Part("row", "error"), Part("info", "skip")>>
      BY <2>1 DEF RemotePlan
    <3>2. Part("row", "error") \in Parts /\ Part("info", "skip") \in Parts
      BY <1>1 DEF Names
    <3> QED BY <3>1, <3>2
  <2>2. CASE op = "metadata" /\ track \notin {"unanalyzed", "audioCd", "streaming"}
    <3>1. RemotePlan(op, track) = Required(<<"row", "info", "beatGrid">>)
      BY <2>2 DEF RemotePlan
    <3>2. <<"row", "info", "beatGrid">> \in Seq(Names)
      BY DEF Names
    <3> QED BY <1>3, <3>1, <3>2
  <2>3. CASE op = "waveforms" /\ track = "streaming"
    <3>1. RemotePlan(op, track) = Required(<<"hd", "preview", "detailed">>)
      BY <2>3 DEF RemotePlan
    <3>2. <<"hd", "preview", "detailed">> \in Seq(Names)
      BY DEF Names
    <3> QED BY <1>3, <3>1, <3>2
  <2>4. CASE op = "waveforms" /\ track # "streaming"
    <3>1. RemotePlan(op, track) = Required(<<"hd">>)
      BY <2>4 DEF RemotePlan
    <3> QED BY <1>2, <1>4, <3>1 DEF Names
  <2>5. CASE op \notin {"metadata", "waveforms"}
    <3>1. RemotePlan(op, track) = Required(<<op>>)
      BY <2>5 DEF RemotePlan
    <3> QED BY <1>2, <1>4, <3>1 DEF Names
  <2> QED BY <2>1, <2>2, <2>3, <2>4, <2>5
<1>6. ASSUME op # "playlist"
      PROVE  FilePlan(op) \in Seq(Parts) /\ FilePlan(op) # <<>>
  <2>1. CASE op = "metadata"
    <3>1. FilePlan(op) = Required(<<"dat">>)
      BY <2>1 DEF FilePlan
    <3> QED BY <1>2, <1>4, <3>1 DEF Names
  <2>2. CASE op \in {"file", "thumbnail", "artwork"}
    <3>1. FilePlan(op) = <<Part(op, "none")>>
      BY <2>2 DEF FilePlan
    <3> QED BY <1>4, <3>1 DEF Names
  <2>3. CASE op = "waveforms"
    <3>1. FilePlan(op) = Required(<<"ext">>)
      BY <2>3 DEF FilePlan
    <3> QED BY <1>2, <1>4, <3>1 DEF Names
  <2>4. CASE op = "analysis"
    <3>1. FilePlan(op) = <<Part("ext", "error"), Part("twoEx", "skip")>>
      BY <2>4 DEF FilePlan
    <3>2. Part("ext", "error") \in Parts /\ Part("twoEx", "skip") \in Parts
      BY <1>1 DEF Names
    <3> QED BY <3>1, <3>2
  <2> QED BY <1>6, <2>1, <2>2, <2>3, <2>4 DEF Ops
<1> QED BY <1>5, <1>6

-----------------------------------------------------------------------------
(* The steps of a lookup.                                                   *)

\* A lookup that goes on.
LEMMA Going ==
  ASSUME LookupInv, NEW c \in Callers, NEW m \in GoodCalls, Becomes(c, m), UNCHANGED media,
         local' \in [Media -> Media \cup {Missing}],
         m.step \in {"ask", "open", "remote", "parts"}, m.end = "no",
         m.failure \in {"no", "skip"},
         m.step \in {"ask", "open", "remote"} => m.got = {},
         m.op = "metadata" /\ m.track \in Undescribed => m.step \notin {"ask", "open"},
         m.op = "analysis" => m.step # "remote",
         Lenient(m) /\ m.step = "parts" =>
           \/ m.got = {} /\ m.plan = Whole(m)
           \/ m.plan = Optional(m),
         m.late \/ ((\A p \in m.got : p.medium = media)
                    /\ (m.step = "open" => m.medium = media))
  PROVE  LookupInv'
<1>1. Careful(m)
  BY DEF Careful
<1>2. Current(m)
  BY DEF Current, Active
<1> QED BY <1>1, <1>2, LookupMoves

LEMMA LookupStep ==
  ASSUME LookupInv, NEW c \in Callers, Lookup(c)
  PROVE  LookupInv'
<1>0. PICK op \in Ops \ {"artwork"}, device \in DeviceTypes, track \in TrackTypes, slot \in Slots :
         LET strategy == Strategy(op, device, track, slot)
             call == [Idle EXCEPT !.op = op, !.track = track]
         IN \/ strategy = "none" /\ Ends(c, call, "none")
            \/ /\ strategy = "remote" /\ op \in {"file", "analysis"}
               /\ Ends(c, call, "none")
            \/ /\ strategy = "remote" /\ op \notin {"file", "analysis"}
               /\ Becomes(c, [call EXCEPT !.step = "remote"])
            \/ /\ strategy = "local" /\ slot # "usb"
               /\ Ends(c, [call EXCEPT !.failure = "error"], "error")
            \/ /\ strategy = "local" /\ slot = "usb"
               /\ Becomes(c, [call EXCEPT !.step = "ask"])
  BY DEF Lookup
<1> DEFINE call == [Idle EXCEPT !.op = op, !.track = track]
           failed == [call EXCEPT !.failure = "error"]
           remote == [call EXCEPT !.step = "remote"]
           ask == [call EXCEPT !.step = "ask"]
           strategy == Strategy(op, device, track, slot)
<1>1. UNCHANGED <<media, local>> /\ local' \in [Media -> Media \cup {Missing}]
  BY DEF Lookup, LookupInv
<1>2. /\ call \in GoodCalls /\ failed \in GoodCalls /\ remote \in GoodCalls
      /\ ask \in GoodCalls
  <2>1. call \in GoodCalls /\ call.step = "idle"
    <3>1. Idle \in GoodCalls /\ Idle.step = "idle" /\ op \in Ops
      BY IdleLookupIsGood DEF Idle
    <3> QED BY <3>1 DEF GoodCalls
  <2> HIDE DEF call
  <2> QED BY <2>1 DEF GoodCalls
<1>3. /\ \A m \in {call, failed, remote, ask} :
           m.op = op /\ m.track = track /\ m.got = {} /\ m.asked = {} /\ ~m.fallback
           /\ m.end = "no"
      /\ failed.failure = "error" /\ call.failure = "no"
      /\ remote.failure = "no" /\ ask.failure = "no"
      /\ remote.step = "remote" /\ ask.step = "ask" /\ call.step = "idle"
      /\ failed.step = "idle"
  BY DEF Idle
<1> HIDE DEF call, failed, remote, ask
<1>4. \A m \in {call, failed} : Current(m) /\ ~HasEnough(m)
  BY <1>3 DEF Current, Active, HasEnough
<1>5. CASE strategy \in {"none", "remote"} /\ Ends(c, call, "none")
  BY <1>1, <1>2, <1>3, <1>4, <1>5, Ending
<1>6. CASE op \notin {"file", "analysis"} /\ Becomes(c, remote)
  BY <1>1, <1>2, <1>3, <1>6, Going
<1>7. CASE Ends(c, failed, "error")
  BY <1>1, <1>2, <1>3, <1>4, <1>7, Ending
<1>8. CASE strategy = "local" /\ Becomes(c, ask)
  <2>1. ~(op = "metadata" /\ track \in Undescribed)
    BY <1>8 DEF Strategy, Undescribed
  <2> QED BY <1>1, <1>2, <1>3, <1>8, <2>1, Going
<1> QED BY <1>0, <1>5, <1>6, <1>7, <1>8 DEF call, failed, remote, ask

LEMMA WholePlan ==
  ASSUME NEW call, Lenient(call)
  PROVE  LET plan == Whole(call)
         IN Head(plan).failed = "error" /\ Tail(plan) = Optional(call) /\ Len(plan) = 2
<1>1. PICK what, other :
        /\ Whole(call) = <<Part(what, "error"), Part(other, "skip")>>
        /\ Optional(call) = <<Part(other, "skip")>>
  <2>1. CASE call.op = "analysis"
    BY <2>1 DEF Whole, Optional, FilePlan
  <2>2. CASE call.op # "analysis"
    BY <2>2 DEF Lenient, Whole, Optional, RemotePlan, Undescribed
  <2> QED BY <2>1, <2>2
<1> DEFINE first == Part(what, "error")
           second == Part(other, "skip")
<1>2. first.failed = "error"
  BY DEF Part
<1>3. Whole(call) = <<first, second>> /\ Optional(call) = <<second>>
  BY <1>1
<1> HIDE DEF first, second
<1> QED BY <1>2, <1>3

LEMMA OptionalPlan ==
  ASSUME NEW call
  PROVE  LET plan == Optional(call)
         IN Head(plan).failed = "skip" /\ Tail(plan) = <<>> /\ Len(plan) = 1
<1> DEFINE part == Part(IF call.op = "analysis" THEN "twoEx" ELSE "info", "skip")
<1>1. Optional(call) = <<part>> /\ part.failed = "skip"
  BY DEF Optional, Part
<1> HIDE DEF part
<1> QED BY <1>1

LEMMA StartSteps ==
  ASSUME LookupInv, NEW c \in Callers, LookupArtwork(c) \/ NoDevice(c) \/ Return(c)
  PROVE  LookupInv'
<1> DEFINE call == [Idle EXCEPT !.op = "artwork"]
           files == [call EXCEPT !.step = "parts", !.plan = FilePlan("artwork")]
<1>1. UNCHANGED <<media, local>> /\ local' \in [Media -> Media \cup {Missing}]
  BY DEF LookupArtwork, NoDevice, Return, LookupInv
<1>2. /\ call \in GoodCalls /\ call.got = {} /\ call.op = "artwork"
      /\ call.failure = "no" /\ call.end = "no" /\ call.step = "idle" /\ ~call.fallback
  BY IdleLookupIsGood DEF Idle, GoodCalls, Ops
<1>3. FilePlan("artwork") \in Seq(Parts) /\ FilePlan("artwork") # <<>>
  BY PlansTyped DEF Ops, TrackTypes
<1>4. Idle.op = "metadata" /\ Idle.got = {} /\ Idle.asked = {} /\ Idle.failure = "no"
  BY DEF Idle
<1>5. CASE Ends(c, call, "none")
  <2>1. Current(call) /\ ~HasEnough(call)
    BY <1>2 DEF Current, Active, HasEnough
  <2> HIDE DEF call
  <2> QED BY <1>1, <1>2, <1>5, <2>1, Ending
<1>6. CASE Becomes(c, files)
  <2> HIDE DEF call
  <2>1. /\ files \in GoodCalls /\ files.got = {} /\ files.op = "artwork"
        /\ files.failure = "no" /\ files.end = "no" /\ files.step = "parts"
    BY <1>2, <1>3 DEF GoodCalls
  <2> HIDE DEF files
  <2> QED BY <1>1, <1>6, <2>1, Going DEF Lenient
<1>7. CASE NoDevice(c)
  <2>1. Ends(c, Idle, "none") /\ ~HasEnough(Idle)
    BY <1>4, <1>7 DEF NoDevice, HasEnough
  <2> QED BY <1>1, <1>4, <2>1, Ending, IdleLookupIsGood
<1>8. CASE Return(c)
  BY <1>1, <1>8, LookupMoves, IdleLookupIsGood DEF Return
<1> QED BY <1>5, <1>6, <1>7, <1>8 DEF LookupArtwork

LEMMA AskPlayerStep ==
  ASSUME LookupInv, NEW c \in Callers, Ask(c)
  PROVE  LookupInv'
<1> DEFINE m == [calls[c] EXCEPT !.step = "open", !.medium = media]
<1>1. /\ calls[c] \in GoodCalls /\ Careful(calls[c]) /\ Current(calls[c])
      /\ calls[c].step = "ask" /\ media \in Media
      /\ local' \in [Media -> Media \cup {Missing}]
  BY DEF LookupInv, Ask, At
<1>2. /\ m \in GoodCalls /\ m.step = "open" /\ m.medium = media
      /\ m.got = calls[c].got /\ m.op = calls[c].op /\ m.track = calls[c].track
      /\ m.failure = calls[c].failure /\ m.end = calls[c].end
  BY <1>1 DEF GoodCalls
<1>3. Becomes(c, m) /\ UNCHANGED media
  BY DEF Ask
<1> HIDE DEF m
<1>4. m.got = {} /\ m.end = "no" /\ m.failure \in {"no", "skip"}
      /\ ~(m.op = "metadata" /\ m.track \in Undescribed)
  BY <1>1, <1>2 DEF Careful
<1> QED BY <1>1, <1>2, <1>3, <1>4, Going

LEMMA OpenStep ==
  ASSUME LookupInv, NEW c \in Callers, Open(c)
  PROVE  LookupInv'
<1> DEFINE old == calls[c]
           contents == IF local[old.medium] # Missing THEN local[old.medium] ELSE media
           call == [old EXCEPT !.asked = @ \cup {"local"},
                               !.late = @ \/ contents # old.medium]
           row == [call EXCEPT !.got = {[what |-> "row", medium |-> contents]}]
           files(m) == [m EXCEPT !.step = "parts", !.plan = FilePlan(old.op)]
           second == [call EXCEPT !.step = "remote", !.fallback = TRUE]
<1>1. /\ old \in GoodCalls /\ Careful(old) /\ Current(old) /\ old.step = "open"
      /\ media \in Media /\ old.medium \in Media /\ local \in [Media -> Media \cup {Missing}]
  BY DEF LookupInv, Open, At, GoodCalls
<1>2. contents \in Media
  BY <1>1
<1>3. local' \in [Media -> Media \cup {Missing}] /\ UNCHANGED media
  BY <1>1, <1>2 DEF Open
<1>4. old.late \in BOOLEAN
  BY <1>1 DEF GoodCalls
<1>5. /\ call.op = old.op
      /\ \/ old.op = "playlist" /\ Ends(c, row, "found")
         \/ /\ old.op = "metadata"
            /\ Becomes(c, files(row)) \/ Becomes(c, second)
         \/ old.op \notin {"playlist", "metadata"} /\ Becomes(c, files(call))
  <2>1. call.op = old.op
    BY <1>1 DEF GoodCalls
  <2> QED BY <2>1 DEF Open
<1> HIDE DEF contents
<1>6. /\ call \in GoodCalls /\ call.step = "open" /\ call.late = (old.late \/ contents # old.medium)
      /\ call.got = old.got /\ call.failure = old.failure /\ call.end = old.end
      /\ call.track = old.track
  BY <1>1, <1>2, <1>4 DEF GoodCalls
<1>7. ~(old.op = "metadata" /\ old.track \in Undescribed) /\ old.end = "no"
      /\ old.failure \in {"no", "skip"}
  BY <1>1 DEF Careful
<1>8. call.late \/ (contents = media /\ \A p \in old.got : p.medium = media)
  BY <1>1, <1>4, <1>6 DEF Current, Active
<1> HIDE DEF call
<1>9. /\ row \in GoodCalls /\ row.step = "open" /\ row.late = call.late
      /\ row.got = {[what |-> "row", medium |-> contents]} /\ row.failure = call.failure
      /\ row.end = call.end /\ row.track = call.track /\ row.op = call.op
  BY <1>2, <1>6 DEF GoodCalls, Names
<1> HIDE DEF row
<1>10. CASE old.op = "playlist" /\ Ends(c, row, "found")
  <2>1. Current(row)
    <3>1. \A p \in row.got : p.medium = contents
      BY <1>9
    <3>2. Active(row)
      BY <1>9 DEF Active
    <3>3. row.medium = old.medium
      BY <1>1, <1>6, <1>9 DEF GoodCalls, row, call
    <3>4. row.late \/ row.medium = media
      BY <1>1, <1>4, <1>6, <1>9, <3>3 DEF Current
    <3> QED BY <1>8, <1>9, <3>1, <3>2, <3>4 DEF Current
  <2> QED BY <1>3, <1>5, <1>9, <1>10, <2>1, Ending
<1>11. ASSUME NEW m \in {row, call}, old.op # "playlist", Becomes(c, files(m)),
              old.op # "metadata" => m = call
       PROVE  LookupInv'
  <2> DEFINE w == files(m)
  <2>1. FilePlan(old.op) \in Seq(Parts) /\ FilePlan(old.op) # <<>>
    BY <1>1, <1>11, PlansTyped DEF GoodCalls
  <2>2. m \in GoodCalls
    BY <1>6, <1>9
  <2>3. /\ w \in GoodCalls /\ w.step = "parts" /\ w.end = m.end /\ w.op = m.op
        /\ w.failure = m.failure /\ w.track = m.track /\ w.got = m.got /\ w.late = m.late
        /\ w.plan = FilePlan(old.op)
    BY <2>1, <2>2 DEF GoodCalls
  <2> HIDE DEF w
  <2>4. m.late \/ \A p \in m.got : p.medium = media
    BY <1>6, <1>8, <1>9
  <2>5. Becomes(c, w)
    BY <1>11 DEF w
  <2>6. w.op = old.op /\ w.track = old.track
    BY <1>5, <1>6, <1>9, <2>3
  <2>7. Lenient(w) => w.got = {} /\ w.plan = Whole(w)
    <3>1. old.got = {}
      BY <1>1 DEF Careful
    <3> QED BY <1>6, <1>7, <1>11, <2>3, <2>6, <3>1 DEF Lenient, Whole
  <2> QED BY <1>3, <1>5, <1>6, <1>7, <1>9, <2>3, <2>4, <2>5, <2>6, <2>7, Going
<1>12. CASE old.op = "metadata" /\ Becomes(c, second)
  <2>0. old.got = {}
    BY <1>1 DEF Careful
  <2>1. /\ second \in GoodCalls /\ second.step = "remote" /\ second.end = call.end
        /\ second.op = call.op /\ second.failure = call.failure
        /\ second.track = call.track /\ second.got = call.got /\ second.late = call.late
    BY <1>6 DEF GoodCalls
  <2> HIDE DEF second
  <2> QED BY <1>3, <1>5, <1>6, <1>7, <1>8, <1>12, <2>0, <2>1, Going
<1> QED BY <1>5, <1>10, <1>11, <1>12

LEMMA MissStep ==
  ASSUME LookupInv, NEW c \in Callers, Miss(c)
  PROVE  LookupInv'
<1> DEFINE old == calls[c]
           call == [old EXCEPT !.asked = @ \cup {"local"}]
           second == [call EXCEPT !.step = "remote", !.fallback = TRUE]
<1>1. /\ old \in GoodCalls /\ Careful(old) /\ Current(old) /\ old.step \in {"ask", "open"}
      /\ local' \in [Media -> Media \cup {Missing}] /\ UNCHANGED <<media, local>>
  BY DEF LookupInv, Miss
<1>2. /\ old.got = {} /\ old.end = "no" /\ old.failure \in {"no", "skip"}
      /\ ~(old.op = "metadata" /\ old.track \in Undescribed)
  BY <1>1 DEF Careful
<1>3. /\ call \in GoodCalls /\ call.op = old.op /\ call.got = old.got /\ call.end = old.end
      /\ call.failure = old.failure /\ call.track = old.track /\ call.step = old.step
  BY <1>1 DEF GoodCalls
<1>4. \/ old.op = "metadata" /\ Becomes(c, second)
      \/ old.op # "metadata" /\ Ends(c, call, "none")
  BY <1>3 DEF Miss
<1> HIDE DEF call
<1>5. CASE old.op = "metadata" /\ Becomes(c, second)
  <2>1. /\ second \in GoodCalls /\ second.op = call.op /\ second.got = call.got
        /\ second.end = call.end /\ second.failure = call.failure
        /\ second.track = call.track /\ second.step = "remote"
    BY <1>3 DEF GoodCalls
  <2> HIDE DEF second
  <2> QED BY <1>1, <1>2, <1>3, <1>5, <2>1, Going
<1>6. CASE old.op # "metadata" /\ Ends(c, call, "none")
  <2>1. call.late = old.late /\ call.medium = old.medium
    BY <1>1 DEF call, GoodCalls
  <2>2. Current(call) /\ ~HasEnough(call)
    BY <1>1, <1>2, <1>3, <2>1 DEF Current, Active, HasEnough
  <2> QED BY <1>1, <1>3, <1>6, <2>2, Ending
<1> QED BY <1>4, <1>5, <1>6

LEMMA NoFileStep ==
  ASSUME LookupInv, NEW c \in Callers, NoFile(c)
  PROVE  LookupInv'
<1>1. /\ calls[c] \in GoodCalls /\ Careful(calls[c]) /\ Current(calls[c])
      /\ calls[c].step = "parts" /\ UNCHANGED media
      /\ local' \in [Media -> Media \cup {Missing}]
  BY DEF LookupInv, NoFile, At
<1>2. calls[c].failure \in {"no", "skip"}
  BY <1>1 DEF Careful
<1>3. \/ calls[c].op = "thumbnail" /\ Ends(c, calls[c], "none")
      \/ Ends(c, calls[c], "found")
  BY DEF NoFile
<1>4. calls[c].op = "thumbnail" => ~HasEnough(calls[c])
  BY DEF HasEnough
<1> QED BY <1>1, <1>2, <1>3, <1>4, Ending

LEMMA ConnectStep ==
  ASSUME LookupInv, NEW c \in Callers, Connect(c)
  PROVE  LookupInv'
<1> DEFINE old == calls[c]
           call == [old EXCEPT !.asked = @ \cup {"remote"}]
           parts == [call EXCEPT !.step = "parts", !.plan = RemotePlan(old.op, old.track)]
<1>1. /\ old \in GoodCalls /\ Careful(old) /\ Current(old) /\ old.step = "remote"
      /\ local' \in [Media -> Media \cup {Missing}] /\ UNCHANGED media
  BY DEF LookupInv, Connect, At
<1>2. old.got = {} /\ old.end = "no" /\ old.failure \in {"no", "skip"} /\ old.op # "analysis"
  BY <1>1 DEF Careful
<1>3. /\ call \in GoodCalls /\ call.op = old.op /\ call.got = old.got /\ call.end = old.end
      /\ call.failure = old.failure /\ call.track = old.track /\ call.step = old.step
      /\ "remote" \in call.asked /\ call.late = old.late /\ call.medium = old.medium
  BY <1>1 DEF GoodCalls
<1>4. Becomes(c, parts) \/ Ends(c, call, "none")
  BY <1>3 DEF Connect
<1> HIDE DEF call
<1>5. CASE Becomes(c, parts)
  <2> DEFINE plan == RemotePlan(old.op, old.track)
  <2>1. plan \in Seq(Parts) /\ plan # <<>>
    BY <1>1, PlansTyped DEF GoodCalls
  <2>2. Lenient(old) => plan = Whole(old)
    BY <1>2 DEF Lenient, Whole
  <2> HIDE DEF plan
  <2>3. /\ parts \in GoodCalls /\ parts.op = call.op /\ parts.got = call.got
        /\ parts.end = call.end /\ parts.failure = call.failure /\ parts.plan = plan
        /\ parts.track = call.track /\ parts.step = "parts"
    BY <1>3, <2>1 DEF GoodCalls, plan
  <2> HIDE DEF parts
  <2>4. Lenient(parts) => parts.plan = Whole(parts)
    BY <1>3, <2>2, <2>3 DEF Lenient, Whole
  <2> QED BY <1>1, <1>2, <1>3, <1>5, <2>3, <2>4, Going
<1>6. CASE Ends(c, call, "none")
  <2>1. Current(call) /\ ~HasEnough(call)
    BY <1>1, <1>2, <1>3 DEF Current, Active, HasEnough
  <2> QED BY <1>1, <1>2, <1>3, <1>6, <2>1, Ending
<1> QED BY <1>4, <1>5, <1>6

LEMMA GetStep ==
  ASSUME LookupInv, NEW c \in Callers, Get(c)
  PROVE  LookupInv'
<1> DEFINE old == calls[c]
           new == [what |-> Head(old.plan).what, medium |-> media]
           call == [old EXCEPT !.plan = Tail(@), !.got = @ \cup {new}]
<1>1. /\ old \in GoodCalls /\ Careful(old) /\ Current(old) /\ old.step = "parts"
      /\ local' \in [Media -> Media \cup {Missing}] /\ UNCHANGED media /\ media \in Media
  BY DEF LookupInv, Get, At
<1>2. old.end = "no" /\ old.failure \in {"no", "skip"}
      /\ (old.late \/ \A p \in old.got : p.medium = media)
  BY <1>1 DEF Careful, Current, Active
<1> DEFINE plan == old.plan
<1>3. plan \in Seq(Parts) /\ plan # <<>>
  BY <1>1 DEF GoodCalls
<1>4. Head(plan) \in Parts /\ Tail(plan) \in Seq(Parts)
  BY <1>3
<1>5. new \in [what : Names, medium : Media] /\ new.medium = media
  BY <1>1, <1>4 DEF Parts
<1>6. IF call.plan = <<>> THEN Ends(c, call, "found") ELSE Becomes(c, call)
  BY DEF Get
<1> HIDE DEF new
<1> DEFINE rest == Tail(old.plan)
<1>7. rest \in Seq(Parts)
  BY <1>4
<1> HIDE DEF rest
<1>8. /\ call.plan = rest /\ call.step = "parts" /\ call.op = old.op /\ call.end = old.end
      /\ call.failure = old.failure /\ call.track = old.track /\ call.late = old.late
      /\ call.got = old.got \cup {new} /\ (rest # <<>> => call \in GoodCalls)
  BY <1>1, <1>5, <1>7 DEF GoodCalls, rest
<1>9. call.late \/ \A p \in call.got : p.medium = media
  BY <1>2, <1>5, <1>8
<1>10. CASE rest # <<>>
  <2>1. Becomes(c, call) /\ call \in GoodCalls
    BY <1>6, <1>8, <1>10
  <2>2. Lenient(call) => call.plan = Optional(call)
    <3>1. Optional(call) = Optional(old) /\ (Lenient(call) <=> Lenient(old))
      BY <1>8 DEF Lenient, Optional
    <3>2. SUFFICES ASSUME Lenient(old) PROVE rest = Optional(old)
      BY <1>8, <3>1
    <3>3. old.plan = Whole(old) \/ old.plan = Optional(old)
      BY <1>1, <3>2 DEF Careful
    <3> QED BY <1>10, <3>2, <3>3, WholePlan, OptionalPlan DEF rest
  <2> HIDE DEF call
  <2> QED BY <1>1, <1>2, <1>8, <1>9, <2>1, <2>2, Going
<1>11. CASE rest = <<>>
  <2> DEFINE w == [call EXCEPT !.step = "done", !.plan = <<>>, !.end = "found"]
  <2>0. <<>> \in Seq(Parts)
    OBVIOUS
  <2>1. Becomes(c, w)
    BY <1>6, <1>8, <1>11 DEF Ends
  <2>2. /\ w \in GoodCalls /\ w.step = "done" /\ w.end = "found" /\ w.got = call.got
        /\ w.failure = old.failure /\ w.late = old.late
    BY <1>1, <1>5, <1>7, <2>0 DEF GoodCalls
  <2> HIDE DEF w
  <2>3. Careful(w) /\ Current(w)
    BY <1>2, <1>8, <1>9, <2>2 DEF Careful, Current, Active, HasEnough
  <2> QED BY <1>1, <2>1, <2>2, <2>3, LookupMoves
<1> QED BY <1>10, <1>11

\* A part that can be left out is skipped, anything else ends the lookup.
LEMMA FailedKeeps ==
  ASSUME LookupInv, NEW c \in Callers, NEW how \in {"error", "none", "skip"}, Failed(c, how),
         Active(calls[c]), UNCHANGED <<media, local>>,
         how = "skip" => /\ calls[c].step = "parts"
                         /\ Head(calls[c].plan).failed = "skip",
         how # "skip" => ~HasEnough(calls[c])
  PROVE  LookupInv'
<1> DEFINE old == calls[c]
           call == [old EXCEPT !.failure = how]
<1>1. /\ old \in GoodCalls /\ Careful(old) /\ Current(old)
      /\ local' \in [Media -> Media \cup {Missing}]
  BY DEF LookupInv
<1>2. old.end = "no" /\ (old.late \/ \A p \in old.got : p.medium = media)
  BY <1>1 DEF Careful, Current, Active
<1>3. /\ call \in GoodCalls /\ call.step = old.step /\ call.op = old.op /\ call.end = old.end
      /\ call.failure = how /\ call.track = old.track /\ call.late = old.late
      /\ call.got = old.got /\ call.plan = old.plan /\ call.fallback = old.fallback
      /\ call.medium = old.medium
  BY <1>1 DEF GoodCalls
<1>4. Current(call)
  BY <1>1, <1>3 DEF Current, Active
<1>5. IF how = "skip"
      THEN IF Len(call.plan) = 1 THEN Ends(c, call, "found")
           ELSE Becomes(c, [call EXCEPT !.plan = Tail(@)])
      ELSE Ends(c, call, IF how = "none" \/ call.fallback THEN "none" ELSE "error")
  BY DEF Failed
<1> HIDE DEF call
<1>6. CASE how = "skip" /\ Len(call.plan) = 1
  BY <1>1, <1>3, <1>4, <1>5, <1>6, Ending
<1>7. CASE how = "skip" /\ Len(call.plan) # 1
  <2> DEFINE rest == Tail(call.plan)
             w == [call EXCEPT !.plan = rest]
  <2>1. call.plan \in Seq(Parts) /\ call.plan # <<>> /\ old.step = "parts"
    BY <1>1, <1>3, <1>7 DEF GoodCalls
  <2>2. rest \in Seq(Parts) /\ rest # <<>>
    <3>1. rest \in Seq(Parts) /\ Len(rest) = Len(call.plan) - 1
      BY <2>1, HeadTailProperties
    <3>2. Len(rest) # 0
      BY <1>7, <2>1, <3>1, EmptySeq
    <3> QED BY <3>1, <3>2, EmptySeq
  <2> HIDE DEF rest
  <2>3. /\ w \in GoodCalls /\ w.step = "parts" /\ w.op = call.op /\ w.end = call.end
        /\ w.failure = how /\ w.track = call.track /\ w.late = call.late /\ w.got = call.got
    BY <1>3, <2>1, <2>2 DEF GoodCalls
  <2>4. Becomes(c, w)
    BY <1>5, <1>7, <1>3 DEF rest
  <2> HIDE DEF w
  <2>5. ~Lenient(old)
    <3>1. SUFFICES ASSUME Lenient(old) PROVE FALSE
      OBVIOUS
    <3>2. old.plan = Whole(old) \/ old.plan = Optional(old)
      BY <1>1, <2>1, <3>1 DEF Careful
    <3>3. old.plan # Optional(old)
      BY <1>3, <1>7, OptionalPlan
    <3>4. Head(old.plan).failed = "error"
      BY <3>1, <3>2, <3>3, WholePlan
    <3> QED BY <1>7, <3>4
  <2>6. ~Lenient(w)
    BY <1>3, <2>3, <2>5 DEF Lenient
  <2> QED BY <1>1, <1>2, <1>3, <1>7, <2>3, <2>4, <2>6, Going
<1>8. CASE how # "skip"
  <2> DEFINE end == IF how = "none" \/ call.fallback THEN "none" ELSE "error"
  <2>1. /\ end \in {"none", "error"} /\ Ends(c, call, end)
        /\ end = "error" => ~call.fallback
        /\ ~HasEnough(call)
    BY <1>3, <1>5, <1>8 DEF HasEnough
  <2> HIDE DEF end
  <2> QED BY <1>1, <1>3, <1>4, <1>8, <2>1, Ending
<1> QED BY <1>6, <1>7, <1>8

LEMMA FailSteps ==
  ASSUME LookupInv, NEW c \in Callers, PartFails(c) \/ ServiceFails(c)
  PROVE  LookupInv'
<1> DEFINE old == calls[c]
<1>1. /\ old \in GoodCalls /\ Careful(old) /\ UNCHANGED <<media, local>>
  BY DEF LookupInv, PartFails, ServiceFails
<1>2. CASE PartFails(c)
  <2> DEFINE plan == old.plan
             how == Head(plan).failed
  <2>1. old.step = "parts" /\ plan \in Seq(Parts) /\ plan # <<>> /\ Active(old)
    BY <1>1, <1>2 DEF PartFails, At, GoodCalls, Active
  <2>2. Head(plan) \in Parts
    BY <2>1
  <2>3. how \in {"error", "none", "skip"}
    BY <2>2 DEF Parts
  <2>4. ASSUME HasEnough(old) PROVE how = "skip"
    <3>1. PICK part \in old.got :
            \/ old.op = "analysis" /\ part.what = "ext"
            \/ /\ old.op = "metadata" /\ old.track \in {"streaming", "unanalyzed", "audioCd"}
               /\ part.what = "row"
      BY <2>4 DEF HasEnough
    <3>2. Lenient(old)
      BY <3>1 DEF Lenient, Undescribed
    <3>3. plan = Optional(old)
      BY <1>1, <2>1, <3>1, <3>2 DEF Careful
    <3> QED BY <3>3, OptionalPlan
  <2>5. Failed(c, how)
    BY <1>2 DEF PartFails
  <2> HIDE DEF how
  <2>6. how = Head(old.plan).failed
    BY DEF how
  <2> QED BY <1>1, <2>1, <2>3, <2>4, <2>5, <2>6, FailedKeeps
<1>3. CASE ServiceFails(c)
  <2>1. old.step \in {"ask", "open", "remote"} /\ Failed(c, "error") /\ Active(old)
    BY <1>3 DEF ServiceFails, Active
  <2>2. ~HasEnough(old)
    BY <1>1, <2>1 DEF Careful, HasEnough
  <2> QED BY <1>1, <2>1, <2>2, FailedKeeps
<1> QED BY <1>2, <1>3

\* Whoever was at it while the medium was swapped is late.
LEMMA SwapStep ==
  ASSUME LookupInv, Swap
  PROVE  LookupInv'
<1>1. media' \in Media /\ local' = local
  BY DEF Swap
<1>2. ASSUME NEW c \in Callers
      PROVE  /\ calls'[c] \in GoodCalls /\ Careful(calls'[c]) /\ Current(calls[c])
             /\ \/ ~Active(calls[c]) /\ calls'[c] = calls[c]
                \/ Active(calls'[c]) /\ calls'[c].late
  <2> DEFINE old == calls[c]
             m == [old EXCEPT !.late = TRUE]
  <2>1. old \in GoodCalls /\ Careful(old) /\ Current(old)
    BY DEF LookupInv
  <2>2. CASE ~Active(old)
    BY <2>1, <2>2 DEF Swap, Active
  <2>3. CASE Active(old)
    <3>1. /\ m \in GoodCalls /\ m.late /\ m.step = old.step /\ m.op = old.op
          /\ m.end = old.end /\ m.failure = old.failure /\ m.track = old.track
          /\ m.got = old.got /\ m.plan = old.plan /\ m.asked = old.asked
          /\ m.fallback = old.fallback
      BY <2>1 DEF GoodCalls
    <3>2. calls'[c] = m
      BY <2>3 DEF Swap, Active
    <3> HIDE DEF m
    <3>3. Careful(m) /\ Active(m)
      BY <2>1, <2>3, <3>1 DEF Careful, Active, HasEnough, Lenient, Whole, Optional
    <3> QED BY <2>1, <3>1, <3>2, <3>3
  <2> QED BY <2>2, <2>3
<1>3. ASSUME NEW c \in Callers PROVE Current(calls[c])'
  BY <1>2 DEF Current, Active
<1>4. calls' \in [Callers -> GoodCalls]
  <2>1. calls' = [c \in Callers |-> calls'[c]]
    BY DEF Swap
  <2> QED BY <1>2, <2>1
<1>5. local' \in [Media -> Media \cup {Missing}]
  BY <1>1 DEF LookupInv
<1>6. \A c \in Callers : Careful(calls[c])'
  BY <1>2 DEF Careful
<1> QED BY <1>1, <1>3, <1>4, <1>5, <1>6 DEF LookupInv

LEMMA LookupsPreserved == LookupInv /\ [DatabaseNext]_databaseVars => LookupInv'
<1> SUFFICES ASSUME LookupInv, [DatabaseNext]_databaseVars PROVE LookupInv'
  OBVIOUS
<1>1. ASSUME NEW c \in Callers, CallStep(c) PROVE LookupInv'
  BY <1>1, LookupStep, StartSteps, AskPlayerStep, OpenStep, MissStep, NoFileStep, ConnectStep,
     GetStep, FailSteps DEF CallStep
<1>2. CASE Swap
  BY <1>2, SwapStep
<1>3. CASE Remove \/ UNCHANGED databaseVars
  <2>1. local' \in [Media -> Media \cup {Missing}] /\ UNCHANGED <<media, calls>>
    BY <1>3 DEF Remove, databaseVars, LookupInv
  <2> QED BY <2>1 DEF LookupInv, Careful, Current, Active
<1> QED BY <1>1, <1>2, <1>3 DEF DatabaseNext

LEMMA LookupsImplied == LookupInv => DatabaseTypeOK /\ FailsOnlyIfItMust /\ OneMedium
<1> SUFFICES ASSUME LookupInv PROVE DatabaseTypeOK /\ FailsOnlyIfItMust /\ OneMedium
  OBVIOUS
<1>1. DatabaseTypeOK
  BY DEF LookupInv, GoodCalls, DatabaseTypeOK, At
<1>2. FailsOnlyIfItMust
  BY DEF LookupInv, Careful, FailsOnlyIfItMust
<1>3. OneMedium
  BY DEF LookupInv, Current, OneMedium
<1> QED BY <1>1, <1>2, <1>3

\* A lookup of the service stays well typed whatever services fail and media are
\* swapped, and it waits for a part of its answer only if one is left.
THEOREM LookupsTypeCorrect == DatabaseSpec => []DatabaseTypeOK
<1> QED BY LookupsStart, LookupsPreserved, LookupsImplied, PTL DEF DatabaseSpec

\* However many tasks look tracks up: the track a player is on is missed only after
\* the player's own database was asked too or a service failed, a failure of that
\* second chance is not raised, and one that has all it cannot do without ends with
\* an answer, whatever becomes of the info or the 2EX file that is left.
THEOREM FailsOnlyIfItMustHolds == DatabaseSpec => []FailsOnlyIfItMust
<1> QED BY LookupsStart, LookupsPreserved, LookupsImplied, PTL DEF DatabaseSpec

\* For any number of tasks and media, what a lookup put together from several
\* services is of one medium unless that was swapped under it.
THEOREM OneMediumHolds == DatabaseSpec => []OneMedium
<1> QED BY LookupsStart, LookupsPreserved, LookupsImplied, PTL DEF DatabaseSpec
=============================================================================
