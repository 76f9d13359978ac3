-------------------------- MODULE AnnouncerProofs --------------------------
(***************************************************************************)
(* For any ids, devices, timer tasks, listeners and callers: the announcer *)
(* is type correct, it does not fall silent, and a conflict moves it to an *)
(* id that is free.                                                        *)
(***************************************************************************)
EXTENDS Announcer, SequenceTheorems, WellFoundedInduction, TLAPS

-----------------------------------------------------------------------------
(* The choice of a device id, whatever is on the network.                   *)

\* A set of naturals that is not empty has a least element, and Min is it.
LEMMA MinIsLeast ==
  ASSUME NEW S \in SUBSET Nat, S # {}
  PROVE  Min(S) \in S /\ \A y \in S : Min(S) <= y
<1> DEFINE less == {ss \in Nat \X Nat : ss[1] < ss[2]}
<1>1. IsWellFoundedOn(less, Nat)
  BY NatLessThanWellFounded, Zenon DEF OpToRel
<1>2. \E x \in S : \A y \in S : ~ (<<y, x>> \in less)
  BY <1>1, WFMin, Zenon
<1>3. PICK x \in S : \A y \in S : ~ (<<y, x>> \in less)
  BY <1>2
<1>4. ASSUME NEW y \in S PROVE x <= y
  <2>1. <<y, x>> \in Nat \X Nat
    OBVIOUS
  <2>2. ~ (y < x)
    BY <1>3, <2>1
  <2>3. x \in Nat /\ y \in Nat
    OBVIOUS
  <2> QED BY <2>2, <2>3
<1> QED BY <1>4 DEF Min

\* The sequence holds every element of S and nothing else.
Lists(seq, S) ==
    /\ seq \in Seq(S)
    /\ \A i \in S : \E k \in DOMAIN seq : seq[k] = i

\* A run of numbers lists them, in either direction.
LEMMA RunsList ==
  ASSUME NEW from \in Nat, NEW to \in Nat
  PROVE  /\ Lists(Ascending(from, to), from .. to)
         /\ Lists(Descending(to, from), from .. to)
<1>1. ASSUME NEW f, f = Ascending(from, to) \/ f = Descending(to, from)
      PROVE  f \in Seq(from .. to) /\ DOMAIN f = 1 .. to - from + 1
  <2>1. CASE from <= to
    <3>1. to - from + 1 \in Nat
      BY <2>1
    <3>2. f \in [1 .. to - from + 1 -> from .. to]
      BY <1>1, <2>1 DEF Ascending, Descending
    <3> QED BY <3>1, <3>2, IsASeq
  <2>2. CASE to < from
    <3>1. 1 .. to - from + 1 = {} /\ from .. to = {}
      BY <2>2
    <3>2. f = <<>>
      BY <1>1, <3>1 DEF Ascending, Descending
    <3> QED BY <3>1, <3>2
  <2> QED BY <2>1, <2>2
<1>2. ASSUME NEW i \in from .. to
      PROVE  /\ \E k \in DOMAIN Ascending(from, to) : Ascending(from, to)[k] = i
             /\ \E k \in DOMAIN Descending(to, from) : Descending(to, from)[k] = i
  <2>1. i - from + 1 \in 1 .. to - from + 1 /\ to - i + 1 \in 1 .. to - from + 1
    BY <1>2
  <2> QED BY <2>1 DEF Ascending, Descending
<1> QED BY <1>1, <1>2 DEF Lists

\* A concatenation lists what its parts list.
LEMMA ConcatLists ==
  ASSUME NEW S, NEW T, NEW s, NEW t, Lists(s, S), Lists(t, T)
  PROVE  Lists(s \o t, S \cup T)
<1>1. s \in Seq(S \cup T) /\ t \in Seq(S \cup T)
  <2>1. \A A, B : A \subseteq B => Seq(A) \subseteq Seq(B)
    BY SeqMonotonic
  <2> QED BY <2>1 DEF Lists
<1>2. /\ s \o t \in Seq(S \cup T)
      /\ Len(s \o t) = Len(s) + Len(t)
      /\ \A i \in 1 .. Len(s) + Len(t) :
           (s \o t)[i] = IF i <= Len(s) THEN s[i] ELSE t[i - Len(s)]
  BY <1>1, ConcatProperties
<1>3. Len(s) \in Nat /\ Len(t) \in Nat
      /\ DOMAIN s = 1 .. Len(s) /\ DOMAIN t = 1 .. Len(t)
      /\ DOMAIN (s \o t) = 1 .. Len(s) + Len(t)
  BY <1>1, <1>2, LenProperties
<1>4. ASSUME NEW i \in S PROVE \E k \in DOMAIN (s \o t) : (s \o t)[k] = i
  <2>1. PICK k \in 1 .. Len(s) : s[k] = i
    BY <1>3, <1>4 DEF Lists
  <2> QED BY <1>2, <1>3, <2>1
<1>5. ASSUME NEW i \in T PROVE \E k \in DOMAIN (s \o t) : (s \o t)[k] = i
  <2>1. PICK k \in 1 .. Len(t) : t[k] = i
    BY <1>3, <1>5 DEF Lists
  <2>2. k + Len(s) \in 1 .. Len(s) + Len(t) /\ (k + Len(s)) - Len(s) = k
        /\ ~ (k + Len(s) <= Len(s))
    BY <1>3
  <2>3. (s \o t)[k + Len(s)] = i
    BY <1>2, <2>1, <2>2
  <2> QED BY <1>3, <2>2, <2>3
<1> QED BY <1>2, <1>4, <1>5 DEF Lists

\* The first unused element of a list of S is an unused element of S, and
\* there is none only when all of S is in use.
LEMMA FirstUnusedIsUnused ==
  ASSUME NEW S \in SUBSET Nat, NEW s, Lists(s, S), NEW used
  PROVE  IF S \subseteq used THEN FirstUnused(s, used) = None
                             ELSE FirstUnused(s, used) \in S \ used
<1> DEFINE free == {k \in DOMAIN s : s[k] \notin used}
<1>1. free \in SUBSET Nat /\ \A k \in DOMAIN s : s[k] \in S
  <2>1. s \in Seq(S)
    BY DEF Lists
  <2>2. DOMAIN s = 1 .. Len(s) /\ Len(s) \in Nat
    BY <2>1, LenProperties
  <2> QED BY <2>1, <2>2, ElementOfSeq
<1>2. CASE S \subseteq used
  <2>1. free = {}
    BY <1>1, <1>2
  <2> QED BY <1>2, <2>1 DEF FirstUnused
<1>3. CASE ~ (S \subseteq used)
  <2>1. free # {}
    BY <1>3 DEF Lists
  <2>2. Min(free) \in free
    BY <1>1, <2>1, MinIsLeast
  <2>3. FirstUnused(s, used) = s[Min(free)]
    BY <2>1 DEF FirstUnused
  <2> QED BY <1>1, <1>3, <2>2, <2>3
<1> QED BY <1>2, <1>3

\* An unused id of the first part is preferred to any id of the second.
LEMMA FirstPartFirst ==
  ASSUME NEW S \in SUBSET Nat, NEW T \in SUBSET Nat, NEW s, NEW t,
         Lists(s, S), Lists(t, T), NEW used, ~ (S \subseteq used)
  PROVE  FirstUnused(s \o t, used) \in S
<1> DEFINE free == {k \in DOMAIN (s \o t) : (s \o t)[k] \notin used}
<1>1. s \in Seq(Nat) /\ t \in Seq(Nat)
  <2>1. \A A, B : A \subseteq B => Seq(A) \subseteq Seq(B)
    BY SeqMonotonic
  <2> QED BY <2>1 DEF Lists
<1>2. /\ s \o t \in Seq(Nat)
      /\ Len(s \o t) = Len(s) + Len(t)
      /\ \A i \in 1 .. Len(s) + Len(t) :
           (s \o t)[i] = IF i <= Len(s) THEN s[i] ELSE t[i - Len(s)]
  BY <1>1, ConcatProperties
<1>3. Len(s) \in Nat /\ Len(t) \in Nat
      /\ DOMAIN s = 1 .. Len(s)
      /\ DOMAIN (s \o t) = 1 .. Len(s) + Len(t)
  BY <1>1, <1>2, LenProperties
<1>4. PICK k \in 1 .. Len(s) : s[k] \in S \ used
  <2>1. PICK i \in S : i \notin used
    OBVIOUS
  <2> QED BY <1>3, <2>1 DEF Lists
<1>5. k \in free
  BY <1>2, <1>3, <1>4
<1>6. free \in SUBSET Nat /\ free # {}
  BY <1>3, <1>5
<1>7. Min(free) \in free /\ Min(free) <= k
  BY <1>5, <1>6, MinIsLeast
<1>8. Min(free) \in 1 .. Len(s)
  <2>1. Min(free) \in 1 .. Len(s) + Len(t)
    BY <1>3, <1>7
  <2> DEFINE least == Min(free)
  <2>2. least \in 1 .. Len(s) + Len(t) /\ least <= k
    BY <1>7, <2>1
  <2> HIDE DEF least
  <2>3. least \in 1 .. Len(s)
    BY <1>3, <2>2
  <2> QED BY <2>3 DEF least
<1>9. FirstUnused(s \o t, used) = s[Min(free)]
  <2>1. FirstUnused(s \o t, used) = (s \o t)[Min(free)]
    BY <1>6 DEF FirstUnused
  <2> DEFINE least == Min(free)
  <2>2. least \in 1 .. Len(s)
    BY <1>8
  <2> HIDE DEF least
  <2>3. (s \o t)[least] = s[least]
    BY <1>2, <1>3, <2>2
  <2> QED BY <2>1, <2>3 DEF least
<1>10. s[Min(free)] \in S
  BY <1>8, ElementOfSeq DEF Lists
<1> QED BY <1>9, <1>10

\* What the three parts of the search hold.
LEMMA PartsList ==
  ASSUME NEW ceiling \in Nat \cup {None}
  PROVE  /\ Lists(OutsidePlayerRange, MaxPlayer + 1 .. MaxId)
         /\ ceiling = None => /\ Lists(AboveThePlayers(ceiling), 1 .. MaxPlayer)
                              /\ Lists(AmongThePlayers(ceiling), {})
         /\ ceiling # None =>
              /\ Lists(AboveThePlayers(ceiling), ceiling + 1 .. MaxPlayer)
              /\ Lists(AmongThePlayers(ceiling),
                       {i \in 1 .. MaxPlayer : i <= ceiling})
<1>1. Lists(OutsidePlayerRange, MaxPlayer + 1 .. MaxId)
  <2>1. MaxPlayer + 1 \in Nat /\ MaxId \in Nat
    BY IdsTyped
  <2> QED BY <2>1, RunsList DEF OutsidePlayerRange
<1>2. CASE ceiling = None
  <2>1. Lists(AboveThePlayers(ceiling), 1 .. MaxPlayer)
    BY <1>2, RunsList, IdsTyped DEF AboveThePlayers
  <2>2. Lists(AmongThePlayers(ceiling), {})
    BY <1>2 DEF AmongThePlayers, Lists
  <2> QED BY <1>1, <1>2, <2>1, <2>2
<1>3. CASE ceiling # None
  <2>1. ceiling \in Nat /\ ceiling + 1 \in Nat /\ MaxPlayer \in Nat
    BY <1>3, IdsTyped
  <2>2. Lists(AboveThePlayers(ceiling), ceiling + 1 .. MaxPlayer)
    BY <1>3, <2>1, RunsList DEF AboveThePlayers
  <2> DEFINE top == IF ceiling < MaxPlayer THEN ceiling ELSE MaxPlayer
  <2>3. top \in Nat /\ 1 .. top = {i \in 1 .. MaxPlayer : i <= ceiling}
    BY <2>1
  <2>4. Lists(Descending(top, 1), 1 .. top)
    BY <2>3, RunsList
  <2>5. AmongThePlayers(ceiling) = Descending(top, 1)
    BY <1>3 DEF AmongThePlayers
  <2> QED BY <1>1, <1>3, <2>2, <2>3, <2>4, <2>5
<1> QED BY <1>2, <1>3

\* pick_available_device_id never takes an id that is in use, and gives up
\* only when every id from 1 to MaxId is.
THEOREM PickIsFree ==
  ASSUME NEW used, NEW prefer \in BOOLEAN, NEW ceiling \in Nat \cup {None}
  PROVE  LET id == PickAvailableDeviceId(used, prefer, ceiling)
         IN IF DeviceIds \subseteq used THEN id = None
                                        ELSE id \in DeviceIds \ used
<1> DEFINE above == IF ceiling = None THEN 1 .. MaxPlayer
                                      ELSE ceiling + 1 .. MaxPlayer
           outside == MaxPlayer + 1 .. MaxId
           among == IF ceiling = None THEN {}
                    ELSE {i \in 1 .. MaxPlayer : i <= ceiling}
<1>1. /\ Lists(AboveThePlayers(ceiling), above)
      /\ Lists(OutsidePlayerRange, outside)
      /\ Lists(AmongThePlayers(ceiling), among)
  BY PartsList
<1>2. (above \cup outside) \cup among = DeviceIds
      /\ (outside \cup above) \cup among = DeviceIds
  BY IdsTyped DEF DeviceIds
<1> HIDE DEF above, outside, among
<1>3. /\ Lists(AboveThePlayers(ceiling) \o OutsidePlayerRange, above \cup outside)
      /\ Lists(OutsidePlayerRange \o AboveThePlayers(ceiling), outside \cup above)
  BY <1>1, ConcatLists
<1>4. /\ Lists(AboveThePlayers(ceiling) \o OutsidePlayerRange
                 \o AmongThePlayers(ceiling), (above \cup outside) \cup among)
      /\ Lists(OutsidePlayerRange \o AboveThePlayers(ceiling)
                 \o AmongThePlayers(ceiling), (outside \cup above) \cup among)
  BY <1>1, <1>3, ConcatLists
<1>5. Lists(Search(prefer, ceiling), DeviceIds)
  BY <1>2, <1>4 DEF Search
<1>6. DeviceIds \in SUBSET Nat
  BY IdsTyped DEF DeviceIds
<1> QED BY <1>5, <1>6, FirstUnusedIsUnused DEF PickAvailableDeviceId

\* An id above what the mixers can hand out is taken whenever one is unused,
\* so that no player switched on later can claim it.
THEOREM PickIsAboveThePlayers ==
  ASSUME NEW used, NEW prefer \in BOOLEAN, NEW ceiling \in 0 .. MaxPlayer,
         \E i \in DeviceIds \ used : i > ceiling
  PROVE  PickAvailableDeviceId(used, prefer, ceiling) > ceiling
<1> DEFINE above == ceiling + 1 .. MaxPlayer
           outside == MaxPlayer + 1 .. MaxId
           among == {i \in 1 .. MaxPlayer : i <= ceiling}
<1>1. ceiling \in Nat /\ ceiling # None
  BY IdsTyped, NoneIsNoNumber
<1>2. /\ Lists(AboveThePlayers(ceiling), above)
      /\ Lists(OutsidePlayerRange, outside)
      /\ Lists(AmongThePlayers(ceiling), among)
  BY <1>1, PartsList
<1>3. /\ above \cup outside \in SUBSET Nat
      /\ outside \cup above = above \cup outside
      /\ among \in SUBSET Nat
      /\ ~ (above \cup outside \subseteq used)
      /\ \A i \in above \cup outside : i > ceiling
  BY <1>1, IdsTyped DEF DeviceIds
<1> HIDE DEF above, outside, among
<1>4. /\ Lists(AboveThePlayers(ceiling) \o OutsidePlayerRange, above \cup outside)
      /\ Lists(OutsidePlayerRange \o AboveThePlayers(ceiling), above \cup outside)
  BY <1>2, <1>3, ConcatLists
<1>5. /\ FirstUnused(AboveThePlayers(ceiling) \o OutsidePlayerRange
                       \o AmongThePlayers(ceiling), used) \in above \cup outside
      /\ FirstUnused(OutsidePlayerRange \o AboveThePlayers(ceiling)
                       \o AmongThePlayers(ceiling), used) \in above \cup outside
  BY <1>2, <1>3, <1>4, FirstPartFirst
<1> QED BY <1>3, <1>5 DEF PickAvailableDeviceId, Search

-----------------------------------------------------------------------------
(* What the properties need of the choice.                                  *)

\* The most channels of any mixer is one of the channel counts.
LEMMA CeilingType ==
  ASSUME NEW channels \in SUBSET ChannelCounts
  PROVE  PlayerNumberCeiling(channels) \in ChannelCounts
<1> DEFINE known == channels \ {None}
<1>1. CASE known = {}
  BY <1>1 DEF PlayerNumberCeiling, ChannelCounts
<1>2. CASE known # {}
  <2>1. known \in SUBSET (0 .. MaxPlayer) /\ MaxPlayer \in Nat
    BY IdsTyped, NoneIsNoNumber DEF ChannelCounts
  <2> DEFINE below == {n \in Nat : MaxPlayer - n \in known}
  <2>2. below # {}
    <3>1. PICK k \in known : k \in 0 .. MaxPlayer
      BY <1>2, <2>1
    <3>2. MaxPlayer - k \in Nat /\ MaxPlayer - (MaxPlayer - k) = k
      BY <2>1, <3>1
    <3>3. MaxPlayer - k \in below
      BY <3>1, <3>2
    <3> QED BY <3>3
  <2>3. Min(below) \in below /\ \A y \in below : Min(below) <= y
    BY <2>2, MinIsLeast
  <2>4. \A k \in known : MaxPlayer - k \in below
    <3> TAKE k \in known
    <3>1. k \in 0 .. MaxPlayer
      BY <2>1
    <3>2. MaxPlayer - k \in Nat /\ MaxPlayer - (MaxPlayer - k) = k
      BY <2>1, <3>1
    <3> QED BY <3>2
  <2>5. PICK m \in below : \A y \in below : m <= y
    BY <2>3
  <2>6. MaxPlayer - m \in known /\ m \in Nat
    BY <2>5
  <2>7. \A k \in known : MaxPlayer - m >= k
    <3> TAKE k \in known
    <3>1. m <= MaxPlayer - k
      BY <2>4, <2>5
    <3>2. k \in Nat
      BY <2>1
    <3> QED BY <2>1, <2>6, <3>1, <3>2
  <2>8. \E x \in known : \A y \in known : x >= y
    BY <2>6, <2>7
  <2>9. Max(known) \in known
    <3> HIDE DEF known
    <3> QED BY <2>8 DEF Max
  <2> QED BY <1>2, <2>9 DEF PlayerNumberCeiling
<1> QED BY <1>1, <1>2

\* What the listener picks: an unused id, above the players' if one is left.
LEMMA PickedId ==
  ASSUME NEW rig \in Rigs, NEW prefer \in BOOLEAN
  PROVE  LET ceiling == PlayerNumberCeiling({Channels[i] : i \in rig})
             id == PickAvailableDeviceId(rig, prefer, ceiling)
         IN IF DeviceIds \subseteq rig THEN id = None
            ELSE /\ id \in DeviceIds \ rig
                 /\ (ceiling # None /\ \E i \in DeviceIds \ rig : i > ceiling)
                      => id > ceiling
<1> DEFINE ceiling == PlayerNumberCeiling({Channels[i] : i \in rig})
<1>1. {Channels[i] : i \in rig} \in SUBSET ChannelCounts
  BY RigsTyped
<1>2. ceiling \in ChannelCounts
  BY <1>1, CeilingType
<1> HIDE DEF ceiling
<1>3. ceiling \in Nat \cup {None} /\ (ceiling # None => ceiling \in 0 .. MaxPlayer)
  BY <1>2, IdsTyped DEF ChannelCounts
<1>4. LET id == PickAvailableDeviceId(rig, prefer, ceiling)
      IN IF DeviceIds \subseteq rig THEN id = None ELSE id \in DeviceIds \ rig
  BY <1>3, PickIsFree
<1>5. ASSUME ceiling # None, \E i \in DeviceIds \ rig : i > ceiling
      PROVE  PickAvailableDeviceId(rig, prefer, ceiling) > ceiling
  BY <1>3, <1>5, PickIsAboveThePlayers
<1> QED BY <1>4, <1>5 DEF ceiling

-----------------------------------------------------------------------------
(* Type correctness.                                                        *)

\* Aborting a task leaves the tasks well typed.
LEMMA AbortTyped ==
  ASSUME tasks \in [Tasks -> TaskType], NEW t \in Tasks \cup {None}
  PROVE  AbortTask(t) \in [Tasks -> TaskType]
<1>1. IdleTask \in TaskType
  BY StartupTyped DEF IdleTask, TaskType
<1>2. \A k \in TaskType : [k EXCEPT !.doomed = TRUE] \in TaskType
  BY DEF TaskType
<1> QED BY <1>1, <1>2 DEF AbortTask

\* A driver record with new fields is well typed.
LEMMA DriverFields ==
  ASSUME NEW v \in DriverType, NEW step \in DriverSteps
  PROVE  /\ [v EXCEPT !.pc = step] \in DriverType
         /\ [v EXCEPT !.pc = step].pc = step
         /\ [v EXCEPT !.pc = step].id = v.id
         /\ [v EXCEPT !.pc = step].task = v.task
BY DEF DriverType

\* A driver that goes on to any other step leaves the drivers well typed.
LEMMA GoesTyped ==
  ASSUME DriversTyped(drivers), NEW p \in Drivers,
         NEW step \in DriverSteps \ {"store", "rename"}
  PROVE  DriversTyped([drivers EXCEPT ![p].pc = step])
<1>1. [drivers[p] EXCEPT !.pc = step] \in DriverType
  BY DriverFields DEF DriversTyped
<1>2. [drivers EXCEPT ![p].pc = step] =
        [drivers EXCEPT ![p] = [drivers[p] EXCEPT !.pc = step]]
  BY DEF DriversTyped
<1>3. [drivers[p] EXCEPT !.pc = step].pc = step
  BY DriverFields DEF DriversTyped
<1> QED BY <1>1, <1>2, <1>3 DEF DriversTyped

\* So does one that is done.
LEMMA DoneTyped ==
  ASSUME DriversTyped(drivers), NEW p \in Drivers,
         NEW step \in {"idle", "listening"}
  PROVE  DriversTyped([drivers EXCEPT
                         ![p] = [pc |-> step, id |-> None, task |-> None]])
<1>1. [pc |-> step, id |-> None, task |-> None] \in DriverType
  BY DEF DriverType, DriverSteps
<1> QED BY <1>1 DEF DriversTyped

\* Sending on the watch channel.
LEMMA SendTyped ==
  ASSUME ready \in BOOLEAN, waiters \in [Waiters -> WaiterType],
         NEW value \in BOOLEAN, Send(value)
  PROVE  ready' \in BOOLEAN /\ waiters' \in [Waiters -> WaiterType]
<1>1. \A w \in WaiterType : [w EXCEPT !.changed = TRUE] \in WaiterType
  BY DEF WaiterType
<1>2. waiters' \in [Waiters -> WaiterType]
  BY <1>1 DEF Send
<1>3. ready' \in BOOLEAN
  BY DEF Send
<1> QED BY <1>2, <1>3

\* Every step of a driver keeps the types.
LEMMA DriverStepTyped ==
  ASSUME TypeOK,
         CallStart \/ Arm \/ CallStop
           \/ (\E p \in Drivers : DriverStep(p))
           \/ (\E l \in Listeners : Conflict(l) \/ HandleConflict(l))
  PROVE  TypeOK'
<1>0. DriversTyped(drivers) /\ Client \in Drivers /\ Listeners \subseteq Drivers
  BY DEF TypeOK, Drivers
<1>1. drivers \in [Drivers -> DriverType]
  BY <1>0 DEF DriversTyped
<1>2. CASE CallStart
  <2>1. DriversTyped(drivers)'
    BY <1>0, <1>2, GoesTyped DEF CallStart, Goes, DriverSteps
  <2> QED BY <1>2, <2>1 DEF CallStart, TypeOK
<1>3. CASE Arm
  <2>1. CASE listener # None
    <3>1. DriversTyped(drivers)'
      BY <1>0, <1>3, <2>1, GoesTyped DEF Arm, Goes, DriverSteps
    <3> QED BY <1>3, <2>1, <3>1 DEF Arm, TypeOK
  <2>2. CASE listener = None
    <3>1. PICK l \in Listeners :
            /\ listener' = l
            /\ drivers' = [drivers EXCEPT ![l].pc = "listening",
                                          ![Client].pc = "clear"]
      BY <1>3, <2>2 DEF Arm
    <3> DEFINE v == [drivers[l] EXCEPT !.pc = "listening"]
               u == [drivers[Client] EXCEPT !.pc = "clear"]
    <3> drivers[l] \in DriverType /\ drivers[Client] \in DriverType
      BY <1>0, <1>1
    <3> {"listening", "clear"} \subseteq DriverSteps
      BY DEF DriverSteps
    <3>2. /\ v \in DriverType /\ v.pc = "listening"
          /\ u \in DriverType /\ u.pc = "clear"
      BY DriverFields
    <3>3. drivers' = [drivers EXCEPT ![l] = v, ![Client] = u]
      BY <1>0, <1>1, <3>1, RolesDiffer
    <3> HIDE DEF v, u
    <3>4. DriversTyped(drivers)'
      BY <1>0, <3>2, <3>3, RolesDiffer DEF DriversTyped
    <3> QED BY <1>3, <3>1, <3>4 DEF Arm, TypeOK
  <2> QED BY <2>1, <2>2
<1>4. ASSUME StopInner PROVE
        /\ vcdj' \in DeviceIds /\ peers' \in Rigs
        /\ timer' \in Tasks \cup {None} /\ listener' \in Listeners \cup {None}
        /\ tasks' \in [Tasks -> TaskType]
        /\ ready' \in BOOLEAN /\ waiters' \in [Waiters -> WaiterType]
        /\ on' \in BOOLEAN
  BY <1>4, AbortTyped DEF StopInner, TypeOK
<1>5. CASE CallStop
  <2>1. DriversTyped(drivers)' /\ aborted' \subseteq Listeners
    <3>1. CASE listener # None /\ At(listener, "listening")
      <4>1. listener \in Drivers /\ aborted' \subseteq Listeners
        BY <1>0, <1>5, <3>1 DEF CallStop, TypeOK
      <4>2. drivers' = [drivers EXCEPT ![listener].pc = "idle"]
        BY <1>5, <3>1 DEF CallStop, Goes
      <4>3. DriversTyped([drivers EXCEPT ![listener].pc = "idle"])
        BY <1>0, <4>1, GoesTyped DEF DriverSteps
      <4> QED BY <4>1, <4>2, <4>3
    <3>2. CASE ~ (listener # None /\ At(listener, "listening"))
      BY <1>0, <1>5, <3>2 DEF CallStop, TypeOK
    <3> QED BY <3>1, <3>2
  <2> QED BY <1>4, <1>5, <2>1 DEF CallStop, TypeOK
<1>6. ASSUME NEW p \in Drivers, NEW from,
             NEW to \in {"pick", "spawn"}, ClearTimer(p, from, to)
      PROVE  TypeOK'
  <2>1. DriversTyped(drivers)'
    BY <1>0, <1>6, GoesTyped DEF ClearTimer, Goes, DriverSteps
  <2>2. tasks' \in [Tasks -> TaskType]
    BY <1>6, AbortTyped DEF ClearTimer, TypeOK
  <2> QED BY <1>6, <2>1, <2>2 DEF ClearTimer, TypeOK
<1>7. ASSUME NEW p \in Drivers, Spawn(p) PROVE TypeOK'
  <2>1. PICK t \in Unused :
          /\ tasks' = [tasks EXCEPT ![t] = [IdleTask EXCEPT !.pc = "asleep"]]
          /\ drivers' = [drivers EXCEPT ![p].pc = "store", ![p].task = t]
    BY <1>7 DEF Spawn
  <2>2. t \in Tasks
    BY DEF Unused
  <2>3. [IdleTask EXCEPT !.pc = "asleep"] \in TaskType
    <3>1. 0 \in 0 .. StartupPackets + 1
      BY StartupTyped
    <3> QED BY <3>1 DEF IdleTask, TaskType
  <2>4. tasks' \in [Tasks -> TaskType]
    BY <2>1, <2>3 DEF TypeOK
  <2> DEFINE v == [drivers[p] EXCEPT !.pc = "store", !.task = t]
  <2>5. v \in DriverType /\ v.pc = "store" /\ v.task = t
    BY <1>1, <2>2 DEF DriverType, DriverSteps
  <2>6. drivers' = [drivers EXCEPT ![p] = v]
    BY <1>1, <2>1
  <2> HIDE DEF v
  <2>7. DriversTyped(drivers)'
    BY <1>0, <2>2, <2>5, <2>6 DEF DriversTyped
  <2> QED BY <1>7, <2>4, <2>7 DEF Spawn, TypeOK
<1>8. ASSUME NEW p \in Drivers, Done(p)
      PROVE  DriversTyped(drivers)' /\ aborted' \subseteq Listeners
  BY <1>0, <1>8, DoneTyped DEF Done, TypeOK
<1>9. ASSUME NEW p \in Drivers, StoreTimer(p) PROVE TypeOK'
  <2>1. DriversTyped(drivers)' /\ aborted' \subseteq Listeners
    BY <1>8, <1>9 DEF StoreTimer
  <2>2. timer' \in Tasks \cup {None}
    BY <1>0, <1>9 DEF StoreTimer, DriversTyped, At
  <2> QED BY <1>9, <2>1, <2>2 DEF StoreTimer, TypeOK
<1>10. ASSUME NEW l \in Listeners, Conflict(l) PROVE TypeOK'
  <2>1. DriversTyped(drivers)'
    BY <1>0, <1>10, GoesTyped DEF Conflict, Goes, DriverSteps
  <2> QED BY <1>10, <2>1 DEF Conflict, TypeOK
<1>11. ASSUME NEW l \in Listeners, Pick(l) PROVE TypeOK'
  <2> DEFINE id == PickAvailableDeviceId(peers, vcdj <= MaxPlayer,
                     PlayerNumberCeiling({Channels[i] : i \in peers}))
  <2>1. id \in DeviceIds \cup {None}
    <3>1. peers \in Rigs /\ (vcdj <= MaxPlayer) \in BOOLEAN
      BY DEF TypeOK
    <3> QED BY <3>1, PickedId
  <2>2. drivers' = [drivers EXCEPT
                      ![l].pc = IF id = None THEN "give_up" ELSE "rename",
                      ![l].id = id]
    BY <1>11 DEF Pick
  <2> HIDE DEF id
  <2> DEFINE v == [drivers[l] EXCEPT
                     !.pc = IF id = None THEN "give_up" ELSE "rename",
                     !.id = id]
  <2>3. /\ v \in DriverType /\ v.pc # "store"
        /\ v.pc = "rename" => v.id \in DeviceIds
    BY <1>0, <1>1, <2>1 DEF DriverType, DriverSteps
  <2>4. drivers' = [drivers EXCEPT ![l] = v]
    BY <1>0, <1>1, <2>2
  <2> HIDE DEF v
  <2>5. DriversTyped(drivers)'
    BY <1>0, <2>3, <2>4 DEF DriversTyped
  <2> QED BY <1>11, <2>5 DEF Pick, TypeOK
<1>12. ASSUME NEW l \in Listeners, GiveUp(l) PROVE TypeOK'
  <2>1. PICK step \in {"idle", "listening"} :
          LET d == [drivers EXCEPT
                      ![l] = [pc |-> step, id |-> None, task |-> None]]
          IN \/ drivers' = d
             \/ /\ listener \in Listeners \ {l}
                /\ drivers' = [d EXCEPT
                     ![listener].pc = IF @ = "listening" THEN "idle" ELSE @]
    <3>1. CASE listener \notin {None, l}
      <4>1. listener \in Listeners \ {l}
        BY <3>1 DEF TypeOK
      <4> QED BY <1>12, <3>1, <4>1 DEF GiveUp
    <3>2. CASE listener \in {None, l}
      BY <1>12, <3>2 DEF GiveUp
    <3> QED BY <3>1, <3>2
  <2> DEFINE d == [drivers EXCEPT
                     ![l] = [pc |-> step, id |-> None, task |-> None]]
  <2>2. DriversTyped(d)
    BY <1>0, DoneTyped
  <2> HIDE DEF d
  <2>3. ASSUME listener \in Listeners \ {l},
               drivers' = [d EXCEPT
                     ![listener].pc = IF @ = "listening" THEN "idle" ELSE @]
        PROVE  DriversTyped(drivers)'
    <3>1. d[listener] \in DriverType /\ listener \in Drivers
      BY <1>0, <2>2, <2>3 DEF DriversTyped
    <3> DEFINE v == [d[listener] EXCEPT !.pc = "idle"]
    <3>2. v \in DriverType /\ v.pc = "idle"
      BY <3>1, DriverFields DEF DriverSteps
    <3>3. drivers' = [d EXCEPT ![listener] = v] \/ drivers' = d
      <4>1. CASE d[listener].pc = "listening"
        BY <2>2, <2>3, <4>1 DEF DriversTyped
      <4>2. CASE d[listener].pc # "listening"
        <5>1. [d[listener] EXCEPT !.pc = d[listener].pc] = d[listener]
          BY <3>1 DEF DriverType
        <5>2. drivers' = [d EXCEPT ![listener] =
                            [d[listener] EXCEPT !.pc = d[listener].pc]]
          BY <2>2, <2>3, <4>2 DEF DriversTyped
        <5> QED BY <2>2, <5>1, <5>2 DEF DriversTyped
      <4> QED BY <4>1, <4>2
    <3> HIDE DEF v
    <3> QED BY <2>2, <3>1, <3>2, <3>3 DEF DriversTyped
  <2>4. DriversTyped(drivers)'
    BY <2>1, <2>2, <2>3 DEF d
  <2>5. aborted' \subseteq Listeners
    BY <1>12 DEF GiveUp, TypeOK
  <2> QED BY <1>4, <1>12, <2>4, <2>5 DEF GiveUp, TypeOK
<1>13. ASSUME NEW l \in Listeners, Rename(l) PROVE TypeOK'
  <2>1. DriversTyped(drivers)'
    BY <1>0, <1>13, GoesTyped DEF Rename, Goes, DriverSteps
  <2>2. vcdj' \in DeviceIds
    BY <1>0, <1>13 DEF Rename, DriversTyped, At
  <2> QED BY <1>13, <2>1, <2>2 DEF Rename, TypeOK
<1>14. ASSUME NEW l \in Listeners, Unready(l) PROVE TypeOK'
  <2>1. DriversTyped(drivers)'
    BY <1>0, <1>14, GoesTyped DEF Unready, Goes, DriverSteps
  <2>2. ready' \in BOOLEAN /\ waiters' \in [Waiters -> WaiterType]
    BY <1>14, SendTyped DEF Unready, TypeOK
  <2> QED BY <1>14, <2>1, <2>2 DEF Unready, TypeOK
<1> QED BY <1>0, <1>2, <1>3, <1>5, <1>6, <1>7, <1>9, <1>10, <1>11, <1>12,
           <1>13, <1>14 DEF DriverStep, HandleConflict

\* So does every step of a task.
LEMMA TaskStepTyped ==
  ASSUME TypeOK, NEW t \in Tasks, TaskStep(t)
  PROVE  TypeOK'
<1>1. tasks \in [Tasks -> TaskType] /\ tasks[t] \in TaskType
  BY DEF TypeOK
<1>2. StartupPackets \in Nat /\ StartupPackets + 1 \in 0 .. StartupPackets + 1
  BY StartupTyped
<1>3. CASE Wake(t)
  <2>1. [tasks[t] EXCEPT !.pc = "awake"] \in TaskType
    BY <1>1 DEF TaskType
  <2>2. tasks' \in [Tasks -> TaskType]
    BY <1>1, <1>3, <2>1 DEF Wake
  <2> QED BY <1>3, <2>2 DEF Wake, TypeOK
<1>4. CASE TellReady(t)
  <2>1. [tasks[t] EXCEPT !.sent = StartupPackets + 1] \in TaskType
    BY <1>1, <1>2 DEF TaskType
  <2>2. tasks' \in [Tasks -> TaskType]
    BY <1>1, <1>4, <2>1 DEF TellReady
  <2>3. ready' \in BOOLEAN /\ waiters' \in [Waiters -> WaiterType]
    BY <1>4, SendTyped DEF TellReady, TypeOK
  <2> QED BY <1>4, <2>2, <2>3 DEF TellReady, TypeOK
<1>5. CASE SendPacket(t)
  <2> DEFINE sent == IF tasks[t].sent < StartupPackets THEN tasks[t].sent + 1
                     ELSE tasks[t].sent
             v == IF tasks[t].doomed THEN IdleTask
                  ELSE [pc |-> "asleep", doomed |-> FALSE, sent |-> sent]
  <2>1. tasks[t].sent \in 0 .. StartupPackets + 1
    BY <1>1 DEF TaskType
  <2>2. sent \in 0 .. StartupPackets + 1 /\ 0 \in 0 .. StartupPackets + 1
    BY <1>2, <2>1
  <2>3. tasks' = [tasks EXCEPT ![t] = v]
    BY <1>1, <1>5 DEF SendPacket
  <2> HIDE DEF sent
  <2>4. v \in TaskType
    BY <2>2 DEF TaskType, IdleTask
  <2> HIDE DEF v
  <2>5. tasks' \in [Tasks -> TaskType]
    BY <1>1, <2>3, <2>4
  <2> QED BY <1>5, <2>5 DEF SendPacket, TypeOK
<1> QED BY <1>3, <1>4, <1>5 DEF TaskStep

\* And every step of a caller of ready.
LEMMA WaiterStepTyped ==
  ASSUME TypeOK, NEW w \in Waiters,
         CallReady(w) \/ CheckReady(w) \/ ReadyChanged(w)
  PROVE  TypeOK'
<1>1. waiters \in [Waiters -> WaiterType] /\ waiters[w] \in WaiterType
  BY DEF TypeOK
<1>2. CASE CallReady(w)
  <2>1. [waiters[w] EXCEPT !.pc = "subscribed"] \in WaiterType
    BY <1>1 DEF WaiterType
  <2>2. waiters' \in [Waiters -> WaiterType]
    BY <1>1, <1>2, <2>1 DEF CallReady
  <2> QED BY <1>2, <2>2 DEF CallReady, TypeOK
<1>3. ASSUME NEW more \in BOOLEAN, Looks(w, more) PROVE TypeOK'
  <2>1. waiters' \in [Waiters -> WaiterType]
    BY <1>1, <1>3 DEF Looks, WaiterType, IdleWaiter
  <2> QED BY <1>3, <2>1 DEF Looks, TypeOK
<1>4. waiters[w].changed \in BOOLEAN
  BY <1>1 DEF WaiterType
<1> QED BY <1>2, <1>3, <1>4 DEF CheckReady, ReadyChanged

\* The types are an inductive invariant.
LEMMA TypeInit == Init => TypeOK
<1> SUFFICES ASSUME Init PROVE TypeOK
  OBVIOUS
<1>1. [pc |-> "idle", id |-> None, task |-> None] \in DriverType
  BY DEF DriverType, DriverSteps
<1>2. DriversTyped(drivers)
  BY <1>1 DEF Init, DriversTyped
<1>3. tasks \in [Tasks -> TaskType]
  <2>1. 0 \in 0 .. StartupPackets + 1
    BY StartupTyped
  <2>2. IdleTask \in TaskType
    BY <2>1 DEF IdleTask, TaskType
  <2> QED BY <2>2 DEF Init
<1>4. waiters \in [Waiters -> WaiterType]
  BY DEF Init, IdleWaiter, WaiterType
<1>5. ready \in BOOLEAN
  BY DEF Init
<1> QED BY <1>2, <1>3, <1>4, <1>5 DEF Init, TypeOK

LEMMA TypeStep == TypeOK /\ [Next]_vars => TypeOK'
<1> SUFFICES ASSUME TypeOK, [Next]_vars PROVE TypeOK'
  OBVIOUS
<1>1. CASE CallStart \/ Arm \/ CallStop
             \/ (\E p \in Drivers : DriverStep(p))
             \/ (\E l \in Listeners : Conflict(l) \/ HandleConflict(l))
  BY <1>1, DriverStepTyped
<1>2. CASE \E t \in Tasks : TaskStep(t)
  BY <1>2, TaskStepTyped
<1>3. CASE \E w \in Waiters : CallReady(w) \/ CheckReady(w) \/ ReadyChanged(w)
  BY <1>3, WaiterStepTyped
<1>4. CASE PeersChange
  BY <1>4 DEF PeersChange, TypeOK
<1>5. CASE UNCHANGED vars
  BY <1>5 DEF vars, TypeOK
<1> QED BY <1>1, <1>2, <1>3, <1>4, <1>5 DEF Next

\* Whatever calls, conflicts and tasks do, the announcer's state is well typed:
\* above all, a stored handle is a task's, and an adopted id is a device id.
THEOREM TypeCorrect == Spec => []TypeOK
BY TypeInit, TypeStep, PTL DEF Spec

-----------------------------------------------------------------------------
(* The virtual CDJ does not fall silent.                                    *)

Announces == \E t \in Tasks : Alive(t)
Spawns == \E p \in Drivers : WillSpawn(p)

\* One driver's next step is a step before a spawn.
LEMMA GoingToSpawn ==
  ASSUME TypeOK, NEW p \in Drivers, NEW step,
         step \in {"arm", "contested", "pick", "rename", "unready", "clear",
                   "spawn", "give_up"},
         drivers' = [drivers EXCEPT ![p].pc = step]
  PROVE  Spawns'
<1>1. drivers \in [Drivers -> DriverType]
  BY DEF TypeOK, DriversTyped
<1>2. [drivers[p] EXCEPT !.pc = step].pc = step
  BY <1>1 DEF DriverType
<1>3. drivers'[p].pc = step
  BY <1>1, <1>2
<1> QED BY <1>3 DEF Spawns, WillSpawn

\* start and stop, and the steps of a conflict.
LEMMA DriverNotSilent ==
  ASSUME TypeOK,
         CallStart \/ Arm \/ CallStop
           \/ (\E p \in Drivers : DriverStep(p))
           \/ (\E l \in Listeners : Conflict(l) \/ HandleConflict(l)),
         NeverSilent
  PROVE  NeverSilent'
<1>0. /\ drivers \in [Drivers -> DriverType] /\ tasks \in [Tasks -> TaskType]
      /\ Client \in Drivers /\ Listeners \subseteq Drivers
  BY DEF TypeOK, DriversTyped, Drivers
<1>1. Spawns' \/ Announces' \/ ~on' => NeverSilent'
  BY DEF NeverSilent, Spawns, Announces
<1>2. CASE CallStart
  BY <1>0, <1>1, <1>2, GoingToSpawn DEF CallStart, Goes
<1>3. CASE Arm
  <2>1. CASE listener # None
    BY <1>0, <1>1, <1>3, <2>1, GoingToSpawn DEF Arm, Goes
  <2>2. CASE listener = None
    <3>1. PICK l \in Listeners :
            drivers' = [drivers EXCEPT ![l].pc = "listening",
                                       ![Client].pc = "clear"]
      BY <1>3, <2>2 DEF Arm
    <3>2. [drivers[Client] EXCEPT !.pc = "clear"].pc = "clear"
      BY <1>0 DEF DriverType
    <3>3. drivers'[Client].pc = "clear"
      BY <1>0, <3>1, <3>2, RolesDiffer
    <3> QED BY <1>0, <1>1, <3>3 DEF Spawns, WillSpawn
  <2> QED BY <2>1, <2>2
<1>4. CASE CallStop
  BY <1>1, <1>4 DEF CallStop, StopInner, TypeOK
<1>5. ASSUME NEW p \in Drivers, NEW from,
             NEW to \in {"pick", "spawn"}, ClearTimer(p, from, to)
      PROVE  NeverSilent'
  BY <1>1, <1>5, GoingToSpawn DEF ClearTimer, Goes
<1>6. ASSUME NEW p \in Drivers, Spawn(p) PROVE NeverSilent'
  <2>1. PICK t \in Unused :
          tasks' = [tasks EXCEPT ![t] = [IdleTask EXCEPT !.pc = "asleep"]]
    BY <1>6 DEF Spawn
  <2>2. t \in Tasks /\ tasks'[t] = [IdleTask EXCEPT !.pc = "asleep"]
    BY <1>0, <2>1 DEF Unused
  <2>3. tasks'[t].pc = "asleep" /\ tasks'[t].doomed = FALSE
    BY <2>2 DEF IdleTask
  <2> QED BY <1>1, <2>2, <2>3 DEF Announces, Alive
<1>7. ASSUME NEW p \in Drivers, StoreTimer(p) PROVE NeverSilent'
  <2>1. on' = on /\ tasks' = tasks
    BY <1>7 DEF StoreTimer
  <2>2. ASSUME NEW q \in Drivers, WillSpawn(q) PROVE WillSpawn(q)'
    <3>1. q # p /\ drivers'[q] = drivers[q]
      BY <1>0, <1>7, <2>2 DEF StoreTimer, Done, WillSpawn, At
    <3> QED BY <2>2, <3>1 DEF WillSpawn
  <2> QED BY <2>1, <2>2 DEF NeverSilent, Alive
<1>8. ASSUME NEW l \in Listeners, Conflict(l) \/ Rename(l) \/ Unready(l)
      PROVE  NeverSilent'
  BY <1>0, <1>1, <1>8, GoingToSpawn DEF Conflict, Rename, Unready, Goes
<1>9. ASSUME NEW l \in Listeners, Pick(l) PROVE NeverSilent'
  <2> DEFINE id == PickAvailableDeviceId(peers, vcdj <= MaxPlayer,
                     PlayerNumberCeiling({Channels[i] : i \in peers}))
  <2>1. drivers' = [drivers EXCEPT
                      ![l].pc = IF id = None THEN "give_up" ELSE "rename",
                      ![l].id = id]
    BY <1>9 DEF Pick
  <2> HIDE DEF id
  <2> DEFINE v == [drivers[l] EXCEPT
                     !.pc = IF id = None THEN "give_up" ELSE "rename",
                     !.id = id]
  <2>2. v.pc \in {"give_up", "rename"}
    BY <1>0 DEF DriverType
  <2>3. drivers' = [drivers EXCEPT ![l] = v]
    BY <1>0, <2>1
  <2> HIDE DEF v
  <2>4. drivers'[l].pc \in {"give_up", "rename"}
    BY <1>0, <2>2, <2>3
  <2> QED BY <1>0, <1>1, <2>4 DEF Spawns, WillSpawn
<1>10. ASSUME NEW l \in Listeners, GiveUp(l) PROVE NeverSilent'
  BY <1>1, <1>10 DEF GiveUp, StopInner, TypeOK
<1> QED BY <1>0, <1>2, <1>3, <1>4, <1>5, <1>6, <1>7, <1>8, <1>9, <1>10
        DEF DriverStep, HandleConflict

\* A task that wakes, reports or sends goes on, unless it was aborted.
LEMMA TaskNotSilent ==
  ASSUME TypeOK, NEW t \in Tasks, TaskStep(t), NeverSilent
  PROVE  NeverSilent'
<1>1. tasks \in [Tasks -> TaskType] /\ tasks[t] \in TaskType
  BY DEF TypeOK
<1>2. on' = on /\ drivers' = drivers
  BY DEF TaskStep, Wake, TellReady, SendPacket
<1>3. ASSUME NEW u \in Tasks, Alive(u) PROVE Alive(u)'
  <2>1. CASE u # t
    <3>1. tasks'[u] = tasks[u]
      BY <1>1, <2>1 DEF TaskStep, Wake, TellReady, SendPacket
    <3> QED BY <1>3, <3>1 DEF Alive
  <2>2. CASE u = t
    <3>1. CASE Wake(t)
      <4>1. tasks'[t] = [tasks[t] EXCEPT !.pc = "awake"]
        BY <1>1, <3>1 DEF Wake
      <4>2. tasks'[t].pc = "awake" /\ tasks'[t].doomed = tasks[t].doomed
        BY <1>1, <4>1 DEF TaskType
      <4> QED BY <1>3, <2>2, <4>2 DEF Alive
    <3>2. CASE TellReady(t)
      <4>1. tasks'[t] = [tasks[t] EXCEPT !.sent = StartupPackets + 1]
        BY <1>1, <3>2 DEF TellReady
      <4>2. tasks'[t].pc = tasks[t].pc /\ tasks'[t].doomed = tasks[t].doomed
        BY <1>1, <4>1 DEF TaskType
      <4> QED BY <1>3, <2>2, <4>2 DEF Alive
    <3>3. CASE SendPacket(t)
      <4> DEFINE sent == IF tasks[t].sent < StartupPackets
                         THEN tasks[t].sent + 1 ELSE tasks[t].sent
      <4>1. tasks[t].doomed = FALSE
        BY <1>1, <1>3, <2>2 DEF Alive, TaskType
      <4>2. tasks'[t] = [pc |-> "asleep", doomed |-> FALSE, sent |-> sent]
        BY <1>1, <3>3, <4>1 DEF SendPacket
      <4> HIDE DEF sent
      <4>3. tasks'[t].pc = "asleep" /\ tasks'[t].doomed = FALSE
        BY <4>2
      <4> QED BY <2>2, <4>3 DEF Alive
    <3> QED BY <3>1, <3>2, <3>3 DEF TaskStep
  <2> QED BY <2>1, <2>2
<1> QED BY <1>2, <1>3 DEF NeverSilent, WillSpawn

\* However starts, stops, conflicts and timer tasks interleave: as long as the
\* announcer is on, some task is announcing or about to be spawned.
THEOREM NeverSilentHolds == Spec => []NeverSilent
<1>1. Init => NeverSilent
  BY DEF Init, NeverSilent
<1>2. ASSUME TypeOK, NeverSilent, [Next]_vars PROVE NeverSilent'
  <2>1. CASE CallStart \/ Arm \/ CallStop
               \/ (\E p \in Drivers : DriverStep(p))
               \/ (\E l \in Listeners : Conflict(l) \/ HandleConflict(l))
    BY <1>2, <2>1, DriverNotSilent
  <2>2. CASE \E t \in Tasks : TaskStep(t)
    BY <1>2, <2>2, TaskNotSilent
  <2>3. CASE (\E w \in Waiters : CallReady(w) \/ CheckReady(w) \/ ReadyChanged(w))
               \/ PeersChange \/ UNCHANGED vars
    <3>1. on' = on /\ tasks' = tasks /\ drivers' = drivers
      BY <2>3 DEF CallReady, CheckReady, ReadyChanged, Looks, PeersChange, vars
    <3> QED BY <1>2, <3>1 DEF NeverSilent, Alive, WillSpawn
  <2> QED BY <1>2, <2>1, <2>2, <2>3 DEF Next
<1> QED BY <1>1, <1>2, TypeCorrect, PTL DEF Spec

-----------------------------------------------------------------------------
(* A conflict moves us to a free id.                                        *)

\* Nothing but its own pick takes a listener on from there.
LEMMA OnlyPickLeavesPick ==
  ASSUME TypeOK, [Next]_vars, NEW l \in Listeners, At(l, "pick"), ~At(l, "pick")'
  PROVE  Pick(l)
<1>0. drivers \in [Drivers -> DriverType] /\ l \in Drivers
  BY DEF TypeOK, DriversTyped, Drivers
<1>1. drivers[l].pc = "pick" /\ drivers'[l] # drivers[l]
  BY DEF At
<1>2. ASSUME NEW p \in Drivers, NEW v, drivers[p].pc # "pick",
             drivers' = [drivers EXCEPT ![p] = v]
      PROVE  FALSE
  BY <1>0, <1>1, <1>2
<1>3. ASSUME NEW p \in Drivers, NEW step, drivers[p].pc # "pick", Goes(p, step)
      PROVE  FALSE
  <2>1. drivers' = [drivers EXCEPT ![p] = [drivers[p] EXCEPT !.pc = step]]
    BY <1>3 DEF Goes
  <2> QED BY <1>2, <1>3, <2>1
<1>4. ~CallStart
  BY <1>3 DEF CallStart, At, Drivers
<1>5. ~Arm
  <2> SUFFICES ASSUME Arm PROVE FALSE
    OBVIOUS
  <2>1. drivers[Client].pc # "pick" /\ Client \in Drivers
    BY DEF Arm, At, Drivers
  <2>2. listener = None
    BY <1>3, <2>1 DEF Arm
  <2>3. PICK k \in Listeners :
          /\ drivers[k].pc = "idle"
          /\ drivers' = [drivers EXCEPT ![k].pc = "listening",
                                        ![Client].pc = "clear"]
    BY <2>2 DEF Arm, At
  <2> QED BY <1>0, <1>1, <2>1, <2>3
<1>6. ~CallStop
  <2> SUFFICES ASSUME CallStop PROVE FALSE
    OBVIOUS
  <2>1. listener # None /\ At(listener, "listening") /\ Goes(listener, "idle")
    BY <1>1 DEF CallStop
  <2> QED BY <1>3, <2>1 DEF At, TypeOK, Drivers
<1>7. ASSUME NEW p \in Drivers, DriverStep(p) PROVE FALSE
  <2>1. ~ClearTimer(p, "clear", "spawn")
    BY <1>3 DEF ClearTimer, At
  <2>2. ~Spawn(p)
    <3> SUFFICES ASSUME Spawn(p) PROVE FALSE
      OBVIOUS
    <3>1. PICK t \in Unused :
            drivers' = [drivers EXCEPT ![p].pc = "store", ![p].task = t]
      BY DEF Spawn
    <3> QED BY <1>0, <1>1, <3>1 DEF Spawn, At
  <2>3. ~StoreTimer(p)
    BY <1>2 DEF StoreTimer, Done, At
  <2> QED BY <1>7, <2>1, <2>2, <2>3 DEF DriverStep
<1>8. ASSUME NEW k \in Listeners, Conflict(k) PROVE FALSE
  BY <1>3, <1>8 DEF Conflict, At, Drivers
<1>9. ASSUME NEW k \in Listeners, HandleConflict(k) PROVE Pick(l)
  <2>1. ~ClearTimer(k, "contested", "pick")
    BY <1>3 DEF ClearTimer, At, Drivers
  <2>2. ~Rename(k) /\ ~Unready(k)
    BY <1>3 DEF Rename, Unready, At, Drivers
  <2>3. CASE GiveUp(k)
    <3>1. k # l /\ drivers[k].pc = "give_up"
      BY <1>1, <2>3 DEF GiveUp, At
    <3>2. CASE listener \in {None, k}
      BY <1>0, <1>1, <2>3, <3>1, <3>2 DEF GiveUp
    <3>3. CASE listener \notin {None, k}
      <4> DEFINE w == [pc |-> IF k \in aborted THEN "idle" ELSE "listening",
                       id |-> None, task |-> None]
                 d == [drivers EXCEPT ![k] = w]
      <4>1. drivers' = [d EXCEPT ![listener].pc =
                          IF @ = "listening" THEN "idle" ELSE @]
        BY <2>3, <3>3 DEF GiveUp
      <4>2. d \in [Drivers -> DriverType] /\ d[l] = drivers[l]
        <5>1. w \in DriverType
          BY DEF DriverType, DriverSteps
        <5> HIDE DEF w
        <5> QED BY <1>0, <3>1, <5>1
      <4> HIDE DEF d
      <4>3. CASE listener = l
        <5>1. drivers'[l] = [drivers[l] EXCEPT !.pc = drivers[l].pc]
          BY <1>0, <1>1, <4>1, <4>2, <4>3
        <5>2. drivers'[l] = drivers[l]
          BY <1>0, <5>1 DEF DriverType
        <5> QED BY <1>1, <5>2
      <4>4. CASE listener # l
        BY <1>0, <1>1, <4>1, <4>2, <4>4
      <4> QED BY <4>3, <4>4
    <3> QED BY <3>2, <3>3
  <2>4. CASE Pick(k)
    <3>1. CASE k # l
      <4>1. drivers'[l] = drivers[l]
        BY <1>0, <2>4, <3>1 DEF Pick
      <4> QED BY <1>1, <4>1
    <3> QED BY <2>4, <3>1
  <2> QED BY <1>9, <2>1, <2>2, <2>3, <2>4 DEF HandleConflict
<1>10. ASSUME drivers' = drivers PROVE FALSE
  BY <1>1, <1>10
<1>11. ~(\E t \in Tasks : TaskStep(t))
  BY <1>10 DEF TaskStep, Wake, TellReady, SendPacket
<1>12. ~(\E w \in Waiters : CallReady(w) \/ CheckReady(w) \/ ReadyChanged(w))
  BY <1>10 DEF CallReady, CheckReady, ReadyChanged, Looks
<1>13. ~PeersChange /\ ~UNCHANGED vars
  BY <1>10 DEF PeersChange, vars
<1> QED BY <1>4, <1>5, <1>6, <1>7, <1>8, <1>9, <1>11, <1>12, <1>13 DEF Next

\* Whatever devices are on the map, the listener moves to an id none of them
\* has, out of the players' range if it can, and gives up only without one.
THEOREM PicksFreeIdHolds == Spec => PicksFreeId
<1>1. ASSUME TypeOK, [Next]_vars, NEW l \in Listeners,
             At(l, "pick"), ~At(l, "pick")'
      PROVE  LET id == drivers'[l].id
                 ceiling == PlayerNumberCeiling({Channels[i] : i \in peers})
             IN IF DeviceIds \subseteq peers THEN id = None
                ELSE /\ id \in DeviceIds \ peers
                     /\ (ceiling # None /\ \E i \in DeviceIds \ peers : i > ceiling)
                          => id > ceiling
  <2> DEFINE picked == PickAvailableDeviceId(peers, vcdj <= MaxPlayer,
                         PlayerNumberCeiling({Channels[i] : i \in peers}))
  <2>1. drivers' = [drivers EXCEPT
                      ![l].pc = IF picked = None THEN "give_up" ELSE "rename",
                      ![l].id = picked]
    BY <1>1, OnlyPickLeavesPick DEF Pick
  <2>2. drivers \in [Drivers -> DriverType] /\ l \in Drivers
    BY <1>1 DEF TypeOK, DriversTyped, Drivers
  <2>3. drivers'[l].id = picked
    <3> HIDE DEF picked
    <3>1. drivers'[l] = [drivers[l] EXCEPT
                           !.pc = IF picked = None THEN "give_up" ELSE "rename",
                           !.id = picked]
      BY <2>1, <2>2
    <3> QED BY <2>2, <3>1 DEF DriverType
  <2>4. peers \in Rigs /\ (vcdj <= MaxPlayer) \in BOOLEAN
    BY <1>1 DEF TypeOK
  <2>5. LET ceiling == PlayerNumberCeiling({Channels[i] : i \in peers})
        IN IF DeviceIds \subseteq peers THEN picked = None
           ELSE /\ picked \in DeviceIds \ peers
                /\ (ceiling # None /\ \E i \in DeviceIds \ peers : i > ceiling)
                     => picked > ceiling
    BY <2>4, PickedId
  <2> HIDE DEF picked
  <2> QED BY <2>3, <2>5
<1>2. TypeOK /\ [Next]_vars =>
        [\A l \in Listeners : At(l, "pick") /\ ~At(l, "pick")' =>
           LET id == drivers'[l].id
               ceiling == PlayerNumberCeiling({Channels[i] : i \in peers})
           IN IF DeviceIds \subseteq peers THEN id = None
              ELSE /\ id \in DeviceIds \ peers
                   /\ (ceiling # None /\ \E i \in DeviceIds \ peers : i > ceiling)
                        => id > ceiling]_vars
  BY <1>1
<1> QED BY <1>2, TypeCorrect, PTL DEF Spec, PicksFreeId

=============================================================================
