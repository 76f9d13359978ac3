------------------------------- MODULE NfsProofs -------------------------------
(***************************************************************************)
(* For any number of tasks, mount paths, swaps of media and restarts of    *)
(* the player: the caches of the NFS client are current once they are      *)
(* reset, a lookup that fails for a stale handle failed for a medium that  *)
(* was swapped meanwhile, what is fetched is the file, and every fetch     *)
(* reads one medium, as FileService promises.                              *)
(***************************************************************************)
EXTENDS Nfs, SequenceTheorems, TLAPS

Creating == {"portMount", "portNfs"}
Configuring == {"setClients"}
Resetting == {"resetClients", "resetRoots"}
Fetching == Steps \ ({"idle"} \cup Configuring \cup Resetting)

\* What a call knows at the step it is at.
Knows(call) ==
    /\ call.step \in Creating \cup Configuring => call.conf \in Configs
    /\ call.step \in Fetching => call.mount \in Mounts /\ call.op \in {"file", "range"}
    /\ call.step \in Configuring => call.op = "configure"
    /\ call.step \in Resetting => call.op = "reset"
GoodCalls == {call \in CallType : Knows(call)}
Typed == TypeOK /\ calls \in [Callers -> GoodCalls]

\* What a step of one call leaves behind: the call is v, the others stay as they
\* are, and the lock is held by who creates clients.
Moved(c, v) ==
    /\ calls' \in [Callers -> GoodCalls] /\ calls' \in [Callers -> CallType]
    /\ calls'[c] = v /\ \A d \in Callers \ {c} : calls'[d] = calls[d]
    /\ \A d \in Callers : calls'[d].step \in {"portMount", "portNfs"} <=> lock' = d
    /\ lock' \in Callers \cup {None}

\* Once the player's caches were reset, nobody knows a port of an earlier boot.
PortsAreCurrent ==
    forgotten =>
      /\ clients # None => clients.mount = boot /\ clients.nfs = boot
      /\ \A c \in Callers : At(c, "portNfs") => calls[c].mountPort = boot

\* Unless configurations were torn, connections that exist and those being created
\* have the configuration in force, but while the only task that configures has
\* yet to reach the connections.
Configured ==
    ~torn =>
      /\ \A c, d \in Callers : At(c, "setClients") /\ At(d, "setClients") => c = d
      /\ \A c \in Callers : At(c, "setClients") => calls[c].conf = config
      /\ (\A c \in Callers : ~At(c, "setClients")) =>
           /\ clients # None => clients.conf = config
           /\ \A c \in Callers : calls[c].step \in Creating => calls[c].conf = config

\* The second lookup of a call is made in the medium that is in the slot, unless
\* the medium is swapped during the call or the call is overtaken.
FreshCall(call, inMedia, inRoots) ==
    /\ call.again => call.step \notin {"clients", "portMount", "portNfs"}
    /\ ~call.swapped /\ ~call.overtaken =>
         /\ call.end # "stale"
         /\ call.again =>
              /\ call.step \in {"insert", "lookup"} =>
                   call.handle = inMedia[call.mount]
              /\ call.step = "root" =>
                   inRoots[call.mount] \in {None, inMedia[call.mount]}
Fresh == \A c \in Callers : FreshCall(calls[c], media, roots)

-----------------------------------------------------------------------------
(* Type correctness.                                                        *)

LEMMA IdleIsGood == Idle \in GoodCalls /\ Idle.step = "idle"
BY DEF Idle, GoodCalls, Knows, CallType, Steps, Ops, Creating, Configuring, Fetching,
       Resetting

LEMMA ReturnedFields ==
  ASSUME NEW call, NEW end
  PROVE  LET r == Returned(call, end)
         IN  /\ r.step = "idle" /\ r.op = call.op /\ r.mount = None /\ r.conf = None
             /\ r.mountPort = 0 /\ r.nfsPort = 0 /\ r.handle = 0 /\ ~r.again
             /\ r.data = (IF end = "done" THEN call.data ELSE <<>>) /\ r.end = end
             /\ r.swapped = (call.swapped /\ end = "stale")
             /\ r.overtaken = (call.overtaken /\ end = "stale")
BY DEF Returned, Idle

\* A call that returns.
LEMMA ReturnIsGood ==
  ASSUME Typed, NEW c \in Callers, NEW end \in {"none", "done", "error", "stale"}
  PROVE  Returned(calls[c], end) \in GoodCalls
<1>1. calls[c] \in CallType
  BY DEF Typed, TypeOK
<1>2. /\ calls[c].op \in Ops \cup {None} /\ calls[c].data \in Seq(Nat)
      /\ calls[c].swapped \in BOOLEAN /\ calls[c].overtaken \in BOOLEAN
  BY <1>1 DEF CallType
<1>3. Idle \in CallType
  BY IdleIsGood DEF GoodCalls
<1> DEFINE data == IF end = "done" THEN calls[c].data ELSE <<>>
           swapped == calls[c].swapped /\ end = "stale"
           overtaken == calls[c].overtaken /\ end = "stale"
<1>6. data \in Seq(Nat) /\ swapped \in BOOLEAN /\ overtaken \in BOOLEAN
  BY <1>2
<1>7. Returned(calls[c], end) =
        [Idle EXCEPT !.op = calls[c].op, !.end = end, !.data = data,
                     !.swapped = swapped, !.overtaken = overtaken]
  BY DEF Returned
<1> HIDE DEF data, swapped, overtaken
<1>4. Returned(calls[c], end) \in CallType
  BY <1>2, <1>3, <1>6, <1>7 DEF CallType
<1>5. Knows(Returned(calls[c], end))
  BY ReturnedFields DEF Knows, Steps, Creating, Configuring, Fetching, Resetting
<1> QED BY <1>4, <1>5 DEF GoodCalls

\* A step of one call, which may take or leave the lock.
LEMMA Moves ==
  ASSUME Typed, NEW c \in Callers, NEW v \in GoodCalls, Becomes(c, v),
         lock' \in Callers \cup {None}, v.step \in Creating <=> lock' = c,
         \A d \in Callers \ {c} : lock' = d <=> lock = d
  PROVE  Moved(c, v)
BY DEF Typed, TypeOK, Becomes, GoodCalls, Creating, Moved

\* One that leaves the lock as it is.
LEMMA MovesOnly ==
  ASSUME Typed, NEW c \in Callers, NEW v \in GoodCalls, Becomes(c, v), UNCHANGED lock,
         v.step \in Creating <=> calls[c].step \in Creating
  PROVE  Moved(c, v)
BY Moves DEF Typed, TypeOK, Creating

\* One that frees the lock if it holds it.
LEMMA MovesUnlocked ==
  ASSUME Typed, NEW c \in Callers, NEW v \in GoodCalls, Becomes(c, v), Unlock(c),
         v.step \notin Creating
  PROVE  Moved(c, v)
<1>1. lock' \in Callers \cup {None} /\ lock' # c /\ \A d \in Callers \ {c} : lock' = d <=> lock = d
  BY NoneIsNoOne DEF Unlock, Typed, TypeOK
<1> QED BY <1>1, Moves

\* A change of the fields that do not decide what a call knows.
LEMMA UpdateIsGood ==
  ASSUME Typed, NEW c \in Callers, NEW v \in CallType,
         v.op = calls[c].op, v.mount = calls[c].mount,
         v.conf = calls[c].conf, v.step = calls[c].step
  PROVE  v \in GoodCalls
BY DEF Typed, GoodCalls, Knows

\* A fetch that goes on to another of its steps.
LEMMA FetchIsGood ==
  ASSUME Typed, NEW c \in Callers, NEW v \in CallType,
         calls[c].step \in Fetching, v.step \in Fetching,
         v.op = calls[c].op, v.mount = calls[c].mount,
         v.step \in Creating => v.conf \in Configs
  PROVE  v \in GoodCalls
BY DEF Typed, GoodCalls, Knows, Fetching, Configuring, Resetting

-----------------------------------------------------------------------------
(* What every step makes of the calls, and type correctness.                *)

\* A call that begins.
LEMMA CallFetchMoves ==
  ASSUME Typed, NEW c \in Callers, CallFetch(c)
  PROVE  \E op \in {"file", "range"}, m \in Mounts :
           Moved(c, [Idle EXCEPT !.step = "clients", !.op = op, !.mount = m])
<1>1. PICK op \in {"file", "range"}, m \in Mounts :
        Becomes(c, [Idle EXCEPT !.step = "clients", !.op = op, !.mount = m])
  BY DEF CallFetch
<1> DEFINE v == [Idle EXCEPT !.step = "clients", !.op = op, !.mount = m]
<1>2. v \in CallType
  BY IdleIsGood DEF GoodCalls, CallType, Steps, Ops
<1>3. v.step = "clients" /\ v.op = op /\ v.mount = m
  BY DEF Idle
<1>4. v \in GoodCalls
  BY <1>2, <1>3 DEF GoodCalls, Knows, Creating, Configuring, Resetting
<1> HIDE DEF v
<1>5. Moved(c, v)
  BY <1>1, <1>3, <1>4, MovesOnly DEF v, CallFetch, At, Creating
<1> QED BY <1>5 DEF v

LEMMA CallResetMoves ==
  ASSUME Typed, NEW c \in Callers, CallReset(c)
  PROVE  Moved(c, [Idle EXCEPT !.step = "resetClients", !.op = "reset"])
<1> DEFINE v == [Idle EXCEPT !.step = "resetClients", !.op = "reset"]
<1>2. v \in CallType
  BY IdleIsGood DEF GoodCalls, CallType, Steps, Ops
<1>3. v.step = "resetClients" /\ v.op = "reset"
  BY DEF Idle
<1>4. v \in GoodCalls
  BY <1>2, <1>3 DEF GoodCalls, Knows, Creating, Configuring, Resetting, Fetching
<1> HIDE DEF v
<1>5. Moved(c, v)
  BY <1>3, <1>4, MovesOnly DEF v, CallReset, At, Creating
<1> QED BY <1>5 DEF v

LEMMA CallConfigureMoves ==
  ASSUME Typed, NEW c \in Callers, CallConfigure(c)
  PROVE  \E r \in Configs :
           /\ config' = r
           /\ Moved(c, [Idle EXCEPT !.step = "setClients", !.op = "configure", !.conf = r])
<1>1. PICK r \in Configs :
        config' = r /\ Becomes(c, [Idle EXCEPT !.step = "setClients", !.op = "configure", !.conf = r])
  BY DEF CallConfigure
<1> DEFINE v == [Idle EXCEPT !.step = "setClients", !.op = "configure", !.conf = r]
<1>2. v \in CallType
  BY IdleIsGood DEF GoodCalls, CallType, Steps, Ops
<1>3. v.step = "setClients" /\ v.op = "configure" /\ v.conf = r
  BY DEF Idle
<1>4. v \in GoodCalls
  BY <1>2, <1>3 DEF GoodCalls, Knows, Creating, Configuring, Resetting, Fetching
<1> HIDE DEF v
<1>5. Moved(c, v)
  BY <1>1, <1>3, <1>4, MovesOnly DEF v, CallConfigure, At, Creating
<1> QED BY <1>1, <1>5 DEF v

\* A call that returns.
LEMMA ReturnMoves ==
  ASSUME Typed, NEW c \in Callers, NEW end \in {"none", "done", "error", "stale"},
         Returns(c, end),
         Unlock(c) \/ (UNCHANGED lock /\ calls[c].step \notin Creating)
  PROVE  Moved(c, Returned(calls[c], end))
<1> DEFINE v == Returned(calls[c], end)
<1>1. v \in GoodCalls /\ v.step \notin Creating
  BY ReturnIsGood, ReturnedFields DEF Creating
<1>2. Becomes(c, v)
  BY DEF Returns
<1> HIDE DEF v
<1>3. Moved(c, v)
  BY <1>1, <1>2, MovesOnly, MovesUnlocked
<1> QED BY <1>3 DEF v

\* A fetch that goes on to a step that holds no lock, as it did before.
LEMMA FetchMoves ==
  ASSUME Typed, NEW c \in Callers, NEW v \in CallType, Becomes(c, v), UNCHANGED lock,
         calls[c].step \in Fetching \ Creating, v.step \in Fetching \ Creating,
         v.op = calls[c].op, v.mount = calls[c].mount
  PROVE  Moved(c, v)
<1>1. v \in GoodCalls
  BY FetchIsGood
<1> QED BY <1>1, MovesOnly

\* What a call keeps while it fetches.
Kept(v, call) ==
    /\ v.op = call.op /\ v.mount = call.mount /\ v.end = call.end
    /\ v.swapped = call.swapped /\ v.overtaken = call.overtaken

LEMMA GetClientsMoves ==
  ASSUME Typed, NEW c \in Callers, GetClients(c)
  PROVE  LET v == calls'[c]
         IN  /\ Moved(c, v) /\ Kept(v, calls[c])
             /\ v.again = calls[c].again /\ v.data = calls[c].data
             /\ \/ v.step = "root" /\ v.conf = None
                \/ clients = None /\ v.step = "portMount" /\ v.conf = config
<1> DEFINE call == calls[c]
<1>1. call \in CallType /\ clients \in ClientSet \cup {None} /\ call.step = "clients"
  BY DEF Typed, TypeOK, GetClients, At
<1>2. CASE clients # None
  <2>1. Becomes(c, Uses(call, clients)) /\ UNCHANGED lock
    BY <1>2 DEF GetClients
  <2> DEFINE v == Uses(call, clients)
  <2>2. /\ v \in CallType /\ v.step = "root" /\ v.conf = None /\ Kept(v, call)
        /\ v.again = call.again /\ v.data = call.data
    BY <1>1, <1>2 DEF Uses, CallType, ClientSet, Steps, Kept
  <2> HIDE DEF v
  <2>3. Moved(c, v)
    BY <1>1, <2>1, <2>2, FetchMoves DEF v, Fetching, Creating, Steps, Configuring,
                                        Resetting, Kept
  <2> QED BY <2>2, <2>3 DEF Moved
<1>3. CASE clients = None
  <2> DEFINE v == [call EXCEPT !.step = "portMount", !.conf = config]
  <2>1. Becomes(c, v) /\ lock' = c /\ lock = None
    BY <1>3 DEF GetClients
  <2>2. config \in Configs
    BY DEF Typed, TypeOK
  <2>3. /\ v \in CallType /\ v.step = "portMount" /\ v.conf = config /\ Kept(v, call)
        /\ v.again = call.again /\ v.data = call.data
    BY <1>1, <2>2 DEF CallType, Steps, Kept
  <2> HIDE DEF v
  <2>4. v \in GoodCalls
    BY <1>1, <2>2, <2>3, FetchIsGood DEF Fetching, Creating, Steps, Configuring,
                                         Resetting, Kept
  <2>5. lock' \in Callers \cup {None} /\ v.step \in Creating /\ lock' = c
    BY <2>1, <2>3 DEF Creating
  <2>6. \A d \in Callers \ {c} : lock' = d <=> lock = d
    BY <2>1, NoneIsNoOne
  <2>7. Moved(c, v)
    BY <2>1, <2>4, <2>5, <2>6, Moves
  <2> QED BY <1>3, <2>3, <2>7 DEF Moved
<1> QED BY <1>2, <1>3

LEMMA PortMountMoves ==
  ASSUME Typed, NEW c \in Callers, PortMount(c)
  PROVE  LET v == calls'[c]
         IN  /\ Moved(c, v) /\ Kept(v, calls[c]) /\ v.conf = calls[c].conf
             /\ v.again = calls[c].again /\ v.data = calls[c].data
             /\ v.step = "portNfs" /\ v.mountPort = boot
<1> DEFINE call == calls[c]
           v == [call EXCEPT !.step = "portNfs", !.mountPort = boot]
<1>1. call \in CallType /\ boot \in Nat /\ call.step = "portMount" /\ call \in GoodCalls
  BY DEF Typed, TypeOK, PortMount, At
<1>2. /\ v \in CallType /\ v.step = "portNfs" /\ v.conf = call.conf /\ Kept(v, call)
      /\ v.again = call.again /\ v.data = call.data /\ v.mountPort = boot
  BY <1>1 DEF CallType, Steps, Kept
<1>3. Becomes(c, v) /\ UNCHANGED lock
  BY DEF PortMount
<1> HIDE DEF v
<1>4. v \in GoodCalls
  BY <1>1, <1>2, FetchIsGood DEF Fetching, Creating, Steps, Configuring, Resetting,
                                 Kept, GoodCalls, Knows
<1>5. Moved(c, v)
  BY <1>1, <1>2, <1>3, <1>4, MovesOnly DEF Creating
<1> QED BY <1>2, <1>5 DEF Moved

LEMMA PortNfsMoves ==
  ASSUME Typed, NEW c \in Callers, PortNfs(c)
  PROVE  LET v == calls'[c]
         IN  /\ Moved(c, v) /\ Kept(v, calls[c])
             /\ v.again = calls[c].again /\ v.data = calls[c].data
             /\ v.step = "root"
             /\ clients' \in ClientSet /\ clients'.mount = calls[c].mountPort
             /\ clients'.nfs = boot /\ clients'.conf = calls[c].conf
<1> DEFINE call == calls[c]
           set == [mount |-> call.mountPort, nfs |-> boot, conf |-> call.conf]
           v == Uses(call, set)
<1>1. call \in CallType /\ boot \in Nat /\ call.step = "portNfs" /\ call \in GoodCalls
  BY DEF Typed, TypeOK, PortNfs, At
<1>2. call.conf \in Configs
  BY <1>1 DEF GoodCalls, Knows, Creating
<1>3. set \in ClientSet
  BY <1>1, <1>2 DEF CallType, ClientSet
<1>4. clients' = set /\ Becomes(c, v) /\ Unlock(c)
  BY DEF PortNfs
<1>5. /\ v \in CallType /\ v.step = "root" /\ Kept(v, call)
      /\ v.again = call.again /\ v.data = call.data
  BY <1>1, <1>3 DEF Uses, CallType, ClientSet, Steps, Kept
<1> HIDE DEF v
<1>6. v \in GoodCalls
  BY <1>1, <1>5, FetchIsGood DEF Fetching, Creating, Steps, Configuring, Resetting, Kept
<1>7. Moved(c, v)
  BY <1>4, <1>5, <1>6, MovesUnlocked DEF Creating
<1> QED BY <1>3, <1>4, <1>5, <1>7 DEF Moved

LEMMA RootHandleMoves ==
  ASSUME Typed, NEW c \in Callers, RootHandle(c)
  PROVE  LET v == calls'[c]
         IN  /\ Moved(c, v) /\ Kept(v, calls[c])
             /\ v.again = calls[c].again /\ v.data = calls[c].data
             /\ \/ v.step = "exports"
                \/ v.step = "lookup" /\ roots[calls[c].mount] # None
                                     /\ v.handle = roots[calls[c].mount]
<1> DEFINE call == calls[c]
<1>1. /\ call \in CallType /\ call.step = "root" /\ call.mount \in Mounts
      /\ roots \in [Mounts -> Nat \cup {None}] /\ UNCHANGED lock
  BY DEF Typed, TypeOK, RootHandle, At, GoodCalls, Knows, Fetching, Steps, Configuring,
         Resetting
<1>2. CASE roots[call.mount] # None
  <2> DEFINE v == [call EXCEPT !.step = "lookup", !.depth = 0,
                               !.handle = roots[call.mount]]
  <2>1. Becomes(c, v)
    BY <1>2 DEF RootHandle
  <2>2. roots[call.mount] \in Nat
    BY <1>1, <1>2
  <2>3. /\ v \in CallType /\ v.step = "lookup" /\ Kept(v, call)
        /\ v.again = call.again /\ v.data = call.data /\ v.handle = roots[call.mount]
    BY <1>1, <2>2 DEF CallType, Steps, Kept
  <2> HIDE DEF v
  <2>4. Moved(c, v)
    BY <1>1, <2>1, <2>3, FetchMoves DEF Fetching, Creating, Steps, Configuring,
                                        Resetting, Kept
  <2> QED BY <1>2, <2>3, <2>4 DEF Moved
<1>3. CASE roots[call.mount] = None
  <2> DEFINE v == [call EXCEPT !.step = "exports"]
  <2>1. Becomes(c, v)
    BY <1>3 DEF RootHandle, Goes
  <2>3. /\ v \in CallType /\ v.step = "exports" /\ Kept(v, call)
        /\ v.again = call.again /\ v.data = call.data
    BY <1>1 DEF CallType, Steps, Kept
  <2> HIDE DEF v
  <2>4. Moved(c, v)
    BY <1>1, <2>1, <2>3, FetchMoves DEF Fetching, Creating, Steps, Configuring,
                                        Resetting, Kept
  <2> QED BY <2>3, <2>4 DEF Moved
<1> QED BY <1>2, <1>3

LEMMA ExportsMoves ==
  ASSUME Typed, NEW c \in Callers, Exports(c)
  PROVE  LET v == calls'[c]
         IN  /\ Moved(c, v) /\ Kept(v, calls[c])
             /\ v.again = calls[c].again /\ v.data = calls[c].data /\ v.step = "mount"
<1> DEFINE call == calls[c]
           v == [call EXCEPT !.step = "mount"]
<1>1. call \in CallType /\ call.step = "exports" /\ UNCHANGED lock /\ Becomes(c, v)
  BY DEF Typed, TypeOK, Exports, At, Goes
<1>2. /\ v \in CallType /\ v.step = "mount" /\ Kept(v, call)
      /\ v.again = call.again /\ v.data = call.data
  BY <1>1 DEF CallType, Steps, Kept
<1> HIDE DEF v
<1>3. Moved(c, v)
  BY <1>1, <1>2, FetchMoves DEF Fetching, Creating, Steps, Configuring, Resetting, Kept
<1> QED BY <1>2, <1>3 DEF Moved

LEMMA MountMoves ==
  ASSUME Typed, NEW c \in Callers, Mount(c)
  PROVE  LET v == calls'[c]
         IN  /\ Moved(c, v) /\ Kept(v, calls[c])
             /\ v.again = calls[c].again /\ v.data = calls[c].data
             /\ v.step = "insert" /\ v.handle = media[calls[c].mount]
<1> DEFINE call == calls[c]
           v == [call EXCEPT !.step = "insert", !.handle = media[call.mount]]
<1>1. /\ call \in CallType /\ call.step = "mount" /\ UNCHANGED lock /\ Becomes(c, v)
      /\ call.mount \in Mounts /\ media \in [Mounts -> Nat]
  BY DEF Typed, TypeOK, Mount, At, GoodCalls, Knows, Fetching, Steps, Configuring,
         Resetting
<1>2. media[call.mount] \in Nat
  BY <1>1
<1>3. /\ v \in CallType /\ v.step = "insert" /\ Kept(v, call)
      /\ v.again = call.again /\ v.data = call.data /\ v.handle = media[call.mount]
  BY <1>1, <1>2 DEF CallType, Steps, Kept
<1> HIDE DEF v
<1>4. Moved(c, v)
  BY <1>1, <1>3, FetchMoves DEF Fetching, Creating, Steps, Configuring, Resetting, Kept
<1> QED BY <1>3, <1>4 DEF Moved

\* Insert tells the other calls of the mount path that they were overtaken.
LEMMA InsertMoves ==
  ASSUME Typed, NEW c \in Callers, Insert(c)
  PROVE  LET v == calls'[c]
         IN  /\ Kept(v, calls[c]) /\ v.again = calls[c].again /\ v.data = calls[c].data
             /\ v.step = "lookup" /\ v.handle = calls[c].handle
             /\ calls[c].mount \in Mounts /\ calls[c].handle \in Nat
             /\ calls' \in [Callers -> GoodCalls] /\ calls' \in [Callers -> CallType]
             /\ \A d \in Callers \ {c} :
                  LET w == calls'[d] call == calls[d]
                  IN  /\ w.step = call.step /\ w.op = call.op /\ w.mount = call.mount
                      /\ w.mountPort = call.mountPort /\ w.conf = call.conf
                      /\ w.handle = call.handle /\ w.again = call.again
                      /\ w.data = call.data /\ w.end = call.end
                      /\ w.swapped = call.swapped
                      /\ w.overtaken <=>
                           \/ call.overtaken
                           \/ /\ call.mount = calls[c].mount
                              /\ calls[c].handle # media[calls[c].mount]
<1> DEFINE v == [calls[c] EXCEPT !.step = "lookup", !.depth = 0]
           w(d) == [calls[d] EXCEPT !.overtaken =
                      @ \/ /\ calls[d].mount = calls[c].mount
                           /\ calls[c].handle # media[calls[c].mount]]
<1>1. /\ calls[c] \in CallType /\ calls[c].step = "insert" /\ UNCHANGED lock
      /\ calls[c].mount \in Mounts
  BY DEF Typed, TypeOK, Insert, At, GoodCalls, Knows, Fetching, Steps, Configuring,
         Resetting
<1>2. calls' = [d \in Callers |-> IF d = c THEN v ELSE w(d)]
  BY DEF Insert
<1>3. /\ v \in CallType /\ v.step = "lookup" /\ Kept(v, calls[c])
      /\ v.handle = calls[c].handle
      /\ v.again = calls[c].again /\ v.data = calls[c].data
  BY <1>1 DEF CallType, Steps, Kept
<1>4. v \in GoodCalls
  BY <1>1, <1>3, FetchIsGood DEF Fetching, Creating, Steps, Configuring, Resetting, Kept
<1>5. ASSUME NEW d \in Callers \ {c}
      PROVE  /\ w(d) \in CallType /\ w(d).step = calls[d].step /\ w(d).op = calls[d].op
             /\ w(d).mount = calls[d].mount /\ w(d).mountPort = calls[d].mountPort
             /\ w(d).conf = calls[d].conf /\ w(d).handle = calls[d].handle
             /\ w(d).again = calls[d].again /\ w(d).data = calls[d].data
             /\ w(d).end = calls[d].end /\ w(d).swapped = calls[d].swapped
             /\ w(d).overtaken <=>
                  \/ calls[d].overtaken
                  \/ /\ calls[d].mount = calls[c].mount
                     /\ calls[c].handle # media[calls[c].mount]
  <2> DEFINE taken == /\ calls[d].mount = calls[c].mount
                      /\ calls[c].handle # media[calls[c].mount]
             now == calls[d].overtaken \/ taken
  <2>1. calls[d] \in CallType
    BY DEF Typed, TypeOK
  <2>2. now \in BOOLEAN
    OBVIOUS
  <2>3. w(d) = [calls[d] EXCEPT !.overtaken = now]
    BY <2>1 DEF CallType
  <2> HIDE DEF now, w
  <2>4. /\ w(d) \in CallType /\ w(d).step = calls[d].step /\ w(d).op = calls[d].op
        /\ w(d).mount = calls[d].mount /\ w(d).mountPort = calls[d].mountPort
        /\ w(d).conf = calls[d].conf /\ w(d).handle = calls[d].handle
        /\ w(d).again = calls[d].again /\ w(d).data = calls[d].data
        /\ w(d).end = calls[d].end /\ w(d).swapped = calls[d].swapped
        /\ w(d).overtaken = now
    BY <2>1, <2>2, <2>3 DEF CallType
  <2> QED BY <2>4 DEF now
<1>6. \A d \in Callers \ {c} : w(d) \in GoodCalls
  BY <1>5, UpdateIsGood
<1> HIDE DEF v, w
<1>7. calls' \in [Callers -> GoodCalls] /\ calls' \in [Callers -> CallType]
  BY <1>2, <1>3, <1>4, <1>5, <1>6
<1>8. calls'[c] = v /\ \A d \in Callers \ {c} : calls'[d] = w(d)
  BY <1>2
<1>9. calls[c].handle \in Nat
  BY <1>1 DEF CallType
<1> QED BY <1>1, <1>3, <1>5, <1>7, <1>8, <1>9

LEMMA LookupMoves ==
  ASSUME Typed, NEW c \in Callers, Lookup(c)
  PROVE  LET v == calls'[c]
         IN  /\ Moved(c, v) /\ Kept(v, calls[c]) /\ v.handle = calls[c].handle
             /\ v.data = calls[c].data
             /\ \/ v.step = "lookup" /\ v.again = calls[c].again
                \/ v.step = "read" /\ ~v.again
<1> DEFINE call == calls[c]
<1>1. call \in CallType /\ call.step = "lookup" /\ UNCHANGED lock
  BY DEF Typed, TypeOK, Lookup, At
<1>2. CASE call.depth + 1 < PathLength
  <2> DEFINE v == [call EXCEPT !.depth = @ + 1]
  <2>1. Becomes(c, v)
    BY <1>2 DEF Lookup
  <2>2. call.depth + 1 \in Nat
    BY <1>1 DEF CallType
  <2>3. /\ v \in CallType /\ v.step = "lookup" /\ Kept(v, call)
        /\ v.again = call.again /\ v.data = call.data /\ v.handle = call.handle
    BY <1>1, <2>2 DEF CallType, Steps, Kept
  <2> HIDE DEF v
  <2>4. Moved(c, v)
    BY <1>1, <2>1, <2>3, FetchMoves DEF Fetching, Creating, Steps, Configuring,
                                        Resetting, Kept
  <2> QED BY <2>3, <2>4 DEF Moved
<1>3. CASE ~(call.depth + 1 < PathLength)
  <2> DEFINE v == Resolved(call)
  <2>1. Becomes(c, v)
    BY <1>3 DEF Lookup
  <2>2. /\ v \in CallType /\ v.step = "read" /\ Kept(v, call)
        /\ ~v.again /\ v.data = call.data /\ v.handle = call.handle
    BY <1>1 DEF Resolved, CallType, Steps, Kept
  <2> HIDE DEF v
  <2>3. Moved(c, v)
    BY <1>1, <2>1, <2>2, FetchMoves DEF Fetching, Creating, Steps, Configuring,
                                        Resetting, Kept
  <2> QED BY <2>2, <2>3 DEF Moved
<1> QED BY <1>2, <1>3

\* After a failed lookup.
LEMMA AgainMoves ==
  ASSUME Typed, NEW c \in Callers, NEW end \in {"error", "stale"}, Again(c, end),
         UNCHANGED lock, calls[c].step = "lookup"
  PROVE  LET v == calls'[c]
         IN  /\ Moved(c, v) /\ v.op = calls[c].op
             /\ \/ calls[c].again /\ v = Returned(calls[c], end)
                \/ /\ ~calls[c].again /\ ~v.again /\ v.step = "clear"
                   /\ Kept(v, calls[c]) /\ v.data = calls[c].data
<1> DEFINE call == calls[c]
<1>1. call \in CallType /\ call.again \in BOOLEAN
  BY DEF Typed, TypeOK, CallType
<1>2. CASE call.again
  <2>1. Returns(c, end) /\ call.step \notin Creating
    BY <1>2 DEF Again, Creating
  <2>2. Moved(c, Returned(call, end))
    BY <2>1, ReturnMoves
  <2>3. calls'[c] = Returned(call, end)
    BY <2>2 DEF Moved
  <2> HIDE DEF call
  <2>4. Returned(call, end).op = call.op
    BY ReturnedFields
  <2> QED BY <1>2, <2>2, <2>3, <2>4 DEF call
<1>3. CASE ~call.again
  <2> DEFINE v == [call EXCEPT !.step = "clear", !.handle = 0, !.depth = 0]
  <2>1. Becomes(c, v)
    BY <1>3 DEF Again
  <2>2. /\ v \in CallType /\ v.step = "clear" /\ Kept(v, call)
        /\ v.again = call.again /\ v.data = call.data
    BY <1>1 DEF CallType, Steps, Kept
  <2> HIDE DEF v
  <2>3. Moved(c, v)
    BY <1>1, <2>1, <2>2, FetchMoves DEF Fetching, Creating, Steps, Configuring,
                                        Resetting, Kept
  <2> QED BY <1>3, <2>2, <2>3 DEF Moved, Kept
<1> QED BY <1>2, <1>3

LEMMA ClearMoves ==
  ASSUME Typed, NEW c \in Callers, Clear(c)
  PROVE  LET v == calls'[c]
         IN  /\ Moved(c, v) /\ Kept(v, calls[c]) /\ v.again
             /\ v.data = calls[c].data /\ v.step = "root" /\ v.mount \in Mounts
             /\ roots' = [m \in Mounts |-> None]
<1> DEFINE call == calls[c]
           v == [call EXCEPT !.step = "root", !.again = TRUE]
<1>1. /\ call \in CallType /\ call.step = "clear" /\ UNCHANGED lock /\ Becomes(c, v)
      /\ call.mount \in Mounts /\ roots' = [m \in Mounts |-> None]
  BY DEF Typed, TypeOK, Clear, At, GoodCalls, Knows, Fetching, Steps, Configuring,
         Resetting
<1>2. /\ v \in CallType /\ v.step = "root" /\ Kept(v, call) /\ v.again
      /\ v.data = call.data
  BY <1>1 DEF CallType, Steps, Kept
<1> HIDE DEF v
<1>3. Moved(c, v)
  BY <1>1, <1>2, FetchMoves DEF Fetching, Creating, Steps, Configuring, Resetting, Kept
<1> QED BY <1>1, <1>2, <1>3 DEF Moved, Kept

\* What is fetched lies within the file.
LEMMA StartLength ==
  ASSUME Typed, NEW c \in Callers
  PROVE  /\ Start(c) \in Nat /\ Length(c) \in Nat /\ Got(c) \in Nat
         /\ calls[c].op = "file" => Start(c) = 0 /\ Length(c) = FileSize
         /\ calls[c].op # "file" => Length(c) <= Count
<1>1. calls[c].data \in Seq(Nat)
  BY DEF Typed, TypeOK, CallType
<1>2. Start(c) \in Nat /\ Start(c) <= FileSize
  BY SizesTyped DEF Start, SmallerOf
<1> QED BY <1>1, <1>2, SizesTyped DEF Length, SmallerOf, Got, Start

\* A read adds at least one byte of the file, the one that follows, and none
\* beyond what was asked for.
LEMMA ReadMoves ==
  ASSUME Typed, NEW c \in Callers, Read(c)
  PROVE  LET v == calls'[c]
         IN  /\ Moved(c, v) /\ Kept(v, calls[c]) /\ v.again = calls[c].again
             /\ v.step = "read"
             /\ v.data \in Seq(Nat)
             /\ Len(v.data) > Got(c) /\ Len(v.data) <= Length(c)
             /\ \A i \in 1 .. Len(v.data) :
                  v.data[i] = IF i <= Got(c) THEN calls[c].data[i] ELSE Start(c) + i - 1
<1>1. PICK m \in 1 .. Asked(c) + 1 :
        Becomes(c, [calls[c] EXCEPT !.data =
           Chunk(c, Start(c) + Got(c), SmallerOf(m, Length(c) - Got(c)))])
  BY DEF Read
<1>2. /\ calls[c] \in CallType /\ calls[c].step = "read" /\ UNCHANGED lock
      /\ Got(c) < Length(c) /\ calls[c].data \in Seq(Nat)
  BY DEF Typed, TypeOK, Read, At, CallType
<1>3. /\ Start(c) \in Nat /\ Length(c) \in Nat /\ Got(c) \in Nat
      /\ Got(c) = Len(calls[c].data)
  BY StartLength DEF Got
<1> DEFINE n == SmallerOf(m, Length(c) - Got(c))
<1>4. m \in Nat /\ m >= 1
  BY <1>2, <1>3, SizesTyped DEF Asked, SmallerOf
<1>5. n \in Nat /\ n >= 1 /\ n <= Length(c) - Got(c)
  BY <1>2, <1>3, <1>4 DEF SmallerOf
<1> HIDE DEF n
<1> DEFINE more == [i \in 1 .. n |-> Start(c) + Got(c) + i - 1]
           data == calls[c].data \o more
<1>6. more \in Seq(Nat) /\ Len(more) = n /\ \A i \in 1 .. n : more[i] = Start(c) + Got(c) + i - 1
  BY <1>3, <1>5
<1> HIDE DEF more
<1>7. /\ data \in Seq(Nat) /\ Len(data) = Got(c) + n
      /\ \A i \in 1 .. Len(calls[c].data) + Len(more) :
           data[i] = IF i <= Len(calls[c].data) THEN calls[c].data[i]
                     ELSE more[i - Len(calls[c].data)]
  <2>1. calls[c].data \in Seq(Nat) /\ more \in Seq(Nat)
    BY <1>2, <1>6
  <2>2. /\ data \in Seq(Nat) /\ Len(data) = Len(calls[c].data) + Len(more)
        /\ \A i \in 1 .. Len(calls[c].data) + Len(more) :
             data[i] = IF i <= Len(calls[c].data) THEN calls[c].data[i]
                       ELSE more[i - Len(calls[c].data)]
    BY <2>1, ConcatProperties, Zenon
  <2> QED BY <2>2, <1>3, <1>6
<1>8. /\ Len(data) > Got(c) /\ Len(data) <= Length(c)
      /\ \A i \in 1 .. Len(data) :
           data[i] = IF i <= Got(c) THEN calls[c].data[i] ELSE Start(c) + i - 1
  <2> HIDE DEF data
  <2>4. Len(data) = Got(c) + n
    BY <1>7
  <2>1. Len(data) > Got(c) /\ Len(data) <= Length(c)
    BY <1>3, <1>5, <2>4
  <2>2. ASSUME NEW i \in 1 .. Len(data), i > Got(c)
        PROVE  data[i] = Start(c) + i - 1
    <3>1. i \in Nat /\ i - Got(c) \in 1 .. n
      BY <1>3, <1>5, <1>7, <2>2
    <3>2. data[i] = more[i - Got(c)]
      BY <1>3, <1>6, <1>7, <2>2, <3>1
    <3>3. more[i - Got(c)] = Start(c) + Got(c) + (i - Got(c)) - 1
      BY <1>6, <3>1
    <3> QED BY <1>3, <3>1, <3>2, <3>3
  <2>3. ASSUME NEW i \in 1 .. Len(data), i <= Got(c)
        PROVE  data[i] = calls[c].data[i]
    BY <1>3, <1>6, <1>7, <2>3
  <2> QED BY <2>1, <2>2, <2>3, <1>3
<1> DEFINE v == [calls[c] EXCEPT !.data = data]
<1>9. Becomes(c, v)
  BY <1>1 DEF Chunk, more, n
<1> HIDE DEF data
<1>10. /\ v \in CallType /\ v.step = "read" /\ Kept(v, calls[c])
       /\ v.again = calls[c].again /\ v.data = data
  BY <1>2, <1>7 DEF CallType, Steps, Kept
<1> HIDE DEF v
<1>11. Moved(c, v)
  BY <1>2, <1>9, <1>10, FetchMoves DEF Fetching, Creating, Steps, Configuring,
                                       Resetting, Kept
<1> QED BY <1>7, <1>8, <1>10, <1>11 DEF Moved

\* The fields of a call that has returned.
LEMMA EndMoves ==
  ASSUME Typed, NEW c \in Callers, NEW end \in {"none", "done", "error", "stale"},
         Returns(c, end),
         Unlock(c) \/ (UNCHANGED lock /\ calls[c].step \notin Creating)
  PROVE  LET v == calls'[c]
         IN  /\ Moved(c, v) /\ v.step = "idle" /\ v.op = calls[c].op /\ v.end = end
             /\ v.data = (IF end = "done" THEN calls[c].data ELSE <<>>) /\ ~v.again
<1>1. Moved(c, Returned(calls[c], end))
  BY ReturnMoves
<1>2. calls'[c] = Returned(calls[c], end)
  BY <1>1 DEF Moved
<1> QED BY <1>1, <1>2, ReturnedFields

LEMMA ReadEmptyMoves ==
  ASSUME Typed, NEW c \in Callers, ReadEmpty(c)
  PROVE  LET v == calls'[c]
         IN  /\ Moved(c, v) /\ v.step = "idle" /\ v.op = calls[c].op /\ ~v.again
             /\ IF calls[c].op = "file" THEN v.end = "error" /\ v.data = <<>>
                ELSE v.end = "done" /\ v.data = calls[c].data
BY EndMoves DEF ReadEmpty, At, Creating

LEMMA ReadAllMoves ==
  ASSUME Typed, NEW c \in Callers, ReadAll(c)
  PROVE  LET v == calls'[c]
         IN  /\ Moved(c, v) /\ v.step = "idle" /\ v.op = calls[c].op /\ ~v.again
             /\ v.end = "done" /\ v.data = calls[c].data
BY EndMoves DEF ReadAll, At, Creating

LEMMA CancelMoves ==
  ASSUME Typed, NEW c \in Callers, Cancel(c)
  PROVE  LET v == calls'[c]
         IN  /\ Moved(c, v) /\ v.step = "idle" /\ v.op = calls[c].op /\ ~v.again
             /\ v.end = "error" /\ v.data = <<>>
BY EndMoves DEF Cancel

LEMMA FaultMoves ==
  ASSUME Typed, NEW c \in Callers, Fault(c)
  PROVE  LET v == calls'[c]
         IN  /\ Moved(c, v) /\ v.op = calls[c].op /\ ~v.again
             /\ \/ v.step = "idle" /\ v.end = "error" /\ v.data = <<>>
                \/ v.step = "clear" /\ Kept(v, calls[c]) /\ v.data = calls[c].data
<1>1. CASE At(c, "lookup")
  <2>1. Again(c, "error") /\ UNCHANGED lock /\ calls[c].step = "lookup"
    BY <1>1, NoneIsNoOne DEF Fault, Unlock, Typed, TypeOK, At
  <2>2. ~Returned(calls[c], "error").again /\ Returned(calls[c], "error").step = "idle"
        /\ Returned(calls[c], "error").end = "error"
        /\ Returned(calls[c], "error").data = <<>>
    BY ReturnedFields
  <2> QED BY <2>1, <2>2, AgainMoves
<1>2. CASE ~At(c, "lookup")
  BY <1>2, EndMoves DEF Fault
<1> QED BY <1>1, <1>2

LEMMA ResetClientsMoves ==
  ASSUME Typed, NEW c \in Callers, ResetClients(c)
  PROVE  LET v == calls'[c]
         IN  /\ Moved(c, v) /\ Kept(v, calls[c]) /\ v.step = "resetRoots"
             /\ v.data = calls[c].data /\ v.again = calls[c].again
             /\ lock = None /\ clients' = None /\ forgotten'
<1> DEFINE call == calls[c]
           v == [call EXCEPT !.step = "resetRoots"]
<1>1. /\ call \in CallType /\ call \in GoodCalls /\ call.step = "resetClients"
      /\ UNCHANGED lock /\ Becomes(c, v)
      /\ lock = None /\ clients' = None /\ forgotten'
  BY DEF Typed, TypeOK, ResetClients, At, Goes
<1>2. /\ v \in CallType /\ v.step = "resetRoots" /\ Kept(v, call)
      /\ v.data = call.data /\ v.again = call.again
  BY <1>1 DEF CallType, Steps, Kept
<1> HIDE DEF v
<1>3. v \in GoodCalls
  BY <1>1, <1>2 DEF GoodCalls, Knows, Creating, Configuring, Resetting, Fetching, Kept
<1>4. Moved(c, v)
  BY <1>1, <1>2, <1>3, MovesOnly DEF Creating
<1> QED BY <1>1, <1>2, <1>4 DEF Moved

LEMMA ResetRootsMoves ==
  ASSUME Typed, NEW c \in Callers, ResetRoots(c)
  PROVE  LET v == calls'[c]
         IN  /\ Moved(c, v) /\ v.step = "idle" /\ v.op = calls[c].op /\ ~v.again
             /\ v.end = "done" /\ v.data = calls[c].data
BY EndMoves DEF ResetRoots, At, Creating

LEMMA SetClientsMoves ==
  ASSUME Typed, NEW c \in Callers, SetClients(c)
  PROVE  LET v == calls'[c]
         IN  /\ Moved(c, v) /\ v.step = "idle" /\ v.op = calls[c].op /\ ~v.again
             /\ v.end = "done" /\ v.data = calls[c].data
             /\ calls[c].conf \in Configs /\ lock = None
<1>1. calls[c].conf \in Configs
  BY DEF Typed, GoodCalls, Knows, SetClients, At, Configuring
<1>2. lock = None /\ UNCHANGED lock /\ Returns(c, "done") /\ calls[c].step \notin Creating
  BY DEF SetClients, At, Creating
<1> QED BY <1>1, <1>2, EndMoves

\* A swap marks the calls of its mount path.
LEMMA SwapMoves ==
  ASSUME Typed, NEW m \in Mounts, Swap(m)
  PROVE  /\ calls' \in [Callers -> GoodCalls] /\ calls' \in [Callers -> CallType]
         /\ \A d \in Callers :
              LET w == calls'[d] call == calls[d]
              IN  /\ w.step = call.step /\ w.op = call.op /\ w.mount = call.mount
                  /\ w.mountPort = call.mountPort /\ w.conf = call.conf
                  /\ w.handle = call.handle /\ w.again = call.again
                  /\ w.data = call.data /\ w.end = call.end
                  /\ w.overtaken = call.overtaken
                  /\ w.swapped <=> call.swapped \/ call.mount = m
<1> DEFINE w(d) == [calls[d] EXCEPT !.swapped = @ \/ calls[d].mount = m]
<1>1. calls' = [d \in Callers |-> w(d)]
  BY DEF Swap
<1>2. ASSUME NEW d \in Callers
      PROVE  /\ w(d) \in CallType /\ w(d).step = calls[d].step /\ w(d).op = calls[d].op
             /\ w(d).mount = calls[d].mount /\ w(d).mountPort = calls[d].mountPort
             /\ w(d).conf = calls[d].conf /\ w(d).handle = calls[d].handle
             /\ w(d).again = calls[d].again /\ w(d).data = calls[d].data
             /\ w(d).end = calls[d].end /\ w(d).overtaken = calls[d].overtaken
             /\ w(d).swapped <=> calls[d].swapped \/ calls[d].mount = m
  <2> DEFINE now == calls[d].swapped \/ calls[d].mount = m
  <2>1. calls[d] \in CallType
    BY DEF Typed, TypeOK
  <2>2. now \in BOOLEAN
    OBVIOUS
  <2>3. w(d) = [calls[d] EXCEPT !.swapped = now]
    BY <2>1 DEF CallType
  <2> HIDE DEF now, w
  <2>4. /\ w(d) \in CallType /\ w(d).step = calls[d].step /\ w(d).op = calls[d].op
        /\ w(d).mount = calls[d].mount /\ w(d).mountPort = calls[d].mountPort
        /\ w(d).conf = calls[d].conf /\ w(d).handle = calls[d].handle
        /\ w(d).again = calls[d].again /\ w(d).data = calls[d].data
        /\ w(d).end = calls[d].end /\ w(d).overtaken = calls[d].overtaken
        /\ w(d).swapped = now
    BY <2>1, <2>2, <2>3 DEF CallType
  <2> QED BY <2>4 DEF now
<1>3. \A d \in Callers : w(d) \in GoodCalls
  BY <1>2, UpdateIsGood
<1> HIDE DEF w
<1>4. calls' \in [Callers -> GoodCalls] /\ calls' \in [Callers -> CallType]
  BY <1>1, <1>2, <1>3
<1>5. \A d \in Callers : calls'[d] = w(d)
  BY <1>1
<1> QED BY <1>2, <1>4, <1>5

\* The variables but calls and lock.
Rest == /\ media \in [Mounts -> Nat] /\ boot \in Nat /\ config \in Configs
        /\ clients \in ClientSet \cup {None}
        /\ roots \in [Mounts -> Nat \cup {None}]
        /\ forgotten \in BOOLEAN /\ torn \in BOOLEAN

LEMMA TypedAfter ==
  ASSUME NEW c \in Callers, NEW v, Moved(c, v), Rest'
  PROVE  Typed'
BY DEF Moved, Rest, Typed, TypeOK

LEMMA TypedInit == Init => Typed
<1> SUFFICES ASSUME Init PROVE Typed
  OBVIOUS
<1>1. calls \in [Callers -> GoodCalls] /\ calls \in [Callers -> CallType]
      /\ \A c \in Callers : calls[c].step = "idle"
  BY IdleIsGood DEF Init, GoodCalls
<1>2. Rest /\ lock = None
  BY DEF Init, Rest
<1> QED BY <1>1, <1>2, NoneIsNoOne DEF Rest, Typed, TypeOK

LEMMA TypedStep == Typed /\ [Next]_vars => Typed'
<1> SUFFICES ASSUME Typed, [Next]_vars PROVE Typed'
  OBVIOUS
<1>1. Rest
  BY DEF Typed, TypeOK, Rest
<1>2. ASSUME NEW c \in Callers, CallFetch(c) \/ CallReset(c) \/ CallConfigure(c)
      PROVE  Typed'
  <2>1. Rest'
    BY <1>1, <1>2 DEF Rest, CallFetch, CallReset, CallConfigure, Overlaps, Environment
  <2> QED BY <1>2, <2>1, CallFetchMoves, CallResetMoves, CallConfigureMoves, TypedAfter
<1>3. ASSUME NEW c \in Callers, Resolve(c) PROVE Typed'
  <2>1. CASE GetClients(c)
    BY <1>1, <2>1, GetClientsMoves, TypedAfter DEF Rest, GetClients, Environment
  <2>2. CASE PortMount(c)
    BY <1>1, <2>2, PortMountMoves, TypedAfter DEF Rest, PortMount, Environment
  <2>3. CASE PortNfs(c)
    <3>1. media' = media /\ boot' = boot /\ config' = config /\ roots' = roots
          /\ forgotten' = forgotten /\ torn' = torn
      BY <2>3 DEF PortNfs, Environment
    <3> QED BY <1>1, <2>3, <3>1, PortNfsMoves, TypedAfter DEF Rest
  <2>4. CASE RootHandle(c)
    BY <1>1, <2>4, RootHandleMoves, TypedAfter DEF Rest, RootHandle, Environment
  <2>5. CASE Exports(c)
    BY <1>1, <2>5, ExportsMoves, TypedAfter DEF Rest, Exports, Environment
  <2>6. CASE Mount(c)
    BY <1>1, <2>6, MountMoves, TypedAfter DEF Rest, Mount, Environment
  <2>7. CASE Insert(c)
    <3>1. calls[c].mount \in Mounts /\ calls[c].handle \in Nat
      BY <2>7, InsertMoves
    <3>2. Rest'
      BY <1>1, <2>7, <3>1 DEF Rest, Insert, Environment
    <3>3. calls' \in [Callers -> GoodCalls] /\ calls' \in [Callers -> CallType]
      BY <2>7, InsertMoves
    <3>5. calls[c].step = "insert" /\ calls'[c].step = "lookup"
      BY <2>7, InsertMoves DEF Insert, At
    <3>6. \A d \in Callers \ {c} : calls'[d].step = calls[d].step
      BY <2>7, InsertMoves
    <3>4. UNCHANGED lock
      BY <2>7 DEF Insert
    <3> QED BY <3>2, <3>3, <3>4, <3>5, <3>6 DEF Typed, TypeOK, Rest
  <2>8. CASE Lookup(c)
    BY <1>1, <2>8, LookupMoves, TypedAfter DEF Rest, Lookup, Environment
  <2>9. CASE LookupStale(c)
    BY <1>1, <2>9, AgainMoves, TypedAfter DEF Rest, LookupStale, Environment, At
  <2>10. CASE Clear(c)
    <3>1. roots' = [m \in Mounts |-> None]
      BY <2>10 DEF Clear
    <3> QED BY <1>1, <2>10, <3>1, ClearMoves, TypedAfter DEF Rest, Clear, Environment
  <2> QED BY <1>3, <2>1, <2>2, <2>3, <2>4, <2>5, <2>6, <2>7, <2>8, <2>9, <2>10 DEF Resolve
<1>4. ASSUME NEW c \in Callers, Fetch(c) PROVE Typed'
  <2>1. Rest'
    BY <1>1, <1>4 DEF Rest, Fetch, Read, ReadEmpty, ReadAll, Environment
  <2> QED BY <1>4, <2>1, ReadMoves, ReadEmptyMoves, ReadAllMoves, TypedAfter DEF Fetch
<1>5. ASSUME NEW c \in Callers, Manage(c) PROVE Typed'
  <2>1. CASE ResetClients(c)
    BY <1>1, <2>1, ResetClientsMoves, TypedAfter DEF Rest, ResetClients
  <2>2. CASE ResetRoots(c)
    <3>1. roots' = [m \in Mounts |-> None]
      BY <2>2 DEF ResetRoots
    <3> QED BY <1>1, <2>2, <3>1, ResetRootsMoves, TypedAfter DEF Rest, ResetRoots, Environment
  <2>3. CASE SetClients(c)
    <3>1. clients' \in ClientSet \cup {None}
      BY <1>1, <2>3, SetClientsMoves DEF Rest, SetClients, ClientSet
    <3> QED BY <1>1, <2>3, <3>1, SetClientsMoves, TypedAfter DEF Rest, SetClients, Environment
  <2> QED BY <1>5, <2>1, <2>2, <2>3 DEF Manage
<1>6. ASSUME NEW c \in Callers, Fault(c) \/ Cancel(c) PROVE Typed'
  <2>1. Rest'
    BY <1>1, <1>6 DEF Rest, Fault, Cancel, Environment
  <2> QED BY <1>6, <2>1, FaultMoves, CancelMoves, TypedAfter
<1>7. ASSUME NEW m \in Mounts, Swap(m) PROVE Typed'
  <2>1. Rest' /\ UNCHANGED lock
    BY <1>1, <1>7 DEF Rest, Swap
  <2> QED BY <1>7, <2>1, SwapMoves DEF Typed, TypeOK, Rest
<1>8. CASE Restart
  <2>1. Rest'
    <3>1. boot' \in Nat
      BY <1>1, <1>8 DEF Restart, Rest
    <3>3. forgotten' \in BOOLEAN
      BY <1>8 DEF Restart
    <3>2. UNCHANGED <<media, config, clients, roots, torn>>
      BY <1>8 DEF Restart
    <3> QED BY <1>1, <3>1, <3>2, <3>3 DEF Rest
  <2>2. UNCHANGED <<calls, lock>>
    BY <1>8 DEF Restart
  <2> QED BY <2>1, <2>2 DEF Typed, TypeOK, Rest
<1>9. CASE UNCHANGED vars
  BY <1>9 DEF Typed, TypeOK, vars
<1> QED BY <1>2, <1>3, <1>4, <1>5, <1>6, <1>7, <1>8, <1>9 DEF Next

\* State is well typed in every reachable state, and the lock is held by the
\* task that creates clients.
THEOREM TypeCorrect == Spec => []TypeOK
<1>1. Typed => TypeOK
  BY DEF Typed
<1> QED BY TypedInit, TypedStep, <1>1, PTL DEF Spec

-----------------------------------------------------------------------------
(* The caches.                                                              *)

Current == PortsAreCurrent /\ Configured

\* A step of a call that creates and configures nothing, before it and after it.
LEMMA QuietStep ==
  ASSUME Typed, Current, NEW c \in Callers, NEW v, Moved(c, v),
         UNCHANGED <<boot, config, clients, forgotten, torn>>,
         calls[c].step # "setClients", v.step \notin Creating \cup Configuring
  PROVE  Current'
<1>1. PortsAreCurrent'
  BY DEF Current, PortsAreCurrent, Moved, At, Creating
<1>2. Configured'
  BY DEF Current, Configured, Moved, At, Creating, Configuring
<1> QED BY <1>1, <1>2 DEF Current

LEMMA CurrentInit == Init => Current
BY IdleIsGood DEF Init, Current, PortsAreCurrent, Configured, At, Creating, Configuring

LEMMA CurrentStep == Typed /\ Current /\ [Next]_vars => Current'
<1> SUFFICES ASSUME Typed, Current, [Next]_vars PROVE Current'
  OBVIOUS
<1> USE DEF Creating, Configuring
<1>1. ASSUME NEW c \in Callers, CallFetch(c) PROVE Current'
  <2>1. PICK op \in {"file", "range"}, m \in Mounts :
          Moved(c, [Idle EXCEPT !.step = "clients", !.op = op, !.mount = m])
    BY <1>1, CallFetchMoves
  <2>2. [Idle EXCEPT !.step = "clients", !.op = op, !.mount = m].step = "clients"
    BY DEF Idle
  <2> QED BY <1>1, <2>1, <2>2, QuietStep DEF CallFetch, At, Environment
<1>2. ASSUME NEW c \in Callers, CallReset(c) PROVE Current'
  <2>1. [Idle EXCEPT !.step = "resetClients", !.op = "reset"].step = "resetClients"
    BY DEF Idle
  <2> QED BY <1>2, <2>1, CallResetMoves, QuietStep DEF CallReset, At, Environment
\* Another configuration that has yet to reach the connections tears both.
<1>3. ASSUME NEW c \in Callers, CallConfigure(c) PROVE Current'
  <2>1. PICK r \in Configs :
          config' = r /\ Moved(c, [Idle EXCEPT !.step = "setClients", !.op = "configure", !.conf = r])
    BY <1>3, CallConfigureMoves
  <2> DEFINE v == [Idle EXCEPT !.step = "setClients", !.op = "configure", !.conf = r]
  <2>2. v.step = "setClients" /\ v.conf = r
    BY DEF Idle
  <2> HIDE DEF v
  <2>3. torn' = Overlaps(c) /\ UNCHANGED <<boot, clients, forgotten>>
    BY <1>3 DEF CallConfigure
  <2>4. calls'[c] = v /\ \A d \in Callers \ {c} : calls'[d] = calls[d]
    BY <2>1 DEF Moved, v
  <2>5. PortsAreCurrent'
    BY <2>2, <2>3, <2>4 DEF Current, PortsAreCurrent, At
  <2>6. Configured'
    BY <2>1, <2>2, <2>3, <2>4 DEF Configured, Overlaps, At
  <2> QED BY <2>5, <2>6 DEF Current
<1>4. ASSUME NEW c \in Callers, GetClients(c) PROVE Current'
  <2>1. /\ calls[c].step = "clients" /\ UNCHANGED <<boot, config, clients, forgotten, torn>>
    BY <1>4 DEF GetClients, At, Environment
  <2>2. CASE calls'[c].step = "root"
    BY <1>4, <2>1, <2>2, GetClientsMoves, QuietStep
  <2>3. CASE calls'[c].step = "portMount" /\ calls'[c].conf = config
    <3>1. \A d \in Callers \ {c} : calls'[d] = calls[d]
      BY <1>4, GetClientsMoves DEF Moved
    <3>2. PortsAreCurrent'
      BY <2>1, <2>3, <3>1 DEF Current, PortsAreCurrent, At
    <3>3. Configured'
      BY <2>1, <2>3, <3>1 DEF Current, Configured, At
    <3> QED BY <3>2, <3>3 DEF Current
  <2> QED BY <1>4, <2>2, <2>3, GetClientsMoves
<1>5. ASSUME NEW c \in Callers, PortMount(c) PROVE Current'
  <2>1. /\ calls[c].step = "portMount" /\ UNCHANGED <<boot, config, clients, forgotten, torn>>
    BY <1>5 DEF PortMount, At, Environment
  <2>2. /\ calls'[c].step = "portNfs" /\ calls'[c].mountPort = boot
        /\ calls'[c].conf = calls[c].conf
        /\ \A d \in Callers \ {c} : calls'[d] = calls[d]
    BY <1>5, PortMountMoves DEF Moved
  <2>3. PortsAreCurrent'
    BY <2>1, <2>2 DEF Current, PortsAreCurrent, At
  <2>4. Configured'
    BY <2>1, <2>2 DEF Current, Configured, At
  <2> QED BY <2>3, <2>4 DEF Current
<1>6. ASSUME NEW c \in Callers, PortNfs(c) PROVE Current'
  <2>1. /\ calls[c].step = "portNfs" /\ UNCHANGED <<boot, config, forgotten, torn>>
    BY <1>6 DEF PortNfs, At, Environment
  <2>2. /\ calls'[c].step = "root" /\ clients'.mount = calls[c].mountPort
        /\ clients'.nfs = boot /\ clients'.conf = calls[c].conf
        /\ \A d \in Callers \ {c} : calls'[d] = calls[d]
    BY <1>6, PortNfsMoves DEF Moved
  <2>3. PortsAreCurrent'
    BY <2>1, <2>2 DEF Current, PortsAreCurrent, At
  <2>4. Configured'
    BY <2>1, <2>2 DEF Current, Configured, At
  <2> QED BY <2>3, <2>4 DEF Current
<1>7. ASSUME NEW c \in Callers, Insert(c) PROVE Current'
  <2>1. /\ calls[c].step = "insert" /\ UNCHANGED <<boot, config, clients, forgotten, torn>>
    BY <1>7 DEF Insert, At, Environment
  <2>2. /\ calls'[c].step = "lookup"
        /\ \A d \in Callers \ {c} :
             /\ calls'[d].step = calls[d].step /\ calls'[d].conf = calls[d].conf
             /\ calls'[d].mountPort = calls[d].mountPort
    BY <1>7, InsertMoves
  <2>3. PortsAreCurrent'
    BY <2>1, <2>2 DEF Current, PortsAreCurrent, At
  <2>4. Configured'
    BY <2>1, <2>2 DEF Current, Configured, At
  <2> QED BY <2>3, <2>4 DEF Current
<1>8. ASSUME NEW c \in Callers,
             RootHandle(c) \/ Exports(c) \/ Mount(c) \/ Lookup(c) \/ LookupStale(c) \/ Clear(c)
      PROVE  Current'
  <2>1. /\ calls[c].step # "setClients" /\ UNCHANGED <<boot, config, clients, forgotten, torn>>
    BY <1>8 DEF RootHandle, Exports, Mount, Lookup, LookupStale, Clear, At, Environment
  <2>2. CASE LookupStale(c)
    <3>1. Returned(calls[c], "stale").step = "idle"
      BY ReturnedFields
    <3> QED BY <2>1, <2>2, <3>1, AgainMoves, QuietStep DEF LookupStale, At
  <2> QED BY <1>8, <2>1, <2>2, QuietStep, RootHandleMoves, ExportsMoves, MountMoves,
             LookupMoves, ClearMoves
<1>9. ASSUME NEW c \in Callers, Fetch(c) \/ ResetRoots(c) \/ Fault(c)
      PROVE  Current'
  <2>1. /\ calls[c].step # "setClients" /\ UNCHANGED <<boot, config, clients, forgotten, torn>>
    BY <1>9 DEF Fetch, Read, ReadEmpty, ReadAll, ResetRoots, Fault, At, Environment
  <2> QED BY <1>9, <2>1, QuietStep, ReadMoves, ReadEmptyMoves, ReadAllMoves,
             ResetRootsMoves, FaultMoves DEF Fetch
\* A configuration that is dropped half way is torn.
<1>15. ASSUME NEW c \in Callers, Cancel(c) PROVE Current'
  <2>1. /\ UNCHANGED <<boot, config, clients, forgotten>>
        /\ torn' = (torn \/ At(c, "setClients"))
    BY <1>15 DEF Cancel
  <2>2. CASE At(c, "setClients")
    <3>1. calls'[c].step = "idle" /\ \A d \in Callers \ {c} : calls'[d] = calls[d]
      BY <1>15, CancelMoves DEF Moved
    <3>2. PortsAreCurrent'
      BY <2>1, <3>1 DEF Current, PortsAreCurrent, At
    <3>3. Configured'
      BY <2>1, <2>2 DEF Configured
    <3> QED BY <3>2, <3>3 DEF Current
  <2>3. CASE ~At(c, "setClients")
    <3>1. torn' = torn
      BY <2>1, <2>3 DEF Typed, TypeOK
    <3> QED BY <1>15, <2>1, <2>3, <3>1, CancelMoves, QuietStep DEF At
  <2> QED BY <2>2, <2>3
\* Nobody creates clients while the cache is emptied.
<1>10. ASSUME NEW c \in Callers, ResetClients(c) PROVE Current'
  <2>1. /\ calls[c].step = "resetClients" /\ UNCHANGED <<boot, config, torn>>
    BY <1>10 DEF ResetClients, At
  <2>2. /\ calls'[c].step = "resetRoots" /\ lock = None /\ clients' = None
        /\ \A d \in Callers \ {c} : calls'[d] = calls[d]
    BY <1>10, ResetClientsMoves DEF Moved
  <2>3. \A d \in Callers : calls[d].step \notin {"portMount", "portNfs"}
    BY <2>2, NoneIsNoOne DEF Typed, TypeOK
  <2>4. PortsAreCurrent'
    BY <2>1, <2>2, <2>3 DEF PortsAreCurrent, At
  <2>5. Configured'
    BY <2>1, <2>2, <2>3 DEF Current, Configured, At
  <2> QED BY <2>4, <2>5 DEF Current
\* Nor while those that exist get the configuration.
<1>11. ASSUME NEW c \in Callers, SetClients(c) PROVE Current'
  <2>1. /\ calls[c].step = "setClients" /\ UNCHANGED <<boot, config, forgotten, torn>>
    BY <1>11 DEF SetClients, At, Environment
  <2>2. /\ calls'[c].step = "idle" /\ lock = None
        /\ \A d \in Callers \ {c} : calls'[d] = calls[d]
    BY <1>11, SetClientsMoves DEF Moved
  <2>3. \A d \in Callers : calls[d].step \notin {"portMount", "portNfs"}
    BY <2>2, NoneIsNoOne DEF Typed, TypeOK
  <2>4. clients' # None => /\ clients # None /\ clients'.conf = calls[c].conf
                           /\ clients'.mount = clients.mount /\ clients'.nfs = clients.nfs
    BY <1>11 DEF SetClients, Typed, TypeOK, ClientSet
  <2>5. PortsAreCurrent'
    BY <2>1, <2>2, <2>4 DEF Current, PortsAreCurrent, At
  <2>6. Configured'
    BY <2>1, <2>2, <2>3, <2>4 DEF Current, Configured, At
  <2> QED BY <2>5, <2>6 DEF Current
<1>12. ASSUME NEW m \in Mounts, Swap(m) PROVE Current'
  <2>1. UNCHANGED <<boot, config, clients, forgotten, torn>>
    BY <1>12 DEF Swap
  <2>2. \A d \in Callers :
          /\ calls'[d].step = calls[d].step /\ calls'[d].conf = calls[d].conf
          /\ calls'[d].mountPort = calls[d].mountPort
    BY <1>12, SwapMoves
  <2>3. PortsAreCurrent'
    BY <2>1, <2>2 DEF Current, PortsAreCurrent, At
  <2>4. Configured'
    BY <2>1, <2>2 DEF Current, Configured, At
  <2> QED BY <2>3, <2>4 DEF Current
<1>13. CASE Restart
  BY <1>13 DEF Restart, Current, PortsAreCurrent, Configured, At
<1>14. CASE UNCHANGED vars
  BY <1>14 DEF vars, Current, PortsAreCurrent, Configured, At
<1> QED BY <1>1, <1>2, <1>3, <1>4, <1>5, <1>6, <1>7, <1>8, <1>9, <1>10, <1>11, <1>12,
           <1>13, <1>14, <1>15 DEF Next, Resolve, Manage

\* After a reset no port of before the last restart is cached, and the cached
\* connections have the configuration in force unless a task is just giving it
\* to them, in every reachable state.
THEOREM CachesAreCurrentHolds == Spec => []CachesAreCurrent
<1>1. Current => CachesAreCurrent
  BY DEF Current, PortsAreCurrent, Configured, CachesAreCurrent
<1> QED BY TypedInit, TypedStep, CurrentInit, CurrentStep, <1>1, PTL DEF Spec

-----------------------------------------------------------------------------
(* The second lookup.                                                       *)

\* A step of a call that leaves media and roots as they are.
LEMMA FreshMoves ==
  ASSUME Fresh, NEW c \in Callers, NEW v, Moved(c, v), UNCHANGED <<media, roots>>,
         FreshCall(v, media, roots)
  PROVE  Fresh'
BY DEF Moved, Fresh

\* A call outside the steps at which the invariant says anything of it.
LEMMA FreshElsewhere ==
  ASSUME NEW call, NEW inMedia, NEW inRoots, call.end # "stale",
         \/ ~call.again
         \/ call.step \notin {"clients", "portMount", "portNfs", "insert", "lookup", "root"}
  PROVE  FreshCall(call, inMedia, inRoots)
BY DEF FreshCall

\* One that keeps its history and its end, and comes to no such step.
LEMMA FreshOnward ==
  ASSUME NEW call, NEW v, NEW inMedia, NEW inRoots, FreshCall(call, inMedia, inRoots),
         v.end = call.end, v.swapped = call.swapped, v.overtaken = call.overtaken,
         \/ ~v.again
         \/ v.step \notin {"clients", "portMount", "portNfs", "insert", "lookup", "root"}
  PROVE  FreshCall(v, inMedia, inRoots)
BY DEF FreshCall

LEMMA FreshInit == Init => Fresh
<1>1. Idle.end = "none" /\ ~Idle.again
  BY DEF Idle
<1>2. FreshCall(Idle, media, roots)
  BY <1>1, FreshElsewhere
<1> QED BY <1>2 DEF Init, Fresh

LEMMA FreshStep == Typed /\ Fresh /\ [Next]_vars => Fresh'
<1> SUFFICES ASSUME Typed, Fresh, [Next]_vars PROVE Fresh'
  OBVIOUS
<1>0. \A c \in Callers : FreshCall(calls[c], media, roots)
  BY DEF Fresh
<1>1. ASSUME NEW c \in Callers, CallFetch(c) PROVE Fresh'
  <2>1. PICK op \in {"file", "range"}, m \in Mounts :
          Moved(c, [Idle EXCEPT !.step = "clients", !.op = op, !.mount = m])
    BY <1>1, CallFetchMoves
  <2> DEFINE v == [Idle EXCEPT !.step = "clients", !.op = op, !.mount = m]
  <2>2. ~v.again /\ v.end = "none"
    BY DEF Idle
  <2> HIDE DEF v
  <2>3. FreshCall(v, media, roots)
    BY <2>2, FreshElsewhere
  <2> QED BY <1>1, <2>1, <2>3, FreshMoves DEF v, CallFetch, Environment
<1>2. ASSUME NEW c \in Callers, CallReset(c) PROVE Fresh'
  <2> DEFINE v == [Idle EXCEPT !.step = "resetClients", !.op = "reset"]
  <2>1. ~v.again /\ v.end = "none"
    BY DEF Idle
  <2> HIDE DEF v
  <2>2. FreshCall(v, media, roots)
    BY <2>1, FreshElsewhere
  <2> QED BY <1>2, <2>2, CallResetMoves, FreshMoves DEF v, CallReset, Environment
<1>3. ASSUME NEW c \in Callers, CallConfigure(c) PROVE Fresh'
  <2>1. PICK r \in Configs :
          Moved(c, [Idle EXCEPT !.step = "setClients", !.op = "configure", !.conf = r])
    BY <1>3, CallConfigureMoves
  <2> DEFINE v == [Idle EXCEPT !.step = "setClients", !.op = "configure", !.conf = r]
  <2>2. ~v.again /\ v.end = "none"
    BY DEF Idle
  <2> HIDE DEF v
  <2>3. FreshCall(v, media, roots)
    BY <2>2, FreshElsewhere
  <2> QED BY <1>3, <2>1, <2>3, FreshMoves DEF v, CallConfigure, Environment
\* Before the first failure the invariant asks nothing.
<1>4. ASSUME NEW c \in Callers, GetClients(c) \/ PortMount(c) \/ PortNfs(c) PROVE Fresh'
  <2>1. ~calls[c].again
    BY <1>0, <1>4 DEF FreshCall, GetClients, PortMount, PortNfs, At
  <2>2. /\ Moved(c, calls'[c]) /\ Kept(calls'[c], calls[c])
        /\ calls'[c].again = calls[c].again
    BY <1>4, GetClientsMoves, PortMountMoves, PortNfsMoves
  <2>3. FreshCall(calls'[c], media, roots)
    BY <1>0, <2>1, <2>2, FreshOnward DEF Kept
  <2> QED BY <1>4, <2>2, <2>3, FreshMoves DEF GetClients, PortMount, PortNfs, Environment
<1>5. ASSUME NEW c \in Callers, RootHandle(c) PROVE Fresh'
  <2> DEFINE v == calls'[c]
  <2>1. /\ Moved(c, v) /\ Kept(v, calls[c]) /\ v.again = calls[c].again
        /\ \/ v.step = "exports"
           \/ v.step = "lookup" /\ roots[calls[c].mount] # None
                                /\ v.handle = roots[calls[c].mount]
    BY <1>5, RootHandleMoves
  <2>2. calls[c].step = "root" /\ UNCHANGED <<media, roots>>
    BY <1>5 DEF RootHandle, At, Environment
  <2> HIDE DEF v
  <2>3. FreshCall(v, media, roots)
    BY <1>0, <2>1, <2>2 DEF FreshCall, Kept
  <2> QED BY <2>1, <2>2, <2>3, FreshMoves
<1>6. ASSUME NEW c \in Callers, Exports(c) PROVE Fresh'
  <2>1. FreshCall(calls'[c], media, roots)
    BY <1>0, <1>6, ExportsMoves, FreshOnward DEF Kept
  <2> QED BY <1>6, <2>1, ExportsMoves, FreshMoves DEF Exports, Environment
<1>7. ASSUME NEW c \in Callers, Mount(c) PROVE Fresh'
  <2> DEFINE v == calls'[c]
  <2>1. /\ Moved(c, v) /\ Kept(v, calls[c]) /\ v.again = calls[c].again
        /\ v.step = "insert" /\ v.handle = media[calls[c].mount]
    BY <1>7, MountMoves
  <2> HIDE DEF v
  <2>2. FreshCall(v, media, roots)
    BY <1>0, <2>1 DEF FreshCall, Kept
  <2> QED BY <1>7, <2>1, <2>2, FreshMoves DEF Mount, Environment
\* A handle of an earlier medium overtakes the other calls of the mount path.
<1>8. ASSUME NEW c \in Callers, Insert(c) PROVE Fresh'
  <2>1. /\ calls[c].step = "insert" /\ UNCHANGED media
        /\ roots' = [roots EXCEPT ![calls[c].mount] = calls[c].handle]
        /\ roots \in [Mounts -> Nat \cup {None}]
    BY <1>8 DEF Insert, At, Environment, Typed, TypeOK
  <2>2. FreshCall(calls'[c], media, roots')
    BY <1>0, <1>8, <2>1, InsertMoves DEF FreshCall, Kept
  <2>3. ASSUME NEW d \in Callers \ {c} PROVE FreshCall(calls'[d], media, roots')
    <3> DEFINE w == calls'[d]
    <3>1. /\ w.step = calls[d].step /\ w.mount = calls[d].mount
          /\ w.handle = calls[d].handle /\ w.again = calls[d].again
          /\ w.end = calls[d].end /\ w.swapped = calls[d].swapped
          /\ w.overtaken <=> \/ calls[d].overtaken
                             \/ /\ calls[d].mount = calls[c].mount
                                /\ calls[c].handle # media[calls[c].mount]
      BY <1>8, InsertMoves
    <3>2. calls[d].step = "root" => calls[d].mount \in Mounts
      BY DEF Typed, GoodCalls, Knows, Fetching, Steps, Configuring, Resetting
    <3> HIDE DEF w
    <3>5. FreshCall(w, media, roots')
      <4>1. CASE calls[d].mount = calls[c].mount
        BY <1>0, <2>1, <3>1, <3>2, <4>1 DEF FreshCall
      <4>2. CASE calls[d].mount # calls[c].mount
        BY <1>0, <2>1, <3>1, <3>2, <4>2 DEF FreshCall
      <4> QED BY <4>1, <4>2
    <3> QED BY <3>5 DEF w
  <2> QED BY <2>1, <2>2, <2>3 DEF Fresh
<1>9. ASSUME NEW c \in Callers, Lookup(c) PROVE Fresh'
  <2> DEFINE v == calls'[c]
  <2>1. /\ Moved(c, v) /\ Kept(v, calls[c]) /\ v.handle = calls[c].handle
        /\ \/ v.step = "lookup" /\ v.again = calls[c].again
           \/ ~v.again
    BY <1>9, LookupMoves
  <2>2. calls[c].step = "lookup" /\ UNCHANGED <<media, roots>>
    BY <1>9 DEF Lookup, At, Environment
  <2> HIDE DEF v
  <2>3. FreshCall(v, media, roots)
    BY <1>0, <2>1, <2>2 DEF FreshCall, Kept
  <2> QED BY <2>1, <2>2, <2>3, FreshMoves
\* The second lookup fails for a stale handle only if the medium was swapped
\* or the call was overtaken.
<1>10. ASSUME NEW c \in Callers, LookupStale(c) PROVE Fresh'
  <2> DEFINE v == calls'[c]
  <2>1. /\ calls[c].step = "lookup" /\ UNCHANGED <<media, roots>>
        /\ calls[c].handle # media[calls[c].mount]
    BY <1>10 DEF LookupStale, At, Environment, Valid
  <2>2. /\ Moved(c, v)
        /\ \/ calls[c].again /\ v = Returned(calls[c], "stale")
           \/ ~v.again /\ Kept(v, calls[c])
    BY <1>10, <2>1, AgainMoves DEF LookupStale
  <2> HIDE DEF v
  <2>3. CASE calls[c].again /\ v = Returned(calls[c], "stale")
    <3>1. ~v.again /\ (v.swapped <=> calls[c].swapped) /\ (v.overtaken <=> calls[c].overtaken)
      <4>1. LET r == Returned(calls[c], "stale")
            IN  /\ ~r.again /\ r.swapped = (calls[c].swapped /\ "stale" = "stale")
                /\ r.overtaken = (calls[c].overtaken /\ "stale" = "stale")
        BY ReturnedFields
      <4> QED BY <2>3, <4>1
    <3>2. FreshCall(v, media, roots)
      BY <1>0, <2>1, <2>3, <3>1 DEF FreshCall
    <3> QED BY <2>1, <2>2, <3>2, FreshMoves
  <2>4. CASE ~v.again /\ Kept(v, calls[c])
    <3>1. FreshCall(v, media, roots)
      BY <1>0, <2>4, FreshOnward DEF Kept
    <3> QED BY <2>1, <2>2, <3>1, FreshMoves
  <2> QED BY <2>2, <2>3, <2>4
<1>11. ASSUME NEW c \in Callers, Clear(c) PROVE Fresh'
  <2> DEFINE v == calls'[c]
  <2>1. /\ Moved(c, v) /\ Kept(v, calls[c]) /\ v.step = "root" /\ v.mount \in Mounts
        /\ roots' = [m \in Mounts |-> None] /\ UNCHANGED media
    BY <1>11, ClearMoves DEF Clear, Environment
  <2> HIDE DEF v
  <2>2. FreshCall(v, media, roots')
    BY <1>0, <2>1 DEF FreshCall, Kept
  <2>3. ASSUME NEW d \in Callers \ {c} PROVE FreshCall(calls[d], media, roots')
    <3>1. calls[d].step = "root" => calls[d].mount \in Mounts
      BY DEF Typed, GoodCalls, Knows, Fetching, Steps, Configuring, Resetting
    <3> QED BY <1>0, <2>1, <3>1 DEF FreshCall
  <2> QED BY <2>1, <2>2, <2>3 DEF Fresh, Moved
<1>12. ASSUME NEW c \in Callers, Fetch(c) PROVE Fresh'
  <2>1. UNCHANGED <<media, roots>>
    BY <1>12 DEF Fetch, Read, ReadEmpty, ReadAll, Environment
  <2>2. CASE Read(c)
    <3>1. FreshCall(calls'[c], media, roots)
      BY <1>0, <2>2, ReadMoves, FreshOnward DEF Kept
    <3> QED BY <2>1, <2>2, <3>1, ReadMoves, FreshMoves
  <2>3. CASE ReadEmpty(c) \/ ReadAll(c)
    <3>1. /\ Moved(c, calls'[c]) /\ calls'[c].end \in {"error", "done"} /\ ~calls'[c].again
      BY <2>3, ReadEmptyMoves, ReadAllMoves
    <3>2. FreshCall(calls'[c], media, roots)
      BY <3>1, FreshElsewhere
    <3> QED BY <2>1, <3>1, <3>2, FreshMoves
  <2> QED BY <1>12, <2>2, <2>3 DEF Fetch
<1>13. ASSUME NEW c \in Callers, Fault(c) \/ Cancel(c) PROVE Fresh'
  <2> DEFINE v == calls'[c]
  <2>1. UNCHANGED <<media, roots>>
    BY <1>13 DEF Fault, Cancel, Environment
  <2>2. Moved(c, v) /\ ~v.again /\ (v.end = "error" \/ Kept(v, calls[c]))
    BY <1>13, FaultMoves, CancelMoves
  <2> HIDE DEF v
  <2>3. FreshCall(v, media, roots)
    BY <1>0, <2>2, FreshElsewhere, FreshOnward DEF Kept
  <2> QED BY <2>1, <2>2, <2>3, FreshMoves
<1>14. ASSUME NEW c \in Callers, ResetClients(c) PROVE Fresh'
  <2>1. FreshCall(calls'[c], media, roots)
    BY <1>0, <1>14, ResetClientsMoves, FreshOnward DEF Kept
  <2> QED BY <1>14, <2>1, ResetClientsMoves, FreshMoves DEF ResetClients, Environment
<1>15. ASSUME NEW c \in Callers, ResetRoots(c) PROVE Fresh'
  <2>1. /\ Moved(c, calls'[c]) /\ calls'[c].end = "done" /\ ~calls'[c].again
        /\ roots' = [m \in Mounts |-> None] /\ UNCHANGED media
    BY <1>15, ResetRootsMoves DEF ResetRoots, Environment
  <2>2. FreshCall(calls'[c], media, roots')
    BY <2>1, FreshElsewhere
  <2>3. ASSUME NEW d \in Callers \ {c} PROVE FreshCall(calls[d], media, roots')
    <3>1. calls[d].step = "root" => calls[d].mount \in Mounts
      BY DEF Typed, GoodCalls, Knows, Fetching, Steps, Configuring, Resetting
    <3> QED BY <1>0, <2>1, <3>1 DEF FreshCall
  <2> QED BY <2>1, <2>2, <2>3 DEF Fresh, Moved
<1>16. ASSUME NEW c \in Callers, SetClients(c) PROVE Fresh'
  <2>1. /\ Moved(c, calls'[c]) /\ calls'[c].end = "done" /\ ~calls'[c].again
        /\ UNCHANGED <<media, roots>>
    BY <1>16, SetClientsMoves DEF SetClients, Environment
  <2>2. FreshCall(calls'[c], media, roots)
    BY <2>1, FreshElsewhere
  <2> QED BY <2>1, <2>2, FreshMoves
<1>17. ASSUME NEW m \in Mounts, Swap(m) PROVE Fresh'
  <2>1. /\ media' = [media EXCEPT ![m] = @ + 1] /\ UNCHANGED roots
        /\ media \in [Mounts -> Nat]
    BY <1>17 DEF Swap, Typed, TypeOK
  <2>2. ASSUME NEW d \in Callers PROVE FreshCall(calls'[d], media', roots)
    <3> DEFINE w == calls'[d]
    <3>1. /\ w.step = calls[d].step /\ w.mount = calls[d].mount
          /\ w.handle = calls[d].handle /\ w.again = calls[d].again
          /\ w.end = calls[d].end /\ w.overtaken = calls[d].overtaken
          /\ w.swapped <=> calls[d].swapped \/ calls[d].mount = m
      BY <1>17, SwapMoves
    <3>2. calls[d].step \in {"root", "insert", "lookup"} => calls[d].mount \in Mounts
      BY DEF Typed, GoodCalls, Knows, Fetching, Steps, Configuring, Resetting
    <3> HIDE DEF w
    <3>3. FreshCall(w, media', roots)
      BY <1>0, <2>1, <3>1, <3>2 DEF FreshCall
    <3> QED BY <3>3 DEF w
  <2> QED BY <2>1, <2>2 DEF Fresh
<1>18. CASE Restart
  BY <1>18 DEF Restart, Fresh
<1>19. CASE UNCHANGED vars
  BY <1>19 DEF vars, Fresh
<1> QED BY <1>1, <1>2, <1>3, <1>4, <1>5, <1>6, <1>7, <1>8, <1>9, <1>10, <1>11, <1>12,
           <1>13, <1>14, <1>15, <1>16, <1>17, <1>18, <1>19 DEF Next, Resolve, Manage

\* A call fails for a stale handle only if the medium was swapped during the
\* call, or a task that had mounted an earlier one stored its handle meanwhile,
\* in every reachable state.
THEOREM FindsFreshMediumHolds == Spec => []FindsFreshMedium
<1>1. Fresh => FindsFreshMedium
  BY DEF Fresh, FreshCall, FindsFreshMedium
<1> QED BY TypedInit, TypedStep, FreshInit, FreshStep, <1>1, PTL DEF Spec

-----------------------------------------------------------------------------
(* The bytes.                                                               *)

LEMMA WholeInit == Init => FileIsWhole
<1>1. Idle.op = None /\ Idle.data = <<>> /\ Idle.end = "none"
  BY DEF Idle
<1> QED BY <1>1, SizesTyped DEF Init, FileIsWhole, Start, Length, Got, SmallerOf

\* A step of a call that leaves what was fetched as it is.
LEMMA WholeKeeps ==
  ASSUME FileIsWhole, NEW c \in Callers, NEW v, Moved(c, v),
         v.op = calls[c].op, v.data = calls[c].data,
         \/ v.end # "done" \/ v.end = calls[c].end
         \/ v.op = "file" => Got(c) = FileSize
  PROVE  FileIsWhole'
BY DEF FileIsWhole, Moved, Start, Length, Got

\* A call that begins, or fails.
LEMMA WholeBegins ==
  ASSUME Typed, FileIsWhole, NEW c \in Callers, NEW v, Moved(c, v),
         v.data = <<>>, v.end # "done"
  PROVE  FileIsWhole'
<1>1. calls'[c] = v /\ \A d \in Callers \ {c} : calls'[d] = calls[d]
  BY DEF Moved
<1>2. Got(c)' = 0
  BY <1>1 DEF Got
<1>3. Length(c)' >= 0
  BY <1>1, SizesTyped DEF Length, Start, SmallerOf
<1> QED BY <1>1, <1>2, <1>3 DEF FileIsWhole, Start, Length, Got

LEMMA WholeStep == Typed /\ FileIsWhole /\ [Next]_vars => FileIsWhole'
<1> SUFFICES ASSUME Typed, FileIsWhole, [Next]_vars PROVE FileIsWhole'
  OBVIOUS
<1>1. ASSUME NEW c \in Callers, CallFetch(c) \/ CallReset(c) \/ CallConfigure(c)
      PROVE  FileIsWhole'
  <2>1. PICK v : Moved(c, v) /\ v.data = <<>> /\ v.end = "none"
    <3>1. \A op, m : LET v == [Idle EXCEPT !.step = "clients", !.op = op, !.mount = m]
                     IN  v.data = <<>> /\ v.end = "none"
      BY DEF Idle
    <3>2. LET v == [Idle EXCEPT !.step = "resetClients", !.op = "reset"]
          IN  v.data = <<>> /\ v.end = "none"
      BY DEF Idle
    <3>3. \A r : LET v == [Idle EXCEPT !.step = "setClients", !.op = "configure", !.conf = r]
                 IN  v.data = <<>> /\ v.end = "none"
      BY DEF Idle
    <3>4. CASE CallFetch(c)
      <4>1. PICK op \in {"file", "range"}, m \in Mounts :
              Moved(c, [Idle EXCEPT !.step = "clients", !.op = op, !.mount = m])
        BY <3>4, CallFetchMoves
      <4> DEFINE new == [Idle EXCEPT !.step = "clients", !.op = op, !.mount = m]
      <4>2. Moved(c, new) /\ new.data = <<>> /\ new.end = "none"
        BY <3>1, <4>1
      <4> HIDE DEF new
      <4> QED BY <4>2
    <3>5. CASE CallReset(c)
      BY <3>2, <3>5, CallResetMoves
    <3>6. CASE CallConfigure(c)
      BY <3>3, <3>6, CallConfigureMoves
    <3> QED BY <1>1, <3>4, <3>5, <3>6
  <2> QED BY <2>1, WholeBegins
<1>2. ASSUME NEW c \in Callers,
             \/ GetClients(c) \/ PortMount(c) \/ PortNfs(c) \/ RootHandle(c)
             \/ Exports(c) \/ Mount(c) \/ Lookup(c) \/ Clear(c)
             \/ ResetClients(c)
      PROVE  FileIsWhole'
  <2>1. /\ Moved(c, calls'[c]) /\ Kept(calls'[c], calls[c])
        /\ calls'[c].data = calls[c].data
    BY <1>2, GetClientsMoves, PortMountMoves, PortNfsMoves, RootHandleMoves, ExportsMoves,
       MountMoves, LookupMoves, ClearMoves, ResetClientsMoves
  <2> QED BY <2>1, WholeKeeps DEF Kept
<1>3. ASSUME NEW c \in Callers, Insert(c) PROVE FileIsWhole'
  <2>1. \A d \in Callers : /\ calls'[d].op = calls[d].op /\ calls'[d].data = calls[d].data
                           /\ calls'[d].end = calls[d].end
    BY <1>3, InsertMoves DEF Kept
  <2> QED BY <2>1 DEF FileIsWhole, Start, Length, Got
<1>4. ASSUME NEW c \in Callers, LookupStale(c) \/ Fault(c) \/ Cancel(c)
      PROVE  FileIsWhole'
  <2>1. /\ Moved(c, calls'[c])
        /\ \/ calls'[c].data = <<>> /\ calls'[c].end # "done"
           \/ Kept(calls'[c], calls[c]) /\ calls'[c].data = calls[c].data
    BY <1>4, AgainMoves, FaultMoves, CancelMoves, ReturnedFields DEF LookupStale, At
  <2> QED BY <2>1, WholeBegins, WholeKeeps DEF Kept
\* The bytes that come are those that follow.
<1>5. ASSUME NEW c \in Callers, Read(c) PROVE FileIsWhole'
  <2> DEFINE v == calls'[c]
  <2>1. /\ Moved(c, v) /\ v.op = calls[c].op /\ v.end = calls[c].end
        /\ v.data \in Seq(Nat) /\ Len(v.data) > Got(c) /\ Len(v.data) <= Length(c)
        /\ \A i \in 1 .. Len(v.data) :
             v.data[i] = IF i <= Got(c) THEN calls[c].data[i] ELSE Start(c) + i - 1
    BY <1>5, ReadMoves DEF Kept
  <2>2. calls[c].op \in {"file", "range"} =>
          /\ \A i \in 1 .. Got(c) : calls[c].data[i] = Start(c) + i - 1
          /\ Got(c) <= Length(c)
          /\ calls[c].op = "file" /\ calls[c].end = "done" => Got(c) = FileSize
    BY DEF FileIsWhole
  <2>3. Start(c)' = Start(c) /\ Length(c)' = Length(c) /\ Got(c)' = Len(v.data)
    BY <2>1 DEF Start, Length, Got
  <2>4. Got(c) \in Nat /\ (calls[c].op = "file" => Length(c) = FileSize) /\ Length(c) \in Nat
    BY StartLength
  <2>5. Got(c) < Length(c)
    BY <1>5 DEF Read
  <2> HIDE DEF v
  <2>6. ASSUME v.op \in {"file", "range"}
        PROVE  /\ \A i \in 1 .. Len(v.data) : v.data[i] = Start(c) + i - 1
               /\ v.op = "file" /\ v.end = "done" => Len(v.data) = FileSize
    <3>1. ASSUME NEW i \in 1 .. Len(v.data) PROVE v.data[i] = Start(c) + i - 1
      <4>1. CASE i <= Got(c)
        BY <2>1, <2>2, <2>4, <2>6, <4>1
      <4>2. CASE ~(i <= Got(c))
        BY <2>1, <4>2
      <4> QED BY <4>1, <4>2
    <3>2. v.op = "file" /\ v.end = "done" => FALSE
      BY <2>1, <2>2, <2>4, <2>5, <2>6
    <3> QED BY <3>1, <3>2
  <2>7. \A d \in Callers \ {c} : calls'[d] = calls[d]
    BY <2>1 DEF Moved
  <2>8. ASSUME NEW d \in Callers \ {c}
        PROVE  /\ Start(d)' = Start(d) /\ Length(d)' = Length(d) /\ Got(d)' = Got(d)
               /\ calls'[d] = calls[d]
    BY <2>7 DEF Start, Length, Got
  <2> QED BY <2>1, <2>3, <2>6, <2>8 DEF FileIsWhole, v
\* A file that ends without an error has all its bytes.
<1>6. ASSUME NEW c \in Callers, ReadAll(c) PROVE FileIsWhole'
  <2>1. Got(c) >= Length(c) /\ calls[c].step = "read"
    BY <1>6 DEF ReadAll, At
  <2>2. calls[c].op = "file" => Got(c) = FileSize
    BY <2>1, StartLength DEF FileIsWhole
  <2> QED BY <1>6, <2>2, ReadAllMoves, WholeKeeps
<1>7. ASSUME NEW c \in Callers, ReadEmpty(c) PROVE FileIsWhole'
  <2>1. CASE calls[c].op = "file"
    BY <1>7, <2>1, ReadEmptyMoves, WholeBegins
  <2>2. CASE calls[c].op # "file"
    BY <1>7, <2>2, ReadEmptyMoves, WholeKeeps
  <2> QED BY <2>1, <2>2
<1>8. ASSUME NEW c \in Callers, ResetRoots(c) \/ SetClients(c) PROVE FileIsWhole'
  <2>1. calls[c].op # "file"
    BY <1>8 DEF ResetRoots, SetClients, At, Typed, GoodCalls, Knows, Resetting, Configuring
  <2> QED BY <1>8, <2>1, ResetRootsMoves, SetClientsMoves, WholeKeeps
<1>9. ASSUME NEW m \in Mounts, Swap(m) PROVE FileIsWhole'
  <2>1. \A d \in Callers : /\ calls'[d].op = calls[d].op /\ calls'[d].data = calls[d].data
                           /\ calls'[d].end = calls[d].end
    BY <1>9, SwapMoves
  <2> QED BY <2>1 DEF FileIsWhole, Start, Length, Got
<1>10. CASE Restart \/ UNCHANGED vars
  BY <1>10 DEF Restart, vars, FileIsWhole, Start, Length, Got
<1> QED BY <1>1, <1>2, <1>3, <1>4, <1>5, <1>6, <1>7, <1>8, <1>9, <1>10
        DEF Next, Resolve, Fetch, Manage

\* However the player cuts its answers, what is fetched is a run of bytes of the
\* file from the start that was asked for, and a file that is returned is whole,
\* in every reachable state.
THEOREM FileIsWholeHolds == Spec => []FileIsWhole
BY TypedInit, TypedStep, WholeInit, WholeStep, PTL DEF Spec

-----------------------------------------------------------------------------
(* The refinement.                                                          *)

\* What is left of a call that has returned, and what a call has that does not
\* read yet.
PlainCall(call) ==
    /\ call.step = "idle" => call.mount = None
    /\ call.step # "idle" => call.end = "none"
    /\ call.step \notin {"idle", "read"} => call.data = <<>>
Plain == \A c \in Callers : PlainCall(calls[c])

\* A fetch as its caller sees it.
IsFetch(call) == call.op \in {"file", "range"}
Result(end) == IF end \in {"error", "stale"} THEN "failed" ELSE end
SeenFetch(op, mount, medium, data, end) ==
    [op |-> op, mount |-> mount, medium |-> medium, data |-> data, end |-> end]
Fetches == [d \in Callers |-> Seen(calls[d])]

LEMMA FetchUpdates ==
  ASSUME NEW op, NEW mount, NEW medium, NEW data, NEW end, NEW new
  PROVE  LET fetch == SeenFetch(op, mount, medium, data, end)
         IN  /\ [fetch EXCEPT !.op = new] = SeenFetch(new, mount, medium, data, end)
             /\ [fetch EXCEPT !.mount = new] = SeenFetch(op, new, medium, data, end)
             /\ [fetch EXCEPT !.medium = new] = SeenFetch(op, mount, new, data, end)
             /\ [fetch EXCEPT !.data = new] = SeenFetch(op, mount, medium, new, end)
             /\ [fetch EXCEPT !.end = new] = SeenFetch(op, mount, medium, data, new)
BY DEF SeenFetch

\* A fetch that has ended or just begun.
LEMMA NoFetchUpdates ==
  ASSUME NEW op, NEW other
  PROVE  LET none == Files!NoFetch
         IN  /\ [none EXCEPT !.op = op, !.mount = other]
                  = SeenFetch(op, other, None, <<>>, "none")
             /\ [none EXCEPT !.op = op, !.end = other]
                  = SeenFetch(op, None, None, <<>>, other)
             /\ [none EXCEPT !.op = op, !.data = other, !.end = "done"]
                  = SeenFetch(op, None, None, other, "done")
<1> DEFINE empty == <<>>
           begun == "none"
           done == "done"
<1>1. Files!NoFetch = SeenFetch(None, None, None, empty, begun)
  BY DEF Files!NoFetch, SeenFetch
<1> HIDE DEF empty, begun, done
<1>2. [Files!NoFetch EXCEPT !.op = op] = SeenFetch(op, None, None, empty, begun)
  BY <1>1 DEF SeenFetch
<1>3. [SeenFetch(op, None, None, empty, begun) EXCEPT !.mount = other]
        = SeenFetch(op, other, None, empty, begun)
  BY DEF SeenFetch
<1>4. [SeenFetch(op, None, None, empty, begun) EXCEPT !.end = other]
        = SeenFetch(op, None, None, empty, other)
  BY DEF SeenFetch
<1>5. [SeenFetch(op, None, None, empty, begun) EXCEPT !.data = other]
        = SeenFetch(op, None, None, other, begun)
  BY DEF SeenFetch
<1>6. [SeenFetch(op, None, None, other, begun) EXCEPT !.end = done]
        = SeenFetch(op, None, None, other, done)
  BY DEF SeenFetch
<1> QED BY <1>2, <1>3, <1>4, <1>5, <1>6 DEF empty, begun, done

LEMMA SeenIsFetch ==
  ASSUME NEW call, IsFetch(call)
  PROVE  Seen(call) = SeenFetch(call.op, call.mount,
                                IF call.step = "read" THEN call.handle ELSE None,
                                IF call.end \in {"error", "stale"} THEN <<>> ELSE call.data,
                                Result(call.end))
BY DEF Seen, IsFetch, SeenFetch, Result

LEMMA SeenIsNone ==
  ASSUME NEW call, ~IsFetch(call)
  PROVE  Seen(call) = Files!NoFetch
BY DEF Seen, IsFetch, Files!NoFetch

\* A step of one call.
LEMMA OneSeen ==
  ASSUME NEW c \in Callers, \A d \in Callers \ {c} : Seen(calls'[d]) = Seen(calls[d])
  PROVE  Fetches' = [Fetches EXCEPT ![c] = Seen(calls'[c])]
BY DEF Fetches

LEMMA SameSeen ==
  ASSUME \A d \in Callers : Seen(calls'[d]) = Seen(calls[d])
  PROVE  Fetches' = Fetches
BY DEF Fetches

LEMMA MovedSeen ==
  ASSUME NEW c \in Callers, NEW v, Moved(c, v)
  PROVE  /\ Fetches' = [Fetches EXCEPT ![c] = Seen(v)]
         /\ Seen(v) = Seen(calls[c]) => Fetches' = Fetches
<1>1. calls'[c] = v /\ \A d \in Callers \ {c} : calls'[d] = calls[d]
  BY DEF Moved
<1> QED BY <1>1, OneSeen, SameSeen

\* The invariant.
LEMMA PlainInit == Init => Plain
<1>1. Idle.step = "idle" /\ Idle.mount = None
  BY DEF Idle
<1> QED BY <1>1 DEF Init, Plain, PlainCall

LEMMA PlainMoved ==
  ASSUME Plain, NEW c \in Callers, NEW v, Moved(c, v), PlainCall(v)
  PROVE  Plain'
BY DEF Plain, Moved

\* A call that returns is seen to have succeeded or failed.
LEMMA ReturnIsSeen ==
  ASSUME NEW call, NEW end \in {"done", "error", "stale"}
  PROVE  /\ PlainCall(Returned(call, end))
         /\ ~IsFetch(call) => Seen(Returned(call, end)) = Files!NoFetch
         /\ IsFetch(call) =>
              Seen(Returned(call, end)) =
                SeenFetch(call.op, None, None,
                          IF end \in {"error", "stale"} THEN <<>> ELSE call.data, Result(end))
<1> DEFINE r == Returned(call, end)
<1>1. /\ r.step = "idle" /\ r.op = call.op /\ r.mount = None /\ r.end = end
      /\ r.data = IF end = "done" THEN call.data ELSE <<>>
  BY ReturnedFields
<1> HIDE DEF r
<1>2. PlainCall(r)
  BY <1>1 DEF PlainCall
<1>3. IsFetch(r) <=> IsFetch(call)
  BY <1>1 DEF IsFetch
<1>4. ~IsFetch(call) => Seen(r) = Files!NoFetch
  BY <1>3, SeenIsNone
<1>5. ASSUME IsFetch(call)
      PROVE  Seen(r) = SeenFetch(call.op, None, None,
                         IF end \in {"error", "stale"} THEN <<>> ELSE call.data, Result(end))
  BY <1>1, <1>3, <1>5, SeenIsFetch
<1> QED BY <1>2, <1>4, <1>5 DEF r

\* The invariant, step by step.  What a step leaves as it is:
PlainKept(v, call) ==
    /\ Kept(v, call) /\ v.data = call.data /\ v.step # "idle" /\ call.step # "idle"
    /\ call.step = "read" => v.step = "read"

LEMMA KeptIsPlain ==
  ASSUME NEW v, NEW call, PlainCall(call), PlainKept(v, call)
  PROVE  PlainCall(v) /\ v.end = "none"
BY DEF PlainKept, PlainCall, Kept

\* Steps of a call that goes on.
Walks(c) ==
    \/ GetClients(c) \/ PortMount(c) \/ PortNfs(c) \/ RootHandle(c)
    \/ Exports(c) \/ Mount(c) \/ Lookup(c) \/ Clear(c) \/ ResetClients(c)

LEMMA WalkMoves ==
  ASSUME Typed, NEW c \in Callers, Walks(c)
  PROVE  Moved(c, calls'[c]) /\ PlainKept(calls'[c], calls[c]) /\ calls[c].step # "read"
<1> DEFINE v == calls'[c]
<1>1. Moved(c, v) /\ Kept(v, calls[c]) /\ v.data = calls[c].data
  BY GetClientsMoves, PortMountMoves, PortNfsMoves, RootHandleMoves, ExportsMoves,
     MountMoves, LookupMoves, ClearMoves, ResetClientsMoves DEF Walks
<1>2. calls[c].step \notin {"idle", "read"}
  BY DEF Walks, GetClients, PortMount, PortNfs, RootHandle, Exports, Mount, Lookup, Clear,
         ResetClients, At
<1>3. v.step # "idle"
  BY GetClientsMoves, PortMountMoves, PortNfsMoves, RootHandleMoves, ExportsMoves,
     MountMoves, LookupMoves, ClearMoves, ResetClientsMoves DEF Walks
<1> QED BY <1>1, <1>2, <1>3 DEF PlainKept

\* What a call looks like that walks on, to anything but a read.
LEMMA WalkSeen ==
  ASSUME NEW v, NEW call, PlainKept(v, call), call.step # "read", v.step # "read"
  PROVE  Seen(v) = Seen(call)
BY DEF PlainKept, Kept, Seen

LEMMA WalkRefines ==
  ASSUME Typed, Plain, NEW c \in Callers, Walks(c), ~(Lookup(c) /\ calls'[c].step = "read")
  PROVE  Fetches' = Fetches
<1> DEFINE v == calls'[c]
<1>1. Moved(c, v) /\ PlainKept(v, calls[c]) /\ calls[c].step # "read"
  BY WalkMoves
<1>2. v.step # "read"
  BY GetClientsMoves, PortMountMoves, PortNfsMoves, RootHandleMoves, ExportsMoves,
     MountMoves, ClearMoves, ResetClientsMoves DEF Walks
<1> HIDE DEF v
<1> QED BY <1>1, <1>2, WalkSeen, MovedSeen

LEMMA FetchTyped ==
  ASSUME Typed, Plain, NEW c \in Callers, calls[c].step \in Fetching
  PROVE  /\ calls[c].mount \in Mounts /\ calls[c].mount # None
         /\ IsFetch(calls[c]) /\ calls[c].end = "none"
         /\ Fetches[c] = SeenFetch(calls[c].op, calls[c].mount,
              IF calls[c].step = "read" THEN calls[c].handle ELSE None, calls[c].data, "none")
<1>1. calls[c].mount \in Mounts /\ IsFetch(calls[c]) /\ calls[c].step # "idle"
  BY DEF Typed, GoodCalls, Knows, IsFetch, Fetching
<1>2. calls[c].end = "none"
  BY <1>1 DEF Plain, PlainCall
<1>3. Result("none") = "none" /\ "none" \notin {"error", "stale"}
  BY DEF Result
<1>4. Seen(calls[c]) = SeenFetch(calls[c].op, calls[c].mount,
        IF calls[c].step = "read" THEN calls[c].handle ELSE None, calls[c].data, "none")
  BY <1>1, <1>2, <1>3, SeenIsFetch
<1> QED BY <1>1, <1>2, <1>4, NoneIsNoOne DEF Fetches

\* The last lookup finds the file on the medium in the slot.
LEMMA LookupRefines ==
  ASSUME Typed, Plain, NEW c \in Callers, Lookup(c), calls'[c].step = "read"
  PROVE  Files!Open(c)
<1> DEFINE v == calls'[c]
           call == calls[c]
<1>1. /\ Moved(c, v) /\ Kept(v, call) /\ v.data = call.data /\ v.handle = call.handle
      /\ call.step = "lookup" /\ call.handle = media[call.mount] /\ UNCHANGED media
  BY LookupMoves DEF Lookup, At, Valid, Environment
<1>2. /\ call.mount # None /\ IsFetch(call) /\ call.end = "none"
      /\ Fetches[c] = SeenFetch(call.op, call.mount, None, call.data, "none")
  BY <1>1, FetchTyped DEF Fetching, Steps, Configuring, Resetting
<1>3. Seen(v) = SeenFetch(call.op, call.mount, call.handle, call.data, "none")
  <2>1. IsFetch(v) /\ v.end = "none" /\ v.op = call.op /\ v.mount = call.mount
    BY <1>1, <1>2 DEF Kept, IsFetch
  <2>2. Result("none") = "none" /\ "none" \notin {"error", "stale"}
    BY DEF Result
  <2> QED BY <1>1, <2>1, <2>2, SeenIsFetch
<1>4. Fetches' = [Fetches EXCEPT ![c] = Seen(v)]
  BY <1>1, MovedSeen
<1>5. [SeenFetch(call.op, call.mount, None, call.data, "none")
         EXCEPT !.medium = media[call.mount]]
        = SeenFetch(call.op, call.mount, call.handle, call.data, "none")
  BY <1>1 DEF SeenFetch
<1>6. Fetches' = [Fetches EXCEPT ![c].medium = media[Fetches[c].mount]]
  BY <1>2, <1>3, <1>4, <1>5 DEF SeenFetch, Fetches
<1>7. Fetches[c].mount # None /\ Fetches[c].medium = None
  BY <1>2 DEF SeenFetch
<1> QED BY <1>1, <1>6, <1>7 DEF Files!Open, Fetches

\* More bytes.
LEMMA ReadRefines ==
  ASSUME Typed, Plain, FileIsWhole, NEW c \in Callers, Read(c)
  PROVE  Files!Read(c)
<1> DEFINE v == calls'[c]
           call == calls[c]
<1>1. /\ Moved(c, v) /\ Kept(v, call) /\ v.step = "read" /\ v.data \in Seq(Nat)
      /\ Len(v.data) > Got(c) /\ Len(v.data) <= Length(c)
      /\ \A i \in 1 .. Len(v.data) :
           v.data[i] = IF i <= Got(c) THEN call.data[i] ELSE Start(c) + i - 1
  BY ReadMoves
<1>2. /\ call.step = "read" /\ call.handle = media[call.mount] /\ UNCHANGED media
  BY DEF Read, At, Valid, Environment
<1>3. call \in CallType
  BY DEF Typed, TypeOK
<1>4. v.handle = call.handle
  <2>1. PICK data : calls' = [calls EXCEPT ![c] = [calls[c] EXCEPT !.data = data]]
    BY DEF Read, Becomes
  <2>2. calls \in [Callers -> CallType]
    BY DEF Typed, TypeOK
  <2>3. calls'[c] = [calls[c] EXCEPT !.data = data]
    BY <2>1, <2>2
  <2> QED BY <1>3, <2>3 DEF CallType
<1>5. /\ call.mount # None /\ call.mount \in Mounts /\ IsFetch(call) /\ call.end = "none"
      /\ Fetches[c] = SeenFetch(call.op, call.mount, call.handle, call.data, "none")
  BY <1>2, FetchTyped DEF Fetching, Steps, Configuring, Resetting
<1>6. Seen(v) = SeenFetch(call.op, call.mount, call.handle, v.data, "none")
  <2>1. IsFetch(v) /\ v.end = "none" /\ v.op = call.op /\ v.mount = call.mount
    BY <1>1, <1>5 DEF Kept, IsFetch
  <2>2. Result("none") = "none" /\ "none" \notin {"error", "stale"}
    BY DEF Result
  <2> QED BY <1>1, <1>4, <2>1, <2>2, SeenIsFetch
<1>7. Start(c) = Files!Offset(call.op) /\ Length(c) = Files!Size(call.op)
  BY DEF Start, Length, SmallerOf, Files!Offset, Files!Size, Files!LesserOf
<1>8. \A i \in 1 .. Got(c) : call.data[i] = Start(c) + i - 1
  BY <1>5 DEF FileIsWhole, IsFetch
<1>9. Got(c) \in Nat /\ Length(c) \in Nat /\ Start(c) \in Nat
  BY StartLength
<1>10. PICK n \in Nat : n = Len(v.data)
  BY <1>1, LenProperties
<1>11. v.data = [i \in 1 .. n |-> Start(c) + i - 1]
  <2>1. ASSUME NEW i \in 1 .. n PROVE v.data[i] = Start(c) + i - 1
    BY <1>1, <1>8, <1>9, <1>10
  <2>2. v.data = [i \in 1 .. n |-> v.data[i]]
    BY <1>1, <1>10, LenProperties
  <2> QED BY <2>1, <2>2
<1>12. v.data = Files!Bytes(call.op, n)
  BY <1>7, <1>11 DEF Files!Bytes
<1>13. n \in Len(Fetches[c].data) + 1 .. Files!Size(Fetches[c].op)
  BY <1>1, <1>5, <1>7, <1>9, <1>10 DEF SeenFetch, Got
<1>14. Fetches' = [Fetches EXCEPT ![c] = Seen(v)]
  BY <1>1, MovedSeen
<1>15. Fetches' = [Fetches EXCEPT ![c].data = Files!Bytes(Fetches[c].op, n)]
  <2>1. [SeenFetch(call.op, call.mount, call.handle, call.data, "none") EXCEPT !.data = v.data]
          = SeenFetch(call.op, call.mount, call.handle, v.data, "none")
    BY DEF SeenFetch
  <2>2. Fetches[c].op = call.op
    BY <1>5 DEF SeenFetch
  <2> HIDE DEF call, v
  <2>3. Fetches' = [Fetches EXCEPT ![c].data = v.data]
    BY <1>5, <1>6, <1>14, <2>1 DEF Fetches
  <2> QED BY <1>12, <2>2, <2>3
<1>16. Fetches[c].mount # None /\ Fetches[c].medium = media[Fetches[c].mount]
  BY <1>2, <1>5 DEF SeenFetch
<1> QED BY <1>2, <1>13, <1>15, <1>16 DEF Files!Read, Fetches

\* The call returns.
LEMMA FailRefines ==
  ASSUME Typed, Plain, NEW c \in Callers, calls[c].step \in Fetching,
         NEW end \in {"error", "stale"},
         Moved(c, Returned(calls[c], end)), UNCHANGED media
  PROVE  Files!Fail(c)
<1> DEFINE call == calls[c]
<1>1. /\ call.mount # None /\ IsFetch(call)
      /\ Fetches[c] = SeenFetch(call.op, call.mount,
              IF call.step = "read" THEN call.handle ELSE None, call.data, "none")
  BY FetchTyped
<1>2. Seen(Returned(call, end)) = SeenFetch(call.op, None, None, <<>>, "failed")
  BY <1>1, ReturnIsSeen DEF Result
<1>3. Fetches' = [Fetches EXCEPT ![c] = SeenFetch(call.op, None, None, <<>>, "failed")]
  BY <1>2, MovedSeen
<1>4. Fetches[c].mount # None /\ Fetches[c].op = call.op
  BY <1>1 DEF SeenFetch
<1>5. [Files!NoFetch EXCEPT !.op = call.op, !.end = "failed"]
        = SeenFetch(call.op, None, None, <<>>, "failed")
  BY NoFetchUpdates
<1> QED BY <1>3, <1>4, <1>5 DEF Files!Fail, Fetches

LEMMA FinishRefines ==
  ASSUME Typed, Plain, NEW c \in Callers, calls[c].step = "read",
         Moved(c, Returned(calls[c], "done")), UNCHANGED media,
         calls[c].op = "file" => Got(c) = FileSize
  PROVE  Files!Finish(c)
<1> DEFINE call == calls[c]
<1>0. call \in CallType
  BY DEF Typed, TypeOK
<1>1. /\ IsFetch(call)
      /\ Fetches[c] = SeenFetch(call.op, call.mount, call.handle, call.data, "none")
  BY FetchTyped DEF Fetching, Steps, Configuring, Resetting
<1>2. Seen(Returned(call, "done")) = SeenFetch(call.op, None, None, call.data, "done")
  BY <1>1, ReturnIsSeen DEF Result
<1>3. Fetches' = [Fetches EXCEPT ![c] = SeenFetch(call.op, None, None, call.data, "done")]
  BY <1>2, MovedSeen
<1>4. call.handle # None
  BY <1>0, NoneIsNoOne DEF CallType
<1>5. /\ Fetches[c].medium # None /\ Fetches[c].op = call.op /\ Fetches[c].data = call.data
      /\ Fetches[c].op = "file" => Len(Fetches[c].data) = FileSize
  BY <1>1, <1>4 DEF SeenFetch, Got
<1>6. [Files!NoFetch EXCEPT !.op = call.op, !.data = call.data, !.end = "done"]
        = SeenFetch(call.op, None, None, call.data, "done")
  BY NoFetchUpdates
<1> QED BY <1>3, <1>5, <1>6 DEF Files!Finish, Fetches

\* A call that does not fetch is not seen.
LEMMA OtherRefines ==
  ASSUME NEW c \in Callers, ~IsFetch(calls[c]), NEW v, Moved(c, v), ~IsFetch(v)
  PROVE  Fetches' = Fetches
BY SeenIsNone, MovedSeen

\* A call that begins.
LEMMA AskRefines ==
  ASSUME Typed, Plain, NEW c \in Callers, CallFetch(c)
  PROVE  Plain' /\ Files!Ask(c)
<1>1. PICK op \in {"file", "range"}, m \in Mounts :
        Moved(c, [Idle EXCEPT !.step = "clients", !.op = op, !.mount = m])
  BY CallFetchMoves
<1> DEFINE new == [Idle EXCEPT !.step = "clients", !.op = op, !.mount = m]
<1>2. /\ new.step = "clients" /\ new.op = op /\ new.mount = m /\ new.data = <<>>
      /\ new.end = "none"
  BY DEF Idle
<1>3. Moved(c, new)
  BY <1>1
<1> HIDE DEF new
<1>4. PlainCall(new) /\ IsFetch(new)
  BY <1>2 DEF PlainCall, IsFetch
<1>5. Seen(new) = SeenFetch(op, m, None, <<>>, "none")
  BY <1>2, <1>4, SeenIsFetch DEF Result
<1>6. Fetches' = [Fetches EXCEPT ![c] = [Files!NoFetch EXCEPT !.op = op, !.mount = m]]
  <2>1. [Files!NoFetch EXCEPT !.op = op, !.mount = m] = SeenFetch(op, m, None, <<>>, "none")
    BY NoFetchUpdates
  <2>2. Fetches' = [Fetches EXCEPT ![c] = Seen(new)]
    BY <1>3, MovedSeen
  <2> QED BY <1>5, <2>1, <2>2
<1>7. Fetches[c].mount = None
  <2>1. calls[c].mount = None
    BY DEF CallFetch, At, Plain, PlainCall
  <2> QED BY <2>1 DEF Fetches, Seen
<1>8. UNCHANGED media
  BY DEF CallFetch, Environment
<1> QED BY <1>3, <1>4, <1>6, <1>7, <1>8, PlainMoved DEF Files!Ask, Fetches

\* One that does something else.
LEMMA LeaveRefines ==
  ASSUME Typed, Plain, NEW c \in Callers, CallReset(c) \/ CallConfigure(c)
  PROVE  Plain' /\ Files!Leave(c)
<1>1. PICK new : /\ Moved(c, new) /\ new.step # "idle" /\ new.end = "none" /\ new.data = <<>>
                 /\ new.op \in {"reset", "configure"}
  <2>1. CASE CallReset(c)
    <3> DEFINE new == [Idle EXCEPT !.step = "resetClients", !.op = "reset"]
    <3>1. Moved(c, new)
      BY <2>1, CallResetMoves
    <3>2. new.step # "idle" /\ new.end = "none" /\ new.data = <<>> /\ new.op = "reset"
      BY DEF Idle
    <3> HIDE DEF new
    <3> QED BY <3>1, <3>2
  <2>2. CASE CallConfigure(c)
    <3>1. PICK r : Moved(c, [Idle EXCEPT !.step = "setClients", !.op = "configure", !.conf = r])
      BY <2>2, CallConfigureMoves
    <3> DEFINE new == [Idle EXCEPT !.step = "setClients", !.op = "configure", !.conf = r]
    <3>2. new.step # "idle" /\ new.end = "none" /\ new.data = <<>> /\ new.op = "configure"
      BY DEF Idle
    <3>3. Moved(c, new)
      BY <3>1
    <3> HIDE DEF new
    <3> QED BY <3>2, <3>3
  <2> QED BY <2>1, <2>2
<1>2. PlainCall(new) /\ ~IsFetch(new)
  BY <1>1 DEF PlainCall, IsFetch
<1>3. Fetches' = [Fetches EXCEPT ![c] = Files!NoFetch]
  BY <1>1, <1>2, MovedSeen, SeenIsNone
<1>4. Fetches[c].mount = None
  <2>1. calls[c].mount = None
    BY DEF CallReset, CallConfigure, At, Plain, PlainCall
  <2> QED BY <2>1 DEF Fetches, Seen
<1>5. UNCHANGED media
  BY DEF CallReset, CallConfigure, Environment
<1> QED BY <1>1, <1>2, <1>3, <1>4, <1>5, PlainMoved DEF Files!Leave, Fetches

\* A call that returns, whatever it was.
LEMMA EndRefines ==
  ASSUME Typed, Plain, NEW c \in Callers, NEW end \in {"error", "stale"}, Returns(c, end),
         calls[c].step # "idle",
         Unlock(c) \/ (UNCHANGED lock /\ calls[c].step \notin Creating), UNCHANGED media
  PROVE  Plain' /\ (Files!Fail(c) \/ Fetches' = Fetches)
<1>1. Moved(c, Returned(calls[c], end))
  BY ReturnMoves
<1>2. Plain'
  BY <1>1, ReturnIsSeen, PlainMoved
<1>3. CASE calls[c].step \in Fetching
  BY <1>1, <1>2, <1>3, FailRefines
<1>4. CASE calls[c].step \in Resetting \cup Configuring
  <2>1. calls[c].op \in {"reset", "configure"}
    BY <1>4 DEF Typed, GoodCalls, Knows
  <2>2. ~IsFetch(calls[c]) /\ Seen(calls[c]) = Files!NoFetch
    BY <2>1, SeenIsNone DEF IsFetch
  <2>3. Seen(Returned(calls[c], end)) = Seen(calls[c])
    BY <2>2, ReturnIsSeen
  <2> QED BY <1>1, <1>2, <2>3, MovedSeen
<1>5. calls[c].step \in Steps
  BY DEF Typed, TypeOK, CallType
<1> QED BY <1>3, <1>4, <1>5 DEF Fetching

\* After a lookup that failed, the call goes on or returns.
LEMMA AgainRefines ==
  ASSUME Typed, Plain, NEW c \in Callers, NEW end \in {"error", "stale"}, Again(c, end),
         calls[c].step = "lookup", UNCHANGED lock, UNCHANGED media
  PROVE  Plain' /\ (Files!Fail(c) \/ Fetches' = Fetches)
<1>1. CASE calls[c].again
  <2>1. Returns(c, end)
    BY <1>1 DEF Again
  <2> QED BY <2>1, EndRefines DEF Creating
<1>2. CASE ~calls[c].again
  <2>1. calls' = [calls EXCEPT ![c] =
                    [calls[c] EXCEPT !.step = "clear", !.handle = 0, !.depth = 0]]
    BY <1>2 DEF Again, Becomes
  <2>2. calls \in [Callers -> CallType] /\ calls[c] \in CallType
    BY DEF Typed, TypeOK
  <2> DEFINE v == [calls[c] EXCEPT !.step = "clear", !.handle = 0, !.depth = 0]
  <2>3. v.step = "clear" /\ PlainKept(v, calls[c])
    BY <2>2 DEF CallType, PlainKept, Kept
  <2>4. calls'[c] = v
    BY <2>1, <2>2
  <2> HIDE DEF v
  <2>5. Moved(c, v)
    BY <2>4, AgainMoves
  <2>6. PlainCall(v) /\ Seen(v) = Seen(calls[c])
    BY <2>3, KeptIsPlain, WalkSeen DEF Plain
  <2> QED BY <2>5, <2>6, PlainMoved, MovedSeen
<1> QED BY <1>1, <1>2 DEF Typed, TypeOK, CallType

LEMMA FilesInit == Init => Files!Init
<1>1. ~IsFetch(Idle)
  BY NoneIsNoOne DEF Idle, IsFetch
<1> QED BY <1>1, SeenIsNone DEF Init, Files!Init

LEMMA FilesStep ==
  Typed /\ Plain /\ FileIsWhole /\ [Next]_vars => Plain' /\ [Files!Next]_(Files!vars)
<1> SUFFICES ASSUME Typed, Plain, FileIsWhole, [Next]_vars
             PROVE  Plain' /\ [Files!Next]_(Files!vars)
  OBVIOUS
<1>0. ASSUME Fetches' = Fetches, UNCHANGED media PROVE [Files!Next]_(Files!vars)
  BY <1>0 DEF Files!vars, Fetches
<1>1. ASSUME NEW c \in Callers, CallFetch(c) \/ CallReset(c) \/ CallConfigure(c)
      PROVE  Plain' /\ [Files!Next]_(Files!vars)
  BY <1>1, AskRefines, LeaveRefines DEF Files!Next
<1>2. ASSUME NEW c \in Callers, Walks(c)
      PROVE  Plain' /\ [Files!Next]_(Files!vars)
  <2>1. Moved(c, calls'[c]) /\ PlainCall(calls'[c])
    BY <1>2, WalkMoves, KeptIsPlain DEF Plain
  <2>2. UNCHANGED media
    BY <1>2 DEF Walks, GetClients, PortMount, PortNfs, RootHandle, Exports, Mount, Lookup,
                Clear, ResetClients, Environment
  <2>3. CASE Lookup(c) /\ calls'[c].step = "read"
    BY <2>1, <2>3, LookupRefines, PlainMoved DEF Files!Next
  <2>4. CASE ~(Lookup(c) /\ calls'[c].step = "read")
    BY <1>0, <1>2, <2>1, <2>2, <2>4, WalkRefines, PlainMoved
  <2> QED BY <2>3, <2>4
<1>3. ASSUME NEW c \in Callers, Insert(c)
      PROVE  Plain' /\ [Files!Next]_(Files!vars)
  <2> DEFINE v == calls'[c]
  <2>1. /\ Kept(v, calls[c]) /\ v.data = calls[c].data /\ v.step = "lookup"
        /\ calls[c].step = "insert"
        /\ \A d \in Callers \ {c} :
             LET w == calls'[d] call == calls[d]
             IN  /\ w.step = call.step /\ w.op = call.op /\ w.mount = call.mount
                 /\ w.handle = call.handle /\ w.data = call.data /\ w.end = call.end
    BY <1>3, InsertMoves DEF Insert, At
  <2> HIDE DEF v
  <2>2. PlainKept(v, calls[c])
    BY <2>1 DEF PlainKept
  <2>3. PlainCall(v) /\ Seen(v) = Seen(calls[c])
    BY <2>1, <2>2, KeptIsPlain, WalkSeen DEF Plain
  <2>4. \A d \in Callers \ {c} : Seen(calls'[d]) = Seen(calls[d])
                                 /\ PlainCall(calls'[d])
    BY <2>1 DEF Seen, Plain, PlainCall
  <2>5. \A d \in Callers : Seen(calls'[d]) = Seen(calls[d]) /\ PlainCall(calls'[d])
    BY <2>3, <2>4 DEF v
  <2>6. UNCHANGED media
    BY <1>3 DEF Insert, Environment
  <2> QED BY <1>0, <2>5, <2>6, SameSeen DEF Plain
<1>4. ASSUME NEW c \in Callers, LookupStale(c)
      PROVE  Plain' /\ [Files!Next]_(Files!vars)
  <2>1. Again(c, "stale") /\ calls[c].step = "lookup" /\ UNCHANGED <<lock, media>>
    BY <1>4 DEF LookupStale, At, Environment
  <2> QED BY <1>0, <2>1, AgainRefines DEF Files!Next
<1>5. ASSUME NEW c \in Callers, Fault(c)
      PROVE  Plain' /\ [Files!Next]_(Files!vars)
  <2>1. UNCHANGED media /\ Unlock(c)
        /\ calls[c].step # "idle"
    BY <1>5 DEF Fault, Environment
  <2>2. CASE At(c, "lookup")
    <3>1. Again(c, "error") /\ calls[c].step = "lookup"
      BY <1>5, <2>2 DEF Fault, At
    <3>2. lock # c
      BY <3>1 DEF Typed, TypeOK
    <3>3. UNCHANGED lock
      BY <2>1, <3>2 DEF Unlock
    <3> QED BY <1>0, <2>1, <3>1, <3>3, AgainRefines DEF Files!Next
  <2>3. CASE ~At(c, "lookup")
    <3>1. Returns(c, "error")
      BY <1>5, <2>3 DEF Fault
    <3> QED BY <1>0, <2>1, <3>1, EndRefines DEF Files!Next
  <2> QED BY <2>2, <2>3
<1>6. ASSUME NEW c \in Callers, Cancel(c)
      PROVE  Plain' /\ [Files!Next]_(Files!vars)
  <2>1. /\ UNCHANGED media /\ Unlock(c) /\ Returns(c, "error")
        /\ calls[c].step # "idle"
    BY <1>6 DEF Cancel
  <2> QED BY <1>0, <2>1, EndRefines DEF Files!Next
<1>7. ASSUME NEW c \in Callers, Fetch(c)
      PROVE  Plain' /\ [Files!Next]_(Files!vars)
  <2>1. /\ UNCHANGED <<media, lock>>
        /\ calls[c].step = "read" /\ calls[c].step \notin {"idle"} \cup Configuring \cup Creating
    BY <1>7 DEF Fetch, Read, ReadEmpty, ReadAll, At, Environment, Configuring, Creating
  <2>2. CASE Read(c)
    <3>1. Moved(c, calls'[c]) /\ calls'[c].step = "read" /\ Kept(calls'[c], calls[c])
      BY <2>2, ReadMoves
    <3>2. PlainCall(calls'[c])
      BY <2>1, <3>1 DEF Plain, PlainCall, Kept
    <3> QED BY <2>2, <3>1, <3>2, ReadRefines, PlainMoved DEF Files!Next
  <2>3. ASSUME NEW end \in {"done", "error"}, Returns(c, end),
               calls[c].op = "file" /\ end = "done" => Got(c) = FileSize
        PROVE  Plain' /\ [Files!Next]_(Files!vars)
    <3>1. CASE end = "error"
      BY <1>0, <2>1, <2>3, <3>1, EndRefines DEF Files!Next
    <3>2. CASE end = "done"
      <4>1. Moved(c, Returned(calls[c], "done"))
        BY <2>1, <2>3, <3>2, ReturnMoves
      <4>2. Plain'
        BY <4>1, ReturnIsSeen, PlainMoved
      <4> QED BY <2>1, <2>3, <3>2, <4>1, <4>2, FinishRefines DEF Files!Next
    <3> QED BY <3>1, <3>2
  <2>4. CASE ReadEmpty(c)
    BY <2>3, <2>4 DEF ReadEmpty
  <2>5. CASE ReadAll(c)
    <3>1. Got(c) >= Length(c) /\ Returns(c, "done")
      BY <2>5 DEF ReadAll
    <3>2. calls[c].op = "file" => Got(c) = FileSize
      BY <3>1, StartLength DEF FileIsWhole
    <3> QED BY <2>3, <3>1, <3>2
  <2> QED BY <1>7, <2>2, <2>4, <2>5 DEF Fetch
<1>8. ASSUME NEW c \in Callers, ResetRoots(c) \/ SetClients(c)
      PROVE  Plain' /\ [Files!Next]_(Files!vars)
  <2>1. /\ UNCHANGED <<media, lock>> /\ Returns(c, "done") /\ calls[c].step \notin Creating
        /\ calls[c].op \in {"reset", "configure"}
    BY <1>8 DEF ResetRoots, SetClients, Environment, At, Creating, Configuring, Resetting,
                Typed, GoodCalls, Knows
  <2>2. Moved(c, Returned(calls[c], "done"))
    BY <2>1, ReturnMoves
  <2>3. ~IsFetch(calls[c]) /\ Seen(calls[c]) = Files!NoFetch
    BY <2>1, SeenIsNone DEF IsFetch
  <2>4. Seen(Returned(calls[c], "done")) = Seen(calls[c]) /\ PlainCall(Returned(calls[c], "done"))
    BY <2>3, ReturnIsSeen
  <2> QED BY <1>0, <2>1, <2>2, <2>4, MovedSeen, PlainMoved
<1>9. ASSUME NEW m \in Mounts, Swap(m)
      PROVE  Plain' /\ [Files!Next]_(Files!vars)
  <2>1. \A d \in Callers :
          LET w == calls'[d] call == calls[d]
          IN  /\ w.step = call.step /\ w.op = call.op /\ w.mount = call.mount
              /\ w.handle = call.handle /\ w.data = call.data /\ w.end = call.end
    BY <1>9, SwapMoves
  <2>2. \A d \in Callers : Seen(calls'[d]) = Seen(calls[d]) /\ PlainCall(calls'[d])
    BY <2>1 DEF Seen, Plain, PlainCall
  <2>3. Fetches' = Fetches /\ Plain'
    BY <2>2, SameSeen DEF Plain
  <2>4. media' = [media EXCEPT ![m] = @ + 1]
    BY <1>9 DEF Swap
  <2> QED BY <2>3, <2>4 DEF Files!Next, Files!Swap, Fetches
<1>10. CASE Restart \/ UNCHANGED vars
  <2>1. UNCHANGED <<media, calls>>
    BY <1>10 DEF Restart, vars
  <2>2. Fetches' = Fetches /\ Plain'
    BY <2>1 DEF Fetches, Plain
  <2> QED BY <1>0, <2>1, <2>2
<1> QED BY <1>1, <1>2, <1>3, <1>4, <1>5, <1>6, <1>7, <1>8, <1>9, <1>10
        DEF Next, Resolve, Manage, Walks

\* The caches of the NFS client do not show: for any number of tasks, slots, swaps
\* and restarts, a fetch reads the medium that is in the slot when its file is
\* found, that one only, and gives the bytes a player without caches in front of it
\* would have given.
THEOREM ActsUncachedHolds == Spec => ActsUncached
BY TypedInit, TypedStep, WholeInit, WholeStep, PlainInit, FilesInit, FilesStep, PTL
   DEF Spec, ActsUncached, Files!Spec
=============================================================================
