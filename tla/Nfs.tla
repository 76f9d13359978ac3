-------------------------------- MODULE Nfs --------------------------------
(***************************************************************************)
(* Files read from a player over NFS (src/src/nfs/mod.rs, programs.rs),    *)
(* through the caches of RPC clients and root handles that all tasks of    *)
(* the process share, while media are swapped and the player restarts.     *)
(*                                                                         *)
(* A call of an RPC procedure is one step, as RpcService promises: an      *)
(* answer from one moment of the call (the steps of this module), or an    *)
(* error (Fault).                                                          *)
(***************************************************************************)
EXTENDS Naturals, Sequences

CONSTANTS
    Callers,    \* tasks that fetch files of the player
    Mounts,     \* mount paths: "/B/" of the SD slot, "/C/" of the USB slot
    Configs,    \* retry configurations
    PathLength, \* components of the path of a file
    FileSize,   \* bytes of a file
    ReadSize,   \* READ_SIZE
    From, Count,\* the range asked of fetch_file_range
    MaxSwaps,   \* bound: media that are in a slot one after the other
    MaxBoots,   \* bound: restarts of the player
    None

ASSUME SizesTyped ==
    /\ PathLength \in Nat \ {0} /\ ReadSize \in Nat \ {0}
    /\ FileSize \in Nat /\ From \in Nat /\ Count \in Nat
ASSUME NoneIsNoOne ==
    None \notin Callers \cup Configs \cup Mounts \cup Nat \cup {"file", "range"}

VARIABLES
    media,      \* which medium is in the slot of a mount path, counted
    boot,       \* how often the player restarted; its ports change with it
    config,     \* retry_config, for connections to come
    clients,    \* clients: the cached RPC clients of the player, or None
    lock,       \* the mutex of clients: who creates them, or None
    roots,      \* root_handles: the medium a mount path was mounted from
    calls,      \* where the calls are
    forgotten,  \* history: reset_device_cache ran since the last restart
    torn        \* history: a configuration overlapped another or was dropped half
                \* way, and none was set since without

vars == <<media, boot, config, clients, lock, roots, calls, forgotten, torn>>

\* The ports are those of a boot of the player; conf is the connection's own.
ClientSet == [mount : Nat, nfs : Nat, conf : Configs]
Ops == {"file", "range", "reset", "configure"}
Steps == {"idle", "clients", "portMount", "portNfs", "root", "exports", "mount",
          "insert", "lookup", "clear", "read", "resetClients", "resetRoots",
          "setClients"}
\* swapped and overtaken are history: the medium was swapped during the call; a
\* handle of an earlier medium was cached by another task during the call.
CallType == [step : Steps, op : Ops \cup {None}, mount : Mounts \cup {None},
             mountPort : Nat, nfsPort : Nat, conf : Configs \cup {None},
             handle : Nat, depth : Nat, again : BOOLEAN, data : Seq(Nat),
             end : {"none", "done", "error", "stale"},
             swapped : BOOLEAN, overtaken : BOOLEAN]

Idle == [step |-> "idle", op |-> None, mount |-> None, mountPort |-> 0,
         nfsPort |-> 0, conf |-> None, handle |-> 0, depth |-> 0,
         again |-> FALSE, data |-> <<>>, end |-> "none",
         swapped |-> FALSE, overtaken |-> FALSE]

Init ==
    /\ media = [m \in Mounts |-> 0] /\ boot = 0
    /\ config \in Configs
    /\ clients = None /\ lock = None
    /\ roots = [m \in Mounts |-> None]
    /\ calls = [c \in Callers |-> Idle]
    /\ forgotten = TRUE /\ torn = FALSE

At(c, step) == calls[c].step = step
Becomes(c, call) == calls' = [calls EXCEPT ![c] = call]
Goes(c, step) == Becomes(c, [calls[c] EXCEPT !.step = step])
\* What was read is lost to a call that fails; the history is of a stale handle.
Returned(call, end) ==
    [Idle EXCEPT !.op = call.op, !.end = end,
                 !.data = IF end = "done" THEN call.data ELSE <<>>,
                 !.swapped = call.swapped /\ end = "stale",
                 !.overtaken = call.overtaken /\ end = "stale"]
Returns(c, end) == Becomes(c, Returned(calls[c], end))
Unlock(c) == lock' = IF lock = c THEN None ELSE lock
Environment == <<media, boot, forgotten, torn>>

-----------------------------------------------------------------------------
(* get_clients and get_root_handle.                                         *)

CallFetch(c) ==
    /\ At(c, "idle")
    /\ \E op \in {"file", "range"}, m \in Mounts :
         Becomes(c, [Idle EXCEPT !.step = "clients", !.op = op, !.mount = m])
    /\ UNCHANGED <<Environment, config, clients, lock, roots>>

Uses(call, set) == [call EXCEPT !.step = "root", !.mountPort = set.mount,
                                !.nfsPort = set.nfs, !.conf = None]

\* connected is TRUE for ever: nothing in the crate calls disconnect.
GetClients(c) ==
    /\ At(c, "clients") /\ lock = None
    /\ \/ /\ clients # None
          /\ Becomes(c, Uses(calls[c], clients))
          /\ UNCHANGED lock
       \/ /\ clients = None
          /\ lock' = c
          /\ Becomes(c, [calls[c] EXCEPT !.step = "portMount", !.conf = config])
    /\ UNCHANGED <<Environment, config, clients, roots>>

\* make_program_client asks the portmapper, which keeps its port.
PortMount(c) ==
    /\ At(c, "portMount")
    /\ Becomes(c, [calls[c] EXCEPT !.step = "portNfs", !.mountPort = boot])
    /\ UNCHANGED <<Environment, config, clients, lock, roots>>

PortNfs(c) ==
    /\ At(c, "portNfs")
    /\ LET set == [mount |-> calls[c].mountPort, nfs |-> boot, conf |-> calls[c].conf]
       IN clients' = set /\ Becomes(c, Uses(calls[c], set))
    /\ Unlock(c)
    /\ UNCHANGED <<Environment, config, roots>>

RootHandle(c) ==
    /\ At(c, "root")
    /\ IF roots[calls[c].mount] # None
       THEN Becomes(c, [calls[c] EXCEPT !.step = "lookup", !.depth = 0,
                                        !.handle = roots[calls[c].mount]])
       ELSE Goes(c, "exports")
    /\ UNCHANGED <<Environment, config, clients, lock, roots>>

\* The mount path is exported, and mounted.
Exports(c) ==
    /\ At(c, "exports") /\ calls[c].mountPort = boot
    /\ Goes(c, "mount")
    /\ UNCHANGED <<Environment, config, clients, lock, roots>>

Mount(c) ==
    /\ At(c, "mount") /\ calls[c].mountPort = boot
    /\ Becomes(c, [calls[c] EXCEPT !.step = "insert",
                                   !.handle = media[calls[c].mount]])
    /\ UNCHANGED <<Environment, config, clients, lock, roots>>

Insert(c) ==
    /\ At(c, "insert")
    /\ roots' = [roots EXCEPT ![calls[c].mount] = calls[c].handle]
    /\ calls' = [d \in Callers |->
         IF d = c THEN [calls[c] EXCEPT !.step = "lookup", !.depth = 0]
         ELSE [calls[d] EXCEPT !.overtaken =
                 @ \/ /\ calls[d].mount = calls[c].mount
                      /\ calls[c].handle # media[calls[c].mount]]]
    /\ UNCHANGED <<Environment, config, clients, lock>>

-----------------------------------------------------------------------------
(* resolve_file: a lookup of every component, and once more from a new root *)
(* handle when one fails, for whatever reason.                              *)

Valid(c) == calls[c].handle = media[calls[c].mount]

\* resolve_file returns, with the handle of the file.
Resolved(call) == [call EXCEPT !.step = "read", !.again = FALSE, !.mountPort = 0]

\* Mutant: handles of files are kept, too, and used as they are.
LookupKept(c) ==
    /\ At(c, "lookup") /\ calls[c].nfsPort = boot
    /\ Becomes(c, Resolved(calls[c]))
    /\ UNCHANGED <<Environment, config, clients, lock, roots>>

Lookup(c) ==
    /\ At(c, "lookup") /\ calls[c].nfsPort = boot /\ Valid(c)
    /\ IF calls[c].depth + 1 < PathLength
       THEN Becomes(c, [calls[c] EXCEPT !.depth = @ + 1])
       ELSE Becomes(c, Resolved(calls[c]))
    /\ UNCHANGED <<Environment, config, clients, lock, roots>>

Again(c, end) ==
    IF calls[c].again THEN Returns(c, end)
    ELSE Becomes(c, [calls[c] EXCEPT !.step = "clear", !.handle = 0, !.depth = 0])

\* The player no longer knows the handle.
LookupStale(c) ==
    /\ At(c, "lookup") /\ calls[c].nfsPort = boot /\ ~Valid(c)
    /\ Again(c, "stale")
    /\ UNCHANGED <<Environment, config, clients, lock, roots>>

\* Mutant: the second lookup starts from the cached root handle.
ClearNothing(c) ==
    /\ At(c, "clear")
    /\ Becomes(c, [calls[c] EXCEPT !.step = "root", !.again = TRUE])
    /\ UNCHANGED <<Environment, config, clients, lock, roots>>

\* The handles of all mount paths of the player go.
Clear(c) ==
    /\ At(c, "clear")
    /\ roots' = [m \in Mounts |-> None]
    /\ Becomes(c, [calls[c] EXCEPT !.step = "root", !.again = TRUE])
    /\ UNCHANGED <<Environment, config, clients, lock>>

-----------------------------------------------------------------------------
(* fetch_file and fetch_file_range.                                         *)

SmallerOf(a, b) == IF a <= b THEN a ELSE b
Start(c) == IF calls[c].op = "file" THEN 0 ELSE SmallerOf(From, FileSize)
Length(c) == IF calls[c].op = "file" THEN FileSize
             ELSE SmallerOf(Count, FileSize - Start(c))
Got(c) == Len(calls[c].data)
Asked(c) == IF calls[c].op = "file" THEN ReadSize
            ELSE SmallerOf(ReadSize, Length(c) - Got(c))
\* The next n bytes, by their offset in the file.
Chunk(c, offset, n) == calls[c].data \o [i \in 1..n |-> offset + i - 1]

\* Mutant: the offset advances by what was asked for.
ReadSkipping(c) ==
    /\ At(c, "read") /\ calls[c].nfsPort = boot /\ Valid(c)
    /\ Got(c) < Length(c)
    /\ \E n \in 1 .. Asked(c) :
         Becomes(c, [calls[c] EXCEPT !.data =
           Chunk(c, ((Got(c) + ReadSize - 1) \div ReadSize) * ReadSize + Start(c),
                 SmallerOf(n, Length(c) - Got(c)))])
    /\ UNCHANGED <<Environment, config, clients, lock, roots>>

\* The player answers with fewer bytes than were asked for, or (bound: by one)
\* with more; what is past the end of the file or range is cut off.
Read(c) ==
    /\ At(c, "read") /\ calls[c].nfsPort = boot /\ Valid(c)
    /\ Got(c) < Length(c)
    /\ \E n \in 1 .. Asked(c) + 1 :
         Becomes(c, [calls[c] EXCEPT !.data =
           Chunk(c, Start(c) + Got(c), SmallerOf(n, Length(c) - Got(c)))])
    /\ UNCHANGED <<Environment, config, clients, lock, roots>>

\* No bytes: the file is an error, the range ends early.
ReadEmpty(c) ==
    /\ At(c, "read") /\ calls[c].nfsPort = boot /\ Valid(c)
    /\ Got(c) < Length(c)
    /\ Returns(c, IF calls[c].op = "file" THEN "error" ELSE "done")
    /\ UNCHANGED <<Environment, config, clients, lock, roots>>

ReadAll(c) ==
    /\ At(c, "read") /\ Got(c) >= Length(c)
    /\ Returns(c, "done")
    /\ UNCHANGED <<Environment, config, clients, lock, roots>>

\* An RPC call returns an error, always so at a port of an earlier boot.  The
\* mount path is not exported or the file not there.
Fault(c) ==
    /\ calls[c].step \in {"portMount", "portNfs", "exports", "mount", "lookup", "read"}
    /\ IF At(c, "lookup") THEN Again(c, "error") ELSE Returns(c, "error")
    /\ Unlock(c)
    /\ UNCHANGED <<Environment, config, clients, roots>>

\* The future of a call is dropped where it waits.  A configuration dropped while
\* it waits for the connections leaves those that exist as they are.
Cancel(c) ==
    /\ calls[c].step \in {"clients", "portMount", "portNfs", "exports", "mount",
                         "lookup", "read", "resetClients", "setClients"}
    /\ torn' = (torn \/ At(c, "setClients"))
    /\ Returns(c, "error")
    /\ Unlock(c)
    /\ UNCHANGED <<media, boot, forgotten, config, clients, roots>>

-----------------------------------------------------------------------------
(* reset_device_cache and configure_retry_strategy.                         *)

CallReset(c) ==
    /\ At(c, "idle")
    /\ Becomes(c, [Idle EXCEPT !.step = "resetClients", !.op = "reset"])
    /\ UNCHANGED <<Environment, config, clients, lock, roots>>

ResetClients(c) ==
    /\ At(c, "resetClients") /\ lock = None
    /\ clients' = None
    /\ forgotten' = TRUE
    /\ Goes(c, "resetRoots")
    /\ UNCHANGED <<media, boot, torn, config, lock, roots>>

ResetRoots(c) ==
    /\ At(c, "resetRoots")
    /\ roots' = [m \in Mounts |-> None]
    /\ Returns(c, "done")
    /\ UNCHANGED <<Environment, config, clients, lock>>

\* Another configuration has yet to reach the connections.
Overlaps(c) == \E d \in Callers \ {c} : At(d, "setClients")

\* Mutant: connections that exist are left as they are.
ConfigureOnly(c) ==
    /\ At(c, "idle")
    /\ \E v \in Configs :
         config' = v /\ Becomes(c, [Idle EXCEPT !.op = "configure", !.conf = v])
    /\ torn' = Overlaps(c)
    /\ UNCHANGED <<media, boot, forgotten, clients, lock, roots>>

\* retry_config is written without a wait, before those that have connections.
CallConfigure(c) ==
    /\ At(c, "idle")
    /\ \E v \in Configs :
         /\ config' = v
         /\ Becomes(c, [Idle EXCEPT !.step = "setClients", !.op = "configure", !.conf = v])
    /\ torn' = Overlaps(c)
    /\ UNCHANGED <<media, boot, forgotten, clients, lock, roots>>

SetClients(c) ==
    /\ At(c, "setClients") /\ lock = None
    /\ clients' = IF clients = None THEN None
                  ELSE [clients EXCEPT !.conf = calls[c].conf]
    /\ Returns(c, "done")
    /\ UNCHANGED <<Environment, config, lock, roots>>

-----------------------------------------------------------------------------
(* The player.                                                              *)

Swap(m) ==
    /\ media[m] < MaxSwaps
    /\ media' = [media EXCEPT ![m] = @ + 1]
    /\ calls' = [c \in Callers |->
         [calls[c] EXCEPT !.swapped = @ \/ calls[c].mount = m]]
    /\ UNCHANGED <<boot, forgotten, torn, config, clients, lock, roots>>

Restart ==
    /\ boot < MaxBoots
    /\ boot' = boot + 1
    /\ forgotten' = FALSE
    /\ UNCHANGED <<media, torn, config, clients, lock, roots, calls>>

-----------------------------------------------------------------------------
Resolve(c) ==
    \/ GetClients(c) \/ PortMount(c) \/ PortNfs(c) \/ RootHandle(c) \/ Exports(c)
    \/ Mount(c) \/ Insert(c) \/ Lookup(c) \/ LookupStale(c) \/ Clear(c)
Fetch(c) == Read(c) \/ ReadEmpty(c) \/ ReadAll(c)
Manage(c) == ResetClients(c) \/ ResetRoots(c) \/ SetClients(c)

Next ==
    \/ \E c \in Callers :
         \/ CallFetch(c) \/ CallReset(c) \/ CallConfigure(c)
         \/ Resolve(c) \/ Fetch(c) \/ Manage(c) \/ Fault(c) \/ Cancel(c)
    \/ \E m \in Mounts : Swap(m)
    \/ Restart

Spec == Init /\ [][Next]_vars

-----------------------------------------------------------------------------
(* Properties.                                                              *)

\* State is well typed, and the lock is held by the task that creates clients.
TypeOK ==
    /\ media \in [Mounts -> Nat] /\ boot \in Nat /\ config \in Configs
    /\ clients \in ClientSet \cup {None}
    /\ roots \in [Mounts -> Nat \cup {None}]
    /\ calls \in [Callers -> CallType]
    /\ forgotten \in BOOLEAN /\ torn \in BOOLEAN
    /\ \A c \in Callers : calls[c].step \in {"portMount", "portNfs"} <=> lock = c
    /\ lock \in Callers \cup {None}

\* "It's important that when the device disconnects you call
\* reset_device_cache": after it, whoever was creating clients when the player
\* restarted, no ports of before the restart are left in the cache; and a
\* configure_retry_strategy that neither overlaps another nor is dropped half way
\* reaches the connections that exist and the ones that are being created, also
\* after others that were torn.
CachesAreCurrent ==
    /\ forgotten /\ clients # None => clients.mount = boot /\ clients.nfs = boot
    /\ clients # None /\ ~torn /\ (\A c \in Callers : ~At(c, "setClients"))
         => clients.conf = config

\* "Clearing and re-mounting the root handle once": a call fails for a stale
\* handle only if the medium is swapped once more during the call, or another
\* task that had mounted the earlier medium stores its handle after the clear.
FindsFreshMedium ==
    \A c \in Callers :
      calls[c].end = "stale" => calls[c].swapped \/ calls[c].overtaken

\* However short the reads, a fetched file is all bytes of the file in their
\* order, and a fetched range is a run of bytes from its start.
FileIsWhole ==
    \A c \in Callers : calls[c].op \in {"file", "range"} =>
      /\ \A i \in 1..Got(c) : calls[c].data[i] = Start(c) + i - 1
      /\ Got(c) <= Length(c)
      /\ calls[c].op = "file" /\ calls[c].end = "done" => Got(c) = FileSize

\* The part of a fetch its caller sees, and the medium its bytes are read from.
Seen(call) ==
    IF call.op \notin {"file", "range"}
    THEN [op |-> None, mount |-> None, medium |-> None, data |-> <<>>, end |-> "none"]
    ELSE [op |-> call.op, mount |-> call.mount,
          medium |-> IF call.step = "read" THEN call.handle ELSE None,
          data |-> IF call.end \in {"error", "stale"} THEN <<>> ELSE call.data,
          end |-> IF call.end \in {"error", "stale"} THEN "failed" ELSE call.end]
Files == INSTANCE FileService WITH fetches <- [c \in Callers |-> Seen(calls[c])]

\* The caches do not show: a fetch reads the medium that is in the slot when the
\* file is found and goes on to read that one only, as if it had asked the player
\* itself, however handles and ports were cached, cleared, stored late or shared.
ActsUncached == Files!Spec
=============================================================================
