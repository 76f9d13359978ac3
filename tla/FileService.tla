---------------------------- MODULE FileService ----------------------------
(***************************************************************************)
(* What a caller of fetch_file and fetch_file_range is promised, the       *)
(* caches, ports, mounts, lookups and the second attempt left out: as if   *)
(* every call asked the player itself for the file, all bytes are those of *)
(* the medium that is in the slot, in their order, and none are missing of *)
(* a whole file; or the call fails.                                        *)
(***************************************************************************)
EXTENDS Naturals, Sequences

CONSTANTS
    Callers,
    Mounts,
    FileSize,   \* bytes of the file
    From, Count,\* the range asked of fetch_file_range
    None

VARIABLES
    media,      \* which medium is in the slot of a mount path, counted
    fetches     \* per caller: what it asked for, the medium that is read, the bytes

vars == <<media, fetches>>

NoFetch == [op |-> None, mount |-> None, medium |-> None, data |-> <<>>, end |-> "none"]

Init ==
    /\ media = [m \in Mounts |-> 0]
    /\ fetches = [c \in Callers |-> NoFetch]

\* Bytes by their offset in the file: where those asked for begin, how many
\* they are, and the first n of them.
LesserOf(a, b) == IF a <= b THEN a ELSE b
Offset(op) == IF op = "file" THEN 0 ELSE LesserOf(From, FileSize)
Size(op) == IF op = "file" THEN FileSize ELSE LesserOf(Count, FileSize - Offset(op))
Bytes(op, n) == [i \in 1 .. n |-> Offset(op) + i - 1]

Ask(c) ==
    /\ fetches[c].mount = None
    /\ \E op \in {"file", "range"}, m \in Mounts :
         fetches' = [fetches EXCEPT ![c] = [NoFetch EXCEPT !.op = op, !.mount = m]]
    /\ UNCHANGED media

\* The file is found on the medium that is in the slot now.
Open(c) ==
    LET fetch == fetches[c]
    IN /\ fetch.mount # None /\ fetch.medium = None
       /\ fetches' = [fetches EXCEPT ![c].medium = media[fetch.mount]]
       /\ UNCHANGED media

\* More bytes, while that medium is still there.
Read(c) ==
    LET fetch == fetches[c]
    IN /\ fetch.mount # None /\ fetch.medium = media[fetch.mount]
       /\ \E n \in Len(fetch.data) + 1 .. Size(fetch.op) :
            fetches' = [fetches EXCEPT ![c].data = Bytes(fetch.op, n)]
       /\ UNCHANGED media

\* A file is whole, a range may end early.
Finish(c) ==
    LET fetch == fetches[c]
    IN /\ fetch.medium # None
       /\ fetch.op = "file" => Len(fetch.data) = FileSize
       /\ fetches' = [fetches EXCEPT ![c] =
            [NoFetch EXCEPT !.op = fetch.op, !.data = fetch.data, !.end = "done"]]
       /\ UNCHANGED media

Fail(c) ==
    /\ fetches[c].mount # None
    /\ fetches' = [fetches EXCEPT ![c] =
         [NoFetch EXCEPT !.op = fetches[c].op, !.end = "failed"]]
    /\ UNCHANGED media

\* The caller does something else.
Leave(c) ==
    /\ fetches[c].mount = None
    /\ fetches' = [fetches EXCEPT ![c] = NoFetch]
    /\ UNCHANGED media

Swap(m) ==
    /\ media' = [media EXCEPT ![m] = @ + 1]
    /\ UNCHANGED fetches

Next ==
    \/ \E c \in Callers : Ask(c) \/ Open(c) \/ Read(c) \/ Finish(c) \/ Fail(c) \/ Leave(c)
    \/ \E m \in Mounts : Swap(m)

Spec == Init /\ [][Next]_vars
=============================================================================
