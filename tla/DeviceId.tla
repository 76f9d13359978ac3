------------------------------ MODULE DeviceId ------------------------------
(***************************************************************************)
(* Which device id to take (src/src/virtualcdj/device_id.rs): the number   *)
(* to announce the virtual CDJ under, and the number to carry inside a     *)
(* remotedb query.  Device names are abstracted to what the table of       *)
(* mixers says of them: how many channels the device has, or None.         *)
(***************************************************************************)
EXTENDS Integers, Sequences, FiniteSets, FiniteSetsExt

CONSTANTS
    MaxPlayer,  \* REMOTEDB_MAX_DEVICE_ID: players number themselves 1-6
    MaxId,      \* MAX_DEVICE_ID
    None

ASSUME IdsTyped ==
    MaxPlayer \in Nat /\ MaxPlayer >= 2 /\ MaxId \in Nat /\ MaxPlayer <= MaxId
ASSUME NoneIsNoNumber == None \notin Nat

DeviceIds == 1 .. MaxId
\* Ids a device may announce itself under.
AnnouncedIds == 0 .. MaxId

\* The highest number the mixers on the network can hand out, if any.
PlayerNumberCeiling(channels) ==
    LET known == channels \ {None}
    IN IF known = {} THEN None ELSE Max(known)

Ascending(from, to) == [k \in 1 .. to - from + 1 |-> from + k - 1]
Descending(from, to) == [k \in 1 .. from - to + 1 |-> from - k + 1]

AboveThePlayers(ceiling) ==
    IF ceiling = None THEN Descending(MaxPlayer, 1)
    ELSE Ascending(ceiling + 1, MaxPlayer)

OutsidePlayerRange == Ascending(MaxPlayer + 1, MaxId)

AmongThePlayers(ceiling) ==
    IF ceiling = None THEN <<>>
    ELSE Descending(IF ceiling < MaxPlayer THEN ceiling ELSE MaxPlayer, 1)

\* The ids in the order in which they are tried.
Search(preferPlayerRange, ceiling) ==
    IF preferPlayerRange
    THEN AboveThePlayers(ceiling) \o OutsidePlayerRange
           \o AmongThePlayers(ceiling)
    ELSE OutsidePlayerRange \o AboveThePlayers(ceiling)
           \o AmongThePlayers(ceiling)

\* The first element of the sequence that is not in use, or None.
FirstUnused(search, used) ==
    LET free == {k \in DOMAIN search : search[k] \notin used}
    IN IF free = {} THEN None ELSE search[Min(free)]

PickAvailableDeviceId(used, preferPlayerRange, ceiling) ==
    FirstUnused(Search(preferPlayerRange, ceiling), used)

\* `cdjs` are the ids that CDJs hold; those up to MaxPlayer are taken for players,
\* 0 too.
PickRemoteDbQueryId(target, cdjs) ==
    LET players == {id \in cdjs : id <= MaxPlayer}
        others == players \ {target}
        absent == {id \in 1 .. MaxPlayer : id # target /\ id \notin players}
    IN IF others # {} THEN Min(others)
       ELSE IF absent # {} THEN Min(absent)
       ELSE target
=============================================================================
