------------------------------ MODULE LocalDb ------------------------------
(***************************************************************************)
(* The local database (src/src/localdb/mod.rs) and the media slot query of *)
(* the status emitter it starts with (src/src/status/mod.rs).              *)
(*                                                                         *)
(* Tasks ask what media is in a slot of a player, load its database once   *)
(* and look tracks up in it.  Media may carry the database in two formats; *)
(* a lookup the active one cannot confirm loads the other and may switch   *)
(* the slot to it.  Meanwhile media are swapped, the preference is set,    *)
(* players are removed and calls are cancelled.                            *)
(***************************************************************************)
EXTENDS Naturals, FiniteSets

CONSTANTS
    Callers,    \* tasks that use the local database
    Players,    \* CDJs on the network
    Slots,      \* their database slots, USB and SD
    OwnerOf,    \* the player of a slot
    Media,      \* rekordbox media, as get_media_id tells them apart
    Items,      \* bound: database items alive at a time
    None

ASSUME SlotsTyped == OwnerOf \in [Slots -> Players]
ASSUME NoneIsNoOne == None \notin Callers \cup Media \cup Items \cup Slots

VARIABLES
    preference, \* the format to load
    asking,     \* media_slot_query_lock: who asks what is in a slot, or None
    lock,       \* slot_locks: who holds the lock of a slot, or None
    items,      \* the database items
    callers     \* where the calls are

vars == <<preference, asking, lock, items, callers>>

Formats == {"OneLibrary", "Pdb"}
Other(format) == CHOOSE f \in Formats : f # format

\* "untried" and "none" are the None and Some(None) of the code.
Alternates == Formats \cup {"untried", "none"}
\* An item is alive while it is listed, in use or being removed.
ItemType == [media : Media \cup {None}, slot : Slots \cup {None},
             listed : BOOLEAN, active : Formats, alternate : Alternates,
             holder : Callers \cup {None}, open : SUBSET Formats,
             closing : BOOLEAN]
Steps == {"idle", "ask", "asked", "lock", "load", "look", "loadAlternate",
          "switch", "store"}
CallerType == [step : Steps, slot : Slots \cup {None},
               media : Media \cup {None}, attempts : SUBSET Formats,
               format : Formats \cup {None}, item : Items \cup {None}]

Unused == [media |-> None, slot |-> None, listed |-> FALSE, active |-> "Pdb",
           alternate |-> "untried", holder |-> None, open |-> {},
           closing |-> FALSE]
Idle == [step |-> "idle", slot |-> None, media |-> None, attempts |-> {},
         format |-> None, item |-> None]

Init ==
    /\ preference \in Formats \cup {"Auto"}
    /\ asking = None
    /\ lock = [s \in Slots |-> None]
    /\ items = [i \in Items |-> Unused]
    /\ callers = [c \in Callers |-> Idle]

At(c, step) == callers[c].step = step
Becomes(c, caller) == callers' = [callers EXCEPT ![c] = caller]
Goes(c, step) == Becomes(c, [callers[c] EXCEPT !.step = step])
Item(c) == items[callers[c].item]
IsFree(i) == items[i].media = None
Holds(s, m, i) == items[i].listed /\ items[i].slot = s /\ items[i].media = m

\* An item nobody holds any more is dropped.
Settle(new) ==
    items' = [i \in Items |->
      IF \/ new[i].listed \/ new[i].closing
         \/ \E c \in Callers : callers'[c].item = i
      THEN new[i] ELSE Unused]

\* OneLibraryAdapter::close does nothing, a closed MetadataORM is empty.
HasRows(i, format) == format = "OneLibrary" \/ format \in items[i].open

Loaded(c, format) ==
    [Unused EXCEPT !.media = callers[c].media, !.slot = callers[c].slot,
                   !.listed = TRUE, !.active = format, !.open = {format}]

-----------------------------------------------------------------------------
(* get_item: the slot's database, loaded if need be.                        *)

\* The player is on the device map and the slot is USB or SD.
CallGet(c) ==
    /\ At(c, "idle")
    /\ \E s \in Slots : Becomes(c, [Idle EXCEPT !.step = "ask", !.slot = s])
    /\ UNCHANGED <<preference, asking, lock, items>>

Ask(c) ==
    /\ At(c, "ask") /\ asking = None
    /\ asking' = c
    /\ Goes(c, "asked")
    /\ UNCHANGED <<preference, lock, items>>

\* The media that are in the slot when the player answers; they may have been
\* swapped by the time they are loaded.
Answered(c) ==
    /\ At(c, "asked")
    /\ asking' = None
    /\ \E m \in Media :
         Becomes(c, [callers[c] EXCEPT !.step = "lock", !.media = m])
    /\ UNCHANGED <<preference, lock, items>>

\* The player has no rekordbox media in the slot, or is silent until the query
\* times out.
NoMedia(c) ==
    /\ At(c, "asked")
    /\ asking' = None
    /\ Becomes(c, Idle)
    /\ UNCHANGED <<preference, lock, items>>

\* The formats hydrate tries, OneLibrary before Pdb.
Attempts == IF preference = "Auto" THEN Formats ELSE {preference}

\* get returns the item's database, find_track goes on with it.
Got(c, i) ==
    \/ Becomes(c, Idle)
    \/ Becomes(c, [Idle EXCEPT !.step = "look", !.item = i])

\* Mutant: the lock is not kept over the load.
LockToLook(c) ==
    /\ At(c, "lock") /\ lock[callers[c].slot] = None
    /\ IF \E i \in Items : Holds(callers[c].slot, callers[c].media, i)
       THEN \E i \in Items : /\ Holds(callers[c].slot, callers[c].media, i)
                             /\ Got(c, i)
       ELSE Becomes(c, [callers[c] EXCEPT !.step = "load", !.attempts = Attempts])
    /\ UNCHANGED <<preference, asking, lock, items>>

LockSlot(c) ==
    /\ At(c, "lock") /\ lock[callers[c].slot] = None
    /\ IF \E i \in Items : Holds(callers[c].slot, callers[c].media, i)
       THEN /\ \E i \in Items : /\ Holds(callers[c].slot, callers[c].media, i)
                                /\ Got(c, i)
            /\ UNCHANGED lock
       ELSE /\ Becomes(c, [callers[c] EXCEPT !.step = "load", !.attempts = Attempts])
            /\ lock' = [lock EXCEPT ![callers[c].slot] = c]
    /\ UNCHANGED <<preference, asking, items>>

\* The guards of a call are dropped with it.
Unlock(c) == lock' = [s \in Slots |-> IF lock[s] = c THEN None ELSE lock[s]]

\* A database was fetched, opened and put on the list, whether or not the
\* player is still there; or none could be.
Load(c) ==
    /\ At(c, "load")
    /\ \/ \E format \in callers[c].attempts, i \in Items :
            /\ IsFree(i)
            /\ i = CHOOSE j \in Items : IsFree(j)
            /\ Got(c, i)
            /\ Settle([items EXCEPT ![i] = Loaded(c, format)])
       \/ Becomes(c, Idle) /\ UNCHANGED items
    /\ Unlock(c)
    /\ UNCHANGED <<preference, asking>>

-----------------------------------------------------------------------------
(* find_track.                                                              *)

Returns(c) == Becomes(c, Idle)

\* The active database's row agrees with what the player reports.
Agrees(c) ==
    /\ At(c, "look") /\ HasRows(callers[c].item, Item(c).active)
    /\ Returns(c) /\ Settle(items)
    /\ UNCHANGED <<preference, asking, lock>>

Update(c, item) == Settle([items EXCEPT ![callers[c].item] = item])

\* Mutant: the guard is dropped before the download.
LoadUnlocked(c) ==
    /\ At(c, "look") /\ Item(c).holder = None
    /\ IF Item(c).alternate \in Formats
       THEN /\ Becomes(c, [callers[c] EXCEPT !.step = "switch",
                                             !.format = Item(c).alternate])
            /\ UNCHANGED items
       ELSE /\ Item(c).alternate = "untried" /\ preference = "Auto"
            /\ Becomes(c, [callers[c] EXCEPT !.step = "loadAlternate",
                                             !.format = Other(Item(c).active)])
            /\ UNCHANGED items
    /\ UNCHANGED <<preference, asking, lock>>

\* It does not: the outcome of an earlier attempt, or an attempt under the lock.
LoadAlternate(c) ==
    /\ At(c, "look") /\ Item(c).holder = None
    /\ \/ /\ Item(c).alternate \in Formats
          /\ Becomes(c, [callers[c] EXCEPT !.step = "switch",
                                           !.format = Item(c).alternate])
          /\ UNCHANGED items
       \/ /\ Item(c).alternate = "none"
          /\ Returns(c) /\ Settle(items)
       \/ /\ Item(c).alternate = "untried" /\ preference # "Auto"
          /\ Returns(c)
          /\ Update(c, [Item(c) EXCEPT !.alternate = "none"])
       \/ /\ Item(c).alternate = "untried" /\ preference = "Auto"
          /\ Becomes(c, [callers[c] EXCEPT !.step = "loadAlternate",
                                           !.format = Other(Item(c).active)])
          /\ Update(c, [Item(c) EXCEPT !.holder = c])
    /\ UNCHANGED <<preference, asking, lock>>

\* Mutant: the guard is kept for the rest of the lookup.
KeepGuard(c) ==
    /\ At(c, "loadAlternate")
    /\ Goes(c, "switch")
    /\ Update(c, [Item(c) EXCEPT !.alternate = callers[c].format,
                                 !.open = @ \cup {callers[c].format}])
    /\ UNCHANGED <<preference, asking, lock>>

AlternateLoaded(c) ==
    /\ At(c, "loadAlternate")
    /\ \/ /\ Goes(c, "switch")
          /\ Update(c, [Item(c) EXCEPT !.alternate = callers[c].format,
                                       !.open = @ \cup {callers[c].format},
                                       !.holder = None])
       \/ /\ Returns(c)
          /\ Update(c, [Item(c) EXCEPT !.alternate = "none", !.holder = None])
    /\ UNCHANGED <<preference, asking, lock>>

\* The other format's row agrees and it takes the place of the active one.
Switch(c) ==
    /\ At(c, "switch")
    /\ \/ Returns(c) /\ Settle(items)
       \/ /\ HasRows(callers[c].item, callers[c].format)
          /\ Becomes(c, [callers[c] EXCEPT !.step = "store",
                                           !.format = Item(c).active])
          /\ Update(c, [Item(c) EXCEPT !.active = callers[c].format])
    /\ UNCHANGED <<preference, asking, lock>>

\* What was active becomes the alternate.
Store(c) ==
    /\ At(c, "store") /\ Item(c).holder = None
    /\ Returns(c)
    /\ Update(c, [Item(c) EXCEPT !.alternate = callers[c].format])
    /\ UNCHANGED <<preference, asking, lock>>

\* The future of a call is dropped where it waits, and its guards with it.  The
\* exchange of active and alternate only waits if the lock is taken.
Cancel(c) ==
    /\ callers[c].step \notin {"idle", "switch"}
    /\ At(c, "store") => Item(c).holder # None
    /\ Becomes(c, Idle)
    /\ asking' = IF asking = c THEN None ELSE asking
    /\ Unlock(c)
    /\ Settle([i \in Items |->
         IF items[i].holder = c THEN [items[i] EXCEPT !.holder = None]
         ELSE items[i]])
    /\ UNCHANGED preference

-----------------------------------------------------------------------------
(* handle_device_removed and set_preference.                                *)

\* Mutant: databases are closed and stay on the list.
CloseListed(p) ==
    /\ \E i \in Items : items[i].listed /\ OwnerOf[items[i].slot] = p
    /\ items' = [i \in Items |->
         IF items[i].listed /\ OwnerOf[items[i].slot] = p
         THEN [items[i] EXCEPT !.closing = TRUE] ELSE items[i]]
    /\ UNCHANGED <<preference, asking, lock, callers>>

\* The databases of a player are taken off the list, then closed one by one.
Remove(p) ==
    /\ \E i \in Items : items[i].listed /\ OwnerOf[items[i].slot] = p
    /\ items' = [i \in Items |->
         IF items[i].listed /\ OwnerOf[items[i].slot] = p
         THEN [items[i] EXCEPT !.listed = FALSE, !.closing = TRUE]
         ELSE items[i]]
    /\ UNCHANGED <<preference, asking, lock, callers>>

\* The alternate only if its lock is free.
Closed(i) ==
    {items[i].active} \cup IF items[i].holder = None THEN {items[i].alternate}
                           ELSE {}
Close(i) ==
    /\ items[i].closing
    /\ UNCHANGED <<preference, asking, lock, callers>>
    /\ Settle([items EXCEPT ![i] =
         [items[i] EXCEPT !.closing = FALSE,
                          !.open = items[i].open \ Closed(i)]])

SetPreference ==
    /\ \E format \in Formats \cup {"Auto"} : preference' = format
    /\ UNCHANGED <<asking, lock, items, callers>>

-----------------------------------------------------------------------------
CallStep(c) ==
    \/ Ask(c) \/ Answered(c) \/ NoMedia(c) \/ LockSlot(c) \/ Load(c)
    \/ Agrees(c) \/ LoadAlternate(c) \/ AlternateLoaded(c) \/ Switch(c) \/ Store(c)

Next ==
    \/ \E c \in Callers : CallGet(c) \/ CallStep(c) \/ Cancel(c)
    \/ \E p \in Players : Remove(p)
    \/ \E i \in Items : Close(i)
    \/ SetPreference

\* A task that can run does, and the locks are first come, first served: a call
\* that can take a lock again and again does take it.
Fairness == \A c \in Callers : SF_vars(CallStep(c))

Spec == Init /\ [][Next]_vars
FairSpec == Spec /\ Fairness

-----------------------------------------------------------------------------
(* Properties.                                                              *)

\* State is well typed, and a call that uses a database has its item.
TypeOK ==
    /\ preference \in Formats \cup {"Auto"}
    /\ asking \in Callers \cup {None}
    /\ lock \in [Slots -> Callers \cup {None}]
    /\ items \in [Items -> ItemType]
    /\ callers \in [Callers -> CallerType]
    /\ \A c \in Callers : callers[c].item # None => Item(c).media # None

\* The database of a medium is loaded once: however many tasks ask for it at
\* the same time, the list has one item for it.
OneItemPerMedia ==
    \A i, j \in Items :
      items[i].listed /\ Holds(items[i].slot, items[i].media, j) => i = j

\* Whatever is switched and removed meanwhile, lookups are never served from
\* a closed database while it is on the list, and neither is its alternate.
ListedIsOpen ==
    \A i \in Items : items[i].listed =>
      /\ items[i].active \in items[i].open
      /\ items[i].alternate \in Formats => items[i].alternate \in items[i].open

\* load_alternate never downloads a format the item has, and never twice.
AlternateLoadedOnce ==
    \A c \in Callers : At(c, "loadAlternate") =>
      /\ Item(c).alternate = "untried"
      /\ callers[c].format \notin Item(c).open
      /\ \A d \in Callers \ {c} :
           At(d, "loadAlternate") => callers[d].item # callers[c].item

\* Every call returns: no order of the query lock, slot lock and alternate
\* lock, no silent player and no removal keeps it for ever.
CallsReturn == \A c \in Callers : ~At(c, "idle") ~> At(c, "idle")

\* "The other database format on the same media": the alternate is never the
\* format the slot is served from, but while a lookup exchanges the two.
AlternateIsTheOther ==
    \A i \in Items : items[i].alternate = items[i].active =>
      \E c \in Callers : At(c, "store") /\ callers[c].item = i
=============================================================================
