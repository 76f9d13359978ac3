--------------------------- MODULE LocalDbProofs ---------------------------
(***************************************************************************)
(* For any number of tasks, players, slots, media and database items: the  *)
(* list has one item per medium, what is on it is open, and no alternate   *)
(* is downloaded twice.                                                    *)
(***************************************************************************)
EXTENDS LocalDb, TLAPS

\* A database on the list is open and so is its alternate, one that is being
\* closed is off the list, and without an alternate only the active one is there.
GoodItems ==
    {i \in ItemType :
       /\ i.listed => /\ i.media # None /\ ~i.closing
                      /\ i.active \in i.open
                      /\ i.alternate \in Formats => i.alternate \in i.open
       /\ i.alternate \notin Formats => i.open \subseteq {i.active}}

Using == {"look", "loadAlternate", "switch", "store"}
GoodCallers ==
    {c \in CallerType :
       /\ c.step \in {"ask", "asked", "lock", "load"} => c.slot \in Slots
       /\ c.step \in {"lock", "load"} => c.media \in Media
       /\ IF c.step \in Using THEN c.item \in Items ELSE c.item = None
       /\ c.step \in {"loadAlternate", "switch", "store"} => c.format \in Formats}

\* What a call knows of the item it uses.
Suits(c, caller, item) ==
    /\ item.media # None
    /\ caller.step = "loadAlternate" =>
         /\ item.holder = c /\ item.alternate = "untried"
         /\ caller.format = Other(item.active)
    /\ caller.step \in {"switch", "store"} =>
         /\ item.alternate \in Formats
         /\ item.listed => caller.format \in item.open

\* A call that loads has the slot's lock, and what it loads is not listed.
Loads(c) ==
    At(c, "load") =>
      /\ lock[callers[c].slot] = c
      /\ \A i \in Items : ~Holds(callers[c].slot, callers[c].media, i)

Locks ==
    /\ preference \in Formats \cup {"Auto"}
    /\ asking \in Callers \cup {None}
    /\ lock \in [Slots -> Callers \cup {None}]

IInv ==
    /\ Locks
    /\ items \in [Items -> GoodItems] /\ callers \in [Callers -> GoodCallers]
    /\ \A c \in Callers : callers[c].item # None => Suits(c, callers[c], Item(c))
    /\ \A c \in Callers : Loads(c)
    /\ OneItemPerMedia

-----------------------------------------------------------------------------
LEMMA OtherFormat ==
  ASSUME NEW f \in Formats
  PROVE  Other(f) \in Formats /\ Other(f) # f
<1>1. \E g \in Formats : g # f
  BY DEF Formats
<1> QED BY <1>1 DEF Other

LEMMA UnusedIsGood == Unused \in GoodItems
BY DEF Unused, GoodItems, ItemType, Alternates, Formats

LEMMA IdleIsGood == Idle \in GoodCallers
BY DEF Idle, GoodCallers, CallerType, Steps, Using

\* What is on the list or in use survives.
LEMMA Settled ==
  ASSUME NEW new \in [Items -> GoodItems], Settle(new)
  PROVE  /\ items' \in [Items -> GoodItems]
         /\ \A i \in Items : items'[i].listed => items'[i] = new[i]
         /\ \A c \in Callers, i \in Items :
              callers'[c].item = i => items'[i] = new[i]
BY UnusedIsGood DEF Settle, Unused

THEOREM Initial == Init => IInv
<1> SUFFICES ASSUME Init PROVE IInv
  OBVIOUS
<1>1. items \in [Items -> GoodItems] /\ callers \in [Callers -> GoodCallers]
  BY UnusedIsGood, IdleIsGood DEF Init
<1>2. \A c \in Callers : callers[c].item = None /\ ~At(c, "load")
  BY DEF Init, Idle, At
<1>3. OneItemPerMedia
  BY DEF Init, Unused, OneItemPerMedia
<1> QED BY <1>1, <1>2, <1>3 DEF Init, IInv, Locks, Loads

-----------------------------------------------------------------------------
(* What all steps that neither begin nor end a load have in common.         *)

\* One call moves on, nothing is put on the list, and what the calls know of
\* their items stays true.
LEMMA Moves ==
  ASSUME IInv, NEW c \in Callers, NEW m \in GoodCallers,
         callers' = [callers EXCEPT ![c] = m], m.step # "load", Locks',
         \A s \in Slots, d \in Callers : d # c /\ lock[s] = d => lock'[s] = d,
         items' \in [Items -> GoodItems],
         \A i \in Items : items'[i].listed =>
           /\ items[i].listed
           /\ items'[i].slot = items[i].slot /\ items'[i].media = items[i].media,
         \A d \in Callers : d # c /\ callers[d].item # None =>
           Suits(d, callers[d], items'[callers[d].item]),
         m.item # None => Suits(c, m, items'[m.item])
  PROVE  IInv'
<1>0. callers \in [Callers -> GoodCallers]
  BY DEF IInv
<1>1. callers' \in [Callers -> GoodCallers]
  BY <1>0
<1>2. callers'[c] = m /\ \A d \in Callers : d # c => callers'[d] = callers[d]
  BY <1>0
<1>3. ASSUME NEW d \in Callers, callers'[d].item # None
      PROVE  Suits(d, callers'[d], items'[callers'[d].item])
  BY <1>2, <1>3
<1>4. ASSUME NEW d \in Callers PROVE Loads(d)'
  <2> SUFFICES ASSUME callers'[d].step = "load"
               PROVE  /\ lock'[callers'[d].slot] = d
                      /\ \A i \in Items :
                           ~(/\ items'[i].listed
                             /\ items'[i].slot = callers'[d].slot
                             /\ items'[i].media = callers'[d].media)
    BY DEF Loads, At, Holds
  <2>1. d # c /\ callers'[d] = callers[d]
    BY <1>2
  <2>2. callers[d] \in GoodCallers /\ callers[d].slot \in Slots
    BY <1>0, <2>1 DEF GoodCallers
  <2>3. Loads(d) /\ At(d, "load")
    BY <2>1 DEF IInv, At
  <2> QED BY <2>1, <2>2, <2>3 DEF Loads, Holds
<1>5. OneItemPerMedia'
  BY DEF IInv, OneItemPerMedia, Holds
<1> QED BY <1>1, <1>3, <1>4, <1>5 DEF IInv, Item

\* The same with no lock given away and the items as they were.
LEMMA MovesOnly ==
  ASSUME IInv, NEW c \in Callers, NEW m \in GoodCallers,
         callers' = [callers EXCEPT ![c] = m], m.step # "load",
         UNCHANGED <<preference, lock, items>>, asking' \in Callers \cup {None},
         m.item # None => Suits(c, m, items[m.item])
  PROVE  IInv'
<1>1. Locks' /\ items' \in [Items -> GoodItems]
  BY DEF IInv, Locks
<1>2. \A d \in Callers : d # c /\ callers[d].item # None =>
        Suits(d, callers[d], items'[callers[d].item])
  BY DEF IInv, Item
<1> QED BY <1>1, <1>2, Moves

\* A call that is done with the locks untouched.
LEMMA ReturnMoves ==
  ASSUME IInv, NEW c \in Callers, Returns(c), Settle(items),
         UNCHANGED <<preference, asking, lock>>
  PROVE  IInv'
<1>1. callers \in [Callers -> GoodCallers] /\ items \in [Items -> GoodItems]
  BY DEF IInv
<1>2. callers' = [callers EXCEPT ![c] = Idle] /\ Idle.item = None
      /\ Idle.step # "load"
  BY DEF Returns, Becomes, Idle
<1>3. ASSUME NEW d \in Callers, d # c, callers[d].item # None
      PROVE  Suits(d, callers[d], items'[callers[d].item])
  <2>1. callers'[d] = callers[d] /\ callers[d].item \in Items
    BY <1>1, <1>2, <1>3 DEF GoodCallers
  <2>2. items'[callers[d].item] = items[callers[d].item]
    BY <1>1, <2>1, Settled
  <2> QED BY <1>3, <2>2 DEF IInv, Item
<1>4. Locks'
  BY DEF IInv, Locks
<1> QED BY <1>1, <1>2, <1>3, <1>4, Settled, IdleIsGood, Moves

\* A call changes the item it uses, to one that suits the others as well.
LEMMA UpdateMoves ==
  ASSUME IInv, NEW c \in Callers, NEW m \in GoodCallers,
         callers' = [callers EXCEPT ![c] = m], m.step # "load",
         callers[c].item # None, m.item \in {None, callers[c].item},
         NEW new \in GoodItems, Update(c, new),
         UNCHANGED <<preference, asking, lock>>,
         new.listed = Item(c).listed, new.slot = Item(c).slot,
         new.media = Item(c).media,
         m.item # None => Suits(c, m, new),
         \A d \in Callers :
           d # c /\ callers[d].item = callers[c].item /\ Suits(d, callers[d], Item(c))
           => Suits(d, callers[d], new)
  PROVE  IInv'
<1> DEFINE i == callers[c].item
           all == [items EXCEPT ![i] = new]
<1>1. callers \in [Callers -> GoodCallers] /\ items \in [Items -> GoodItems]
  BY DEF IInv
<1>2. i \in Items /\ all \in [Items -> GoodItems]
  BY <1>1 DEF GoodCallers
<1>3. Settle(all)
  BY DEF Update
<1>4. \A k \in Items : all[k].listed = items[k].listed
        /\ all[k].slot = items[k].slot /\ all[k].media = items[k].media
  BY <1>1, <1>2 DEF Item
<1>5. callers'[c] = m /\ \A d \in Callers : d # c => callers'[d] = callers[d]
  BY <1>1
<1>6. ASSUME NEW d \in Callers, d # c, callers[d].item # None
      PROVE  Suits(d, callers[d], items'[callers[d].item])
  <2>1. callers[d].item \in Items
    BY <1>1, <1>6 DEF GoodCallers
  <2>2. items'[callers[d].item] = all[callers[d].item]
    BY <1>2, <1>3, <1>5, <1>6, <2>1, Settled
  <2>3. Suits(d, callers[d], items[callers[d].item])
    BY <1>6 DEF IInv, Item
  <2>4. CASE callers[d].item = i
    BY <1>1, <1>2, <1>6, <2>2, <2>3, <2>4 DEF Item
  <2>5. CASE callers[d].item # i
    BY <1>1, <2>1, <2>2, <2>3, <2>5
  <2> QED BY <2>4, <2>5
<1>7. m.item # None => Suits(c, m, items'[m.item])
  <2> SUFFICES ASSUME m.item # None PROVE Suits(c, m, items'[m.item])
    OBVIOUS
  <2>1. m.item = i /\ items'[i] = all[i] /\ all[i] = new
    BY <1>1, <1>2, <1>3, <1>5, Settled
  <2> QED BY <2>1
<1>8. items' \in [Items -> GoodItems]
  BY <1>2, <1>3, Settled
<1>9. \A k \in Items : items'[k].listed =>
        /\ items[k].listed
        /\ items'[k].slot = items[k].slot /\ items'[k].media = items[k].media
  BY <1>2, <1>3, <1>4, Settled
<1>10. Locks'
  BY DEF IInv, Locks
<1> QED BY <1>6, <1>7, <1>8, <1>9, <1>10, Moves

-----------------------------------------------------------------------------
(* get_item.                                                                *)

LEMMA CallGetStep ==
  ASSUME IInv, NEW c \in Callers, CallGet(c) PROVE IInv'
<1>1. PICK s \in Slots :
        Becomes(c, [Idle EXCEPT !.step = "ask", !.slot = s])
  BY DEF CallGet
<1> DEFINE m == [Idle EXCEPT !.step = "ask", !.slot = s]
<1>2. m \in GoodCallers /\ m.item = None /\ m.step # "load"
  BY DEF Idle, GoodCallers, CallerType, Steps, Using
<1>3. callers' = [callers EXCEPT ![c] = m] /\ UNCHANGED <<preference, lock, items>>
      /\ asking' \in Callers \cup {None}
  BY <1>1 DEF CallGet, Becomes, IInv, Locks
<1> HIDE DEF m
<1> QED BY <1>2, <1>3, MovesOnly

LEMMA AskStep ==
  ASSUME IInv, NEW c \in Callers, Ask(c) PROVE IInv'
<1> DEFINE m == [callers[c] EXCEPT !.step = "asked"]
<1>1. callers[c] \in GoodCallers /\ callers[c].step = "ask"
  BY DEF IInv, Ask, At
<1>2. m \in GoodCallers /\ m.item = None /\ m.step # "load"
  BY <1>1 DEF GoodCallers, CallerType, Steps, Using
<1>3. callers' = [callers EXCEPT ![c] = m] /\ UNCHANGED <<preference, lock, items>>
      /\ asking' \in Callers \cup {None}
  BY DEF Ask, Goes, Becomes
<1> HIDE DEF m
<1> QED BY <1>2, <1>3, MovesOnly

LEMMA AnsweredStep ==
  ASSUME IInv, NEW c \in Callers, Answered(c) PROVE IInv'
<1>1. PICK k \in Media :
        Becomes(c, [callers[c] EXCEPT !.step = "lock", !.media = k])
  BY DEF Answered
<1> DEFINE m == [callers[c] EXCEPT !.step = "lock", !.media = k]
<1>2. callers[c] \in GoodCallers /\ callers[c].step = "asked"
  BY DEF IInv, Answered, At
<1>3. m \in GoodCallers /\ m.item = None /\ m.step # "load"
  BY <1>2 DEF GoodCallers, CallerType, Steps, Using
<1>4. callers' = [callers EXCEPT ![c] = m] /\ UNCHANGED <<preference, lock, items>>
      /\ asking' \in Callers \cup {None}
  BY <1>1 DEF Answered, Becomes
<1> HIDE DEF m
<1> QED BY <1>3, <1>4, MovesOnly

LEMMA NoMediaStep ==
  ASSUME IInv, NEW c \in Callers, NoMedia(c) PROVE IInv'
<1>1. callers' = [callers EXCEPT ![c] = Idle] /\ UNCHANGED <<preference, lock, items>>
      /\ asking' \in Callers \cup {None}
  BY DEF NoMedia, Becomes
<1>2. Idle.item = None /\ Idle.step # "load"
  BY DEF Idle
<1> QED BY <1>1, <1>2, IdleIsGood, MovesOnly

\* A call that has got an item returns or looks tracks up in it.
LEMMA GotMoves ==
  ASSUME NEW c \in Callers, NEW i \in Items, Got(c, i)
  PROVE  \E m \in GoodCallers :
           /\ callers' = [callers EXCEPT ![c] = m]
           /\ m.step \in {"idle", "look"} /\ m.item \in {None, i}
<1> DEFINE m == [Idle EXCEPT !.step = "look", !.item = i]
<1>1. m \in GoodCallers /\ m.step = "look" /\ m.item = i
  BY DEF Idle, GoodCallers, CallerType, Steps, Using
<1>2. Idle.item = None /\ Idle.step = "idle"
  BY DEF Idle
<1> QED BY <1>1, <1>2, IdleIsGood DEF Got, Becomes

LEMMA LockSlotStep ==
  ASSUME IInv, NEW c \in Callers, LockSlot(c) PROVE IInv'
<1>0. /\ callers \in [Callers -> GoodCallers] /\ items \in [Items -> GoodItems]
      /\ callers[c].step = "lock" /\ lock[callers[c].slot] = None
      /\ lock \in [Slots -> Callers \cup {None}]
      /\ UNCHANGED <<preference, asking, items>>
  BY DEF IInv, Locks, LockSlot, At
<1>1. CASE \E i \in Items : Holds(callers[c].slot, callers[c].media, i)
  <2>1. PICK i \in Items : /\ Holds(callers[c].slot, callers[c].media, i)
                           /\ Got(c, i) /\ UNCHANGED lock
    BY <1>1 DEF LockSlot
  <2>2. PICK m \in GoodCallers :
           /\ callers' = [callers EXCEPT ![c] = m]
           /\ m.step \in {"idle", "look"} /\ m.item \in {None, i}
    BY <2>1, GotMoves
  <2>3. Suits(c, m, items[i])
    BY <1>0, <2>1, <2>2 DEF Suits, Holds, GoodItems
  <2>4. asking' \in Callers \cup {None} /\ m.step # "load"
    BY <1>0, <2>2 DEF IInv, Locks
  <2> QED BY <1>0, <2>1, <2>2, <2>3, <2>4, MovesOnly
<1>2. CASE ~\E i \in Items : Holds(callers[c].slot, callers[c].media, i)
  <2> DEFINE m == [callers[c] EXCEPT !.step = "load", !.attempts = Attempts]
  <2>1. callers' = [callers EXCEPT ![c] = m]
        /\ lock' = [lock EXCEPT ![callers[c].slot] = c]
    BY <1>2 DEF LockSlot, Becomes
  <2>2. Attempts \subseteq Formats
    BY DEF Attempts, IInv, Locks, Formats
  <2>3. callers[c] \in GoodCallers
    BY <1>0
  <2>4. m \in GoodCallers
    BY <1>0, <2>2, <2>3 DEF GoodCallers, CallerType, Steps, Using
  <2>5. m.item = None /\ m.slot = callers[c].slot /\ m.media = callers[c].media
        /\ m.slot \in Slots
    BY <1>0, <2>3 DEF GoodCallers, CallerType, Using
  <2> HIDE DEF m
  <2>6. callers'[c] = m /\ \A d \in Callers : d # c => callers'[d] = callers[d]
    BY <1>0, <2>1
  <2>7. callers' \in [Callers -> GoodCallers] /\ Locks'
    BY <1>0, <2>1, <2>4 DEF IInv, Locks
  <2>8. ASSUME NEW d \in Callers, callers'[d].item # None
        PROVE  Suits(d, callers'[d], items'[callers'[d].item])
    BY <1>0, <2>5, <2>6, <2>8 DEF IInv, Item
  <2>9. ASSUME NEW d \in Callers PROVE Loads(d)'
    <3>1. CASE d = c
      BY <1>0, <1>2, <2>1, <2>5, <2>6, <3>1 DEF Loads, Holds
    <3>2. CASE d # c
      <4>1. callers'[d] = callers[d] /\ callers[d] \in GoodCallers /\ Loads(d)
        BY <1>0, <2>6, <3>2 DEF IInv
      <4>2. At(d, "load") => callers[d].slot # callers[c].slot
        BY <1>0, <4>1, NoneIsNoOne DEF Loads
      <4>3. At(d, "load") => callers[d].slot \in Slots
        BY <4>1 DEF GoodCallers, At
      <4> QED BY <1>0, <2>1, <4>1, <4>2, <4>3 DEF Loads, At, Holds
    <3> QED BY <3>1, <3>2
  <2>10. OneItemPerMedia'
    BY <1>0 DEF IInv, OneItemPerMedia, Holds
  <2> QED BY <1>0, <2>7, <2>8, <2>9, <2>10 DEF IInv, Item
<1> QED BY <1>1, <1>2

\* The lock goes back to None where the call held it, and nowhere else.
LEMMA Unlocked ==
  ASSUME IInv, NEW c \in Callers, Unlock(c)
  PROVE  /\ lock' \in [Slots -> Callers \cup {None}]
         /\ \A s \in Slots, d \in Callers : d # c /\ lock[s] = d => lock'[s] = d
BY DEF IInv, Locks, Unlock

\* A database is put on the list of which there was none.
LEMMA LoadedStep ==
  ASSUME IInv, NEW c \in Callers, At(c, "load"), Unlock(c),
         NEW format \in callers[c].attempts, NEW i \in Items, IsFree(i), Got(c, i),
         Settle([items EXCEPT ![i] = Loaded(c, format)]),
         UNCHANGED <<preference, asking>>
  PROVE  IInv'
<1> DEFINE new == Loaded(c, format)
           all == [items EXCEPT ![i] = new]
<1>0. /\ callers \in [Callers -> GoodCallers] /\ items \in [Items -> GoodItems]
      /\ callers[c] \in GoodCallers /\ callers[c].step = "load" /\ Loads(c)
  BY DEF IInv, At
<1>1. /\ callers[c].slot \in Slots /\ callers[c].media \in Media
      /\ callers[c].item = None /\ format \in Formats
  BY <1>0 DEF GoodCallers, CallerType, Using
<1>2. /\ new \in GoodItems /\ new.listed /\ new.media = callers[c].media
      /\ new.slot = callers[c].slot /\ new.media # None
  BY <1>1, NoneIsNoOne
     DEF Loaded, Unused, GoodItems, ItemType, Alternates, Formats
<1>3. PICK m \in GoodCallers :
        /\ callers' = [callers EXCEPT ![c] = m]
        /\ m.step \in {"idle", "look"} /\ m.item \in {None, i}
  BY GotMoves
<1>4. callers'[c] = m /\ \A d \in Callers : d # c => callers'[d] = callers[d]
  BY <1>0, <1>3
<1> HIDE DEF new
<1>5. all \in [Items -> GoodItems] /\ Settle(all)
      /\ all[i] = new /\ \A k \in Items : k # i => all[k] = items[k]
  BY <1>0, <1>2 DEF new
<1> HIDE DEF all
<1>6. Locks' /\ items' \in [Items -> GoodItems] /\ callers' \in [Callers -> GoodCallers]
  BY <1>0, <1>3, <1>5, Unlocked, Settled DEF IInv, Locks
<1>7. \A d \in Callers : d # c => callers[d].item # i
  BY NoneIsNoOne DEF IInv, Suits, Item, IsFree
<1>8. ASSUME NEW d \in Callers, callers'[d].item # None
      PROVE  Suits(d, callers'[d], items'[callers'[d].item])
  <2>1. callers'[d].item \in Items
    BY <1>6, <1>8 DEF GoodCallers
  <2>2. items'[callers'[d].item] = all[callers'[d].item]
    BY <1>5, <2>1, Settled
  <2>3. CASE d = c
    BY <1>2, <1>3, <1>4, <1>5, <1>8, <2>2, <2>3 DEF Suits
  <2>4. CASE d # c
    <3>1. callers'[d] = callers[d] /\ Suits(d, callers[d], items[callers[d].item])
      BY <1>4, <1>8, <2>4 DEF IInv, Item
    <3> QED BY <1>5, <1>7, <2>1, <2>2, <2>4, <3>1
  <2> QED BY <2>3, <2>4
<1>9. \A k \in Items : items'[k].listed /\ k # i =>
        /\ items[k].listed
        /\ items'[k].slot = items[k].slot /\ items'[k].media = items[k].media
  BY <1>5, Settled
<1>10. items'[i].slot = callers[c].slot /\ items'[i].media = callers[c].media
  BY <1>2, <1>5 DEF Settle
<1>11. ASSUME NEW d \in Callers PROVE Loads(d)'
  <2>1. CASE d = c
    BY <1>3, <1>4, <2>1 DEF Loads, At
  <2>2. CASE d # c
    <3>1. callers'[d] = callers[d] /\ callers[d] \in GoodCallers /\ Loads(d)
      BY <1>0, <1>4, <2>2 DEF IInv
    <3>2. At(d, "load") => /\ callers[d].slot \in Slots
                           /\ callers[d].slot # callers[c].slot
      BY <1>0, <2>2, <3>1 DEF GoodCallers, Loads, At
    <3> QED BY <1>9, <1>10, <2>2, <3>1, <3>2, Unlocked DEF Loads, At, Holds
  <2> QED BY <2>1, <2>2
<1>12. OneItemPerMedia'
  <2> SUFFICES ASSUME NEW j \in Items, NEW k \in Items,
                      items'[j].listed, items'[k].listed,
                      items'[k].slot = items'[j].slot,
                      items'[k].media = items'[j].media, j # k
               PROVE  FALSE
    BY DEF OneItemPerMedia, Holds
  <2>1. CASE j # i /\ k # i
    BY <1>9, <2>1 DEF IInv, OneItemPerMedia, Holds
  <2>2. CASE j = i \/ k = i
    BY <1>0, <1>9, <1>10, <2>2 DEF Loads, At, Holds
  <2> QED BY <2>1, <2>2
<1> QED BY <1>6, <1>8, <1>11, <1>12 DEF IInv, Item

LEMMA LoadStep ==
  ASSUME IInv, NEW c \in Callers, Load(c) PROVE IInv'
<1>1. CASE Becomes(c, Idle) /\ UNCHANGED items
  <2>1. callers' = [callers EXCEPT ![c] = Idle] /\ Idle.item = None
        /\ Idle.step # "load" /\ Unlock(c) /\ UNCHANGED <<preference, asking>>
    BY <1>1 DEF Becomes, Idle, Load
  <2>2. Locks' /\ items' \in [Items -> GoodItems]
    BY <1>1, <2>1, Unlocked DEF IInv, Locks
  <2>3. \A d \in Callers : d # c /\ callers[d].item # None =>
           Suits(d, callers[d], items'[callers[d].item])
    BY <1>1 DEF IInv, Item
  <2> QED BY <1>1, <2>1, <2>2, <2>3, Unlocked, IdleIsGood, Moves
<1>2. CASE \E format \in callers[c].attempts, i \in Items :
             /\ IsFree(i)
             /\ i = CHOOSE j \in Items : IsFree(j)
             /\ Got(c, i)
             /\ Settle([items EXCEPT ![i] = Loaded(c, format)])
  BY <1>2, LoadedStep DEF Load
<1> QED BY <1>1, <1>2 DEF Load

-----------------------------------------------------------------------------
(* find_track.                                                              *)

LEMMA AgreesStep ==
  ASSUME IInv, NEW c \in Callers, Agrees(c) PROVE IInv'
BY ReturnMoves DEF Agrees

\* A call that looks has an item, and the invariant holds of both.
LEMMA UsesItem ==
  ASSUME IInv, NEW c \in Callers, callers[c].step \in Using
  PROVE  /\ callers[c] \in GoodCallers /\ callers[c].item \in Items
         /\ callers[c].item # None /\ Item(c) \in GoodItems
         /\ Suits(c, callers[c], Item(c))
<1>1. callers[c] \in GoodCallers /\ callers[c].item \in Items
  BY DEF IInv, GoodCallers
<1> QED BY <1>1, NoneIsNoOne DEF IInv, Item

LEMMA LoadAlternateStep ==
  ASSUME IInv, NEW c \in Callers, LoadAlternate(c) PROVE IInv'
<1> DEFINE item == Item(c)
<1>0. /\ callers[c].step = "look" /\ item.holder = None
      /\ UNCHANGED <<preference, asking, lock>>
  BY DEF LoadAlternate, At
<1>1. /\ callers[c] \in GoodCallers /\ callers[c].item \in Items
      /\ callers[c].item # None /\ item \in GoodItems
      /\ Suits(c, callers[c], item)
  BY <1>0, UsesItem DEF Using
<1>2. CASE /\ item.alternate \in Formats
           /\ Becomes(c, [callers[c] EXCEPT !.step = "switch",
                                            !.format = item.alternate])
           /\ UNCHANGED items
  <2> DEFINE m == [callers[c] EXCEPT !.step = "switch", !.format = item.alternate]
  <2>1. m \in GoodCallers /\ m.step = "switch" /\ m.item = callers[c].item
        /\ m.format = item.alternate
    BY <1>0, <1>1, <1>2 DEF GoodCallers, CallerType, Steps, Using
  <2>2. callers' = [callers EXCEPT ![c] = m] /\ asking' \in Callers \cup {None}
    BY <1>0, <1>2 DEF Becomes, IInv, Locks
  <2> HIDE DEF m
  <2>3. Suits(c, m, items[m.item])
    BY <1>1, <1>2, <2>1 DEF Suits, GoodItems, Item
  <2> QED BY <1>0, <1>2, <2>1, <2>2, <2>3, MovesOnly
<1>3. CASE item.alternate = "none" /\ Returns(c) /\ Settle(items)
  BY <1>0, <1>3, ReturnMoves
<1>4. CASE /\ item.alternate = "untried" /\ Returns(c)
           /\ Update(c, [item EXCEPT !.alternate = "none"])
  <2> DEFINE new == [item EXCEPT !.alternate = "none"]
  <2>1. /\ new \in GoodItems /\ new.listed = item.listed /\ new.slot = item.slot
        /\ new.media = item.media
    BY <1>1, <1>4 DEF GoodItems, ItemType, Alternates, Formats
  <2>2. callers' = [callers EXCEPT ![c] = Idle] /\ Idle.item = None
        /\ Idle.step # "load"
    BY <1>4 DEF Returns, Becomes, Idle
  <2>3. ASSUME NEW d \in Callers, Suits(d, callers[d], item)
        PROVE  Suits(d, callers[d], new)
    BY <1>0, <1>1, <1>4, <2>3, NoneIsNoOne DEF Suits, Formats, GoodItems, ItemType
  <2> HIDE DEF new
  <2>4. Update(c, new)
    BY <1>4 DEF new
  <2> QED BY <1>0, <1>1, <2>1, <2>2, <2>3, <2>4, IdleIsGood, UpdateMoves
<1>5. CASE /\ item.alternate = "untried"
           /\ Becomes(c, [callers[c] EXCEPT !.step = "loadAlternate",
                                            !.format = Other(item.active)])
           /\ Update(c, [item EXCEPT !.holder = c])
  <2> DEFINE new == [item EXCEPT !.holder = c]
             m == [callers[c] EXCEPT !.step = "loadAlternate",
                                     !.format = Other(item.active)]
  <2>1. /\ new \in GoodItems /\ new.listed = item.listed /\ new.slot = item.slot
        /\ new.media = item.media /\ new.alternate = "untried" /\ new.holder = c
        /\ new.active = item.active
    BY <1>1, <1>5 DEF GoodItems, ItemType
  <2>2. Other(item.active) \in Formats
    BY <1>1, OtherFormat DEF GoodItems, ItemType
  <2>3. m \in GoodCallers /\ m.step = "loadAlternate" /\ m.item = callers[c].item
        /\ m.format = Other(item.active)
    BY <1>0, <1>1, <2>2 DEF GoodCallers, CallerType, Steps, Using
  <2>4. callers' = [callers EXCEPT ![c] = m] /\ Update(c, new)
    BY <1>5 DEF Becomes
  <2>5. ASSUME NEW d \in Callers, Suits(d, callers[d], item)
        PROVE  Suits(d, callers[d], new)
    BY <1>0, <1>1, <1>5, <2>5, NoneIsNoOne DEF Suits, Formats, GoodItems, ItemType
  <2> HIDE DEF new, m
  <2>6. Suits(c, m, new)
    BY <1>1, <2>1, <2>3 DEF Suits
  <2> QED BY <1>0, <1>1, <2>1, <2>3, <2>4, <2>5, <2>6, UpdateMoves
<1> QED BY <1>2, <1>3, <1>4, <1>5 DEF LoadAlternate

LEMMA AlternateLoadedStep ==
  ASSUME IInv, NEW c \in Callers, AlternateLoaded(c) PROVE IInv'
<1> DEFINE item == Item(c)
<1>0. callers[c].step = "loadAlternate" /\ UNCHANGED <<preference, asking, lock>>
  BY DEF AlternateLoaded, At
<1>1. /\ callers[c] \in GoodCallers /\ callers[c].item \in Items
      /\ callers[c].item # None /\ item \in GoodItems
      /\ Suits(c, callers[c], item)
  BY <1>0, UsesItem DEF Using
<1>2. /\ item.holder = c /\ item.alternate = "untried" /\ item.media # None
      /\ callers[c].format = Other(item.active) /\ callers[c].format \in Formats
  BY <1>0, <1>1 DEF Suits, GoodCallers
<1>3. ASSUME NEW d \in Callers, d # c, Suits(d, callers[d], item), NEW new,
             new.media = item.media
      PROVE  Suits(d, callers[d], new)
  BY <1>2, <1>3 DEF Suits, Formats
<1>4. CASE /\ Goes(c, "switch")
           /\ Update(c, [item EXCEPT !.alternate = callers[c].format,
                                     !.open = item.open \cup {callers[c].format},
                                     !.holder = None])
  <2> DEFINE new == [item EXCEPT !.alternate = callers[c].format,
                                 !.open = item.open \cup {callers[c].format},
                                 !.holder = None]
             m == [callers[c] EXCEPT !.step = "switch"]
  <2>1. /\ new \in GoodItems /\ new.listed = item.listed /\ new.slot = item.slot
        /\ new.media = item.media /\ new.alternate = callers[c].format
        /\ callers[c].format \in new.open
    BY <1>1, <1>2 DEF GoodItems, ItemType, Alternates
  <2>2. m \in GoodCallers /\ m.step = "switch" /\ m.item = callers[c].item
        /\ m.format = callers[c].format
    BY <1>0, <1>1 DEF GoodCallers, CallerType, Steps, Using
  <2>3. callers' = [callers EXCEPT ![c] = m] /\ Update(c, new)
    BY <1>4 DEF Goes, Becomes
  <2> HIDE DEF new, m
  <2>4. Suits(c, m, new)
    BY <1>2, <2>1, <2>2 DEF Suits
  <2> QED BY <1>0, <1>1, <1>3, <2>1, <2>2, <2>3, <2>4, UpdateMoves
<1>5. CASE /\ Returns(c)
           /\ Update(c, [item EXCEPT !.alternate = "none", !.holder = None])
  <2> DEFINE new == [item EXCEPT !.alternate = "none", !.holder = None]
  <2>1. /\ new \in GoodItems /\ new.listed = item.listed /\ new.slot = item.slot
        /\ new.media = item.media
    BY <1>1, <1>2 DEF GoodItems, ItemType, Alternates, Formats
  <2>2. callers' = [callers EXCEPT ![c] = Idle] /\ Idle.item = None
        /\ Idle.step # "load" /\ Update(c, new)
    BY <1>5 DEF Returns, Becomes, Idle
  <2> HIDE DEF new
  <2> QED BY <1>0, <1>1, <1>3, <2>1, <2>2, IdleIsGood, UpdateMoves
<1> QED BY <1>4, <1>5 DEF AlternateLoaded

LEMMA SwitchStep ==
  ASSUME IInv, NEW c \in Callers, Switch(c) PROVE IInv'
<1> DEFINE item == Item(c)
<1>0. callers[c].step = "switch" /\ UNCHANGED <<preference, asking, lock>>
  BY DEF Switch, At
<1>1. /\ callers[c] \in GoodCallers /\ callers[c].item \in Items
      /\ callers[c].item # None /\ item \in GoodItems
      /\ Suits(c, callers[c], item)
  BY <1>0, UsesItem DEF Using
<1>2. /\ item.alternate \in Formats /\ callers[c].format \in Formats
      /\ item.listed => callers[c].format \in item.open
      /\ item.active \in Formats /\ item.media # None
  BY <1>0, <1>1 DEF Suits, GoodCallers, GoodItems, ItemType
<1>3. CASE Returns(c) /\ Settle(items)
  BY <1>0, <1>3, ReturnMoves
<1>4. CASE /\ Becomes(c, [callers[c] EXCEPT !.step = "store",
                                            !.format = item.active])
           /\ Update(c, [item EXCEPT !.active = callers[c].format])
  <2> DEFINE new == [item EXCEPT !.active = callers[c].format]
             m == [callers[c] EXCEPT !.step = "store", !.format = item.active]
  <2>1. /\ new \in GoodItems /\ new.listed = item.listed /\ new.slot = item.slot
        /\ new.media = item.media /\ new.alternate = item.alternate
        /\ new.open = item.open
    BY <1>1, <1>2 DEF GoodItems, ItemType
  <2>2. m \in GoodCallers /\ m.step = "store" /\ m.item = callers[c].item
        /\ m.format = item.active
    BY <1>0, <1>1, <1>2 DEF GoodCallers, CallerType, Steps, Using
  <2>3. callers' = [callers EXCEPT ![c] = m] /\ Update(c, new)
    BY <1>4 DEF Becomes
  <2> HIDE DEF new, m
  <2>4. Suits(c, m, new)
    BY <1>1, <1>2, <2>1, <2>2 DEF Suits, GoodItems
  <2>5. ASSUME NEW d \in Callers, Suits(d, callers[d], item)
        PROVE  Suits(d, callers[d], new)
    BY <1>2, <2>1, <2>5 DEF Suits, Formats
  <2> QED BY <1>0, <1>1, <2>1, <2>2, <2>3, <2>4, <2>5, UpdateMoves
<1> QED BY <1>3, <1>4 DEF Switch

LEMMA StoreStep ==
  ASSUME IInv, NEW c \in Callers, Store(c) PROVE IInv'
<1> DEFINE item == Item(c)
           new == [item EXCEPT !.alternate = callers[c].format]
<1>0. callers[c].step = "store" /\ UNCHANGED <<preference, asking, lock>>
      /\ Update(c, new) /\ callers' = [callers EXCEPT ![c] = Idle]
      /\ Idle.item = None /\ Idle.step # "load"
  BY DEF Store, At, Returns, Becomes, Idle
<1>1. /\ callers[c] \in GoodCallers /\ callers[c].item \in Items
      /\ callers[c].item # None /\ item \in GoodItems
      /\ Suits(c, callers[c], item)
  BY <1>0, UsesItem DEF Using
<1>2. /\ item.alternate \in Formats /\ callers[c].format \in Formats
      /\ item.listed => callers[c].format \in item.open
  BY <1>0, <1>1 DEF Suits, GoodCallers
<1>3. /\ new \in GoodItems /\ new.listed = item.listed /\ new.slot = item.slot
      /\ new.media = item.media /\ new.open = item.open
      /\ new.alternate = callers[c].format
  BY <1>1, <1>2 DEF GoodItems, ItemType, Alternates
<1>4. ASSUME NEW d \in Callers, Suits(d, callers[d], item)
      PROVE  Suits(d, callers[d], new)
  <2> HIDE DEF new
  <2> QED BY <1>2, <1>3, <1>4 DEF Suits, Formats
<1> HIDE DEF new
<1> QED BY <1>0, <1>1, <1>3, <1>4, IdleIsGood, UpdateMoves

LEMMA CancelStep ==
  ASSUME IInv, NEW c \in Callers, Cancel(c) PROVE IInv'
<1> DEFINE new == [i \in Items |-> IF items[i].holder = c
                                   THEN [items[i] EXCEPT !.holder = None]
                                   ELSE items[i]]
<1>1. callers \in [Callers -> GoodCallers] /\ items \in [Items -> GoodItems]
  BY DEF IInv
<1>2. callers' = [callers EXCEPT ![c] = Idle] /\ Idle.item = None
      /\ Idle.step # "load" /\ Settle(new) /\ Unlock(c) /\ UNCHANGED preference
      /\ asking' \in {None, asking}
  BY DEF Cancel, Becomes, Idle
<1>3. ASSUME NEW i \in Items
      PROVE  /\ new[i] \in GoodItems /\ new[i].listed = items[i].listed
             /\ new[i].slot = items[i].slot /\ new[i].media = items[i].media
             /\ new[i].alternate = items[i].alternate /\ new[i].open = items[i].open
             /\ new[i].active = items[i].active
             /\ items[i].holder # c => new[i] = items[i]
  <2>1. items[i] \in GoodItems
    BY <1>1
  <2> QED BY <2>1 DEF GoodItems, ItemType
<1>4. new \in [Items -> GoodItems]
  BY <1>3
<1> HIDE DEF new
<1>5. ASSUME NEW d \in Callers, d # c, callers[d].item # None
      PROVE  Suits(d, callers[d], items'[callers[d].item])
  <2> DEFINE i == callers[d].item
  <2>1. i \in Items /\ callers'[d] = callers[d]
    BY <1>1, <1>2, <1>5 DEF GoodCallers
  <2>2. items'[i] = new[i] /\ Suits(d, callers[d], items[i])
    BY <1>2, <1>4, <1>5, <2>1, Settled DEF IInv, Item
  <2> QED BY <1>3, <1>5, <2>1, <2>2 DEF Suits
<1>6. Locks'
  BY <1>2, Unlocked DEF IInv, Locks
<1>7. \A i \in Items : items'[i].listed =>
        /\ items[i].listed
        /\ items'[i].slot = items[i].slot /\ items'[i].media = items[i].media
  BY <1>2, <1>3, <1>4, Settled
<1>8. items' \in [Items -> GoodItems]
  BY <1>2, <1>4, Settled
<1> QED BY <1>2, <1>5, <1>6, <1>7, <1>8, Unlocked, IdleIsGood, Moves

-----------------------------------------------------------------------------
(* Removal and the preference.                                              *)

\* The calls stay where they are, nothing is put on the list, and what they
\* know of their items stays true.
LEMMA Stays ==
  ASSUME IInv, UNCHANGED <<callers, lock>>, Locks',
         items' \in [Items -> GoodItems],
         \A i \in Items : items'[i].listed =>
           /\ items[i].listed
           /\ items'[i].slot = items[i].slot /\ items'[i].media = items[i].media,
         \A d \in Callers : callers[d].item # None =>
           Suits(d, callers[d], items'[callers[d].item])
  PROVE  IInv'
<1>1. \A d \in Callers : Loads(d)'
  BY DEF IInv, Loads, At, Holds
<1>2. OneItemPerMedia'
  BY DEF IInv, OneItemPerMedia, Holds
<1> QED BY <1>1, <1>2 DEF IInv, Item

LEMMA RemoveStep ==
  ASSUME IInv, NEW p \in Players, Remove(p) PROVE IInv'
<1> DEFINE off(i) == [items[i] EXCEPT !.listed = FALSE, !.closing = TRUE]
<1>1. callers \in [Callers -> GoodCallers] /\ items \in [Items -> GoodItems]
  BY DEF IInv
<1>2. UNCHANGED <<preference, asking, lock, callers>> /\ Locks'
  BY DEF Remove, IInv, Locks
<1>3. ASSUME NEW i \in Items
      PROVE  /\ off(i) \in GoodItems /\ ~off(i).listed
             /\ off(i).media = items[i].media /\ off(i).holder = items[i].holder
             /\ off(i).alternate = items[i].alternate
             /\ off(i).active = items[i].active
  <2>1. items[i] \in GoodItems
    BY <1>1
  <2> QED BY <2>1 DEF GoodItems, ItemType
<1> HIDE DEF off
<1>4. ASSUME NEW i \in Items PROVE items'[i] \in {items[i], off(i)}
  BY DEF Remove, off
<1>5. items' \in [Items -> GoodItems]
  <2>1. ASSUME NEW i \in Items PROVE items'[i] \in GoodItems
    BY <1>1, <1>3, <1>4, <2>1
  <2> QED BY <2>1 DEF Remove
<1>6. ASSUME NEW i \in Items, items'[i].listed PROVE items'[i] = items[i]
  BY <1>3, <1>4, <1>6
<1>7. ASSUME NEW d \in Callers, callers[d].item # None
      PROVE  Suits(d, callers[d], items'[callers[d].item])
  <2>1. callers[d].item \in Items /\ Suits(d, callers[d], items[callers[d].item])
    BY <1>1, <1>7 DEF IInv, Item, GoodCallers
  <2> QED BY <1>3, <1>4, <1>6, <2>1 DEF Suits
<1> QED BY <1>2, <1>5, <1>6, <1>7, Stays

LEMMA CloseStep ==
  ASSUME IInv, NEW i \in Items, Close(i) PROVE IInv'
<1> DEFINE shut == [items[i] EXCEPT !.closing = FALSE,
                                    !.open = items[i].open \ Closed(i)]
           new == [items EXCEPT ![i] = shut]
<1>1. callers \in [Callers -> GoodCallers] /\ items \in [Items -> GoodItems]
  BY DEF IInv
<1>2. UNCHANGED <<preference, asking, lock, callers>> /\ Locks' /\ Settle(new)
  BY DEF Close, IInv, Locks
<1>3. /\ shut \in GoodItems /\ ~shut.listed
      /\ shut.media = items[i].media /\ shut.holder = items[i].holder
      /\ shut.alternate = items[i].alternate /\ shut.active = items[i].active
  <2>1. items[i] \in GoodItems /\ items[i].closing
    BY <1>1 DEF Close
  <2> QED BY <2>1 DEF GoodItems, ItemType
<1> HIDE DEF shut
<1>4. new \in [Items -> GoodItems]
  BY <1>1, <1>3
<1>5. items' \in [Items -> GoodItems]
  BY <1>2, <1>4, Settled
<1>6. ASSUME NEW j \in Items, items'[j].listed PROVE items'[j] = items[j]
  BY <1>1, <1>2, <1>3, <1>4, <1>6, Settled
<1>7. ASSUME NEW d \in Callers, callers[d].item # None
      PROVE  Suits(d, callers[d], items'[callers[d].item])
  <2> DEFINE j == callers[d].item
  <2>1. j \in Items /\ Suits(d, callers[d], items[j]) /\ callers'[d].item = j
    BY <1>1, <1>2, <1>7 DEF IInv, Item, GoodCallers
  <2>2. items'[j] = new[j]
    BY <1>2, <1>4, <2>1, Settled
  <2>3. j # i => items'[j] = items[j]
    BY <1>1, <2>1, <2>2
  <2>4. j = i => items'[j] = shut
    BY <1>1, <2>1, <2>2
  <2> QED BY <1>3, <2>1, <2>3, <2>4 DEF Suits
<1> QED BY <1>2, <1>5, <1>6, <1>7, Stays

LEMMA SetPreferenceStep ==
  ASSUME IInv, SetPreference PROVE IInv'
BY Stays DEF SetPreference, IInv, Locks, Item

-----------------------------------------------------------------------------
(* The theorems.                                                            *)

THEOREM Preserved == IInv /\ [Next]_vars => IInv'
<1> SUFFICES ASSUME IInv, [Next]_vars PROVE IInv'
  OBVIOUS
<1>1. ASSUME NEW c \in Callers, CallStep(c) PROVE IInv'
  BY <1>1, AskStep, AnsweredStep, NoMediaStep, LockSlotStep, LoadStep, AgreesStep,
     LoadAlternateStep, AlternateLoadedStep, SwitchStep, StoreStep DEF CallStep
<1>2. ASSUME NEW c \in Callers, CallGet(c) \/ Cancel(c) PROVE IInv'
  BY <1>2, CallGetStep, CancelStep
<1>3. ASSUME NEW p \in Players, Remove(p) PROVE IInv'
  BY <1>3, RemoveStep
<1>4. ASSUME NEW i \in Items, Close(i) PROVE IInv'
  BY <1>4, CloseStep
<1>5. CASE SetPreference
  BY <1>5, SetPreferenceStep
<1>6. CASE UNCHANGED vars
  BY <1>6, Stays DEF vars, IInv, Locks, Item
<1> QED BY <1>1, <1>2, <1>3, <1>4, <1>5, <1>6 DEF Next

LEMMA Implied ==
  IInv => TypeOK /\ OneItemPerMedia /\ ListedIsOpen /\ AlternateLoadedOnce
<1> SUFFICES ASSUME IInv
             PROVE  TypeOK /\ OneItemPerMedia /\ ListedIsOpen /\ AlternateLoadedOnce
  OBVIOUS
<1>1. items \in [Items -> ItemType] /\ callers \in [Callers -> CallerType]
  BY DEF IInv, GoodItems, GoodCallers
<1>2. TypeOK
  BY <1>1 DEF IInv, Locks, TypeOK, Suits
<1>3. ListedIsOpen
  BY DEF IInv, GoodItems, ListedIsOpen
<1>4. AlternateLoadedOnce
  <2> SUFFICES ASSUME NEW c \in Callers, At(c, "loadAlternate")
               PROVE  /\ Item(c).alternate = "untried"
                      /\ callers[c].format \notin Item(c).open
                      /\ \A d \in Callers \ {c} : At(d, "loadAlternate") =>
                           callers[d].item # callers[c].item
    BY DEF AlternateLoadedOnce
  <2>1. ASSUME NEW d \in Callers, At(d, "loadAlternate")
        PROVE  /\ callers[d].item \in Items
               /\ Suits(d, callers[d], items[callers[d].item])
               /\ callers[d].step = "loadAlternate"
    <3>1. callers[d] \in GoodCallers
      BY DEF IInv
    <3>2. callers[d].item \in Items
      BY <2>1, <3>1 DEF GoodCallers, Using, At
    <3>3. callers[d].item # None
      BY <3>2, NoneIsNoOne
    <3> QED BY <2>1, <3>2, <3>3 DEF IInv, Item, At
  <2>2. /\ Item(c).holder = c /\ Item(c).alternate = "untried"
        /\ callers[c].format = Other(Item(c).active)
        /\ Item(c) \in GoodItems
    BY <2>1 DEF Suits, Item, IInv
  <2>3. Item(c).active \in Formats /\ Item(c).open \subseteq {Item(c).active}
    BY <2>2 DEF GoodItems, ItemType, Formats
  <2>4. callers[c].format \notin Item(c).open
    BY <2>2, <2>3, OtherFormat
  <2>5. ASSUME NEW d \in Callers \ {c}, At(d, "loadAlternate")
        PROVE  callers[d].item # callers[c].item
    BY <2>1, <2>2, <2>5 DEF Suits, Item
  <2> QED BY <2>2, <2>4, <2>5
<1> QED BY <1>2, <1>3, <1>4 DEF IInv

\* Locks, items and calls stay well typed, and a call that uses a database
\* has its item, whatever was removed meanwhile.
THEOREM TypeCorrect == Spec => []TypeOK
<1> QED BY Initial, Preserved, Implied, PTL DEF Spec

\* For any number of tasks and any media and slots, the list never has two
\* items for one medium in one slot.
THEOREM OneItemPerMediaHolds == Spec => []OneItemPerMedia
<1> QED BY Initial, Preserved, Implied, PTL DEF Spec

\* Whatever lookups switch and removals close, what is on the list is open.
THEOREM ListedIsOpenHolds == Spec => []ListedIsOpen
<1> QED BY Initial, Preserved, Implied, PTL DEF Spec

\* No two tasks load an item's alternate at the same time, and none loads a
\* format the item already has.
THEOREM AlternateLoadedOnceHolds == Spec => []AlternateLoadedOnce
<1> QED BY Initial, Preserved, Implied, PTL DEF Spec
=============================================================================
