--------------------------- MODULE RemoteDbProofs ---------------------------
(***************************************************************************)
(* For any number of tasks and connections, menus of any length and pages  *)
(* of any size: queries on a player are serialised by its lock; every      *)
(* request carries the id under which its connection introduced itself,    *)
(* which is one that players answer, or an announced 0; where no query was *)
(* cancelled, requests and responses stay in step, page after page; and a  *)
(* query then returns all that the player sent for it: QueryService.       *)
(***************************************************************************)
EXTENDS RemoteQueries, SequenceTheorems, WellFoundedInduction, TLAPS

\* A set of naturals that is not empty has a least element, and Min is it.
LEMMA MinIsLeast ==
  ASSUME NEW S \in SUBSET Nat, S # {}
  PROVE  Min(S) \in S /\ \A y \in S : Min(S) <= y
<1> DEFINE less == {ss \in Nat \X Nat : ss[1] < ss[2]}
<1>1. IsWellFoundedOn(less, Nat)
  BY NatLessThanWellFounded, Zenon DEF OpToRel
<1>2. \E x \in S : \A y \in S : ~ (<<y, x>> \in less)
  BY <1>1, WFMin, Zenon
<1>3. PICK x \in S : \A y \in S : ~ (<<y, x>> \in less)
  BY <1>2
<1>4. ASSUME NEW y \in S PROVE x <= y
  <2>1. <<y, x>> \in Nat \X Nat
    OBVIOUS
  <2>2. ~ (y < x)
    BY <1>3, <2>1
  <2>3. x \in Nat /\ y \in Nat
    OBVIOUS
  <2> QED BY <2>2, <2>3
<1> QED BY <1>4 DEF Min

\* pick_remote_db_query_id always finds an id other than the target's up to the
\* players' highest, so its closing fallback is never reached: one of the players'
\* range, or 0 where a CDJ went under it.
THEOREM QueryIdIsAnswered ==
  ASSUME NEW target \in Nat, NEW cdjs \in SUBSET Nat
  PROVE  /\ PickRemoteDbQueryId(target, cdjs) \in (0 .. MaxPlayer) \ {target}
         /\ PickRemoteDbQueryId(target, cdjs) = 0 => 0 \in cdjs
<1> DEFINE players == {id \in cdjs : id <= MaxPlayer}
           others == players \ {target}
           absent == {id \in 1 .. MaxPlayer : id # target /\ id \notin players}
<1>0. /\ players \in SUBSET Nat /\ MaxPlayer \in Nat
      /\ \A id \in players : id \in cdjs /\ id <= MaxPlayer
  BY IdsTyped
<1> HIDE DEF players
<1>1. others \in SUBSET Nat /\ absent \in SUBSET Nat
  BY <1>0
<1>2. others = {} => absent # {}
  <2>1. 1 \in 1 .. MaxPlayer /\ 2 \in 1 .. MaxPlayer
    BY IdsTyped
  <2>2. others = {} => (1 # target => 1 \in absent) /\ (2 # target => 2 \in absent)
    BY <2>1
  <2> QED BY <2>1, <2>2
<1>3. others # {} => Min(others) \in others
  BY <1>1, MinIsLeast
<1>4. absent # {} => Min(absent) \in absent
  BY <1>1, MinIsLeast
<1>5. PickRemoteDbQueryId(target, cdjs) =
        IF others # {} THEN Min(others)
        ELSE IF absent # {} THEN Min(absent) ELSE target
  BY DEF PickRemoteDbQueryId, players
<1> HIDE DEF PickRemoteDbQueryId
<1>6. /\ others \subseteq (0 .. MaxPlayer) \ {target} /\ others \subseteq cdjs
      /\ absent \subseteq (0 .. MaxPlayer) \ {target} /\ 0 \notin absent
  BY <1>0
<1> HIDE DEF others, absent
<1> QED BY <1>2, <1>3, <1>4, <1>5, <1>6

-----------------------------------------------------------------------------
(* The invariant.                                                           *)

Interface == {"ready", "wait", "write", "read"}
\* The ids a request may go under.
QueryIds == 0 .. MaxPlayer

\* Requests carry the id of their connection, which is that of a player, or 0 where
\* that was announced.
GoodConns ==
    {c \in ConnType :
       /\ c.id \in QueryIds \cup {None}
       /\ c.id = 0 => c.zero
       /\ c.sent # <<>> => c.id \in QueryIds
       /\ \A k \in DOMAIN c.sent : c.sent[k].id = c.id}

\* Whoever waits for an item has not had all of them.
GoodClients ==
    {p \in ClientType :
       /\ p.step \notin {"idle", "find", "connect", "inserted"} => p.conn \in Conns
       /\ p.step = "write" => p.expect \in {"data", "success", "header"}
       /\ p.step \in {"write", "read"} =>
            /\ p.expect \in {"data", "success", "header", "item", "footer"}
            /\ p.expect \in {"header", "item"} => p.items < p.total
            /\ p.expect = "footer" => p.items <= p.total
            /\ p.expect = "success" => p.items = 0}

Held(c) == c = table \/ \E p \in Clients : clients[p].conn = c

IInv ==
    /\ lock \in Clients \cup {None} /\ table \in Conns \cup {None}
    /\ conns \in [Conns -> GoodConns]
    /\ clients \in [Clients -> GoodClients]
    /\ \A c \in Conns : Held(c) => conns[c].id \in QueryIds
    /\ \A p \in Clients :
         clients[p].step \in Interface => clients[p].id = Conn(p).id
    /\ QueriesAreSerialised

-----------------------------------------------------------------------------
(* The constants and the values the clients and connections start from.     *)

LEMMA QueryIdsAreIds ==
  QueryIds \subseteq AnnouncedIds /\ None \notin AnnouncedIds
BY IdsTyped, NoneIsNoNumber DEF QueryIds, AnnouncedIds

LEMMA ClosedIsGood == Closed \in GoodConns
BY NoneIsNoNumber DEF Closed, GoodConns, ConnType

\* What a connection goes under is settled.
LEMMA SameRequestsAreGood ==
  ASSUME NEW r \in GoodConns, NEW w \in ConnType,
         w.id = r.id, w.zero = r.zero, w.sent = r.sent
  PROVE  w \in GoodConns
BY DEF GoodConns

LEMMA IdleIsGood == IdleClient \in GoodClients
BY DEF IdleClient, GoodClients, ClientType, Steps

LEMMA ReadyIsGood ==
  ASSUME IInv, NEW p \in Clients, clients[p].conn \in Conns
  PROVE  Ready(p) \in GoodClients
<1>1. clients[p] \in ClientType
  BY DEF IInv, GoodClients
<1> QED BY <1>1 DEF Ready, IdleClient, GoodClients, ClientType, Steps

\* The id a connection introduces itself with is one that players answer, or 0 if
\* the virtual CDJ or a CDJ goes under it.
LEMMA IntroducedId ==
  ASSUME NEW host \in HostIds, NEW cdjs \in Rigs
  PROVE  /\ QueryIdFor(host, cdjs) \in QueryIds
         /\ QueryIdFor(host, cdjs) = 0 => 0 \in cdjs \cup {host}
<1>1. host \in Nat /\ cdjs \in SUBSET Nat /\ Target \in Nat
  BY PlayersTyped, TargetTyped, IdsTyped DEF AnnouncedIds
<1>2. CASE host <= MaxPlayer
  BY <1>1, <1>2, IdsTyped DEF QueryIdFor, QueryIds
<1>3. CASE ~(host <= MaxPlayer)
  BY <1>1, <1>3, QueryIdIsAnswered DEF QueryIdFor, QueryIds
<1> QED BY <1>2, <1>3

THEOREM Initial == Init => IInv
<1> SUFFICES ASSUME Init PROVE IInv
  OBVIOUS
<1>1. conns \in [Conns -> GoodConns] /\ clients \in [Clients -> GoodClients]
  BY ClosedIsGood, IdleIsGood DEF Init
<1>2. \A c \in Conns : ~Held(c)
  BY NoneIsNoOne DEF Init, Held, IdleClient
<1>3. \A p \in Clients : clients[p].step = "idle"
  BY DEF Init, IdleClient
<1>4. QueriesAreSerialised
  BY <1>3 DEF QueriesAreSerialised, Querying
<1>5. \A p \in Clients :
        clients[p].step \in Interface => clients[p].id = Conn(p).id
  BY <1>3 DEF Interface
<1> QED BY <1>1, <1>2, <1>4, <1>5 DEF Init, IInv

-----------------------------------------------------------------------------
(* What all steps of a client have in common.                               *)

\* One client moves on with what it or the table held, the connections that
\* are still held keep their id, and nobody else's lock is taken away.
LEMMA ClientMoves ==
  ASSUME IInv, NEW p \in Clients, NEW m \in GoodClients,
         clients' = [clients EXCEPT ![p] = m],
         m.conn \in {None, clients[p].conn, table},
         table' \in {None, clients[p].conn, table},
         lock' \in Clients \cup {None},
         conns' \in [Conns -> GoodConns],
         \A c \in Conns : Held(c)' => conns'[c].id = conns[c].id,
         m.step \in Interface => m.id = conns[m.conn].id,
         \A q \in Clients : q # p /\ lock = q => lock' = q,
         m.step \in {"write", "read"} => lock' = p
  PROVE  IInv'
<1>0. /\ clients \in [Clients -> GoodClients] /\ table \in Conns \cup {None}
      /\ \A q \in Clients : clients[q] \in ClientType
  BY DEF IInv, GoodClients
<1>1. clients' \in [Clients -> GoodClients]
  BY <1>0
<1>2. clients'[p] = m /\ \A q \in Clients : q # p => clients'[q] = clients[q]
  BY <1>0
<1>3. table' \in Conns \cup {None}
  BY <1>0 DEF ClientType
<1>4. ASSUME NEW c \in Conns, Held(c)' PROVE conns'[c].id \in QueryIds
  <2>1. Held(c)
    BY <1>2, <1>4, NoneIsNoOne DEF Held
  <2> QED BY <1>4, <2>1 DEF IInv
<1>5. ASSUME NEW q \in Clients, clients'[q].step \in Interface
      PROVE  clients'[q].id = Conn(q)'.id
  <2>1. clients'[q].conn \in Conns
    BY <1>1, <1>5 DEF GoodClients, Interface
  <2>2. PICK c \in Conns : clients'[q].conn = c
    BY <2>1
  <2>3. conns'[c].id = conns[c].id
    BY <2>2 DEF Held
  <2>4. clients'[q].id = conns[clients'[q].conn].id
    <3>1. CASE q = p
      BY <1>2, <1>5, <3>1
    <3>2. CASE q # p
      BY <1>2, <1>5, <3>2 DEF IInv, Conn
    <3> QED BY <3>1, <3>2
  <2> QED BY <2>2, <2>3, <2>4 DEF Conn
<1>6. QueriesAreSerialised'
  <2> SUFFICES ASSUME NEW q \in Clients, Querying(q)' PROVE lock' = q
    BY DEF QueriesAreSerialised
  <2>1. CASE q = p
    BY <1>2, <2>1 DEF Querying
  <2>2. CASE q # p
    BY <1>2, <2>2 DEF Querying, QueriesAreSerialised, IInv
  <2> QED BY <2>1, <2>2
<1> QED BY <1>1, <1>3, <1>4, <1>5, <1>6 DEF IInv

\* Closing what nobody holds.
LEMMA Sweeps ==
  ASSUME NEW new \in [Conns -> GoodConns], Sweep(new)
  PROVE  /\ conns' \in [Conns -> GoodConns]
         /\ \A c \in Conns : Held(c)' => conns'[c] = new[c]
BY ClosedIsGood DEF Sweep, Held

\* The lock of another client stays with it.
LEMMA Unlocks ==
  ASSUME IInv, NEW p \in Clients, Unlock(p)
  PROVE  /\ lock' \in Clients \cup {None}
         /\ \A q \in Clients : q # p /\ lock = q => lock' = q
BY DEF Unlock, IInv

\* A client that takes up the stored connection.
LEMMA TakesStored ==
  ASSUME IInv, table # None
  PROVE  /\ [IdleClient EXCEPT !.step = "ready", !.conn = table,
                               !.id = conns[table].id] \in GoodClients
         /\ table \in Conns /\ conns[table].id \in QueryIds
<1>1. table \in Conns /\ conns[table].id \in QueryIds
  BY DEF IInv, Held
<1> DEFINE i == conns[table].id
<1>2. i \in AnnouncedIds
  BY <1>1, QueryIdsAreIds
<1> HIDE DEF i
<1>3. [IdleClient EXCEPT !.step = "ready", !.conn = table, !.id = i] \in GoodClients
  BY <1>1, <1>2 DEF IdleClient, GoodClients, ClientType, Steps
<1> QED BY <1>1, <1>3 DEF i

-----------------------------------------------------------------------------
(* get, connect and disconnect.                                             *)

\* A step of a client that changes no connection and no lock.
LEMMA OnlyStep ==
  ASSUME IInv, NEW p \in Clients, NEW step \in Steps, Goes(p, step),
         UNCHANGED <<lock, table, conns>>,
         [clients[p] EXCEPT !.step = step] \in GoodClients,
         step \in Interface => clients[p].step \in Interface,
         step \in {"write", "read"} => Querying(p)
  PROVE  IInv'
<1> DEFINE m == [clients[p] EXCEPT !.step = step]
<1>1. clients[p] \in ClientType
  BY DEF IInv, GoodClients
<1>2. m.conn = clients[p].conn /\ m.id = clients[p].id /\ m.step = step
  BY <1>1 DEF ClientType
<1>3. clients' = [clients EXCEPT ![p] = m]
  BY DEF Goes, IInv
<1>4. m \in GoodClients
  OBVIOUS
<1> HIDE DEF m
<1>5. m.step \in Interface => m.id = conns[m.conn].id
  BY <1>2 DEF IInv, Conn
<1>6. m.step \in {"write", "read"} => lock' = p
  BY <1>2 DEF IInv, QueriesAreSerialised
<1> QED BY <1>2, <1>3, <1>4, <1>5, <1>6, ClientMoves DEF IInv

LEMMA StepTyped ==
  ASSUME IInv, NEW p \in Clients, NEW step \in Steps,
         step \in {"idle", "find", "connect", "inserted", "wait"},
         step = "wait" => clients[p].conn \in Conns
  PROVE  [clients[p] EXCEPT !.step = step] \in GoodClients
<1>1. clients[p] \in ClientType
  BY DEF IInv, GoodClients
<1> QED BY <1>1 DEF GoodClients, ClientType

LEMMA Calls ==
  ASSUME IInv, NEW p \in Clients, CallGet(p) \/ CallConnect(p)
  PROVE  IInv'
<1>1. CASE CallGet(p)
  BY <1>1, StepTyped, OnlyStep DEF CallGet, Steps, Interface
<1>2. CASE CallConnect(p)
  BY <1>2, StepTyped, OnlyStep DEF CallConnect, Steps, Interface
<1> QED BY <1>1, <1>2

LEMMA FindStep ==
  ASSUME IInv, NEW p \in Clients, Find(p)
  PROVE  IInv'
<1>0. clients[p] \in ClientType /\ clients \in [Clients -> GoodClients]
  BY DEF IInv, GoodClients
<1>1. CASE table # None
  <2> DEFINE m == [IdleClient EXCEPT !.step = "ready", !.conn = table,
                                     !.id = conns[table].id]
  <2>1. clients' = [clients EXCEPT ![p] = m] /\ UNCHANGED <<lock, table, conns>>
    BY <1>1 DEF Find, Becomes
  <2>2. m.conn = table /\ m.id = conns[table].id /\ m.step = "ready"
    BY DEF IdleClient
  <2>3. m \in GoodClients
    BY <1>1, TakesStored
  <2> HIDE DEF m
  <2>4. lock' \in Clients \cup {None} /\ conns' \in [Conns -> GoodConns]
    BY <2>1 DEF IInv
  <2> QED BY <2>1, <2>2, <2>3, <2>4, ClientMoves
<1>2. CASE table = None
  <2> DEFINE m == [clients[p] EXCEPT !.step = "connect"]
  <2>1. clients' = [clients EXCEPT ![p] = m] /\ UNCHANGED <<table, conns>>
    BY <1>0, <1>2 DEF Find, Goes
  <2>2. m.conn = clients[p].conn /\ m.step = "connect"
    BY <1>0 DEF ClientType
  <2>3. m \in GoodClients
    BY StepTyped DEF Steps
  <2> HIDE DEF m
  <2>4. lock = None /\ lock' = p
    BY <1>2 DEF Find
  <2>5. \A q \in Clients : q # p /\ lock = q => lock' = q
    BY <2>4, NoneIsNoOne
  <2>6. conns' \in [Conns -> GoodConns]
    BY <2>1 DEF IInv
  <2> QED BY <2>1, <2>2, <2>3, <2>4, <2>5, <2>6, ClientMoves DEF Interface
<1> QED BY <1>1, <1>2

LEMMA IntroduceStep ==
  ASSUME IInv, NEW p \in Clients, Introduce(p)
  PROVE  IInv'
<1>1. PICK c \in Conns, host \in HostIds, cdjs \in Rigs :
        /\ c # table /\ \A q \in Clients : clients[q].conn # c
        /\ conns' = [conns EXCEPT ![c] =
             [Closed EXCEPT !.id = QueryIdFor(host, cdjs),
                            !.zero = 0 \in cdjs \cup {host}]]
        /\ clients' = [clients EXCEPT ![p].step = "intro", ![p].conn = c]
  BY DEF Introduce
<1> DEFINE i == QueryIdFor(host, cdjs)
           zero == 0 \in cdjs \cup {host}
           r == [Closed EXCEPT !.id = i, !.zero = zero]
           m == [clients[p] EXCEPT !.step = "intro", !.conn = c]
<1>2. i \in QueryIds /\ i \in AnnouncedIds /\ zero \in BOOLEAN /\ (i = 0 => zero)
  BY IntroducedId, QueryIdsAreIds
<1> HIDE DEF i, zero
<1>3. r \in GoodConns /\ r.id = i
  <2>1. Closed \in ConnType /\ Closed.sent = <<>>
    BY ClosedIsGood DEF GoodConns, Closed
  <2>2. r \in ConnType /\ r.id = i /\ r.zero = zero /\ r.sent = Closed.sent
    BY <1>2, <2>1 DEF ConnType
  <2> HIDE DEF r
  <2> QED BY <1>2, <2>1, <2>2 DEF GoodConns
<1>4. clients[p] \in ClientType /\ clients \in [Clients -> GoodClients]
  BY DEF IInv, GoodClients
<1>5. m \in GoodClients /\ m.step = "intro" /\ m.conn = c
  BY <1>4 DEF GoodClients, ClientType, Steps
<1>6. clients' = [clients EXCEPT ![p] = m]
  BY <1>1, <1>4
<1>7. conns' = [conns EXCEPT ![c] = r]
  BY <1>1 DEF i, zero
<1> HIDE DEF r, m
<1>8. /\ conns' \in [Conns -> GoodConns] /\ clients' \in [Clients -> GoodClients]
      /\ conns'[c].id = i /\ \A d \in Conns : d # c => conns'[d] = conns[d]
      /\ clients'[p] = m /\ \A q \in Clients : q # p => clients'[q] = clients[q]
  BY <1>3, <1>4, <1>5, <1>6, <1>7 DEF IInv
<1>9. table' = table /\ lock' = lock
  BY DEF Introduce
<1>10. ASSUME NEW d \in Conns, Held(d)' PROVE conns'[d].id \in QueryIds
  <2>1. CASE d = c
    BY <1>2, <1>8, <2>1
  <2>2. CASE d # c
    <3>1. Held(d)
      BY <1>5, <1>8, <1>9, <1>10, <2>2 DEF Held
    <3> QED BY <1>8, <2>2, <3>1 DEF IInv
  <2> QED BY <2>1, <2>2
<1>11. ASSUME NEW q \in Clients, clients'[q].step \in Interface
       PROVE  clients'[q].id = Conn(q)'.id
  <2>1. q # p /\ clients'[q] = clients[q]
    BY <1>5, <1>8, <1>11 DEF Interface
  <2>2. clients[q].conn \in Conns /\ clients[q].conn # c
    BY <1>1, <1>11, <2>1 DEF IInv, GoodClients, Interface
  <2> QED BY <1>8, <1>11, <2>1, <2>2 DEF IInv, Conn
<1>12. QueriesAreSerialised'
  BY <1>5, <1>8, <1>9 DEF IInv, QueriesAreSerialised, Querying
<1> QED BY <1>8, <1>9, <1>10, <1>11, <1>12 DEF IInv

\* A client that lets go of everything.
LEMMA Leaves ==
  ASSUME IInv, NEW p \in Clients, Becomes(p, IdleClient),
         lock' \in Clients \cup {None},
         \A q \in Clients : q # p /\ lock = q => lock' = q,
         table' \in {None, clients[p].conn, table},
         conns' \in [Conns -> GoodConns],
         \A c \in Conns : Held(c)' => conns'[c].id = conns[c].id
  PROVE  IInv'
<1>1. IdleClient.conn = None /\ IdleClient.step = "idle"
  BY DEF IdleClient
<1> QED BY <1>1, IdleIsGood, ClientMoves DEF Becomes, Interface

LEMMA InsertStep ==
  ASSUME IInv, NEW p \in Clients, Insert(p)
  PROVE  IInv'
<1> DEFINE c == clients[p].conn
           r == [conns[c] EXCEPT !.open = TRUE]
           new == [conns EXCEPT ![c] = r]
           m == [IdleClient EXCEPT !.step = "inserted"]
<1>1. c \in Conns /\ conns \in [Conns -> GoodConns]
  BY DEF IInv, GoodClients, Insert, At
<1>2. r \in GoodConns /\ r.id = conns[c].id
  <2>1. conns[c] \in GoodConns /\ conns[c] \in ConnType
    BY <1>1 DEF GoodConns
  <2>2. r \in ConnType /\ r.id = conns[c].id /\ r.zero = conns[c].zero
        /\ r.sent = conns[c].sent
    BY <2>1 DEF ConnType
  <2> QED BY <2>1, <2>2, SameRequestsAreGood
<1>3. Sweep(new)
  BY <1>1 DEF Insert
<1> HIDE DEF r
<1>4. new \in [Conns -> GoodConns] /\ \A d \in Conns : new[d].id = conns[d].id
  BY <1>1, <1>2
<1> HIDE DEF new
<1>5. /\ conns' \in [Conns -> GoodConns]
      /\ \A d \in Conns : Held(d)' => conns'[d].id = conns[d].id
  BY <1>3, <1>4, Sweeps
<1>6. table' = clients[p].conn /\ lock' = lock /\ lock \in Clients \cup {None}
  BY DEF Insert, IInv
<1>7. CASE lock # p
  <2>1. Becomes(p, IdleClient)
    BY <1>7 DEF Insert
  <2> QED BY <1>5, <1>6, <2>1, Leaves
<1>8. CASE lock = p
  <2>1. clients' = [clients EXCEPT ![p] = m]
    BY <1>8 DEF Insert, Becomes
  <2>2. m \in GoodClients /\ m.conn = None /\ m.step = "inserted"
    BY DEF IdleClient, GoodClients, ClientType, Steps
  <2> HIDE DEF m
  <2> QED BY <1>5, <1>6, <2>1, <2>2, ClientMoves DEF Interface
<1> QED BY <1>7, <1>8

LEMMA FindAgainStep ==
  ASSUME IInv, NEW p \in Clients, FindAgain(p)
  PROVE  IInv'
<1>1. UNCHANGED <<table, conns>> /\ Unlock(p) /\ conns \in [Conns -> GoodConns]
  BY DEF FindAgain, IInv
<1>2. CASE table = None
  <2>1. Becomes(p, IdleClient)
    BY <1>2 DEF FindAgain
  <2> QED BY <1>1, <2>1, Leaves, Unlocks
<1>3. CASE table # None
  <2> DEFINE m == [IdleClient EXCEPT !.step = "ready", !.conn = table,
                                     !.id = conns[table].id]
  <2>1. clients' = [clients EXCEPT ![p] = m]
    BY <1>3 DEF FindAgain, Becomes
  <2>2. m.conn = table /\ m.id = conns[table].id /\ m.step = "ready"
    BY DEF IdleClient
  <2>3. m \in GoodClients
    BY <1>3, TakesStored
  <2> HIDE DEF m
  <2> QED BY <1>1, <2>1, <2>2, <2>3, ClientMoves, Unlocks
<1> QED BY <1>2, <1>3

LEMMA ConnectFailsStep ==
  ASSUME IInv, NEW p \in Clients, ConnectFails(p)
  PROVE  IInv'
<1>1. conns \in [Conns -> GoodConns] /\ Sweep(conns)
  BY DEF ConnectFails, IInv
<1>2. Becomes(p, IdleClient) /\ Unlock(p) /\ table' = table
  BY DEF ConnectFails
<1> QED BY <1>1, <1>2, Sweeps, Unlocks, Leaves

LEMMA DropAndForget ==
  ASSUME IInv, NEW p \in Clients, Drop(p) \/ Forget(p)
  PROVE  IInv'
<1>1. conns \in [Conns -> GoodConns] /\ Sweep(conns) /\ lock' = lock
  BY DEF Drop, Forget, IInv
<1>2. CASE Drop(p)
  BY <1>1, <1>2, Sweeps, Leaves DEF Drop, IInv
<1>3. CASE Forget(p)
  <2>1. clients' = clients /\ clients \in [Clients -> GoodClients] /\ table' = None
    BY <1>3 DEF Forget, IInv
  <2>2. clients[p].step = "idle" /\ clients' = [clients EXCEPT ![p] = clients[p]]
    BY <1>3, <2>1 DEF Forget, At
  <2>3. clients[p] \in GoodClients /\ lock \in Clients \cup {None}
    BY DEF IInv
  <2>4. /\ conns' \in [Conns -> GoodConns]
        /\ \A c \in Conns : Held(c)' => conns'[c].id = conns[c].id
    BY <1>1, Sweeps
  <2> QED BY <1>1, <2>1, <2>2, <2>3, <2>4, ClientMoves DEF Interface
<1> QED BY <1>2, <1>3

\* One connection changes and keeps its id.
LEMMA Replaces ==
  ASSUME IInv, NEW c \in Conns, NEW r \in GoodConns, r.id = conns[c].id,
         conns' = [conns EXCEPT ![c] = r]
  PROVE  /\ conns' \in [Conns -> GoodConns]
         /\ \A d \in Conns : conns'[d].id = conns[d].id
BY DEF IInv

\* A request is written under the id of the connection.
LEMMA Writes ==
  ASSUME NEW r \in GoodConns, r.id \in QueryIds, NEW q \in Requests, q.id = r.id
  PROVE  Sent(r, q) \in GoodConns /\ Sent(r, q).id = r.id
<1> DEFINE sent == IF r.open THEN Append(r.sent, q) ELSE r.sent
           w == [r EXCEPT !.tx = r.tx + 1]
<1>1. r \in ConnType /\ r.sent \in Seq(Requests) /\ r.tx + 1 \in Nat
  BY DEF GoodConns, ConnType
<1>2. \A k \in DOMAIN r.sent : r.sent[k].id = r.id
  BY DEF GoodConns
<1>3. sent \in Seq(Requests) /\ \A k \in DOMAIN sent : sent[k].id = r.id
  BY <1>1, <1>2
<1>4. w \in ConnType /\ w.id = r.id /\ w.zero = r.zero
  BY <1>1 DEF ConnType
<1>5. Sent(r, q) = [w EXCEPT !.sent = sent]
  BY DEF Sent
<1> HIDE DEF w, sent
<1>6. /\ Sent(r, q) \in ConnType /\ Sent(r, q).id = r.id
      /\ Sent(r, q).zero = r.zero /\ Sent(r, q).sent = sent
  BY <1>3, <1>4, <1>5 DEF ConnType
<1> QED BY <1>3, <1>6 DEF GoodConns

LEMMA DisconnectSteps ==
  ASSUME IInv, NEW p \in Clients, CallDisconnect(p) \/ DisconnectStep(p)
  PROVE  IInv'
<1> DEFINE c == clients[p].conn
<1>0. /\ conns \in [Conns -> GoodConns] /\ clients \in [Clients -> GoodClients]
      /\ clients[p] \in ClientType /\ lock \in Clients \cup {None}
  BY DEF IInv, GoodClients
<1>1. CASE CallDisconnect(p)
  <2> DEFINE m == [IdleClient EXCEPT !.step = "goodbye", !.conn = table]
  <2>1. table \in Conns
    BY <1>1 DEF CallDisconnect, IInv
  <2>2. m \in GoodClients /\ m.conn = table /\ m.step = "goodbye"
    BY <2>1 DEF IdleClient, GoodClients, ClientType, Steps
  <2>3. clients' = [clients EXCEPT ![p] = m] /\ table' = None
    BY <1>1 DEF CallDisconnect, Becomes
  <2>4. UNCHANGED <<lock, conns>>
    BY <1>1 DEF CallDisconnect
  <2> HIDE DEF m
  <2> QED BY <1>0, <2>2, <2>3, <2>4, ClientMoves DEF Interface
<1>2. CASE Goodbye(p)
  <2> DEFINE q == [type |-> "goodbye", tx |-> Conn(p).tx + 1, id |-> Conn(p).id,
                   from |-> 0, count |-> 0]
             r == Sent(conns[c], q)
             m == [clients[p] EXCEPT !.step = "shut"]
  <2>1. c \in Conns /\ conns[c].id \in QueryIds /\ conns[c] \in GoodConns
    BY <1>0, <1>2 DEF IInv, GoodClients, Goodbye, At, Held
  <2>2. q \in Requests /\ q.id = conns[c].id
    <3>1. conns[c].tx \in Nat /\ conns[c].id \in AnnouncedIds
      BY <2>1, QueryIdsAreIds DEF GoodConns, ConnType
    <3> QED BY <3>1 DEF Requests, Conn
  <2>4. conns' = [conns EXCEPT ![c] = r]
    BY <1>2 DEF Goodbye, Conn
  <2> HIDE DEF q
  <2>3. r \in GoodConns /\ r.id = conns[c].id
    BY <2>1, <2>2, Writes
  <2> HIDE DEF r
  <2>5. /\ conns' \in [Conns -> GoodConns]
        /\ \A d \in Conns : conns'[d].id = conns[d].id
    BY <2>1, <2>3, <2>4, Replaces
  <2>6. m \in GoodClients /\ m.conn = c /\ m.step = "shut"
    BY <1>0, <2>1 DEF GoodClients, ClientType, Steps
  <2>7. clients' = [clients EXCEPT ![p] = m] /\ UNCHANGED <<lock, table>>
    BY <1>0, <1>2 DEF Goodbye, Goes
  <2> HIDE DEF m
  <2> QED BY <1>0, <2>5, <2>6, <2>7, ClientMoves DEF Interface
<1>3. CASE Shut(p)
  <2> DEFINE r == [conns[c] EXCEPT !.shut = TRUE]
             new == [conns EXCEPT ![c] = r]
  <2>1. c \in Conns
    BY <1>0, <1>3 DEF GoodClients, Shut, At
  <2>2. r \in GoodConns /\ r.id = conns[c].id
    <3>1. conns[c] \in GoodConns /\ conns[c] \in ConnType
      BY <1>0, <2>1 DEF GoodConns
    <3>2. r \in ConnType /\ r.id = conns[c].id /\ r.zero = conns[c].zero
          /\ r.sent = conns[c].sent
      BY <3>1 DEF ConnType
    <3> QED BY <3>1, <3>2, SameRequestsAreGood
  <2>3. Sweep(new) /\ Becomes(p, IdleClient) /\ UNCHANGED <<lock, table>>
    BY <1>3, <2>1 DEF Shut
  <2> HIDE DEF r
  <2>4. new \in [Conns -> GoodConns] /\ \A d \in Conns : new[d].id = conns[d].id
    BY <1>0, <2>1, <2>2
  <2> HIDE DEF new
  <2>5. /\ conns' \in [Conns -> GoodConns]
        /\ \A d \in Conns : Held(d)' => conns'[d].id = conns[d].id
    BY <2>3, <2>4, Sweeps
  <2> QED BY <1>0, <2>3, <2>5, Leaves
<1> QED BY <1>1, <1>2, <1>3 DEF DisconnectStep

-----------------------------------------------------------------------------
(* A query.                                                                 *)

LEMMA Waits ==
  ASSUME IInv, NEW p \in Clients, StartQuery(p)
  PROVE  IInv'
<1>1. clients[p].conn \in Conns
  BY DEF IInv, GoodClients, StartQuery, At
<1> QED BY <1>1, StepTyped, OnlyStep DEF StartQuery, Steps, Interface, At

LEMMA TakeLockStep ==
  ASSUME IInv, NEW p \in Clients, TakeLock(p)
  PROVE  IInv'
<1>1. PICK expect \in {"data", "success"} :
        Becomes(p, [Ready(p) EXCEPT !.step = "write", !.expect = expect])
  BY DEF TakeLock
<1> DEFINE m == [Ready(p) EXCEPT !.step = "write", !.expect = expect]
<1>2. clients[p].conn \in Conns /\ clients[p] \in ClientType
  BY DEF IInv, GoodClients, TakeLock, At
<1>3. /\ m \in GoodClients /\ m.step = "write"
      /\ m.conn = clients[p].conn /\ m.id = clients[p].id
  BY <1>2 DEF Ready, IdleClient, GoodClients, ClientType, Steps, ResponseTypes
<1>4. clients' = [clients EXCEPT ![p] = m] /\ UNCHANGED <<table, conns>>
  BY <1>1 DEF Becomes, TakeLock
<1> HIDE DEF m
<1>5. lock = None /\ lock' = p /\ \A q \in Clients : q # p /\ lock = q => lock' = q
  BY NoneIsNoOne DEF TakeLock
<1>6. clients[p].id = conns[clients[p].conn].id /\ conns \in [Conns -> GoodConns]
  BY DEF TakeLock, At, IInv, Interface, Conn
<1> QED BY <1>3, <1>4, <1>5, <1>6, ClientMoves

\* What is asked for is well formed: a page is not asked for beyond the menu.
LEMMA RequestTyped ==
  ASSUME IInv, NEW p \in Clients, At(p, "write")
  PROVE  Request(p) \in Requests /\ Request(p).id = Conn(p).id
<1>1. /\ clients[p] \in GoodClients /\ clients[p] \in ClientType
      /\ clients[p].conn \in Conns /\ clients[p].id = Conn(p).id
  BY DEF IInv, GoodClients, At, Interface
<1>2. Conn(p).tx \in Nat /\ Conn(p).id \in AnnouncedIds
  <2>1. Conn(p).id \in QueryIds
    BY <1>1 DEF IInv, Held, Conn
  <2> QED BY <1>1, <2>1, QueryIdsAreIds DEF IInv, GoodConns, ConnType, Conn
<1> DEFINE new == [type |-> "data", tx |-> Conn(p).tx + 1, id |-> clients[p].id,
                   from |-> 0, count |-> 0]
<1>3. new \in Requests /\ new.id = Conn(p).id
  BY <1>1, <1>2 DEF Requests
<1>4. CASE clients[p].expect = "data"
  <2>1. Request(p) = new
    BY <1>4 DEF Request
  <2> QED BY <1>3, <2>1
<1>5. CASE clients[p].expect = "success"
  <2>1. Request(p) = [new EXCEPT !.type = "menu"]
    BY <1>5 DEF Request
  <2> HIDE DEF new
  <2> QED BY <1>3, <2>1 DEF Requests
<1>6. CASE clients[p].expect \notin {"data", "success"}
  <2>1. Request(p) = [new EXCEPT !.type = "render", !.from = clients[p].items,
                                 !.count = PageSize(p)]
    BY <1>6 DEF Request
  <2>2. clients[p].items \in Nat
    BY <1>1 DEF ClientType
  <2>3. PageSize(p) \in Nat
    <3>1. /\ clients[p].items \in Nat /\ clients[p].total \in Nat
          /\ clients[p].items < clients[p].total
      BY <1>1, <1>6 DEF GoodClients, ClientType, At
    <3> QED BY <3>1, PagesTyped DEF PageSize
  <2> HIDE DEF new
  <2> QED BY <1>3, <2>1, <2>2, <2>3 DEF Requests
<1> QED BY <1>4, <1>5, <1>6

LEMMA WriteStep ==
  ASSUME IInv, NEW p \in Clients, Write(p)
  PROVE  IInv'
<1> DEFINE c == clients[p].conn
           q == Request(p)
           r == Sent(conns[c], q)
           tx == conns[c].tx + 1
           m == [clients[p] EXCEPT !.step = "read", !.tx = tx]
<1>1. /\ conns \in [Conns -> GoodConns] /\ clients \in [Clients -> GoodClients]
      /\ clients[p] \in ClientType /\ lock \in Clients \cup {None} /\ lock = p
  BY DEF IInv, GoodClients, QueriesAreSerialised, Querying, Write, At
<1>2. /\ c \in Conns /\ conns[c] \in GoodConns /\ conns[c].id \in QueryIds
      /\ conns[c].tx \in Nat /\ clients[p].id = conns[c].id
  BY <1>1 DEF IInv, GoodClients, GoodConns, ConnType, Write, At, Held, Conn, Interface
<1>3. q \in Requests /\ q.id = conns[c].id
  BY RequestTyped DEF Write, Conn
<1>4. conns' = [conns EXCEPT ![c] = r]
  BY DEF Write, Conn
<1>5. clients' = [clients EXCEPT ![p] = m] /\ UNCHANGED <<lock, table>>
  BY <1>1 DEF Write, Conn
<1> HIDE DEF q
<1>6. r \in GoodConns /\ r.id = conns[c].id
  BY <1>2, <1>3, Writes
<1> HIDE DEF r
<1>7. /\ conns' \in [Conns -> GoodConns]
      /\ \A d \in Conns : conns'[d].id = conns[d].id
  BY <1>2, <1>4, <1>6, Replaces
<1>8. m \in GoodClients /\ m.step = "read" /\ m.conn = c /\ m.id = clients[p].id
  <2>1. /\ m \in ClientType /\ m.step = "read" /\ m.conn = c
        /\ m.id = clients[p].id /\ m.expect = clients[p].expect
        /\ m.items = clients[p].items /\ m.total = clients[p].total
    <3>1. tx \in Nat
      BY <1>2
    <3> HIDE DEF tx
    <3> QED BY <1>1, <3>1 DEF ClientType, Steps
  <2>2. clients[p] \in GoodClients /\ clients[p].step = "write"
    BY <1>1 DEF Write, At
  <2> HIDE DEF m
  <2> QED BY <1>2, <2>1, <2>2 DEF GoodClients
<1> HIDE DEF m
<1> QED BY <1>1, <1>2, <1>5, <1>7, <1>8, ClientMoves

\* What a query does next is well formed: an item is waited for only where the
\* menu has one left.
LEMMA AfterTyped ==
  ASSUME IInv, NEW p \in Clients, At(p, "read"),
         NEW a \in Responses, a.type = clients[p].expect
  PROVE  /\ After(p, a) \in GoodClients
         /\ After(p, a).conn = clients[p].conn /\ After(p, a).id = clients[p].id
         /\ After(p, a).step \in {"ready", "write", "read"}
<1> DEFINE seen == ItemsSeen(p, a)
           total == MenuLength(p, a)
           step == NextStep(a)
           expect == NextExpected(p, a)
<1>1. /\ clients[p] \in GoodClients /\ clients[p] \in ClientType
      /\ clients[p].conn \in Conns /\ clients[p].items \in Nat
      /\ clients[p].total \in Nat /\ a.n \in Nat
  BY DEF IInv, GoodClients, ClientType, Responses, At
<1>2. /\ a.type \in {"data", "success", "header", "item", "footer"}
      /\ a.type \in {"header", "item"} => clients[p].items < clients[p].total
      /\ a.type = "footer" => clients[p].items <= clients[p].total
      /\ a.type = "success" => clients[p].items = 0
  BY <1>1 DEF GoodClients, At
<1>3. CASE QueryDone(p, a)
  <2>1. After(p, a) = Ready(p)
    BY <1>3 DEF After
  <2>2. /\ Ready(p).conn = clients[p].conn /\ Ready(p).id = clients[p].id
        /\ Ready(p).step = "ready"
    BY DEF Ready, IdleClient
  <2>3. Ready(p) \in GoodClients
    BY <1>1, ReadyIsGood
  <2> QED BY <2>1, <2>2, <2>3
<1>4. CASE ~QueryDone(p, a)
  <2> DEFINE m == [clients[p] EXCEPT !.items = seen, !.total = total,
                                     !.step = step, !.expect = expect]
  <2>1. After(p, a) = m
    BY <1>4 DEF After
  <2>2. seen \in Nat /\ total \in Nat
    BY <1>1 DEF ItemsSeen, MenuLength
  <2>3. expect \in {"header", "item"} => seen < total
    BY <1>1, <1>2, <1>4
       DEF QueryDone, ItemsSeen, MenuLength, NextExpected, FooterDue
  <2>4. expect = "footer" => seen <= total
    BY <1>1, <1>2 DEF ItemsSeen, MenuLength, NextExpected
  <2>5. /\ step \in {"write", "read"} /\ expect \in {"header", "item", "footer"}
        /\ step = "write" => expect = "header"
    BY DEF NextStep, NextExpected
  <2> HIDE DEF seen, total, step, expect
  <2>6. /\ m.conn = clients[p].conn /\ m.id = clients[p].id /\ m.step = step
        /\ m.expect = expect /\ m.items = seen /\ m.total = total
        /\ m \in ClientType
    BY <1>1, <2>2, <2>5 DEF ClientType, Steps, ResponseTypes
  <2> HIDE DEF m
  <2>7. m \in GoodClients
    BY <1>1, <2>3, <2>4, <2>5, <2>6 DEF GoodClients
  <2> QED BY <2>1, <2>5, <2>6, <2>7
<1> QED BY <1>3, <1>4

\* A response is consumed.
LEMMA Consumes ==
  ASSUME NEW r \in GoodConns, r.inbox # <<>>
  PROVE  /\ Head(r.inbox) \in Responses
         /\ [r EXCEPT !.inbox = Tail(r.inbox)] \in GoodConns
         /\ [r EXCEPT !.inbox = Tail(r.inbox)].id = r.id
<1> DEFINE inbox == Tail(r.inbox)
           w == [r EXCEPT !.inbox = inbox]
<1>1. r \in ConnType /\ r.inbox \in Seq(Responses)
  BY DEF GoodConns, ConnType
<1>2. Head(r.inbox) \in Responses /\ inbox \in Seq(Responses)
  BY <1>1
<1> HIDE DEF inbox
<1>3. w \in ConnType /\ w.id = r.id /\ w.zero = r.zero /\ w.sent = r.sent
  BY <1>1, <1>2 DEF ConnType
<1> HIDE DEF w
<1>4. w \in GoodConns
  BY <1>3, SameRequestsAreGood
<1> QED BY <1>2, <1>3, <1>4 DEF w, inbox

LEMMA ReadStep ==
  ASSUME IInv, NEW p \in Clients, Read(p)
  PROVE  IInv'
<1> DEFINE c == clients[p].conn
           a == Head(Conn(p).inbox)
           m == After(p, a)
           r == [conns[c] EXCEPT !.inbox = Tail(conns[c].inbox)]
<1>1. /\ conns \in [Conns -> GoodConns] /\ clients \in [Clients -> GoodClients]
      /\ lock \in Clients \cup {None} /\ lock = p /\ At(p, "read")
      /\ c \in Conns /\ clients[p].id = conns[c].id /\ Conn(p) = conns[c]
  BY DEF IInv, GoodClients, QueriesAreSerialised, Querying, Read, At, Interface, Conn
<1>2. a \in Responses /\ r \in GoodConns /\ r.id = conns[c].id
  BY <1>1, Consumes DEF Read
<1>3. a.type = clients[p].expect
  BY DEF Read
<1>4. conns' = [conns EXCEPT ![c] = r] /\ table' = table
  BY DEF Read
<1>5. clients' = [clients EXCEPT ![p] = m]
  BY DEF Read, Becomes
<1>6. lock' = IF m.step = "ready" THEN None ELSE lock
  BY DEF Read
<1> HIDE DEF a, r
<1>7. /\ conns' \in [Conns -> GoodConns]
      /\ \A d \in Conns : conns'[d].id = conns[d].id
  BY <1>1, <1>2, <1>4, Replaces
<1>8. /\ m \in GoodClients /\ m.conn = c /\ m.id = clients[p].id
      /\ m.step \in {"ready", "write", "read"}
  BY <1>1, <1>2, <1>3, AfterTyped
<1> HIDE DEF m
<1> QED BY <1>1, <1>4, <1>5, <1>6, <1>7, <1>8, ClientMoves

\* A query is over: its interface stays and its lock is free.
LEMMA Ends ==
  ASSUME IInv, NEW p \in Clients, clients[p].step \in Interface,
         Becomes(p, Ready(p)), table' = table,
         lock' \in Clients \cup {None},
         \A q \in Clients : q # p /\ lock = q => lock' = q,
         conns' \in [Conns -> GoodConns],
         \A c \in Conns : Held(c)' => conns'[c].id = conns[c].id
  PROVE  IInv'
<1>1. clients[p].conn \in Conns /\ clients[p].id = conns[clients[p].conn].id
  BY DEF IInv, GoodClients, Interface, Conn
<1>2. /\ Ready(p).conn = clients[p].conn /\ Ready(p).id = clients[p].id
      /\ Ready(p).step = "ready"
  BY DEF Ready, IdleClient
<1>3. Ready(p) \in GoodClients /\ clients' = [clients EXCEPT ![p] = Ready(p)]
  BY <1>1, ReadyIsGood DEF Becomes
<1> QED BY <1>1, <1>2, <1>3, ClientMoves

LEMMA QueryFailsStep ==
  ASSUME IInv, NEW p \in Clients, QueryFails(p)
  PROVE  IInv'
<1> DEFINE c == clients[p].conn
           r == [conns[c] EXCEPT !.inbox = Tail(conns[c].inbox)]
<1>1. /\ conns \in [Conns -> GoodConns] /\ clients \in [Clients -> GoodClients]
      /\ Querying(p) /\ lock = p /\ lock' = None
      /\ Becomes(p, Ready(p)) /\ table' = table
  BY DEF IInv, QueryFails, At, Querying, QueriesAreSerialised
<1>2. clients[p].step \in Interface /\ c \in Conns
  BY <1>1 DEF Querying, Interface, GoodClients
<1>3. /\ conns' \in [Conns -> GoodConns]
      /\ \A d \in Conns : conns'[d].id = conns[d].id
  <2>1. CASE UNCHANGED conns
    BY <1>1, <2>1
  <2>2. CASE /\ Conn(p).inbox # <<>>
             /\ conns' = [conns EXCEPT ![clients[p].conn].inbox = Tail(@)]
    <3>1. conns' = [conns EXCEPT ![c] = r] /\ conns[c].inbox # <<>>
      BY <2>2 DEF Conn
    <3>2. r \in GoodConns /\ r.id = conns[c].id
      BY <1>1, <1>2, <3>1, Consumes
    <3> HIDE DEF r
    <3> QED BY <1>2, <3>1, <3>2, Replaces
  <2> QED BY <2>1, <2>2 DEF QueryFails
<1> QED BY <1>1, <1>2, <1>3, Ends

LEMMA CancelStep ==
  ASSUME IInv, NEW p \in Clients, Cancel(p)
  PROVE  IInv'
<1> DEFINE c == clients[p].conn
<1>1. /\ conns \in [Conns -> GoodConns] /\ clients \in [Clients -> GoodClients]
      /\ Unlock(p) /\ table' = table
  BY DEF IInv, Cancel
<1>2. CASE Querying(p)
  <2>1. PICK g \in {Conn(p).garbled, TRUE} :
          conns' = [conns EXCEPT ![c] =
            [Conn(p) EXCEPT !.abandoned = TRUE, !.garbled = g,
                            !.inbox = IF g THEN <<>> ELSE @]]
    BY <1>2 DEF Cancel, Querying
  <2> DEFINE r == [conns[c] EXCEPT !.abandoned = TRUE, !.garbled = g,
                                   !.inbox = IF g THEN <<>> ELSE @]
  <2>2. c \in Conns /\ clients[p].step \in Interface /\ Becomes(p, Ready(p))
    BY <1>1, <1>2 DEF Cancel, Querying, Interface, GoodClients
  <2>3. g \in BOOLEAN
    BY <1>1, <2>2 DEF Conn, GoodConns, ConnType
  <2>4. conns' = [conns EXCEPT ![c] = r]
    BY <2>1 DEF Conn
  <2>5. r \in GoodConns /\ r.id = conns[c].id
    <3>1. conns[c] \in GoodConns /\ conns[c] \in ConnType
      BY <1>1, <2>2 DEF GoodConns
    <3>2. r \in ConnType /\ r.id = conns[c].id /\ r.zero = conns[c].zero
          /\ r.sent = conns[c].sent
      <4>1. conns[c].inbox \in Seq(Responses) /\ <<>> \in Seq(Responses)
        BY <3>1 DEF ConnType
      <4>2. (IF g THEN <<>> ELSE conns[c].inbox) \in Seq(Responses)
        BY <2>3, <4>1
      <4> QED BY <2>3, <3>1, <4>2 DEF ConnType
    <3> HIDE DEF r
    <3> QED BY <3>1, <3>2, SameRequestsAreGood
  <2> HIDE DEF r
  <2>6. /\ conns' \in [Conns -> GoodConns]
        /\ \A d \in Conns : conns'[d].id = conns[d].id
    BY <2>2, <2>4, <2>5, Replaces
  <2> QED BY <1>1, <2>2, <2>6, Ends, Unlocks
<1>3. CASE ~Querying(p)
  <2>1. Sweep(conns)
    BY <1>3 DEF Cancel, Querying
  <2>2. /\ conns' \in [Conns -> GoodConns]
        /\ \A d \in Conns : Held(d)' => conns'[d].id = conns[d].id
    BY <1>1, <2>1, Sweeps
  <2>3. CASE clients[p].step = "wait"
    <3>1. Becomes(p, Ready(p)) /\ clients[p].step \in Interface
      BY <2>3 DEF Cancel, Interface
    <3> QED BY <1>1, <2>2, <3>1, Ends, Unlocks
  <2>4. CASE clients[p].step # "wait"
    <3>1. Becomes(p, IdleClient)
      BY <1>3, <2>4 DEF Cancel, Querying
    <3> QED BY <1>1, <2>2, <3>1, Leaves, Unlocks
  <2> QED BY <2>3, <2>4
<1> QED BY <1>2, <1>3

-----------------------------------------------------------------------------
(* The player.                                                              *)

\* A reply is well typed whatever was asked for.
LEMMA ReplyTyped ==
  ASSUME NEW request \in Requests, NEW total \in Totals
  PROVE  Reply(request, total) \in Seq(Responses)
<1> DEFINE new == [type |-> "data", tx |-> request.tx, n |-> 0]
           header == [new EXCEPT !.type = "header"]
           footer == [new EXCEPT !.type = "footer"]
           items == [k \in 1 .. request.count |->
                       [new EXCEPT !.type = "item", !.n = request.from + k - 1]]
<1>1. /\ request.tx \in Nat /\ request.from \in Nat /\ request.count \in Nat
      /\ total \in Nat
  BY PagesTyped DEF Requests
<1>2. new \in Responses /\ header \in Responses /\ footer \in Responses
  BY <1>1 DEF Responses, ResponseTypes
<1>3. CASE request.type = "data"
  <2>1. Reply(request, total) = <<new>>
    BY <1>3 DEF Reply
  <2> QED BY <1>2, <2>1
<1>4. CASE request.type = "menu"
  <2>1. Reply(request, total) = <<[new EXCEPT !.type = "success", !.n = total]>>
    BY <1>4 DEF Reply
  <2>2. [new EXCEPT !.type = "success", !.n = total] \in Responses
    BY <1>1 DEF Responses, ResponseTypes
  <2> QED BY <2>1, <2>2
<1>5. CASE request.type \notin {"data", "menu"}
  <2>1. Reply(request, total) = <<header>> \o items \o <<footer>>
    BY <1>5 DEF Reply
  <2>2. items \in Seq(Responses)
    <3>1. ASSUME NEW k \in 1 .. request.count PROVE items[k] \in Responses
      <4>1. request.from + k - 1 \in Nat
        BY <1>1
      <4> QED BY <1>1, <4>1 DEF Responses, ResponseTypes
    <3> HIDE DEF new
    <3>2. items \in [1 .. request.count -> Responses]
      BY <3>1
    <3> HIDE DEF items
    <3> QED BY <1>1, <3>2, SeqDef
  <2> HIDE DEF new, header, footer, items
  <2> QED BY <1>2, <2>1, <2>2
<1> QED BY <1>3, <1>4, <1>5

\* The player changes its end of a connection only.
LEMMA PlayerMoves ==
  ASSUME IInv, NEW c \in Conns, NEW r \in GoodConns, r.id = conns[c].id,
         conns' = [conns EXCEPT ![c] = r], UNCHANGED <<lock, table, clients>>
  PROVE  IInv'
<1>1. /\ conns' \in [Conns -> GoodConns]
      /\ \A d \in Conns : conns'[d].id = conns[d].id
  BY Replaces
<1>2. \A d \in Conns : Held(d)' => conns'[d].id \in QueryIds
  BY <1>1 DEF IInv, Held
<1>3. ASSUME NEW p \in Clients, clients'[p].step \in Interface
      PROVE  clients'[p].id = Conn(p)'.id
  <2>1. clients[p].conn \in Conns
    BY <1>3 DEF IInv, GoodClients, Interface
  <2> QED BY <1>1, <1>3, <2>1 DEF IInv, Conn
<1>4. QueriesAreSerialised'
  BY DEF IInv, QueriesAreSerialised, Querying
<1> QED BY <1>1, <1>2, <1>3, <1>4 DEF IInv

\* A player that takes a request, or all of them, and says something.
LEMMA Takes ==
  ASSUME NEW r \in GoodConns, NEW open \in BOOLEAN, NEW sent,
         sent = <<>> \/ (r.sent # <<>> /\ sent = Tail(r.sent)),
         NEW inbox \in Seq(Responses)
  PROVE  /\ Handled(r, open, sent, inbox) \in GoodConns
         /\ Handled(r, open, sent, inbox).id = r.id
<1> DEFINE w == Handled(r, open, sent, inbox)
<1>1. r \in ConnType /\ r.sent \in Seq(Requests)
  BY DEF GoodConns, ConnType
<1>2. \A k \in DOMAIN r.sent : r.sent[k].id = r.id
  BY DEF GoodConns
<1>3. /\ sent \in Seq(Requests) /\ \A k \in DOMAIN sent : sent[k].id = r.id
      /\ sent # <<>> => r.id \in QueryIds
  <2>1. CASE sent = <<>>
    BY <2>1
  <2>2. CASE r.sent # <<>> /\ sent = Tail(r.sent)
    <3>1. sent \in Seq(Requests)
      BY <1>1, <2>2
    <3>2. ASSUME NEW k \in DOMAIN sent PROVE sent[k].id = r.id
      <4>1. sent[k] = r.sent[k + 1] /\ k + 1 \in DOMAIN r.sent
        BY <1>1, <2>2, <3>2
      <4> QED BY <1>2, <4>1
    <3>3. r.id \in QueryIds
      BY <2>2 DEF GoodConns
    <3> QED BY <3>1, <3>2, <3>3
  <2> QED BY <2>1, <2>2
<1>4. w \in ConnType /\ w.id = r.id /\ w.zero = r.zero /\ w.sent = sent
  <2> DEFINE kept == IF r.garbled THEN <<>> ELSE inbox
  <2>1. kept \in Seq(Responses)
    OBVIOUS
  <2>2. w = [r EXCEPT !.open = open, !.sent = sent, !.inbox = kept]
    BY DEF Handled
  <2> HIDE DEF kept, w
  <2> QED BY <1>1, <1>3, <2>1, <2>2 DEF ConnType
<1> HIDE DEF w
<1>5. w \in GoodConns
  BY <1>1, <1>3, <1>4 DEF GoodConns
<1> QED BY <1>4, <1>5 DEF w

LEMMA PlayerSteps ==
  ASSUME IInv, NEW c \in Conns, Answer(c) \/ Closes(c)
  PROVE  IInv'
<1> DEFINE r == conns[c]
           request == Head(r.sent)
<1>1. r \in GoodConns /\ r.inbox \in Seq(Responses) /\ r.sent \in Seq(Requests)
  BY DEF IInv, GoodConns, ConnType
<1>2. UNCHANGED <<lock, table, clients>>
  BY DEF Answer, Closes
<1>3. CASE conns' = [conns EXCEPT ![c] = Handled(r, FALSE, <<>>, r.inbox)]
  BY <1>1, <1>2, <1>3, Takes, PlayerMoves
<1>4. CASE /\ r.sent # <<>>
           /\ \E total \in Totals : \E answer \in Answers(request, total) :
                conns' = [conns EXCEPT ![c] =
                  Handled(r, TRUE, Tail(r.sent), r.inbox \o answer)]
  <2>0. PICK total \in Totals : \E answer \in Answers(request, total) :
          conns' = [conns EXCEPT ![c] =
            Handled(r, TRUE, Tail(r.sent), r.inbox \o answer)]
    BY <1>4
  <2>1. PICK answer \in Answers(request, total) :
          conns' = [conns EXCEPT ![c] =
            Handled(r, TRUE, Tail(r.sent), r.inbox \o answer)]
    BY <2>0
  <2>2. request \in Requests
    BY <1>1, <1>4
  <2>3. answer \in Seq(Responses)
    <3>1. Reply(request, total) \in Seq(Responses)
      BY <2>2, ReplyTyped
    <3> DEFINE refusal == [type |-> "refusal", tx |-> request.tx, n |-> 0]
    <3>2. refusal \in Responses
      BY <2>2 DEF Requests, Responses, ResponseTypes
    <3> HIDE DEF request
    <3>3. answer \in {<<>>, <<refusal>>, Reply(request, total)}
      BY <2>1 DEF Answers
    <3> HIDE DEF refusal
    <3>4. <<>> \in Seq(Responses) /\ <<refusal>> \in Seq(Responses)
      BY <3>2
    <3> QED BY <3>1, <3>3, <3>4
  <2>4. r.inbox \o answer \in Seq(Responses)
    BY <1>1, <2>3
  <2> QED BY <1>1, <1>2, <1>4, <2>1, <2>4, Takes, PlayerMoves
<1> QED BY <1>3, <1>4 DEF Answer, Closes

-----------------------------------------------------------------------------
(* Every step keeps the invariant, and what follows from it.                *)

THEOREM Preserved == IInv /\ [Next]_vars => IInv'
<1> SUFFICES ASSUME IInv, [Next]_vars PROVE IInv'
  OBVIOUS
<1>1. ASSUME NEW p \in Clients,
             \/ CallGet(p) \/ CallConnect(p) \/ GetStep(p) \/ ConnectFails(p)
             \/ StartQuery(p) \/ QueryStep(p) \/ Cancel(p) \/ Drop(p)
             \/ Forget(p) \/ CallDisconnect(p) \/ DisconnectStep(p)
      PROVE  IInv'
  <2>1. CASE CallGet(p) \/ CallConnect(p)
    BY <2>1, Calls
  <2>2. CASE GetStep(p) \/ ConnectFails(p)
    BY <2>2, FindStep, IntroduceStep, InsertStep, FindAgainStep, ConnectFailsStep
       DEF GetStep
  <2>3. CASE StartQuery(p) \/ QueryStep(p)
    BY <2>3, Waits, TakeLockStep, WriteStep, ReadStep, QueryFailsStep DEF QueryStep
  <2>4. CASE Cancel(p) \/ Drop(p) \/ Forget(p)
    BY <2>4, CancelStep, DropAndForget
  <2>5. CASE CallDisconnect(p) \/ DisconnectStep(p)
    BY <2>5, DisconnectSteps
  <2> QED BY <1>1, <2>1, <2>2, <2>3, <2>4, <2>5
<1>2. ASSUME NEW c \in Conns, Answer(c) \/ Closes(c) PROVE IInv'
  BY <1>2, PlayerSteps
<1>3. CASE UNCHANGED vars
  BY <1>3 DEF vars, IInv, Held, Conn, QueriesAreSerialised, Querying
<1> QED BY <1>1, <1>2, <1>3 DEF Next

LEMMA Implied == IInv => TypeOK /\ QueriesAreSerialised /\ AnsweredId
<1> SUFFICES ASSUME IInv PROVE TypeOK /\ QueriesAreSerialised /\ AnsweredId
  OBVIOUS
<1>1. TypeOK
  BY DEF IInv, TypeOK, GoodConns, GoodClients
<1>2. AnsweredId
  BY DEF IInv, GoodConns, AnsweredId, QueryIds
<1> QED BY <1>1, <1>2 DEF IInv

\* The lock, the stored connection, connections and clients stay well typed:
\* whoever uses a connection has one.
THEOREM TypeCorrect == Spec => []TypeOK
<1> QED BY Initial, Preserved, Implied, PTL DEF Spec

\* For any number of tasks, at most the one that holds the player's lock is in
\* a query, also after connections were replaced or calls cancelled.
THEOREM QueriesAreSerialisedHolds == Spec => []QueriesAreSerialised
<1> QED BY Initial, Preserved, Implied, PTL DEF Spec

\* For any size of the players' range and any ids and rigs, every request
\* carries the id of its own connection, and that of a player or an announced 0.
THEOREM AnsweredIdHolds == Spec => []AnsweredId
<1> QED BY Initial, Preserved, Implied, PTL DEF Spec

-----------------------------------------------------------------------------
(* Requests and responses in step.                                          *)

Reads(p, c) == clients[p].step = "read" /\ clients[p].conn = c

OnlyGoodbyes(sent) == \A k \in DOMAIN sent : sent[k].type = "goodbye"

\* Nothing was asked but to say goodbye, and nothing is left to read.
Quiet(conn) == conn.inbox = <<>> /\ OnlyGoodbyes(conn.sent)

\* The request a client that waits for its first response has made.
Wanted(client, request) ==
    /\ request.tx = client.tx
    /\ \/ client.expect = "data" /\ request.type = "data"
       \/ client.expect = "success" /\ request.type = "menu"
       \/ /\ client.expect = "header" /\ request.type = "render"
          /\ request.from = client.items
          /\ request.count = IF Limit < client.total - client.items THEN Limit
                             ELSE client.total - client.items

\* The player has not taken it yet.
Asked(client, conn) ==
    /\ conn.inbox = <<>>
    /\ \E k \in DOMAIN conn.sent :
         /\ Wanted(client, conn.sent[k])
         /\ \A j \in DOMAIN conn.sent \ {k} : conn.sent[j].type = "goodbye"

\* The items up to the end of the page, which is where the client expects it,
\* and the footer.
PageLeft(client, inbox) ==
    LET left == Len(inbox) - 1
        end == client.items + left
    IN  /\ left >= 0 /\ end <= client.total
        /\ end % Limit = 0 \/ end = client.total
        /\ \A i \in client.items + 1 .. end - 1 : i % Limit # 0
        /\ \A i \in 1 .. left : /\ inbox[i].type = "item" /\ inbox[i].tx = client.tx
                                /\ inbox[i].n = client.items + i - 1
        /\ inbox[left + 1].type = "footer" /\ inbox[left + 1].tx = client.tx

\* What is left to read for a client.
Left(client, inbox) ==
    \/ /\ client.expect \in {"data", "success"}
       /\ Len(inbox) = 1 /\ inbox[1].type = client.expect /\ inbox[1].tx = client.tx
    \/ /\ client.expect = "header" /\ Len(inbox) > 2
       /\ inbox[1].type = "header" /\ inbox[1].tx = client.tx
       /\ PageLeft(client, Tail(inbox))
    \/ /\ client.expect = IF Len(inbox) = 1 THEN "footer" ELSE "item"
       /\ PageLeft(client, inbox)

Refused(client, inbox) ==
    Len(inbox) = 1 /\ inbox[1].type = "refusal" /\ inbox[1].tx = client.tx

\* The player has taken it: the rest of its answer is in the inbox.
Answered(client, conn) ==
    /\ OnlyGoodbyes(conn.sent) /\ conn.inbox # <<>>
    /\ Left(client, conn.inbox) \/ Refused(client, conn.inbox)

InStep(c) ==
    ~conns[c].abandoned =>
      \/ Quiet(conns[c])
      \/ \E p \in Clients :
           /\ Reads(p, c)
           /\ Asked(clients[p], conns[c]) \/ Answered(clients[p], conns[c])

\* A page begins at a multiple of Limit, and ends at one or with the menu.
Paged(client) ==
    client.step \in {"write", "read"} =>
      /\ client.expect = "header" => client.items % Limit = 0
      /\ client.expect = "footer" => client.items % Limit = 0 \/ client.items = client.total

\* Only a cancelled query garbles a stream, and a closed one takes no requests.
Fine(conn) ==
    (conn.garbled => conn.abandoned) /\ (~conn.open => conn.sent = <<>>)

Synced ==
    /\ \A c \in Conns : InStep(c)
    /\ \A p \in Clients : Paged(clients[p])
    /\ \A c \in Conns : Fine(conns[c])

\* Pages start at the multiples of Limit, and no multiple lies within one.
LEMMA NextPage ==
  ASSUME NEW a \in Nat, a % Limit = 0
  PROVE  /\ (a + Limit) % Limit = 0
         /\ \A b \in 1 .. Limit - 1 : (a + b) % Limit # 0
<1> DEFINE q == a \div Limit
<1>1. Limit \in Nat \ {0}
  BY PagesTyped
<1>2. q \in Nat /\ a = Limit * q
  BY <1>1
<1> HIDE DEF q
<1>3. ASSUME NEW n \in Nat, NEW b \in 0 .. Limit - 1
      PROVE  (Limit * n + b) % Limit = b
  BY <1>1
<1>4. a + Limit = Limit * (q + 1) + 0
  BY <1>1, <1>2
<1>5. (a + Limit) % Limit = 0
  BY <1>1, <1>2, <1>3, <1>4
<1>6. ASSUME NEW b \in 1 .. Limit - 1 PROVE (a + b) % Limit # 0
  BY <1>1, <1>2, <1>3
<1> QED BY <1>5, <1>6

\* At most one client reads, and it holds the lock.
LEMMA OneReads ==
  ASSUME IInv, NEW p \in Clients, NEW q \in Clients, Querying(p), Querying(q)
  PROVE  p = q
BY DEF IInv, QueriesAreSerialised

LEMMA SyncedInit == Init => Synced
<1> SUFFICES ASSUME Init PROVE Synced
  OBVIOUS
<1>1. /\ ~Closed.abandoned /\ ~Closed.garbled /\ Closed.sent = <<>> /\ Closed.inbox = <<>>
      /\ IdleClient.step = "idle"
  BY DEF Closed, IdleClient
<1>2. Quiet(Closed)
  BY <1>1 DEF Quiet, OnlyGoodbyes
<1> QED BY <1>1, <1>2 DEF Init, Synced, InStep, Paged, Fine

-----------------------------------------------------------------------------
(* Steps that neither begin nor end a wait for a response.                  *)

\* What is left of the invariant for a connection that nobody reads.
SameStream(new, old) ==
    new.inbox = old.inbox /\ new.sent = old.sent /\ new.abandoned = old.abandoned

LEMMA OthersInStep ==
  ASSUME Synced, NEW p \in Clients, clients[p].step # "read",
         \A q \in Clients \ {p} : clients'[q] = clients[q],
         NEW c \in Conns,
         \/ conns'[c].abandoned
         \/ Quiet(conns'[c])
         \/ SameStream(conns'[c], conns[c])
  PROVE  InStep(c)'
<1>1. CASE conns'[c].abandoned \/ Quiet(conns'[c])
  BY <1>1 DEF InStep
<1>2. CASE SameStream(conns'[c], conns[c]) /\ ~conns'[c].abandoned
  <2>1. /\ conns'[c].inbox = conns[c].inbox /\ conns'[c].sent = conns[c].sent
        /\ ~conns[c].abandoned
    BY <1>2 DEF SameStream
  <2>2. CASE Quiet(conns[c])
    BY <2>1, <2>2 DEF Quiet, InStep
  <2>3. CASE \E q \in Clients :
               /\ Reads(q, c)
               /\ Asked(clients[q], conns[c]) \/ Answered(clients[q], conns[c])
    <3>1. PICK q \in Clients :
               /\ Reads(q, c)
               /\ Asked(clients[q], conns[c]) \/ Answered(clients[q], conns[c])
      BY <2>3
    <3>2. q # p /\ clients'[q] = clients[q]
      BY <3>1 DEF Reads
    <3>3. Reads(q, c)'
      BY <3>1, <3>2 DEF Reads
    <3>4. Asked(clients'[q], conns'[c]) \/ Answered(clients'[q], conns'[c])
      BY <2>1, <3>1, <3>2 DEF Asked, Answered
    <3> QED BY <3>3, <3>4 DEF InStep
  <2> QED BY <2>1, <2>2, <2>3 DEF Synced, InStep
<1> QED BY <1>1, <1>2

\* A step of a client that was not reading, does not begin to, and leaves what
\* is on the connections alone, but for closing or abandoning them.
LEMMA StaysSynced ==
  ASSUME Synced, NEW p \in Clients, clients[p].step # "read",
         \A q \in Clients \ {p} : clients'[q] = clients[q],
         Paged(clients'[p]),
         \A c \in Conns :
           /\ Fine(conns'[c])
           /\ \/ conns'[c].abandoned
              \/ Quiet(conns'[c])
              \/ SameStream(conns'[c], conns[c])
  PROVE  Synced'
<1>1. \A c \in Conns : InStep(c)'
  BY OthersInStep
<1>2. ASSUME NEW q \in Clients PROVE Paged(clients'[q])
  <2>1. CASE q = p
    BY <2>1
  <2>2. CASE q # p
    BY <2>2 DEF Synced
  <2> QED BY <2>1, <2>2
<1> QED BY <1>1, <1>2 DEF Synced

\* One that changes no connection.
LEMMA StaysSyncedQuietly ==
  ASSUME Synced, NEW p \in Clients, clients[p].step # "read",
         \A q \in Clients \ {p} : clients'[q] = clients[q],
         Paged(clients'[p]), UNCHANGED conns
  PROVE  Synced'
<1>1. \A c \in Conns : Fine(conns'[c]) /\ SameStream(conns'[c], conns[c])
  BY DEF Synced, SameStream
<1> QED BY <1>1, StaysSynced

\* A connection that nobody holds any more is quiet.
LEMMA SweepsQuietly ==
  ASSUME NEW new, Sweep(new),
         \A c \in Conns : Fine(new[c]) /\ SameStream(new[c], conns[c])
  PROVE  \A c \in Conns :
           /\ Fine(conns'[c])
           /\ Quiet(conns'[c]) \/ SameStream(conns'[c], conns[c])
<1>1. Fine(Closed) /\ Quiet(Closed)
  BY DEF Closed, Fine, Quiet, OnlyGoodbyes
<1>2. \A c \in Conns : conns'[c] = new[c] \/ conns'[c] = Closed
  BY DEF Sweep
<1> QED BY <1>1, <1>2

LEMMA StaysSyncedSwept ==
  ASSUME Synced, NEW p \in Clients, clients[p].step # "read",
         \A q \in Clients \ {p} : clients'[q] = clients[q],
         Paged(clients'[p]),
         NEW new, Sweep(new),
         \A c \in Conns : Fine(new[c]) /\ SameStream(new[c], conns[c])
  PROVE  Synced'
BY StaysSynced, SweepsQuietly

\* Where a client goes.
LEMMA Goings ==
  ASSUME IInv, NEW p \in Clients, NEW step, Goes(p, step)
  PROVE  /\ clients'[p].step = step /\ clients'[p].conn = clients[p].conn
         /\ \A q \in Clients \ {p} : clients'[q] = clients[q]
BY DEF IInv, GoodClients, ClientType, Goes

LEMMA Becomings ==
  ASSUME IInv, NEW p \in Clients, NEW m, Becomes(p, m)
  PROVE  /\ clients'[p] = m
         /\ \A q \in Clients \ {p} : clients'[q] = clients[q]
BY DEF IInv, Becomes

\* Connecting.
LEMMA GetSynced ==
  ASSUME IInv, Synced, NEW p \in Clients,
         CallGet(p) \/ CallConnect(p) \/ Find(p) \/ FindAgain(p) \/ StartQuery(p)
  PROVE  Synced'
<1>1. UNCHANGED conns /\ clients[p].step # "read"
  BY DEF CallGet, CallConnect, Find, FindAgain, StartQuery, At
<1>2. CASE CallGet(p) \/ CallConnect(p) \/ StartQuery(p)
  <2>1. PICK step \in {"find", "connect", "wait"} : Goes(p, step)
    BY <1>2 DEF CallGet, CallConnect, StartQuery
  <2>2. Paged(clients'[p]) /\ \A q \in Clients \ {p} : clients'[q] = clients[q]
    BY <2>1, Goings DEF Paged
  <2> QED BY <1>1, <2>2, StaysSyncedQuietly
<1>3. CASE Find(p) \/ FindAgain(p)
  <2>1. clients'[p].step \in {"ready", "connect", "idle"}
        /\ \A q \in Clients \ {p} : clients'[q] = clients[q]
    <3>1. CASE Goes(p, "connect")
      BY <3>1, Goings
    <3>2. CASE Becomes(p, IdleClient)
      BY <3>2, Becomings DEF IdleClient
    <3>3. CASE \E i : Becomes(p, [IdleClient EXCEPT !.step = "ready", !.conn = table,
                                                   !.id = i])
      <4>1. \A i : [IdleClient EXCEPT !.step = "ready", !.conn = table, !.id = i].step
                     = "ready"
        BY DEF IdleClient
      <4> QED BY <3>3, <4>1, Becomings
    <3> QED BY <1>3, <3>1, <3>2, <3>3 DEF Find, FindAgain
  <2> QED BY <1>1, <2>1, StaysSyncedQuietly DEF Paged
<1> QED BY <1>2, <1>3

LEMMA IntroduceSynced ==
  ASSUME IInv, Synced, NEW p \in Clients, Introduce(p)
  PROVE  Synced'
<1>1. PICK c \in Conns, host \in HostIds, cdjs \in Rigs :
        /\ conns' = [conns EXCEPT ![c] =
             [Closed EXCEPT !.id = QueryIdFor(host, cdjs),
                            !.zero = 0 \in cdjs \cup {host}]]
        /\ clients' = [clients EXCEPT ![p].step = "intro", ![p].conn = c]
  BY DEF Introduce
<1> DEFINE r == [Closed EXCEPT !.id = QueryIdFor(host, cdjs),
                               !.zero = 0 \in cdjs \cup {host}]
<1>2. r.sent = <<>> /\ r.inbox = <<>> /\ ~r.garbled
  BY DEF Closed
<1>3. Fine(r) /\ Quiet(r)
  <2> HIDE DEF r
  <2> QED BY <1>2 DEF Fine, Quiet, OnlyGoodbyes
<1>4. conns' = [conns EXCEPT ![c] = r] /\ conns \in [Conns -> GoodConns]
  BY <1>1 DEF IInv
<1> HIDE DEF r
<1>5. \A d \in Conns :
        /\ Fine(conns'[d])
        /\ Quiet(conns'[d]) \/ SameStream(conns'[d], conns[d])
  BY <1>3, <1>4 DEF Synced, SameStream
<1>6. /\ clients'[p].step = "intro" /\ clients[p].step # "read"
      /\ \A q \in Clients \ {p} : clients'[q] = clients[q]
  BY <1>1 DEF IInv, GoodClients, ClientType, Introduce, At
<1> QED BY <1>5, <1>6, StaysSynced DEF Paged

LEMMA InsertSynced ==
  ASSUME IInv, Synced, NEW p \in Clients, Insert(p)
  PROVE  Synced'
<1> DEFINE c == clients[p].conn
           r == [conns[c] EXCEPT !.open = TRUE]
           new == [conns EXCEPT ![c] = r]
<1>1. c \in Conns /\ conns \in [Conns -> GoodConns] /\ conns[c] \in ConnType
  BY DEF IInv, GoodClients, GoodConns, Insert, At
<1>2. Sweep(new)
  BY <1>1 DEF Insert
<1>3. Fine(r) /\ SameStream(r, conns[c])
  <2>1. /\ r.open /\ r.garbled = conns[c].garbled /\ r.abandoned = conns[c].abandoned
        /\ r.sent = conns[c].sent /\ r.inbox = conns[c].inbox
    BY <1>1 DEF ConnType
  <2> HIDE DEF r
  <2> QED BY <1>1, <2>1 DEF Fine, SameStream, Synced
<1> HIDE DEF r
<1>4. \A d \in Conns : Fine(new[d]) /\ SameStream(new[d], conns[d])
  BY <1>1, <1>3 DEF Synced, SameStream
<1> HIDE DEF new
<1>5. clients'[p].step \in {"inserted", "idle"} /\ clients[p].step # "read"
      /\ \A q \in Clients \ {p} : clients'[q] = clients[q]
  <2>1. IdleClient.step = "idle" /\ [IdleClient EXCEPT !.step = "inserted"].step = "inserted"
    BY DEF IdleClient
  <2> QED BY <2>1, Becomings DEF Insert, At
<1> QED BY <1>2, <1>4, <1>5, StaysSyncedSwept DEF Paged

\* Letting go.
LEMMA LeaveSynced ==
  ASSUME IInv, Synced, NEW p \in Clients,
         clients[p].step # "read", Becomes(p, IdleClient) \/ Becomes(p, Ready(p)),
         Sweep(conns) \/ UNCHANGED conns
  PROVE  Synced'
<1>1. IdleClient.step = "idle" /\ Ready(p).step = "ready"
  BY DEF IdleClient, Ready
<1>2. /\ Paged(clients'[p]) /\ \A q \in Clients \ {p} : clients'[q] = clients[q]
  BY <1>1, Becomings DEF Paged
<1>3. \A c \in Conns : Fine(conns[c]) /\ SameStream(conns[c], conns[c])
  BY DEF Synced, SameStream
<1> QED BY <1>2, <1>3, StaysSyncedSwept, StaysSyncedQuietly

LEMMA ForgetSynced ==
  ASSUME IInv, Synced, NEW p \in Clients, Forget(p)
  PROVE  Synced'
<1>1. \A c \in Conns : Fine(conns[c]) /\ SameStream(conns[c], conns[c])
  BY DEF Synced, SameStream
<1>2. Sweep(conns) /\ UNCHANGED clients /\ clients[p].step # "read"
  BY DEF Forget, At
<1>3. Paged(clients'[p])
  BY <1>2 DEF Synced
<1> QED BY <1>1, <1>2, <1>3, StaysSyncedSwept

LEMMA DisconnectSynced ==
  ASSUME IInv, Synced, NEW p \in Clients, CallDisconnect(p) \/ Shut(p)
  PROVE  Synced'
<1>1. CASE CallDisconnect(p)
  <2>1. [IdleClient EXCEPT !.step = "goodbye", !.conn = table].step = "goodbye"
    BY DEF IdleClient
  <2>2. clients'[p].step = "goodbye" /\ clients[p].step # "read" /\ UNCHANGED conns
        /\ \A q \in Clients \ {p} : clients'[q] = clients[q]
    BY <1>1, <2>1, Becomings DEF CallDisconnect, At
  <2> QED BY <2>2, StaysSyncedQuietly DEF Paged
<1>2. CASE Shut(p)
  <2> DEFINE c == clients[p].conn
             r == [conns[c] EXCEPT !.shut = TRUE]
             new == [conns EXCEPT ![c] = r]
  <2>1. c \in Conns /\ conns \in [Conns -> GoodConns] /\ conns[c] \in ConnType
    BY <1>2 DEF IInv, GoodClients, GoodConns, Shut, At
  <2>2. Sweep(new)
    BY <1>2, <2>1 DEF Shut
  <2>3. Fine(r) /\ SameStream(r, conns[c])
    <3>1. /\ r.open = conns[c].open /\ r.garbled = conns[c].garbled
          /\ r.abandoned = conns[c].abandoned
          /\ r.sent = conns[c].sent /\ r.inbox = conns[c].inbox
      BY <2>1 DEF ConnType
    <3> HIDE DEF r
    <3> QED BY <2>1, <3>1 DEF Fine, SameStream, Synced
  <2> HIDE DEF r
  <2>4. \A d \in Conns : Fine(new[d]) /\ SameStream(new[d], conns[d])
    BY <2>1, <2>3 DEF Synced, SameStream
  <2> HIDE DEF new
  <2>5. clients'[p].step = "idle" /\ clients[p].step # "read"
        /\ \A q \in Clients \ {p} : clients'[q] = clients[q]
    BY <1>2, Becomings DEF Shut, At, IdleClient
  <2> QED BY <2>2, <2>4, <2>5, StaysSyncedSwept DEF Paged
<1> QED BY <1>1, <1>2

LEMMA TakeLockSynced ==
  ASSUME IInv, Synced, NEW p \in Clients, TakeLock(p)
  PROVE  Synced'
<1>1. PICK expect \in {"data", "success"} :
        Becomes(p, [Ready(p) EXCEPT !.step = "write", !.expect = expect])
  BY DEF TakeLock
<1>2. [Ready(p) EXCEPT !.step = "write", !.expect = expect].expect = expect
  BY DEF Ready, IdleClient
<1>3. /\ clients'[p].expect \in {"data", "success"}
      /\ \A q \in Clients \ {p} : clients'[q] = clients[q]
  BY <1>1, <1>2, Becomings
<1>4. clients[p].step # "read" /\ UNCHANGED conns
  BY DEF TakeLock, At
<1> QED BY <1>3, <1>4, StaysSyncedQuietly DEF Paged

\* To say goodbye asks for nothing.
LEMMA GoodbyeSynced ==
  ASSUME IInv, Synced, NEW p \in Clients, Goodbye(p)
  PROVE  Synced'
<1> DEFINE c == clients[p].conn
           g == [type |-> "goodbye", tx |-> Conn(p).tx + 1, id |-> Conn(p).id,
                 from |-> 0, count |-> 0]
           r == Sent(conns[c], g)
<1>1. c \in Conns /\ conns \in [Conns -> GoodConns] /\ conns[c] \in ConnType
  BY DEF IInv, GoodClients, GoodConns, Goodbye, At
<1>2. /\ conns' = [conns EXCEPT ![c] = r]
      /\ clients'[p].step = "shut" /\ clients[p].step = "goodbye"
      /\ \A q \in Clients \ {p} : clients'[q] = clients[q]
  BY Goings DEF Goodbye, Conn, At
<1>3. g.type = "goodbye"
  OBVIOUS
<1> HIDE DEF g
<1>4. /\ r.inbox = conns[c].inbox /\ r.abandoned = conns[c].abandoned
      /\ r.garbled = conns[c].garbled /\ r.open = conns[c].open
      /\ r.sent = IF conns[c].open THEN Append(conns[c].sent, g) ELSE conns[c].sent
  BY <1>1 DEF Sent, ConnType
<1> HIDE DEF r
<1>5. conns[c].sent \in Seq(Requests)
  BY <1>1 DEF ConnType
<1>6. /\ DOMAIN conns[c].sent \subseteq DOMAIN r.sent
      /\ \A k \in DOMAIN conns[c].sent : r.sent[k] = conns[c].sent[k]
      /\ \A k \in DOMAIN r.sent : k \notin DOMAIN conns[c].sent => r.sent[k] = g
  <2> DEFINE sent == conns[c].sent
  <2> HIDE DEF sent
  <2>1. sent \in Seq(Requests)
    BY <1>5 DEF sent
  <2>2. CASE r.sent = sent
    BY <2>2 DEF sent
  <2>3. CASE r.sent = Append(sent, g)
    <3>1. /\ DOMAIN sent = 1 .. Len(sent) /\ DOMAIN r.sent = 1 .. Len(sent) + 1
          /\ Len(sent) \in Nat
      BY <2>1, <2>3
    <3>2. \A k \in 1 .. Len(sent) : r.sent[k] = sent[k]
      BY <2>1, <2>3
    <3>3. r.sent[Len(sent) + 1] = g
      BY <2>1, <2>3
    <3> QED BY <3>1, <3>2, <3>3 DEF sent
  <2> QED BY <1>4, <2>2, <2>3 DEF sent
<1>7. OnlyGoodbyes(conns[c].sent) => OnlyGoodbyes(r.sent)
  BY <1>3, <1>6 DEF OnlyGoodbyes
<1>8. ASSUME NEW client, Asked(client, conns[c]) PROVE Asked(client, r)
  <2>1. PICK k \in DOMAIN conns[c].sent :
          /\ Wanted(client, conns[c].sent[k])
          /\ \A j \in DOMAIN conns[c].sent \ {k} : conns[c].sent[j].type = "goodbye"
    BY <1>8 DEF Asked
  <2>2. k \in DOMAIN r.sent /\ Wanted(client, r.sent[k])
    BY <1>6, <2>1
  <2>3. ASSUME NEW j \in DOMAIN r.sent \ {k} PROVE r.sent[j].type = "goodbye"
    <3>1. CASE j \in DOMAIN conns[c].sent
      BY <1>6, <2>1, <3>1
    <3>2. CASE j \notin DOMAIN conns[c].sent
      BY <1>3, <1>6, <3>2
    <3> QED BY <3>1, <3>2
  <2> QED BY <1>4, <1>8, <2>2, <2>3 DEF Asked
<1>9. ASSUME NEW client, Answered(client, conns[c]) PROVE Answered(client, r)
  BY <1>4, <1>7, <1>9 DEF Answered
<1>10. ASSUME NEW d \in Conns, d = c PROVE InStep(d)'
  <2>1. conns'[d] = r
    BY <1>1, <1>2, <1>10
  <2>2. CASE conns[d].abandoned
    BY <1>4, <1>10, <2>1, <2>2 DEF InStep
  <2>3. CASE Quiet(conns[d])
    BY <1>4, <1>7, <1>10, <2>1, <2>3 DEF InStep, Quiet
  <2>4. CASE \E q \in Clients :
               /\ Reads(q, d)
               /\ Asked(clients[q], conns[d]) \/ Answered(clients[q], conns[d])
    <3>1. PICK q \in Clients :
               /\ Reads(q, d)
               /\ Asked(clients[q], conns[d]) \/ Answered(clients[q], conns[d])
      BY <2>4
    <3>2. q # p /\ clients'[q] = clients[q]
      BY <1>2, <3>1 DEF Reads
    <3>3. Asked(clients'[q], conns'[d]) \/ Answered(clients'[q], conns'[d])
      BY <1>8, <1>9, <1>10, <2>1, <3>1, <3>2
    <3> QED BY <3>1, <3>2, <3>3 DEF InStep, Reads
  <2> QED BY <2>2, <2>3, <2>4 DEF Synced, InStep
<1>11. ASSUME NEW d \in Conns, d # c PROVE InStep(d)'
  <2>1. SameStream(conns'[d], conns[d])
    BY <1>1, <1>2, <1>11 DEF SameStream
  <2> QED BY <1>2, <2>1, OthersInStep
<1>12. \A d \in Conns : Fine(conns'[d])
  <2>1. Fine(r)
    BY <1>1, <1>4 DEF Fine, Synced
  <2> QED BY <1>1, <1>2, <2>1 DEF Synced
<1>13. \A q \in Clients : Paged(clients'[q])
  BY <1>2 DEF Synced, Paged
<1> QED BY <1>10, <1>11, <1>12, <1>13 DEF Synced

\* A query that is cancelled abandons its connection.
LEMMA CancelSynced ==
  ASSUME IInv, Synced, NEW p \in Clients, Cancel(p)
  PROVE  Synced'
<1> DEFINE c == clients[p].conn
<1>1. CASE ~Querying(p)
  <2>1. Sweep(conns) /\ clients[p].step # "read"
        /\ (Becomes(p, IdleClient) \/ Becomes(p, Ready(p)))
    BY <1>1 DEF Cancel, Querying
  <2> QED BY <2>1, LeaveSynced
<1>2. CASE Querying(p)
  <2>1. PICK g \in {Conn(p).garbled, TRUE} :
          conns' = [conns EXCEPT ![c] =
            [Conn(p) EXCEPT !.abandoned = TRUE, !.garbled = g,
                            !.inbox = IF g THEN <<>> ELSE @]]
    BY <1>2 DEF Cancel, Querying
  <2> DEFINE r == [conns[c] EXCEPT !.abandoned = TRUE, !.garbled = g,
                                   !.inbox = IF g THEN <<>> ELSE @]
  <2>2. c \in Conns /\ conns \in [Conns -> GoodConns] /\ conns[c] \in ConnType
    BY <1>2 DEF IInv, GoodClients, GoodConns, Querying
  <2>3. r.abandoned /\ r.open = conns[c].open /\ r.sent = conns[c].sent
    BY <2>2 DEF ConnType
  <2>4. conns' = [conns EXCEPT ![c] = r]
    BY <2>1 DEF Conn
  <2> HIDE DEF r
  <2>5. /\ clients'[p].step = "ready"
        /\ \A q \in Clients \ {p} : clients'[q] = clients[q]
    <3>1. Becomes(p, Ready(p)) /\ Ready(p).step = "ready"
      BY <1>2 DEF Cancel, Querying, Ready, IdleClient
    <3> QED BY <3>1, Becomings
  <2>6. \A d \in Conns : Fine(conns'[d])
    <3>1. Fine(r)
      BY <2>2, <2>3 DEF Fine, Synced
    <3> QED BY <2>2, <2>4, <3>1 DEF Synced
  <2>7. ASSUME NEW d \in Conns PROVE InStep(d)'
    <3>1. CASE d = c
      BY <2>2, <2>3, <2>4, <3>1 DEF InStep
    <3>2. CASE d # c
      <4>1. conns'[d] = conns[d]
        BY <2>2, <2>4, <3>2
      <4>2. \A q \in Clients : Reads(q, d) => q # p /\ clients'[q] = clients[q]
        BY <2>5, <3>2 DEF Reads
      <4> QED BY <4>1, <4>2 DEF Synced, InStep, Reads
    <3> QED BY <3>1, <3>2
  <2>8. \A q \in Clients : Paged(clients'[q])
    BY <2>5 DEF Synced, Paged
  <2> QED BY <2>6, <2>7, <2>8 DEF Synced
<1> QED BY <1>1, <1>2

-----------------------------------------------------------------------------
(* Steps of a query.                                                        *)

\* Whoever queries through a connection is the only one to read from it, and
\* nobody reads from another one.
LEMMA QueryStepInStep ==
  ASSUME IInv, Synced, NEW p \in Clients, Querying(p),
         \A q \in Clients \ {p} : clients'[q] = clients[q],
         NEW r, conns' = [conns EXCEPT ![clients[p].conn] = r],
         Fine(r), Paged(clients'[p]),
         ~r.abandoned => \/ Quiet(r)
                         \/ /\ clients'[p].step = "read"
                            /\ clients'[p].conn = clients[p].conn
                            /\ Asked(clients'[p], r) \/ Answered(clients'[p], r)
  PROVE  Synced'
<1> DEFINE c == clients[p].conn
<1>1. c \in Conns /\ conns \in [Conns -> GoodConns]
  BY DEF IInv, GoodClients, Querying
<1>2. conns'[c] = r /\ \A d \in Conns \ {c} : conns'[d] = conns[d]
  BY <1>1
<1>3. ASSUME NEW d \in Conns PROVE InStep(d)'
  <2>1. CASE d = c
    BY <1>2, <2>1 DEF InStep, Reads
  <2>2. CASE d # c
    <3>1. \A q \in Clients : Reads(q, d) => q = p
      BY OneReads DEF Reads, Querying
    <3>2. \A q \in Clients : ~Reads(q, d)
      BY <2>2, <3>1 DEF Reads
    <3> QED BY <1>2, <2>2, <3>2 DEF Synced, InStep
  <2> QED BY <2>1, <2>2
<1>4. \A d \in Conns : Fine(conns'[d])
  BY <1>2 DEF Synced
<1>5. ASSUME NEW q \in Clients PROVE Paged(clients'[q])
  <2>1. CASE q = p
    BY <2>1
  <2>2. CASE q # p
    BY <2>2 DEF Synced
  <2> QED BY <2>1, <2>2
<1> QED BY <1>3, <1>4, <1>5 DEF Synced

\* What is known of the connection of a client that queries.
LEMMA QueryInStep ==
  ASSUME IInv, Synced, NEW p \in Clients, Querying(p), ~Conn(p).abandoned
  PROVE  \/ Quiet(Conn(p))
         \/ /\ clients[p].step = "read"
            /\ Asked(clients[p], Conn(p)) \/ Answered(clients[p], Conn(p))
<1>1. clients[p].conn \in Conns
  BY DEF IInv, GoodClients, Querying
<1>2. ASSUME NEW q \in Clients, Reads(q, clients[p].conn) PROVE q = p
  BY <1>2, OneReads DEF Reads, Querying
<1> QED BY <1>1, <1>2 DEF Synced, InStep, Conn, Reads

LEMMA WriteSynced ==
  ASSUME IInv, Synced, NEW p \in Clients, Write(p)
  PROVE  Synced'
<1> DEFINE c == clients[p].conn
           q == Request(p)
           r == Sent(conns[c], q)
           m == [clients[p] EXCEPT !.step = "read", !.tx = conns[c].tx + 1]
<1>1. /\ c \in Conns /\ conns \in [Conns -> GoodConns] /\ conns[c] \in ConnType
      /\ clients[p] \in ClientType /\ clients[p] \in GoodClients /\ clients[p].step = "write"
      /\ clients \in [Clients -> GoodClients]
  BY DEF IInv, GoodClients, GoodConns, Write, At
<1>2. conns' = [conns EXCEPT ![c] = r] /\ clients' = [clients EXCEPT ![p] = m]
  BY <1>1 DEF Write, Conn
<1>3. /\ m.step = "read" /\ m.conn = c /\ m.tx = conns[c].tx + 1
      /\ m.expect = clients[p].expect /\ m.items = clients[p].items
      /\ m.total = clients[p].total
  BY <1>1 DEF ClientType
<1>4. /\ clients'[p] = m /\ \A d \in Clients \ {p} : clients'[d] = clients[d]
  BY <1>1, <1>2
<1> HIDE DEF m
<1>5. Wanted(m, q)
  <2>1. q.tx = conns[c].tx + 1
    BY DEF Request, Conn
  <2>2. m.expect \in {"data", "success", "header"}
    BY <1>1, <1>3 DEF GoodClients
  <2>3. CASE m.expect = "data"
    <3>1. q.type = "data"
      BY <1>3, <2>3 DEF Request
    <3> QED BY <1>3, <2>1, <2>3, <3>1 DEF Wanted
  <2>4. CASE m.expect = "success"
    <3>1. q.type = "menu"
      BY <1>3, <2>4 DEF Request
    <3> QED BY <1>3, <2>1, <2>4, <3>1 DEF Wanted
  <2>5. CASE m.expect = "header"
    <3>1. q.type = "render" /\ q.from = clients[p].items /\ q.count = PageSize(p)
      BY <1>3, <2>5 DEF Request
    <3> QED BY <1>3, <2>1, <2>5, <3>1 DEF Wanted, PageSize
  <2> QED BY <2>2, <2>3, <2>4, <2>5
<1> HIDE DEF q
<1>6. /\ r.inbox = conns[c].inbox /\ r.abandoned = conns[c].abandoned
      /\ r.garbled = conns[c].garbled /\ r.open = conns[c].open
      /\ r.sent = IF conns[c].open THEN Append(conns[c].sent, q) ELSE conns[c].sent
  BY <1>1 DEF Sent, ConnType
<1> HIDE DEF r
<1>7. ASSUME ~r.abandoned
      PROVE  Quiet(r) \/ Asked(m, r)
  <2>1. Quiet(conns[c])
    BY <1>1, <1>6, <1>7, QueryInStep DEF Querying, Conn
  <2>2. conns[c].sent \in Seq(Requests)
    BY <1>1 DEF ConnType
  <2>3. CASE ~conns[c].open
    BY <1>6, <2>1, <2>3 DEF Quiet
  <2>4. CASE conns[c].open
    <3>1. r.sent = Append(conns[c].sent, q) /\ r.inbox = <<>>
      BY <1>6, <2>1, <2>4 DEF Quiet
    <3> DEFINE k == Len(conns[c].sent) + 1
    <3>2. /\ k \in DOMAIN r.sent /\ r.sent[k] = q
          /\ \A j \in DOMAIN r.sent \ {k} : j \in DOMAIN conns[c].sent
                                            /\ r.sent[j] = conns[c].sent[j]
      <4> DEFINE old == conns[c].sent
      <4>1. old \in Seq(Requests) /\ r.sent = Append(old, q)
        BY <2>2, <3>1
      <4> HIDE DEF old
      <4>2. k = Len(old) + 1
        BY DEF old
      <4> HIDE DEF k
      <4>3. /\ k \in DOMAIN r.sent /\ r.sent[k] = q
            /\ \A j \in DOMAIN r.sent \ {k} : j \in DOMAIN old /\ r.sent[j] = old[j]
        BY <4>1, <4>2
      <4> QED BY <4>3 DEF old
    <3> HIDE DEF k
    <3> QED BY <1>5, <2>1, <3>1, <3>2 DEF Asked, Quiet, OnlyGoodbyes
  <2> QED BY <2>3, <2>4
<1>8. Fine(r)
  BY <1>1, <1>6 DEF Fine, Synced
<1>9. Paged(m)
  BY <1>1, <1>3 DEF Paged, Synced
<1> QED BY <1>1, <1>2, <1>3, <1>4, <1>7, <1>8, <1>9, QueryStepInStep DEF Querying

\* The rest of a page is what is left after its first item.
LEMMA PageShrinks ==
  ASSUME NEW client \in ClientType, NEW m \in ClientType,
         m.tx = client.tx, m.total = client.total, m.items = client.items + 1,
         NEW inbox \in Seq(Responses), Len(inbox) > 1, PageLeft(client, inbox)
  PROVE  PageLeft(m, Tail(inbox))
<1> DEFINE t == Tail(inbox)
<1>1. /\ t \in Seq(Responses) /\ Len(t) = Len(inbox) - 1 /\ Len(inbox) \in Nat
      /\ \A i \in 1 .. Len(t) : t[i] = inbox[i + 1]
  OBVIOUS
<1> HIDE DEF t
<1>2. client.items \in Nat /\ client.total \in Nat
  BY DEF ClientType
<1> DEFINE left == Len(t) - 1
           end == m.items + left
<1>3. left >= 0 /\ left \in Nat /\ end = client.items + (Len(inbox) - 1)
  <2>1. PICK n \in Nat : n = Len(inbox) /\ n > 1
    BY <1>1
  <2>2. left = n - 2 /\ left \in Nat
    BY <1>1, <2>1
  <2> QED BY <1>2, <2>1, <2>2
<1>4. end <= m.total /\ (end % Limit = 0 \/ end = m.total)
  BY <1>3 DEF PageLeft
<1>5. \A i \in m.items + 1 .. end - 1 : i % Limit # 0
  BY <1>2, <1>3 DEF PageLeft
<1>6. ASSUME NEW i \in 1 .. left
      PROVE  t[i].type = "item" /\ t[i].tx = m.tx /\ t[i].n = m.items + i - 1
  <2>1. i + 1 \in 1 .. Len(inbox) - 1 /\ t[i] = inbox[i + 1]
    BY <1>1, <1>3
  <2>2. inbox[i + 1].n = client.items + (i + 1) - 1
    BY <2>1 DEF PageLeft
  <2> QED BY <1>2, <2>1, <2>2 DEF PageLeft
<1>7. t[left + 1].type = "footer" /\ t[left + 1].tx = m.tx
  <2>1. t[left + 1] = inbox[Len(inbox) - 1 + 1]
    BY <1>1, <1>3
  <2> QED BY <2>1 DEF PageLeft
<1>8. PageLeft(m, t)
  BY <1>3, <1>4, <1>5, <1>6, <1>7 DEF PageLeft
<1> QED BY <1>8 DEF t

LEMMA LastOne ==
  ASSUME NEW S, NEW s \in Seq(S), Len(s) = 1
  PROVE  Tail(s) = <<>>
<1>1. Tail(s) \in Seq(S) /\ Len(Tail(s)) = 0
  BY HeadTailProperties
<1> QED BY <1>1, EmptySeq

\* What is left for a client that read what it expected is what it expects next.
LEMMA LeftAfter ==
  ASSUME IInv, NEW p \in Clients, At(p, "read"),
         NEW inbox \in Seq(Responses), inbox # <<>>, Left(clients[p], inbox),
         NEW a \in Responses, a = inbox[1], a.type = clients[p].expect
  PROVE  \/ Tail(inbox) = <<>>
         \/ /\ After(p, a).step = "read" /\ Tail(inbox) # <<>>
            /\ Left(After(p, a), Tail(inbox))
<1> DEFINE client == clients[p]
           m == After(p, a)
<1>1. client \in ClientType /\ m \in ClientType /\ client.items \in Nat
  BY AfterTyped DEF IInv, GoodClients, ClientType
<1>2. CASE Len(inbox) = 1
  <2>1. Tail(inbox) = <<>>
    BY <1>2, LastOne
  <2> QED BY <2>1
<1>3. CASE Len(inbox) > 1 /\ a.type \in {"header", "item"}
  <2> DEFINE t == Tail(inbox)
  <2>1. Len(t) = Len(inbox) - 1 /\ Len(inbox) \in Nat /\ t # <<>>
    BY <1>3
  <2>2. ~QueryDone(p, a)
    BY <1>3 DEF QueryDone
  <2>3. /\ m.step = "read" /\ m.tx = client.tx /\ m.total = client.total
        /\ m.items = ItemsSeen(p, a) /\ m.expect = NextExpected(p, a)
    BY <1>1, <1>3, <2>2 DEF After, MenuLength, NextStep, ClientType
  <2> HIDE DEF m
  <2>4. CASE a.type = "header"
    <3>1. m.items = client.items /\ m.expect = "item"
      BY <2>3, <2>4 DEF ItemsSeen, NextExpected
    <3>2. Len(inbox) > 2 /\ PageLeft(client, t)
      BY <2>4 DEF Left
    <3> HIDE DEF t
    <3>3. PageLeft(m, t)
      BY <2>3, <3>1, <3>2 DEF PageLeft
    <3>4. Len(t) # 1
      BY <2>1, <3>2
    <3>5. Left(m, t)
      BY <3>1, <3>3, <3>4 DEF Left
    <3> QED BY <2>1, <2>3, <3>5 DEF t, m
  <2>5. CASE a.type = "item"
    <3>1. PageLeft(client, inbox)
      BY <2>5 DEF Left
    <3>2. m.items = client.items + 1
      BY <2>3, <2>5 DEF ItemsSeen
    <3>3. PageLeft(m, t)
      BY <1>1, <1>3, <2>3, <3>1, <3>2, PageShrinks
    <3>4. FooterDue(p, client.items + 1) <=> Len(t) = 1
      <4>1. CASE Len(t) = 1
        <5>1. client.items + (Len(inbox) - 1) = client.items + 1
          BY <1>1, <2>1, <4>1
        <5> QED BY <3>1, <4>1, <5>1 DEF PageLeft, FooterDue
      <4>2. CASE Len(t) # 1
        <5>1. client.items + 1 \in client.items + 1 .. client.items + (Len(inbox) - 1) - 1
          BY <1>1, <1>3, <2>1, <4>2
        <5>2. client.items + (Len(inbox) - 1) <= client.total /\ client.total \in Nat
          BY <1>1, <3>1 DEF PageLeft, ClientType
        <5>3. client.items + 1 # client.total
          BY <1>1, <5>1, <5>2
        <5>4. \A i \in client.items + 1 .. client.items + (Len(inbox) - 1) - 1 :
                i % Limit # 0
          <6>1. PICK n \in Nat : n = Len(inbox)
            BY <2>1
          <6> QED BY <1>1, <3>1, <6>1 DEF PageLeft
        <5> QED BY <4>2, <5>1, <5>3, <5>4 DEF FooterDue
      <4> QED BY <4>1, <4>2
    <3>5. m.expect = IF Len(t) = 1 THEN "footer" ELSE "item"
      BY <2>3, <2>5, <3>2, <3>4 DEF NextExpected
    <3> HIDE DEF t
    <3>6. Left(m, t)
      BY <3>3, <3>5 DEF Left
    <3> QED BY <2>1, <2>3, <3>6 DEF t, m
  <2> QED BY <1>3, <2>4, <2>5
<1>4. Len(inbox) = 1 \/ (Len(inbox) > 1 /\ a.type \in {"header", "item"})
  <2>1. Len(inbox) \in Nat \ {0}
    OBVIOUS
  <2>2. Len(inbox) = 1 \/ clients[p].expect \in {"header", "item"}
    BY DEF Left
  <2>3. PICK n \in Nat : n = Len(inbox) /\ n # 0
    BY <2>1
  <2> QED BY <2>2, <2>3
<1> QED BY <1>2, <1>3, <1>4

\* Pages begin and end where the items are counted.
LEMMA StaysPaged ==
  ASSUME IInv, Synced, NEW p \in Clients, At(p, "read"),
         NEW a \in Responses, a.type = clients[p].expect
  PROVE  Paged(After(p, a))
<1> DEFINE m == After(p, a)
<1>1. /\ clients[p] \in ClientType /\ clients[p] \in GoodClients
      /\ clients[p].items \in Nat /\ Limit \in Nat \ {0}
      /\ clients[p].step = "read" /\ Paged(clients[p])
  BY PagesTyped DEF IInv, GoodClients, ClientType, At, Synced
<1>2. CASE QueryDone(p, a)
  <2>1. m.step = "ready"
    BY <1>2 DEF After, Ready, IdleClient
  <2> QED BY <2>1 DEF Paged
<1>3. CASE ~QueryDone(p, a)
  <2>1. /\ m.items = ItemsSeen(p, a) /\ m.total = MenuLength(p, a)
        /\ m.expect = NextExpected(p, a)
    BY <1>1, <1>3 DEF After, ClientType
  <2> HIDE DEF m
  <2>2. ASSUME a.type = "success" PROVE Paged(m)
    <3>1. m.items = 0 /\ m.expect = "header"
      BY <1>1, <2>1, <2>2 DEF GoodClients, ItemsSeen, NextExpected
    <3>2. 0 % Limit = 0
      BY <1>1
    <3> QED BY <3>1, <3>2 DEF Paged
  <2>3. ASSUME a.type = "footer" PROVE Paged(m)
    <3>1. m.items = clients[p].items /\ m.expect = "header"
      BY <2>1, <2>3 DEF ItemsSeen, NextExpected
    <3>2. clients[p].items # clients[p].total
      BY <1>3, <2>3 DEF QueryDone, ItemsSeen, MenuLength
    <3> QED BY <1>1, <2>3, <3>1, <3>2 DEF Paged
  <2>4. ASSUME a.type \notin {"success", "footer"} PROVE Paged(m)
    <3>1. m.total = clients[p].total /\ m.expect \in {"footer", "item"}
      BY <2>1, <2>4 DEF MenuLength, NextExpected
    <3>2. m.expect = "footer" => FooterDue(p, m.items)
      BY <2>1, <2>4 DEF NextExpected
    <3> QED BY <3>1, <3>2 DEF Paged, FooterDue
  <2> QED BY <2>2, <2>3, <2>4 DEF m
<1> QED BY <1>2, <1>3

LEMMA ReadSynced ==
  ASSUME IInv, Synced, NEW p \in Clients, Read(p)
  PROVE  Synced'
<1> DEFINE c == clients[p].conn
           inbox == conns[c].inbox
           a == Head(inbox)
           m == After(p, a)
           r == [conns[c] EXCEPT !.inbox = Tail(inbox)]
<1>1. /\ c \in Conns /\ conns \in [Conns -> GoodConns] /\ conns[c] \in ConnType
      /\ clients[p] \in GoodClients /\ At(p, "read")
  BY DEF IInv, GoodClients, GoodConns, Read, At
<1>2. inbox \in Seq(Responses) /\ inbox # <<>> /\ a.type = clients[p].expect
  BY <1>1 DEF ConnType, Read, Conn
<1>3. a \in Responses /\ a = inbox[1]
  BY <1>2
<1>4. /\ conns' = [conns EXCEPT ![c] = r] /\ clients'[p] = m
      /\ \A q \in Clients \ {p} : clients'[q] = clients[q]
  <2>1. conns' = [conns EXCEPT ![c] = r] /\ Becomes(p, m)
    BY <1>1 DEF Read, Conn
  <2> QED BY <2>1, Becomings
<1>5. /\ r.inbox = Tail(inbox) /\ r.sent = conns[c].sent /\ r.open = conns[c].open
      /\ r.garbled = conns[c].garbled /\ r.abandoned = conns[c].abandoned
  BY <1>1 DEF ConnType
<1> HIDE DEF r
<1>6. Paged(m) /\ Fine(r)
  <2>1. Fine(r)
    BY <1>1, <1>5 DEF Fine, Synced
  <2> QED BY <1>1, <1>2, <1>3, <2>1, StaysPaged
<1>7. m.conn = c
  BY <1>1, <1>2, <1>3, AfterTyped
<1>8. ASSUME ~r.abandoned
      PROVE  Quiet(r) \/ (m.step = "read" /\ Answered(m, r))
  <2>1. Answered(clients[p], conns[c])
    <3>1. inbox # <<>> => ~Quiet(conns[c]) /\ ~Asked(clients[p], conns[c])
      BY DEF Quiet, Asked
    <3> QED BY <1>1, <1>2, <1>5, <1>8, <3>1, QueryInStep DEF Querying, Conn, At
  <2>2. Left(clients[p], inbox)
    <3>1. clients[p].expect # "refusal"
      BY <1>1 DEF GoodClients, At
    <3> QED BY <1>2, <1>3, <2>1, <3>1 DEF Answered, Refused
  <2> HIDE DEF m, a, inbox
  <2>3. \/ Tail(inbox) = <<>>
        \/ m.step = "read" /\ Tail(inbox) # <<>> /\ Left(m, Tail(inbox))
    BY <1>1, <1>2, <1>3, <2>2, LeftAfter DEF m
  <2>4. OnlyGoodbyes(r.sent)
    BY <1>5, <2>1 DEF Answered
  <2> QED BY <1>5, <2>3, <2>4 DEF Quiet, Answered
<1> HIDE DEF m
<1> QED BY <1>1, <1>4, <1>6, <1>7, <1>8, QueryStepInStep DEF Querying, At

\* What is left for a client starts with what it waits for.
LEMMA LeftFits ==
  ASSUME NEW client \in ClientType, NEW inbox \in Seq(Responses), inbox # <<>>,
         Left(client, inbox)
  PROVE  /\ inbox[1].type = client.expect /\ inbox[1].tx = client.tx
         /\ inbox[1].type = "item" => inbox[1].n = client.items
<1>1. PICK n \in Nat : n = Len(inbox) /\ n # 0
  BY EmptySeq
<1>2. client.items \in Nat
  BY DEF ClientType
<1>3. CASE client.expect \in {"data", "success", "header"}
  BY <1>1, <1>3 DEF Left
<1>4. CASE client.expect \notin {"data", "success", "header"}
  <2>1. client.expect = (IF n = 1 THEN "footer" ELSE "item") /\ PageLeft(client, inbox)
    BY <1>1, <1>4 DEF Left
  <2>2. CASE n = 1
    BY <1>1, <2>1, <2>2 DEF PageLeft
  <2>3. CASE n # 1
    <3>1. 1 \in 1 .. n - 1
      BY <1>1, <2>3
    <3>2. /\ inbox[1].type = "item" /\ inbox[1].tx = client.tx
          /\ inbox[1].n = client.items + 1 - 1
      BY <1>1, <2>1, <3>1 DEF PageLeft
    <3> QED BY <1>2, <2>1, <2>3, <3>2
  <2> QED BY <2>2, <2>3
<1> QED BY <1>3, <1>4

LEMMA QueryFailsSynced ==
  ASSUME IInv, Synced, NEW p \in Clients, QueryFails(p)
  PROVE  Synced'
<1> DEFINE c == clients[p].conn
           inbox == conns[c].inbox
<1>1. Querying(p) /\ c \in Conns /\ conns \in [Conns -> GoodConns]
  BY DEF IInv, GoodClients, QueryFails, Querying, At
<1>2. /\ conns[c] \in ConnType /\ inbox \in Seq(Responses) /\ Fine(conns[c])
      /\ clients[p] \in ClientType
  BY <1>1 DEF GoodConns, ConnType, Synced, IInv, GoodClients
<1>3. /\ Paged(clients'[p]) /\ \A q \in Clients \ {p} : clients'[q] = clients[q]
  <2>1. Becomes(p, Ready(p)) /\ Ready(p).step = "ready"
    BY DEF QueryFails, Ready, IdleClient
  <2> QED BY <2>1, Becomings DEF Paged
<1>4. CASE /\ At(p, "read") /\ inbox # <<>>
           /\ Head(inbox).type # clients[p].expect
           /\ conns' = [conns EXCEPT ![c].inbox = Tail(@)]
  <2> DEFINE r == [conns[c] EXCEPT !.inbox = Tail(inbox)]
  <2>1. conns' = [conns EXCEPT ![c] = r]
    BY <1>1, <1>4
  <2>2. /\ r.inbox = Tail(inbox) /\ r.sent = conns[c].sent /\ r.open = conns[c].open
        /\ r.garbled = conns[c].garbled /\ r.abandoned = conns[c].abandoned
    BY <1>2 DEF ConnType
  <2> HIDE DEF r
  <2>3. Fine(r)
    BY <1>2, <2>2 DEF Fine
  <2>4. ASSUME ~r.abandoned PROVE Quiet(r)
    <3>1. Answered(clients[p], conns[c])
      BY <1>1, <1>4, <2>2, <2>4, QueryInStep DEF Quiet, Asked, Conn
    <3>2. inbox[1].type # clients[p].expect
      BY <1>2, <1>4, <2>2, <2>4 DEF Fine
    <3>3. Len(inbox) = 1
      BY <1>2, <1>4, <3>1, <3>2, LeftFits DEF Answered, Refused
    <3>4. r.inbox = <<>>
      BY <1>2, <2>2, <3>3, LastOne
    <3> QED BY <2>2, <3>1, <3>4 DEF Quiet, Answered
  <2> QED BY <1>1, <1>3, <2>1, <2>3, <2>4, QueryStepInStep
<1>5. CASE /\ \/ At(p, "read") /\ conns[c].garbled
              \/ At(p, "read") /\ inbox = <<>> /\ ~conns[c].open
              \/ At(p, "write")
           /\ UNCHANGED conns
  <2>1. conns' = [conns EXCEPT ![c] = conns[c]]
    BY <1>1, <1>5
  <2>2. ASSUME ~conns[c].abandoned PROVE Quiet(conns[c])
    <3>1. CASE At(p, "write")
      BY <1>1, <2>2, <3>1, QueryInStep DEF Conn, At
    <3>2. CASE inbox = <<>> /\ ~conns[c].open
      <4>1. conns[c].sent = <<>>
        BY <1>2, <3>2 DEF Fine
      <4> QED BY <3>2, <4>1 DEF Quiet, OnlyGoodbyes
    <3>3. ~conns[c].garbled
      BY <1>2, <2>2 DEF Fine
    <3> QED BY <1>5, <3>1, <3>2, <3>3
  <2> QED BY <1>1, <1>2, <1>3, <2>1, <2>2, QueryStepInStep
<1> QED BY <1>4, <1>5 DEF QueryFails, Conn

-----------------------------------------------------------------------------
(* The player answers.                                                      *)

LEMMA StreamMoves ==
  ASSUME IInv, Synced, NEW c \in Conns, NEW r,
         conns' = [conns EXCEPT ![c] = r], UNCHANGED clients,
         Fine(r), r.abandoned = conns[c].abandoned,
         ~r.abandoned /\ Quiet(conns[c]) => Quiet(r),
         \A p \in Clients :
           /\ ~r.abandoned /\ Reads(p, c)
           /\ Asked(clients[p], conns[c]) \/ Answered(clients[p], conns[c])
           => Quiet(r) \/ Asked(clients[p], r) \/ Answered(clients[p], r)
  PROVE  Synced'
<1>1. conns'[c] = r /\ \A d \in Conns \ {c} : conns'[d] = conns[d]
  BY DEF IInv
<1>2. ASSUME NEW d \in Conns PROVE InStep(d)'
  <2>1. CASE d # c
    <3>1. conns'[d] = conns[d]
      BY <1>1, <2>1
    <3> QED BY <3>1 DEF Synced, InStep, Reads
  <2>2. CASE d = c
    <3>1. CASE r.abandoned \/ Quiet(conns[d])
      BY <1>1, <2>2, <3>1 DEF InStep
    <3>2. CASE ~r.abandoned /\ \E p \in Clients :
                 /\ Reads(p, d)
                 /\ Asked(clients[p], conns[d]) \/ Answered(clients[p], conns[d])
      <4>1. PICK p \in Clients :
                 /\ Reads(p, d)
                 /\ Asked(clients[p], conns[d]) \/ Answered(clients[p], conns[d])
        BY <3>2
      <4>2. Quiet(r) \/ Asked(clients[p], r) \/ Answered(clients[p], r)
        BY <2>2, <3>2, <4>1
      <4>3. conns'[d] = r /\ clients'[p] = clients[p] /\ Reads(p, d)'
        BY <1>1, <2>2, <4>1 DEF Reads
      <4> QED BY <4>2, <4>3 DEF InStep
    <3> QED BY <2>2, <3>1, <3>2 DEF Synced, InStep
  <2> QED BY <2>1, <2>2
<1>3. \A d \in Conns : Fine(conns'[d])
  BY <1>1 DEF Synced
<1> QED BY <1>2, <1>3 DEF Synced

\* What the player sends for a page is a header and the items the client waits
\* for, and its end is where the client expects it.
LEMMA PageFits ==
  ASSUME NEW client \in GoodClients, client.step = "read", Paged(client),
         NEW request \in Requests, Wanted(client, request), request.type = "render",
         NEW total \in Totals
  PROVE  Left(client, Reply(request, total))
<1> DEFINE new == [type |-> "data", tx |-> request.tx, n |-> 0]
           header == [new EXCEPT !.type = "header"]
           footer == [new EXCEPT !.type = "footer"]
           item(k) == [new EXCEPT !.type = "item", !.n = request.from + k - 1]
           count == request.count
           items == [k \in 1 .. count |-> item(k)]
           reply == <<header>> \o items \o <<footer>>
           page == Tail(reply)
           first == client.items
<1>1. /\ client \in ClientType /\ client.expect = "header" /\ request.tx = client.tx
      /\ request.from = first
      /\ count = IF Limit < client.total - first THEN Limit ELSE client.total - first
  BY DEF GoodClients, Wanted
<1>2. /\ first \in Nat /\ client.total \in Nat /\ first < client.total
      /\ first % Limit = 0 /\ Limit \in Nat \ {0}
  BY <1>1, PagesTyped DEF GoodClients, ClientType, Paged
<1>3. count \in Nat \ {0} /\ count <= Limit /\ first + count <= client.total
  BY <1>1, <1>2
<1>4. first + count = client.total \/ count = Limit
  BY <1>1, <1>2
<1>5. Reply(request, total) = reply
  BY DEF Reply
<1>6. /\ header.type = "header" /\ header.tx = client.tx
      /\ footer.type = "footer" /\ footer.tx = client.tx
  BY <1>1
<1>7. ASSUME NEW k \in 1 .. count
      PROVE  item(k).type = "item" /\ item(k).tx = client.tx /\ item(k).n = first + k - 1
  BY <1>1
<1> DEFINE All == {item(k) : k \in 1 .. count} \cup {header, footer}
<1>8. /\ \A k \in 1 .. count : item(k) \in All
      /\ header \in All /\ footer \in All
  OBVIOUS
<1> HIDE DEF header, footer, item, All, new, count
<1>9. /\ items \in Seq(All) /\ Len(items) = count
      /\ \A k \in 1 .. count : items[k] = item(k)
  <2>1. items \in [1 .. count -> All] /\ \A k \in 1 .. count : items[k] = item(k)
    BY <1>8
  <2> HIDE DEF items
  <2>2. items \in Seq(All) /\ Len(items) = count
    BY <1>3, <2>1, SeqDef
  <2> QED BY <2>1, <2>2
<1> HIDE DEF items
<1>10. /\ reply \in Seq(All) /\ Len(reply) = count + 2 /\ reply[1] = header
       /\ \A k \in 1 .. count : reply[k + 1] = items[k]
       /\ reply[count + 2] = footer
  BY <1>3, <1>8, <1>9
<1> HIDE DEF reply
<1>11. /\ page \in Seq(All) /\ Len(page) = count + 1
       /\ \A k \in 1 .. count : page[k] = items[k]
       /\ page[count + 1] = footer
  BY <1>3, <1>10
<1> HIDE DEF page
<1>12. /\ (first + count) % Limit = 0 \/ first + count = client.total
       /\ \A i \in first + 1 .. first + count - 1 : i % Limit # 0
  <2>1. ASSUME count = Limit PROVE (first + count) % Limit = 0
    BY <1>2, <2>1, NextPage
  <2>2. ASSUME NEW i \in first + 1 .. first + count - 1 PROVE i % Limit # 0
    <3>1. i - first \in 1 .. Limit - 1 /\ i = first + (i - first)
      BY <1>2, <1>3
    <3>2. (first + (i - first)) % Limit # 0
      BY <1>2, <3>1, NextPage
    <3> QED BY <3>1, <3>2
  <2>3. (first + count) % Limit = 0 \/ first + count = client.total
    BY <1>4, <2>1, <1>2, NextPage
  <2> QED BY <2>2, <2>3
<1> DEFINE left == Len(page) - 1
<1>13. left = count /\ left \in Nat
  BY <1>3, <1>11
<1>14. PageLeft(client, page)
  <2>1. \A i \in 1 .. left : /\ page[i].type = "item" /\ page[i].tx = client.tx
                             /\ page[i].n = first + i - 1
    BY <1>7, <1>9, <1>11, <1>13
  <2>2. page[left + 1].type = "footer" /\ page[left + 1].tx = client.tx
    BY <1>6, <1>11, <1>13
  <2> DEFINE end == first + left
  <2>3. end = first + count
    BY <1>13
  <2>4. left >= 0 /\ end <= client.total /\ (end % Limit = 0 \/ end = client.total)
    BY <1>3, <1>12, <1>13, <2>3
  <2>5. \A i \in first + 1 .. end - 1 : i % Limit # 0
    BY <1>2, <1>3, <1>12, <1>13, <2>3
  <2> QED BY <2>1, <2>2, <2>4, <2>5 DEF PageLeft
<1>15. Len(reply) > 2
  BY <1>3, <1>10
<1> QED BY <1>1, <1>5, <1>6, <1>10, <1>14, <1>15 DEF Left, page

LEMMA ReplyFits ==
  ASSUME NEW client \in GoodClients, client.step = "read", Paged(client),
         NEW request \in Requests, Wanted(client, request), NEW total \in Totals
  PROVE  Left(client, Reply(request, total)) /\ Reply(request, total) # <<>>
<1> DEFINE new == [type |-> "data", tx |-> request.tx, n |-> 0]
<1>1. CASE request.type = "data"
  <2>1. Reply(request, total) = <<new>> /\ new.type = "data" /\ new.tx = request.tx
    BY <1>1 DEF Reply
  <2> HIDE DEF new
  <2>2. client.expect = "data" /\ request.tx = client.tx
    BY <1>1 DEF Wanted
  <2> QED BY <2>1, <2>2 DEF Left
<1>2. CASE request.type = "menu"
  <2> DEFINE found == [new EXCEPT !.type = "success", !.n = total]
  <2>1. /\ Reply(request, total) = <<found>>
        /\ found.type = "success" /\ found.tx = request.tx
    BY <1>2 DEF Reply
  <2> HIDE DEF found
  <2>2. client.expect = "success" /\ request.tx = client.tx
    BY <1>2 DEF Wanted
  <2> QED BY <2>1, <2>2 DEF Left
<1>3. CASE request.type = "render"
  <2>1. Left(client, Reply(request, total))
    BY <1>3, PageFits
  <2>2. client.expect = "header"
    BY <1>3 DEF Wanted
  <2>3. Len(Reply(request, total)) > 2
    BY <2>1, <2>2 DEF Left
  <2> QED BY <2>1, <2>3
<1> QED BY <1>1, <1>2, <1>3 DEF Wanted

LEMMA AnswerSynced ==
  ASSUME IInv, Synced, NEW c \in Conns, Answer(c) \/ Closes(c)
  PROVE  Synced'
<1> DEFINE conn == conns[c]
           request == Head(conn.sent)
<1>1. conn \in ConnType /\ conn.sent \in Seq(Requests) /\ Fine(conn)
  BY DEF IInv, GoodConns, ConnType, Synced
<1>2. UNCHANGED clients
  BY DEF Answer, Closes
<1>3. ASSUME conns' = [conns EXCEPT ![c] = Handled(conn, FALSE, <<>>, conn.inbox)]
      PROVE  Synced'
  <2> DEFINE r == Handled(conn, FALSE, <<>>, conn.inbox)
  <2>1. /\ ~r.abandoned => r.inbox = conn.inbox
        /\ r.sent = <<>> /\ r.garbled = conn.garbled
        /\ r.abandoned = conn.abandoned
    BY <1>1 DEF Handled, ConnType, Fine
  <2> HIDE DEF r
  <2>2. Fine(r) /\ OnlyGoodbyes(r.sent)
    BY <1>1, <2>1 DEF Fine, OnlyGoodbyes
  <2> HIDE DEF conn
  <2>3. ~r.abandoned /\ Quiet(conn) => Quiet(r)
    BY <2>1, <2>2 DEF Quiet
  <2>4. \A client : ~r.abandoned /\ Asked(client, conn) => Quiet(r)
    BY <2>1, <2>2 DEF Quiet, Asked
  <2>5. \A client : ~r.abandoned /\ Answered(client, conn) => Answered(client, r)
    BY <2>1, <2>2 DEF Answered
  <2> USE DEF conn
  <2>6. conns' = [conns EXCEPT ![c] = r] /\ r.abandoned = conns[c].abandoned
    BY <1>3, <2>1 DEF r
  <2> QED BY <1>2, <2>2, <2>3, <2>4, <2>5, <2>6, StreamMoves
<1>4. ASSUME /\ conn.open /\ conn.sent # <<>> /\ request.type # "goodbye"
             /\ \E total \in Totals : \E answer \in Answers(request, total) :
                  conns' = [conns EXCEPT ![c] =
                    Handled(conn, TRUE, Tail(conn.sent), conn.inbox \o answer)]
      PROVE  Synced'
  <2>0. PICK total \in Totals : \E answer \in Answers(request, total) :
          conns' = [conns EXCEPT ![c] =
            Handled(conn, TRUE, Tail(conn.sent), conn.inbox \o answer)]
    BY <1>4
  <2>1. PICK answer \in Answers(request, total) :
          conns' = [conns EXCEPT ![c] =
            Handled(conn, TRUE, Tail(conn.sent), conn.inbox \o answer)]
    BY <2>0
  <2> DEFINE r == Handled(conn, TRUE, Tail(conn.sent), conn.inbox \o answer)
  <2>2. /\ ~r.abandoned => r.inbox = conn.inbox \o answer
        /\ r.sent = Tail(conn.sent)
        /\ r.garbled = conn.garbled /\ r.abandoned = conn.abandoned /\ r.open
    BY <1>1 DEF Handled, ConnType, Fine
  <2> HIDE DEF r
  <2>3. Fine(r)
    BY <1>1, <2>2 DEF Fine
  <2>4. /\ 1 \in DOMAIN conn.sent /\ conn.sent[1] = request /\ request \in Requests
        /\ \A k \in DOMAIN r.sent : k + 1 \in DOMAIN conn.sent \ {1}
                                    /\ r.sent[k] = conn.sent[k + 1]
    <3> DEFINE sent == conn.sent
    <3>1. sent \in Seq(Requests) /\ sent # <<>> /\ r.sent = Tail(sent)
      BY <1>1, <1>4, <2>2
    <3> HIDE DEF sent
    <3>2. /\ 1 \in DOMAIN sent /\ sent[1] = Head(sent) /\ Head(sent) \in Requests
          /\ \A k \in DOMAIN r.sent : k + 1 \in DOMAIN sent \ {1}
                                      /\ r.sent[k] = sent[k + 1]
      BY <3>1
    <3> QED BY <3>2 DEF sent
  <2>5. ~OnlyGoodbyes(conn.sent)
    BY <1>4, <2>4 DEF OnlyGoodbyes
  <2>6. ASSUME NEW p \in Clients, ~r.abandoned, Reads(p, c), Asked(clients[p], conn)
        PROVE  Quiet(r) \/ Answered(clients[p], r)
    <3> DEFINE refusal == [type |-> "refusal", tx |-> request.tx, n |-> 0]
               client == clients[p]
    <3>1. refusal.type = "refusal" /\ refusal.tx = request.tx
      OBVIOUS
    <3>2. answer \in {<<>>, <<refusal>>, Reply(request, total)}
      BY <2>1 DEF Answers
    <3> HIDE DEF refusal, request
    <3>3. PICK k \in DOMAIN conn.sent :
            /\ Wanted(client, conn.sent[k])
            /\ \A j \in DOMAIN conn.sent \ {k} : conn.sent[j].type = "goodbye"
      BY <2>6 DEF Asked
    <3>4. k = 1
      BY <1>4, <2>4, <3>3
    <3>5. OnlyGoodbyes(r.sent) /\ Wanted(client, request)
      BY <2>4, <3>3, <3>4 DEF OnlyGoodbyes
    <3>6. r.inbox = answer
      <4>1. answer \in Seq(Responses)
        <5>1. Reply(request, total) \in Seq(Responses)
          BY <2>4, ReplyTyped
        <5>2. refusal \in Responses
          BY <2>4 DEF refusal, Requests, Responses, ResponseTypes
        <5>3. <<>> \in Seq(Responses) /\ <<refusal>> \in Seq(Responses)
          BY <5>2
        <5> QED BY <3>2, <5>1, <5>3
      <4> QED BY <2>2, <2>6, <4>1, ConcatEmptySeq DEF Asked
    <3>7. client \in GoodClients /\ client.step = "read" /\ Paged(client)
      BY <2>6 DEF IInv, Synced, Reads
    <3>8. CASE answer = <<>>
      BY <3>5, <3>6, <3>8 DEF Quiet
    <3>9. CASE answer = <<refusal>>
      <4>1. Refused(client, answer) /\ answer # <<>>
        BY <3>1, <3>5, <3>9 DEF Refused, Wanted
      <4> QED BY <3>5, <3>6, <4>1 DEF Answered
    <3>10. CASE answer = Reply(request, total)
      <4>1. Left(client, answer) /\ answer # <<>>
        BY <2>4, <3>5, <3>7, <3>10, ReplyFits
      <4> QED BY <3>5, <3>6, <4>1 DEF Answered
    <3> QED BY <3>2, <3>8, <3>9, <3>10
  <2>7. \A client : ~Answered(client, conn)
    BY <2>5 DEF Answered
  <2>8. ~Quiet(conn)
    BY <2>5 DEF Quiet
  <2>9. conns' = [conns EXCEPT ![c] = r] /\ r.abandoned = conns[c].abandoned
    BY <2>1, <2>2 DEF r
  <2> QED BY <1>2, <2>3, <2>6, <2>7, <2>8, <2>9, StreamMoves
<1> QED BY <1>3, <1>4 DEF Answer, Closes

-----------------------------------------------------------------------------
(* The theorems about the responses.                                        *)

LEMMA SyncedStep == IInv /\ Synced /\ [Next]_vars => Synced'
<1> SUFFICES ASSUME IInv, Synced, [Next]_vars PROVE Synced'
  OBVIOUS
<1>1. ASSUME NEW p \in Clients,
             \/ CallGet(p) \/ CallConnect(p) \/ GetStep(p) \/ ConnectFails(p)
             \/ StartQuery(p) \/ QueryStep(p) \/ Cancel(p) \/ Drop(p)
             \/ Forget(p) \/ CallDisconnect(p) \/ DisconnectStep(p)
      PROVE  Synced'
  <2>1. CASE CallGet(p) \/ CallConnect(p) \/ StartQuery(p)
    BY <2>1, GetSynced
  <2>2. CASE GetStep(p)
    BY <2>2, GetSynced, IntroduceSynced, InsertSynced DEF GetStep
  <2>3. CASE ConnectFails(p) \/ Drop(p)
    <3>1. clients[p].step # "read" /\ Becomes(p, IdleClient) /\ Sweep(conns)
      BY <2>3 DEF ConnectFails, Drop, At
    <3> QED BY <3>1, LeaveSynced
  <2>4. CASE QueryStep(p)
    BY <2>4, TakeLockSynced, WriteSynced, ReadSynced, QueryFailsSynced DEF QueryStep
  <2>5. CASE Cancel(p) \/ Forget(p)
    BY <2>5, CancelSynced, ForgetSynced
  <2>6. CASE CallDisconnect(p) \/ DisconnectStep(p)
    BY <2>6, DisconnectSynced, GoodbyeSynced DEF DisconnectStep
  <2> QED BY <1>1, <2>1, <2>2, <2>3, <2>4, <2>5, <2>6
<1>2. ASSUME NEW c \in Conns, Answer(c) \/ Closes(c) PROVE Synced'
  BY <1>2, AnswerSynced
<1>3. CASE UNCHANGED vars
  BY <1>3 DEF vars, Synced, InStep, Reads
<1> QED BY <1>1, <1>2, <1>3 DEF Next

LEMMA FitsWhenSynced == IInv /\ Synced => NextResponseFits
<1> SUFFICES ASSUME IInv, Synced, NEW p \in Clients,
                    At(p, "read"), ~Conn(p).abandoned, Conn(p).inbox # <<>>
             PROVE  /\ Head(Conn(p).inbox).type \in {clients[p].expect, "refusal"}
                    /\ ~Foreign(p, Head(Conn(p).inbox))
  BY DEF NextResponseFits
<1> DEFINE client == clients[p]
           inbox == Conn(p).inbox
<1>1. client \in ClientType /\ inbox \in Seq(Responses)
  BY DEF IInv, GoodClients, GoodConns, ConnType, Conn, At
<1>2. Answered(client, Conn(p))
  BY QueryInStep DEF Quiet, Asked, Querying, At
<1>3. Head(inbox) = inbox[1]
  BY <1>1
<1>4. CASE Left(client, inbox)
  BY <1>1, <1>3, <1>4, LeftFits DEF Foreign
<1>5. CASE Refused(client, inbox)
  BY <1>3, <1>5 DEF Refused, Foreign
<1> QED BY <1>2, <1>4, <1>5 DEF Answered

LEMMA InSyncWhenSynced == Synced => StreamInSync
<1> SUFFICES ASSUME Synced, NEW c \in Conns, ~conns[c].abandoned,
                    \A p \in Clients : ~(Querying(p) /\ clients[p].conn = c)
             PROVE  /\ conns[c].inbox = <<>>
                    /\ \A k \in DOMAIN conns[c].sent : conns[c].sent[k].type = "goodbye"
  BY DEF StreamInSync
<1>1. Quiet(conns[c])
  BY DEF Synced, InStep, Reads, Querying
<1> QED BY <1>1 DEF Quiet, OnlyGoodbyes

\* For menus and pages of any length, and any number of tasks, connections and
\* players' ids: as long as no query on a connection was cancelled, what is
\* read next answers the reader's last request, is of the type it waits for or
\* a refusal, and is the item that comes next.
THEOREM NextResponseFitsHolds == Spec => []NextResponseFits
<1> QED BY Initial, Preserved, SyncedInit, SyncedStep, FitsWhenSynced, PTL DEF Spec

\* Under the same conditions a connection that no query uses holds nothing the
\* next one would take for its own: a query ends with the last footer.
THEOREM StreamInSyncHolds == Spec => []StreamInSync
<1> QED BY Initial, Preserved, SyncedInit, SyncedStep, InSyncWhenSynced, PTL DEF Spec

-----------------------------------------------------------------------------
(* What a query reads and returns, against QueryService.                    *)

ReadType == [own : BOOLEAN, total : Nat, items : Seq(Nat)]
QueryType == [asked : {"data", "menu", "anything", None}, answer : ReadType \cup {None}]

\* The first items of a menu, in its order.
FirstItems(n) == [i \in 1 .. n |-> i - 1]

\* What the player sends besides the pages of a menu.
Genuine(response) ==
    /\ response.type = "success" => response.n \in Totals
    /\ response.type = "data" => response.n = 0
AllGenuine(conn) == \A k \in DOMAIN conn.inbox : Genuine(conn.inbox[k])

\* A query has read the answers to its own requests, and the items it counted.
ReadRight(client, read, asked) ==
    /\ asked \in {"data", "menu"} /\ (asked = "data" <=> client.expect = "data")
    /\ read.own = TRUE /\ read.items = FirstItems(client.items)
    /\ asked = "data" => read.total = 1 /\ client.items = 0
    /\ client.expect \in {"header", "item", "footer"} =>
         read.total = client.total /\ client.total \in Totals

Recorded(p) ==
    /\ Querying(p) => IF Conn(p).abandoned THEN queries[p].asked = "anything"
                      ELSE ReadRight(clients[p], reading[p], queries[p].asked)
    /\ clients[p].step \notin {"write", "read", "ready"} => queries[p] = NoQuery

History ==
    /\ reading \in [Clients -> ReadType] /\ queries \in [Clients -> QueryType]
    /\ \A c \in Conns : AllGenuine(conns[c])
    /\ \A p \in Clients : Recorded(p)

\* What other clients see of a step: their connections are as much abandoned as
\* they were, and all that arrives is genuine.
Undisturbed(c) ==
    /\ AllGenuine(conns[c]) => AllGenuine(conns'[c])
    /\ \A q \in Clients :
         Querying(q) /\ clients[q].conn = c => conns'[c].abandoned = conns[c].abandoned

LEMMA NothingIsTyped == NothingRead \in ReadType /\ NoQuery \in QueryType
BY DEF NothingRead, NoQuery, ReadType, QueryType

LEMMA NothingGenuine == AllGenuine(Closed)
BY DEF Closed, AllGenuine

\* A connection of which others hold a part, or that nobody holds.
LEMMA SweptUndisturbed ==
  ASSUME IInv, NEW p \in Clients, ~Querying(p),
         \A q \in Clients \ {p} : clients'[q] = clients[q],
         NEW new, Sweep(new), NEW c \in Conns,
         new[c].inbox = conns[c].inbox, new[c].abandoned = conns[c].abandoned
  PROVE  Undisturbed(c)
<1>1. conns'[c] = new[c] \/ conns'[c] = Closed
  BY DEF Sweep
<1>2. AllGenuine(conns[c]) => AllGenuine(conns'[c])
  BY <1>1, NothingGenuine DEF AllGenuine
<1>3. ASSUME NEW q \in Clients, Querying(q), clients[q].conn = c
      PROVE  conns'[c].abandoned = conns[c].abandoned
  <2>1. clients'[q].conn = c
    BY <1>3
  <2>2. conns'[c] = new[c]
    BY <2>1 DEF Sweep
  <2> QED BY <2>2
<1> QED BY <1>2, <1>3 DEF Undisturbed

\* The steps of clients that do not query.
LEMMA OtherSteps ==
  ASSUME IInv, NEW p \in Clients,
         \/ CallGet(p) \/ CallConnect(p) \/ GetStep(p) \/ ConnectFails(p)
         \/ StartQuery(p) \/ Drop(p)
         \/ Forget(p) \/ CallDisconnect(p) \/ DisconnectStep(p)
  PROVE  /\ \A c \in Conns : Undisturbed(c)
         /\ \A q \in Clients \ {p} : clients'[q] = clients[q]
         /\ ~Querying(p) /\ ~Querying(p)'
         /\ clients'[p].step = "ready" => clients[p].step \notin {"write", "read", "ready"}
<1>1. CASE CallGet(p) \/ CallConnect(p) \/ StartQuery(p)
  <2>1. PICK step \in {"find", "connect", "wait"} : Goes(p, step)
    BY <1>1 DEF CallGet, CallConnect, StartQuery
  <2>2. clients[p].step \in {"idle", "ready"} /\ UNCHANGED conns
    BY <1>1 DEF CallGet, CallConnect, StartQuery, At
  <2> QED BY <2>1, <2>2, Goings DEF Undisturbed, Querying
<1>2. CASE Find(p)
  <2>1. clients[p].step = "find" /\ UNCHANGED conns
    BY <1>2 DEF Find, At
  <2>2. CASE table # None
    <3> DEFINE m == [IdleClient EXCEPT !.step = "ready", !.conn = table,
                                       !.id = conns[table].id]
    <3>1. Becomes(p, m) /\ m.step = "ready"
      BY <1>2, <2>2 DEF Find, IdleClient
    <3> HIDE DEF m
    <3> QED BY <2>1, <3>1, Becomings DEF Undisturbed, Querying
  <2>3. CASE table = None
    <3>1. Goes(p, "connect")
      BY <1>2, <2>3 DEF Find
    <3> QED BY <2>1, <3>1, Goings DEF Undisturbed, Querying
  <2> QED BY <2>2, <2>3
<1>3. CASE Introduce(p)
  <2>1. PICK c \in Conns, host \in HostIds, cdjs \in Rigs :
        /\ \A q \in Clients : clients[q].conn # c
        /\ conns' = [conns EXCEPT ![c] =
             [Closed EXCEPT !.id = QueryIdFor(host, cdjs),
                            !.zero = 0 \in cdjs \cup {host}]]
        /\ clients' = [clients EXCEPT ![p].step = "intro", ![p].conn = c]
    BY <1>3 DEF Introduce
  <2>2. /\ clients[p].step = "connect" /\ clients'[p].step = "intro"
        /\ \A q \in Clients \ {p} : clients'[q] = clients[q]
    BY <1>3, <2>1 DEF Introduce, At, IInv, GoodClients, ClientType
  <2>3. ASSUME NEW d \in Conns PROVE Undisturbed(d)
    <3>1. CASE d = c
      <4>1. conns'[c].inbox = <<>>
        BY <2>1 DEF IInv, Closed
      <4> QED BY <2>1, <3>1, <4>1 DEF Undisturbed, AllGenuine
    <3>2. CASE d # c
      <4>1. conns'[d] = conns[d]
        BY <2>1, <3>2 DEF IInv
      <4> QED BY <4>1 DEF Undisturbed
    <3> QED BY <3>1, <3>2
  <2> QED BY <2>2, <2>3 DEF Querying
<1>4. CASE Insert(p)
  <2> DEFINE new == [conns EXCEPT ![clients[p].conn].open = TRUE]
             m == IF lock = p THEN [IdleClient EXCEPT !.step = "inserted"]
                  ELSE IdleClient
  <2>1. /\ clients[p].step = "intro" /\ Becomes(p, m) /\ Sweep(new)
        /\ m.step \in {"inserted", "idle"}
    BY <1>4 DEF Insert, At, IdleClient
  <2>2. /\ clients'[p].step \in {"inserted", "idle"}
        /\ \A q \in Clients \ {p} : clients'[q] = clients[q]
    BY <2>1, Becomings
  <2>3. \A c \in Conns : /\ new[c].inbox = conns[c].inbox
                         /\ new[c].abandoned = conns[c].abandoned
    BY DEF IInv, GoodConns, ConnType
  <2> HIDE DEF new
  <2> QED BY <2>1, <2>2, <2>3, SweptUndisturbed DEF Querying
<1>5. CASE FindAgain(p)
  <2> DEFINE m == IF table = None THEN IdleClient
                  ELSE [IdleClient EXCEPT !.step = "ready", !.conn = table,
                                          !.id = conns[table].id]
  <2>1. /\ clients[p].step = "inserted" /\ UNCHANGED conns /\ Becomes(p, m)
        /\ m.step \in {"idle", "ready"}
    BY <1>5 DEF FindAgain, At, IdleClient
  <2> HIDE DEF m
  <2> QED BY <2>1, Becomings DEF Undisturbed, Querying
<1>6. CASE ConnectFails(p) \/ Drop(p)
  <2>1. /\ clients[p].step \in {"connect", "intro", "ready"} /\ Sweep(conns)
        /\ Becomes(p, IdleClient) /\ IdleClient.step = "idle"
    BY <1>6 DEF ConnectFails, Drop, At, IdleClient
  <2>2. /\ clients'[p].step = "idle"
        /\ \A q \in Clients \ {p} : clients'[q] = clients[q]
    BY <2>1, Becomings
  <2> QED BY <2>1, <2>2, SweptUndisturbed DEF Querying
<1>7. CASE Forget(p)
  <2>1. clients[p].step = "idle" /\ clients' = clients /\ Sweep(conns)
    BY <1>7 DEF Forget, At
  <2> QED BY <2>1, SweptUndisturbed DEF Querying
<1>8. CASE CallDisconnect(p)
  <2> DEFINE m == [IdleClient EXCEPT !.step = "goodbye", !.conn = table]
  <2>1. Becomes(p, m) /\ m.step = "goodbye"
    BY <1>8 DEF CallDisconnect, IdleClient
  <2> HIDE DEF m
  <2>2. clients[p].step = "idle" /\ UNCHANGED conns
    BY <1>8 DEF CallDisconnect, At
  <2> QED BY <2>1, <2>2, Becomings DEF Undisturbed, Querying
<1>9. CASE Goodbye(p)
  <2> DEFINE c == clients[p].conn
  <2>1. PICK request : conns' = [conns EXCEPT ![c] = Sent(Conn(p), request)]
    BY <1>9 DEF Goodbye
  <2>2. clients[p].step = "goodbye" /\ Goes(p, "shut")
    BY <1>9 DEF Goodbye, At
  <2>3. \A d \in Conns : conns'[d].inbox = conns[d].inbox
                         /\ conns'[d].abandoned = conns[d].abandoned
    BY <2>1 DEF Sent, Conn, IInv, GoodConns, ConnType
  <2> QED BY <2>2, <2>3, Goings DEF Undisturbed, AllGenuine, Querying
<1>10. CASE Shut(p)
  <2> DEFINE new == [conns EXCEPT ![clients[p].conn].shut = TRUE]
  <2>1. /\ clients[p].step = "shut" /\ Sweep(new) /\ Becomes(p, IdleClient)
        /\ IdleClient.step = "idle"
    BY <1>10 DEF Shut, At, IdleClient
  <2>2. /\ clients'[p].step = "idle"
        /\ \A q \in Clients \ {p} : clients'[q] = clients[q]
    BY <2>1, Becomings
  <2>3. \A c \in Conns : /\ new[c].inbox = conns[c].inbox
                         /\ new[c].abandoned = conns[c].abandoned
    BY DEF IInv, GoodConns, ConnType
  <2> HIDE DEF new
  <2> QED BY <2>1, <2>2, <2>3, SweptUndisturbed DEF Querying
<1> QED
  BY <1>1, <1>2, <1>3, <1>4, <1>5, <1>6, <1>7, <1>8, <1>9, <1>10
     DEF GetStep, DisconnectStep

\* What is recorded of a client stands as long as nothing happens to it.
LEMMA StaysRecorded ==
  ASSUME History, NEW q \in Clients, clients'[q] = clients[q],
         reading'[q] = reading[q], queries'[q] = queries[q],
         Querying(q) => Conn(q)'.abandoned = Conn(q).abandoned
  PROVE  Recorded(q)'
BY DEF History, Recorded, Querying

LEMMA RecordsOne ==
  ASSUME History, NEW p \in Clients, NEW read \in ReadType, NEW query \in QueryType,
         Records(p, read, query)
  PROVE  /\ reading' \in [Clients -> ReadType] /\ queries' \in [Clients -> QueryType]
         /\ reading'[p] = read /\ queries'[p] = query
         /\ \A q \in Clients \ {p} : reading'[q] = reading[q] /\ queries'[q] = queries[q]
BY DEF History, Records

\* A step of a client that does not query, before or after.
LEMMA NotQuerying ==
  ASSUME IInv, History, NEW p \in Clients, \A c \in Conns : Undisturbed(c),
         \A q \in Clients \ {p} : clients'[q] = clients[q],
         ~Querying(p)', clients'[p].step # "ready" =>
           \/ UNCHANGED queries /\ clients[p].step \notin {"write", "read", "ready"}
           \/ queries'[p] = NoQuery,
         \/ UNCHANGED <<reading, queries>>
         \/ Records(p, NothingRead, NoQuery)
  PROVE  History'
<1>1. /\ reading' \in [Clients -> ReadType] /\ queries' \in [Clients -> QueryType]
      /\ \A q \in Clients \ {p} : reading'[q] = reading[q] /\ queries'[q] = queries[q]
  BY NothingIsTyped, RecordsOne DEF History
<1>2. \A c \in Conns : AllGenuine(conns'[c])
  BY DEF History, Undisturbed
<1>3. ASSUME NEW q \in Clients, q # p PROVE Recorded(q)'
  <2>1. clients'[q] = clients[q]
    BY <1>3
  <2>2. ASSUME Querying(q) PROVE Conn(q)'.abandoned = Conn(q).abandoned
    <3>1. clients[q].conn \in Conns
      BY <2>2 DEF IInv, GoodClients, Querying
    <3> QED BY <2>1, <2>2, <3>1 DEF Undisturbed, Conn
  <2> QED BY <1>1, <1>3, <2>1, <2>2, StaysRecorded
<1>4. Recorded(p)'
  BY DEF Recorded, Querying, History
<1>5. \A q \in Clients : Recorded(q)'
  BY <1>3, <1>4
<1> QED BY <1>1, <1>2, <1>5 DEF History

\* A step of a client that queries: nobody else does.
LEMMA WhileQuerying ==
  ASSUME IInv, History, NEW p \in Clients, Querying(p),
         \A q \in Clients \ {p} : clients'[q] = clients[q],
         \A c \in Conns : AllGenuine(conns'[c]),
         NEW read \in ReadType, NEW query \in QueryType,
         Records(p, read, query), Recorded(p)'
  PROVE  History'
<1>1. /\ reading' \in [Clients -> ReadType] /\ queries' \in [Clients -> QueryType]
      /\ \A q \in Clients \ {p} : reading'[q] = reading[q] /\ queries'[q] = queries[q]
  BY RecordsOne
<1>2. ASSUME NEW q \in Clients, q # p PROVE Recorded(q)'
  BY <1>1, <1>2, OneReads, StaysRecorded
<1>3. \A q \in Clients : Recorded(q)'
  BY <1>2
<1> QED BY <1>1, <1>3 DEF History

-----------------------------------------------------------------------------
(* The steps of a query.                                                    *)

LEMMA TakeLockRecorded ==
  ASSUME IInv, History, NEW p \in Clients, TakeLock(p), Begins(p)
  PROVE  History'
<1>1. PICK expect \in {"data", "success"} :
        Becomes(p, [Ready(p) EXCEPT !.step = "write", !.expect = expect])
  BY DEF TakeLock
<1> DEFINE m == [Ready(p) EXCEPT !.step = "write", !.expect = expect]
<1>2. m.expect = expect /\ m.items = 0 /\ m.conn = clients[p].conn /\ m.step = "write"
  BY DEF Ready, IdleClient
<1> HIDE DEF m
<1>3. clients'[p] = m /\ \A q \in Clients \ {p} : clients'[q] = clients[q]
  BY <1>1, Becomings DEF m
<1>4. UNCHANGED conns /\ clients[p].step = "wait"
  BY DEF TakeLock, At
<1> DEFINE data == m.expect = "data"
           total == IF data THEN 1 ELSE 0
           asked == IF Conn(p).abandoned THEN "anything"
                    ELSE IF data THEN "data" ELSE "menu"
           read == [NothingRead EXCEPT !.total = total]
           query == [NoQuery EXCEPT !.asked = asked]
<1>5. Records(p, read, query)
  BY <1>3 DEF Begins
<1>6. /\ read.own = TRUE /\ read.total = total /\ read.items = <<>>
      /\ query.asked = asked
  BY DEF NothingRead, NoQuery
<1>7. read \in ReadType /\ query \in QueryType
  <2>1. total \in Nat /\ asked \in {"data", "menu", "anything"}
    OBVIOUS
  <2> HIDE DEF total, asked
  <2>2. read \in ReadType
    BY <2>1, NothingIsTyped DEF ReadType
  <2>3. query \in QueryType
    BY <2>1, NothingIsTyped DEF QueryType
  <2> QED BY <2>2, <2>3
<1> HIDE DEF read, query
<1>8. reading'[p] = read /\ queries'[p] = query
  BY <1>5, <1>7, RecordsOne
<1>9. Recorded(p)'
  <2>1. Conn(p)'.abandoned = Conn(p).abandoned
    BY <1>2, <1>3, <1>4 DEF Conn
  <2>2. CASE Conn(p).abandoned
    BY <1>2, <1>3, <1>6, <1>8, <2>1, <2>2 DEF Recorded
  <2>3. CASE ~Conn(p).abandoned
    <3>1. FirstItems(m.items) = <<>>
      BY <1>2 DEF FirstItems
    <3>2. ReadRight(m, read, query.asked)
      BY <1>2, <1>6, <2>3, <3>1 DEF ReadRight
    <3> QED BY <1>2, <1>3, <1>8, <2>1, <2>3, <3>2 DEF Recorded
  <2> QED BY <2>2, <2>3
<1>10. ASSUME NEW q \in Clients, q # p PROVE Recorded(q)'
  <2>1. reading'[q] = reading[q] /\ queries'[q] = queries[q]
    BY <1>5, <1>7, <1>10, RecordsOne
  <2>2. Conn(q)'.abandoned = Conn(q).abandoned
    BY <1>3, <1>4, <1>10 DEF Conn
  <2> QED BY <1>3, <1>10, <2>1, <2>2, StaysRecorded
<1>11. /\ reading' \in [Clients -> ReadType] /\ queries' \in [Clients -> QueryType]
  BY <1>5, <1>7, RecordsOne
<1> QED BY <1>4, <1>9, <1>10, <1>11 DEF History

LEMMA WriteRecorded ==
  ASSUME IInv, History, NEW p \in Clients, Write(p), UNCHANGED <<reading, queries>>
  PROVE  History'
<1> DEFINE c == clients[p].conn
<1>1. /\ Querying(p) /\ c \in Conns /\ clients[p] \in ClientType
  BY DEF Write, At, Querying, IInv, GoodClients
<1>2. /\ clients'[p].step = "read" /\ clients'[p].conn = c
      /\ clients'[p].expect = clients[p].expect /\ clients'[p].items = clients[p].items
      /\ clients'[p].total = clients[p].total
      /\ \A q \in Clients \ {p} : clients'[q] = clients[q]
  BY <1>1 DEF Write, IInv, ClientType
<1>3. \A d \in Conns : conns'[d].inbox = conns[d].inbox
                       /\ conns'[d].abandoned = conns[d].abandoned
  BY <1>1 DEF Write, Sent, Conn, IInv, GoodConns, ConnType
<1>4. Recorded(p)'
  BY <1>1, <1>2, <1>3 DEF History, Recorded, Querying, Conn, ReadRight
<1>5. ASSUME NEW q \in Clients, q # p PROVE Recorded(q)'
  BY <1>1, <1>2, <1>5, OneReads, StaysRecorded
<1>6. \A d \in Conns : AllGenuine(conns'[d])
  BY <1>3 DEF History, AllGenuine
<1> QED BY <1>4, <1>5, <1>6 DEF History

LEMMA FirstItemsTyped ==
  ASSUME NEW n \in Nat
  PROVE  FirstItems(n) \in Seq(Nat)
BY DEF FirstItems

\* One item more.
LEMMA OneMoreItem ==
  ASSUME NEW n \in Nat
  PROVE  Append(FirstItems(n), n) = FirstItems(n + 1)
<1>1. FirstItems(n) \in Seq(Nat) /\ Len(FirstItems(n)) = n
  BY DEF FirstItems
<1>2. FirstItems(n + 1) \in Seq(Nat) /\ Len(FirstItems(n + 1)) = n + 1
  BY DEF FirstItems
<1>3. /\ Append(FirstItems(n), n) \in Seq(Nat)
      /\ Len(Append(FirstItems(n), n)) = n + 1
  BY <1>1
<1>4. ASSUME NEW i \in 1 .. n + 1
      PROVE  Append(FirstItems(n), n)[i] = FirstItems(n + 1)[i]
  <2>1. FirstItems(n + 1)[i] = i - 1
    BY DEF FirstItems
  <2>2. CASE i = n + 1
    BY <1>1, <2>1, <2>2
  <2>3. CASE i # n + 1
    <3>1. i \in 1 .. n /\ FirstItems(n)[i] = i - 1
      BY <2>3 DEF FirstItems
    <3>2. Append(FirstItems(n), n)[i] = FirstItems(n)[i]
      BY <1>1, <3>1
    <3> QED BY <2>1, <3>1, <3>2
  <2> QED BY <2>2, <2>3
<1> QED BY <1>2, <1>3, <1>4, SeqEqual

Whole(total) == [own |-> TRUE, total |-> total, items |-> FirstItems(total)]

\* What a query has read once it has read one more response.
LEMMA HeardRight ==
  ASSUME IInv, Synced, History, NEW p \in Clients, Read(p), ~Conn(p).abandoned
  PROVE  LET a == Head(Conn(p).inbox) IN
         /\ Heard(p) \in ReadType
         /\ ~QueryDone(p, a) => ReadRight(After(p, a), Heard(p), queries[p].asked)
         /\ QueryDone(p, a) =>
              \E total \in Service!Lengths(queries[p].asked) : Heard(p) = Whole(total)
<1> DEFINE a == Head(Conn(p).inbox)
           client == clients[p]
           asked == queries[p].asked
           own == reading[p].own /\ a.tx = client.tx
           total == IF a.type = "success" THEN a.n ELSE reading[p].total
           items == IF a.type \in {"data", "item"} THEN Append(reading[p].items, a.n)
                    ELSE reading[p].items
<1>1. /\ client \in GoodClients /\ client \in ClientType /\ client.items \in Nat
      /\ client.total \in Nat /\ client.step = "read" /\ Querying(p) /\ client.conn \in Conns
  BY DEF IInv, GoodClients, ClientType, Read, At, Querying
<1>2. Conn(p).inbox \in Seq(Responses) /\ Conn(p).inbox # <<>>
  BY <1>1 DEF IInv, GoodConns, ConnType, Conn, Read
<1>3. a \in Responses /\ a = Conn(p).inbox[1] /\ 1 \in DOMAIN Conn(p).inbox
  BY <1>2
<1>4. Genuine(a) /\ a.n \in Nat
  BY <1>1, <1>3 DEF History, AllGenuine, Conn, Responses
<1>5. /\ a.type = client.expect /\ a.tx = client.tx
      /\ a.type = "item" => a.n = client.items
  <2>1. At(p, "read") /\ a.type = client.expect
    BY DEF Read
  <2> QED BY <1>2, <2>1, FitsWhenSynced DEF NextResponseFits, Foreign
<1>6. ReadRight(client, reading[p], asked) /\ reading[p] \in ReadType
  BY <1>1 DEF History, Recorded
<1>7. Heard(p) = [own |-> own, total |-> total, items |-> items]
  BY DEF Heard
<1>8. own \in BOOLEAN /\ own = TRUE
  BY <1>5, <1>6 DEF ReadRight
<1>9. total \in Nat
  BY <1>4, <1>6 DEF ReadType
<1> DEFINE seen == IF a.type = "data" THEN 1 ELSE ItemsSeen(p, a)
<1>10. items = FirstItems(seen) /\ items \in Seq(Nat) /\ seen \in Nat
  <2>1. CASE a.type = "data"
    <3>1. a.n = 0 /\ reading[p].items = FirstItems(0)
      BY <1>4, <1>5, <1>6, <2>1 DEF Genuine, ReadRight
    <3>2. Append(FirstItems(0), 0) = FirstItems(1)
      <4>1. Append(FirstItems(0), 0) = FirstItems(0 + 1)
        BY OneMoreItem
      <4> QED BY <4>1
    <3> QED BY <2>1, <3>1, <3>2, FirstItemsTyped
  <2>2. CASE a.type = "item"
    <3>1. items = FirstItems(client.items + 1) /\ seen = client.items + 1
      BY <1>1, <1>5, <1>6, <2>2, OneMoreItem DEF ReadRight, ItemsSeen
    <3>2. FirstItems(client.items + 1) \in Seq(Nat) /\ client.items + 1 \in Nat
      <4>1. client.items + 1 \in Nat
        BY <1>1
      <4> QED BY <4>1, FirstItemsTyped, Zenon
    <3> HIDE DEF items, seen, client
    <3> QED BY <3>1, <3>2
  <2>3. CASE a.type \notin {"data", "item"}
    <3>1. items = FirstItems(client.items) /\ seen = client.items
      BY <1>6, <2>3 DEF ReadRight, ItemsSeen
    <3>2. FirstItems(client.items) \in Seq(Nat) /\ client.items \in Nat
      BY <1>1, FirstItemsTyped
    <3> HIDE DEF items, seen, client
    <3> QED BY <3>1, <3>2
  <2> QED BY <2>1, <2>2, <2>3
<1> HIDE DEF own, total, items
<1>11. /\ Heard(p).own = own /\ Heard(p).total = total /\ Heard(p).items = items
       /\ Heard(p) \in ReadType
  BY <1>7, <1>8, <1>9, <1>10 DEF ReadType
<1>12. ASSUME ~QueryDone(p, a) PROVE ReadRight(After(p, a), Heard(p), asked)
  <2> DEFINE m == After(p, a)
  <2>1. /\ m.items = ItemsSeen(p, a) /\ m.total = MenuLength(p, a)
        /\ m.expect = NextExpected(p, a)
    BY <1>1, <1>12 DEF After, ClientType
  <2> HIDE DEF m
  <2>2. a.type # "data" /\ asked = "menu"
    BY <1>5, <1>6, <1>12 DEF QueryDone, ReadRight
  <2>3. m.expect \in {"header", "item", "footer"}
    BY <2>1 DEF NextExpected
  <2>4. total = m.total /\ m.total \in Totals
    <3>1. CASE a.type = "success"
      BY <1>4, <2>1, <3>1 DEF total, MenuLength, Genuine
    <3>2. CASE a.type # "success"
      <4>1. client.expect \in {"header", "item", "footer"}
        BY <1>1, <1>5, <2>2, <3>2 DEF GoodClients
      <4>2. reading[p].total = client.total /\ client.total \in Totals
        BY <1>6, <4>1 DEF ReadRight
      <4> QED BY <2>1, <3>2, <4>2 DEF total, MenuLength
    <3> QED BY <3>1, <3>2
  <2>5. items = FirstItems(m.items)
    BY <1>10, <2>1, <2>2
  <2>6. ReadRight(m, Heard(p), asked)
    BY <1>8, <1>11, <2>2, <2>3, <2>4, <2>5 DEF ReadRight
  <2> QED BY <2>6 DEF m
<1>13. ASSUME QueryDone(p, a)
       PROVE  \E t \in Service!Lengths(asked) : Heard(p) = Whole(t)
  <2>1. total = seen /\ total \in Service!Lengths(asked)
    <3>1. CASE a.type = "data"
      BY <1>5, <1>6, <3>1 DEF ReadRight, total, Service!Lengths
    <3>2. CASE a.type = "success"
      <4>1. asked = "menu"
        BY <1>5, <1>6, <3>2 DEF ReadRight
      <4> QED BY <1>4, <1>13, <3>2, <4>1
            DEF QueryDone, MenuLength, Genuine, total, Service!Lengths
    <3>3. CASE a.type = "footer"
      <4>1. asked = "menu"
        BY <1>5, <1>6, <3>3 DEF ReadRight
      <4>2. reading[p].total = client.total /\ client.total \in Totals
        BY <1>5, <1>6, <3>3 DEF ReadRight
      <4> QED BY <1>13, <3>3, <4>1, <4>2 DEF QueryDone, MenuLength, total, Service!Lengths
    <3> QED BY <1>13, <3>1, <3>2, <3>3 DEF QueryDone
  <2>2. Heard(p) = Whole(total)
    BY <1>7, <1>8, <1>10, <2>1 DEF Whole
  <2> QED BY <2>1, <2>2
<1> QED BY <1>11, <1>12, <1>13

LEMMA ReadRecorded ==
  ASSUME IInv, Synced, History, NEW p \in Clients, Read(p), Hears(p)
  PROVE  History'
<1> DEFINE c == clients[p].conn
           a == Head(Conn(p).inbox)
           m == After(p, a)
<1>1. /\ Querying(p) /\ c \in Conns /\ clients[p].step = "read"
      /\ conns \in [Conns -> GoodConns] /\ conns[c].inbox \in Seq(Responses)
  BY DEF Read, At, Querying, IInv, GoodClients, GoodConns, ConnType
<1>2. /\ a \in Responses /\ a.type = clients[p].expect
  BY <1>1 DEF Read, Conn
<1>3. /\ clients'[p] = m /\ \A q \in Clients \ {p} : clients'[q] = clients[q]
      /\ m.conn = c /\ m.step \in {"ready", "write", "read"}
      /\ m.step = "ready" <=> QueryDone(p, a)
  <2>1. Becomes(p, m)
    BY DEF Read
  <2>2. At(p, "read")
    BY DEF Read
  <2>3. m.step = "ready" <=> QueryDone(p, a)
    BY <1>1 DEF After, Ready, IdleClient, NextStep, IInv, GoodClients, ClientType
  <2> HIDE DEF m
  <2> QED BY <1>2, <2>1, <2>2, <2>3, Becomings, AfterTyped DEF m
<1> HIDE DEF m
<1>4. /\ \A d \in Conns : conns'[d].abandoned = conns[d].abandoned
      /\ \A d \in Conns \ {c} : conns'[d] = conns[d]
      /\ conns'[c].inbox = Tail(conns[c].inbox)
  BY <1>1 DEF Read, GoodConns, ConnType
<1>5. ASSUME NEW d \in Conns PROVE AllGenuine(conns'[d])
  <2>1. CASE d # c
    BY <1>4, <2>1 DEF History
  <2>2. CASE d = c
    <3>1. conns[c].inbox # <<>>
      BY DEF Read, Conn
    <3>2. PICK n \in Nat : n = Len(conns[c].inbox) /\ n # 0
      BY <1>1, <3>1, EmptySeq
    <3>3. ASSUME NEW k \in DOMAIN conns'[c].inbox PROVE Genuine(conns'[c].inbox[k])
      <4>1. k + 1 \in DOMAIN conns[c].inbox /\ conns'[c].inbox[k] = conns[c].inbox[k + 1]
        BY <1>1, <1>4, <3>1, <3>2
      <4> QED BY <1>1, <4>1 DEF History, AllGenuine
    <3> QED BY <2>2, <3>3 DEF AllGenuine
  <2> QED BY <2>1, <2>2
<1>6. /\ Conn(p)'.abandoned = Conn(p).abandoned /\ queries[p] \in QueryType
      /\ queries[p].asked = "anything" <=> Conn(p).abandoned
  BY <1>1, <1>3, <1>4 DEF Conn, History, Recorded, ReadRight
<1>7. CASE ~Conn(p).abandoned /\ m.step # "ready"
  <2>1. Records(p, Heard(p), queries[p])
    BY <1>3, <1>6, <1>7 DEF Hears
  <2>2. Heard(p) \in ReadType /\ ReadRight(m, Heard(p), queries[p].asked)
    BY <1>3, <1>7, HeardRight DEF m
  <2>3. reading'[p] = Heard(p) /\ queries'[p] = queries[p]
    BY <1>6, <2>1, <2>2, RecordsOne
  <2>4. Recorded(p)'
    BY <1>3, <1>6, <1>7, <2>2, <2>3 DEF Recorded
  <2> QED BY <1>1, <1>3, <1>5, <1>6, <2>1, <2>2, <2>4, WhileQuerying
<1>8. CASE ~Conn(p).abandoned /\ m.step = "ready"
  <2> DEFINE query == [queries[p] EXCEPT !.answer = Heard(p)]
  <2>1. Records(p, NothingRead, query)
    BY <1>3, <1>6, <1>8 DEF Hears
  <2>2. Heard(p) \in ReadType
    BY <1>8, HeardRight
  <2>3. query \in QueryType
    BY <1>6, <2>2 DEF QueryType
  <2>4. Recorded(p)'
    BY <1>3, <1>8 DEF Recorded, Querying
  <2> QED BY <1>1, <1>3, <1>5, <2>1, <2>3, <2>4, NothingIsTyped, WhileQuerying
<1>9. CASE Conn(p).abandoned /\ m.step # "ready"
  <2>1. UNCHANGED <<reading, queries>>
    BY <1>3, <1>6, <1>9 DEF Hears
  <2>2. Records(p, reading[p], queries[p]) /\ reading[p] \in ReadType
    BY <2>1 DEF Records, History
  <2>3. Recorded(p)'
    BY <1>3, <1>6, <1>9, <2>1 DEF Recorded
  <2> QED BY <1>1, <1>3, <1>5, <1>6, <2>2, <2>3, WhileQuerying
<1>10. CASE Conn(p).abandoned /\ m.step = "ready"
  <2>1. Records(p, NothingRead, NoQuery)
    BY <1>3, <1>6, <1>10 DEF Hears
  <2>2. Recorded(p)'
    BY <1>3, <1>10 DEF Recorded, Querying
  <2> QED BY <1>1, <1>3, <1>5, <2>1, <2>2, NothingIsTyped, WhileQuerying
<1> QED BY <1>7, <1>8, <1>9, <1>10

LEMMA QueryFailsRecorded ==
  ASSUME IInv, History, NEW p \in Clients, QueryFails(p),
         Records(p, NothingRead, NoQuery)
  PROVE  History'
<1> DEFINE c == clients[p].conn
<1>1. /\ Querying(p) /\ c \in Conns /\ conns \in [Conns -> GoodConns]
      /\ conns[c].inbox \in Seq(Responses)
  BY DEF QueryFails, At, Querying, IInv, GoodClients, GoodConns, ConnType
<1>2. Becomes(p, Ready(p)) /\ Ready(p).step = "ready"
  BY DEF QueryFails, Ready, IdleClient
<1>3. clients'[p].step = "ready" /\ \A q \in Clients \ {p} : clients'[q] = clients[q]
  BY <1>2, Becomings
<1>4. ASSUME NEW d \in Conns PROVE AllGenuine(conns'[d])
  <2>1. CASE UNCHANGED conns
    BY <2>1 DEF History
  <2>2. CASE /\ conns[c].inbox # <<>>
             /\ conns' = [conns EXCEPT ![c].inbox = Tail(@)]
    <3>1. PICK n \in Nat : n = Len(conns[c].inbox) /\ n # 0
      BY <1>1, <2>2, EmptySeq
    <3>2. CASE d = c
      <4>1. conns'[c].inbox = Tail(conns[c].inbox)
        BY <1>1, <2>2 DEF GoodConns, ConnType
      <4>2. ASSUME NEW k \in DOMAIN conns'[c].inbox PROVE Genuine(conns'[c].inbox[k])
        <5>1. k + 1 \in DOMAIN conns[c].inbox /\ conns'[c].inbox[k] = conns[c].inbox[k + 1]
          BY <1>1, <2>2, <3>1, <4>1
        <5> QED BY <1>1, <5>1 DEF History, AllGenuine
      <4> QED BY <3>2, <4>2 DEF AllGenuine
    <3>3. CASE d # c
      BY <1>1, <2>2, <3>3 DEF History
    <3> QED BY <3>2, <3>3
  <2> QED BY <2>1, <2>2 DEF QueryFails, Conn
<1>5. Recorded(p)'
  BY <1>3 DEF Recorded, Querying
<1> QED BY <1>1, <1>3, <1>4, <1>5, NothingIsTyped, WhileQuerying

LEMMA CancelRecorded ==
  ASSUME IInv, History, NEW p \in Clients, Cancel(p), Records(p, NothingRead, NoQuery)
  PROVE  History'
<1> DEFINE c == clients[p].conn
           m == IF clients[p].step \in {"wait", "write", "read"}
                THEN Ready(p) ELSE IdleClient
<1>1. Becomes(p, m) /\ m.step \in {"ready", "idle"}
  BY DEF Cancel, Ready, IdleClient
<1> HIDE DEF m
<1>2. /\ clients'[p].step \in {"ready", "idle"}
      /\ \A q \in Clients \ {p} : clients'[q] = clients[q]
  BY <1>1, Becomings
<1>3. ~Querying(p)' /\ queries'[p] = NoQuery
  BY <1>2, NothingIsTyped, RecordsOne DEF Querying
<1>4. CASE Querying(p)
  <2>1. c \in Conns /\ conns \in [Conns -> GoodConns]
    BY <1>4 DEF IInv, GoodClients, Querying
  <2>2. PICK garbled :
          conns' = [conns EXCEPT ![c] =
            [Conn(p) EXCEPT !.abandoned = TRUE, !.garbled = garbled,
                            !.inbox = IF garbled THEN <<>> ELSE @]]
    BY <1>4 DEF Cancel, Querying
  <2>3. \A d \in Conns : conns'[d].inbox \in {conns[d].inbox, <<>>}
    BY <2>1, <2>2 DEF Conn, GoodConns, ConnType
  <2>4. \A d \in Conns : AllGenuine(conns'[d])
    BY <2>3 DEF History, AllGenuine
  <2>5. Recorded(p)'
    BY <1>3 DEF Recorded
  <2> QED BY <1>2, <1>4, <2>4, <2>5, NothingIsTyped, WhileQuerying
<1>5. CASE ~Querying(p)
  <2>1. Sweep(conns)
    BY <1>5 DEF Cancel, Querying
  <2>2. \A d \in Conns : Undisturbed(d)
    BY <1>2, <1>5, <2>1, SweptUndisturbed
  <2> QED BY <1>2, <1>3, <2>2, NotQuerying
<1> QED BY <1>4, <1>5

\* What the player sends.
LEMMA RepliesGenuine ==
  ASSUME NEW request \in Requests, NEW total \in Totals,
         NEW answer \in Answers(request, total)
  PROVE  answer \in Seq(Responses) /\ \A k \in DOMAIN answer : Genuine(answer[k])
<1> DEFINE new == [type |-> "data", tx |-> request.tx, n |-> 0]
           refusal == [type |-> "refusal", tx |-> request.tx, n |-> 0]
           found == [new EXCEPT !.type = "success", !.n = total]
           header == [new EXCEPT !.type = "header"]
           item == [k \in 1 .. request.count |->
                     [new EXCEPT !.type = "item", !.n = request.from + k - 1]]
           footer == [new EXCEPT !.type = "footer"]
<1>1. /\ refusal \in Responses /\ Genuine(refusal) /\ <<>> \in Seq(Responses)
      /\ Genuine(new) /\ Genuine(found) /\ Genuine(header) /\ Genuine(footer)
  BY DEF Requests, Responses, ResponseTypes, Genuine
<1>2. Reply(request, total) \in Seq(Responses)
  BY ReplyTyped
<1>3. answer \in {<<>>, <<refusal>>, Reply(request, total)}
  BY DEF Answers
<1>4. ASSUME NEW k \in DOMAIN Reply(request, total)
      PROVE  Genuine(Reply(request, total)[k])
  <2>1. CASE request.type \in {"data", "menu"}
    <3>1. Reply(request, total) \in {<<new>>, <<found>>}
      BY <2>1 DEF Reply
    <3> HIDE DEF new, found
    <3> QED BY <1>1, <3>1
  <2>2. CASE request.type \notin {"data", "menu"}
    <3>1. Reply(request, total) = <<header>> \o item \o <<footer>>
      BY <2>2 DEF Reply
    <3>2. \A i \in 1 .. request.count : Genuine(item[i])
      BY DEF Genuine
    <3>3. request.count \in Nat /\ header \in Responses /\ footer \in Responses
          /\ item \in [1 .. request.count -> Responses]
      <4>1. request.count \in Nat /\ request.from \in Nat /\ request.tx \in Nat
        BY DEF Requests
      <4>2. new \in Responses /\ header \in Responses /\ footer \in Responses
        BY <4>1 DEF Responses, ResponseTypes
      <4>3. ASSUME NEW i \in 1 .. request.count PROVE item[i] \in Responses
        <5>1. request.from + i - 1 \in Nat
          BY <4>1
        <5> QED BY <4>1, <5>1 DEF Responses, ResponseTypes
      <4> HIDE DEF new
      <4>4. item \in [1 .. request.count -> Responses]
        BY <4>3
      <4> QED BY <4>1, <4>2, <4>4
    <3> HIDE DEF header, item, footer
    <3>4. item \in Seq(Responses) /\ Len(item) = request.count
      BY <3>3, SeqDef
    <3>5. Reply(request, total)[k] \in {header, footer} \cup {item[i] : i \in 1 .. request.count}
      BY <3>1, <3>3, <3>4
    <3> QED BY <1>1, <3>2, <3>5 DEF header, footer
  <2> QED BY <2>1, <2>2
<1> HIDE DEF refusal
<1>5. \A k \in DOMAIN <<refusal>> : <<refusal>>[k] = refusal
  OBVIOUS
<1>6. <<refusal>> \in Seq(Responses)
  BY <1>1
<1>7. CASE answer = Reply(request, total)
  BY <1>2, <1>4, <1>7
<1>8. CASE answer = <<refusal>>
  BY <1>1, <1>5, <1>6, <1>8
<1>9. CASE answer = <<>>
  BY <1>1, <1>9
<1> QED BY <1>3, <1>7, <1>8, <1>9

LEMMA PlayerRecorded ==
  ASSUME IInv, History, NEW c \in Conns, Answer(c) \/ Closes(c),
         UNCHANGED <<reading, queries>>
  PROVE  History'
<1> DEFINE conn == conns[c]
           request == Head(conn.sent)
<1>1. /\ conns \in [Conns -> GoodConns] /\ conn \in ConnType /\ UNCHANGED clients
      /\ conn.sent \in Seq(Requests) /\ conn.inbox \in Seq(Responses)
  BY DEF IInv, GoodConns, ConnType, Answer, Closes
<1>2. ASSUME NEW inbox, NEW open, NEW sent,
             conns' = [conns EXCEPT ![c] = Handled(conn, open, sent, inbox)],
             \A k \in DOMAIN inbox : Genuine(inbox[k])
      PROVE  History'
  <2>1. /\ conns'[c].inbox \in {inbox, <<>>} /\ conns'[c].abandoned = conn.abandoned
        /\ \A d \in Conns \ {c} : conns'[d] = conns[d]
    BY <1>1, <1>2 DEF Handled, ConnType
  <2>2. \A d \in Conns : AllGenuine(conns'[d])
    BY <1>2, <2>1 DEF History, AllGenuine
  <2>3. \A q \in Clients : Querying(q) => Conn(q)'.abandoned = Conn(q).abandoned
    BY <1>1, <2>1 DEF Conn, IInv, GoodClients, Querying
  <2>4. \A q \in Clients : Recorded(q)'
    BY <1>1, <2>3, StaysRecorded
  <2> QED BY <2>2, <2>4 DEF History
<1>3. \A k \in DOMAIN conn.inbox : Genuine(conn.inbox[k])
  BY DEF History, AllGenuine
<1>4. CASE Closes(c) \/ (Answer(c) /\ request.type = "goodbye")
  <2>1. conns' = [conns EXCEPT ![c] = Handled(conn, FALSE, <<>>, conn.inbox)]
    BY <1>4 DEF Closes, Answer
  <2> QED BY <1>2, <1>3, <2>1
<1>5. CASE Answer(c) /\ request.type # "goodbye"
  <2>1. PICK total \in Totals : \E answer \in Answers(request, total) :
          conns' = [conns EXCEPT ![c] =
            Handled(conn, TRUE, Tail(conn.sent), conn.inbox \o answer)]
    BY <1>5 DEF Answer
  <2>2. PICK answer \in Answers(request, total) :
          conns' = [conns EXCEPT ![c] =
            Handled(conn, TRUE, Tail(conn.sent), conn.inbox \o answer)]
    BY <2>1
  <2>3. request \in Requests
    BY <1>1, <1>5 DEF Answer
  <2> HIDE DEF request
  <2>4. answer \in Seq(Responses) /\ \A k \in DOMAIN answer : Genuine(answer[k])
    BY <2>3, RepliesGenuine
  <2> DEFINE inbox == conn.inbox
  <2>5. inbox \in Seq(Responses) /\ \A k \in DOMAIN inbox : Genuine(inbox[k])
    BY <1>1, <1>3
  <2> HIDE DEF inbox
  <2>6. ASSUME NEW k \in DOMAIN (inbox \o answer) PROVE Genuine((inbox \o answer)[k])
    <3>1. PICK n \in Nat : n = Len(inbox)
      BY <2>5
    <3>2. PICK l \in Nat : l = Len(answer)
      BY <2>4
    <3>3. k \in 1 .. n + l
      BY <2>4, <2>5, <3>1, <3>2
    <3>4. CASE k <= n
      BY <2>4, <2>5, <3>1, <3>2, <3>3, <3>4
    <3>5. CASE k > n
      <4>1. k - n \in DOMAIN answer /\ (inbox \o answer)[k] = answer[k - n]
        BY <2>4, <2>5, <3>1, <3>2, <3>3, <3>5
      <4> QED BY <2>4, <4>1
    <3> QED BY <3>3, <3>4, <3>5
  <2> QED BY <1>2, <2>2, <2>6 DEF inbox
<1> QED BY <1>4, <1>5

-----------------------------------------------------------------------------
(* Every step is one of QueryService, or none.                              *)

Turn == {p \in Clients : Querying(p)}
Stutters == Turn' = Turn /\ queries' = queries

LEMMA Stuttering == Stutters => UNCHANGED Service!vars
BY DEF Stutters, Turn, Service!vars

LEMMA QueryStepIsStep == [QueryNext]_queryVars => [Next]_vars
BY DEF QueryNext, queryVars, vars, Next, QueryStep

\* The history adds nothing to what the program does: what holds of Spec holds
\* of QuerySpec.
LEMMA HistoryWatches == QuerySpec => Spec
<1>1. QueryInit => Init
  BY DEF QueryInit
<1> QED BY <1>1, QueryStepIsStep, PTL DEF QuerySpec, Spec

LEMMA HistoryInit == QueryInit => History
<1> SUFFICES ASSUME QueryInit PROVE History
  OBVIOUS
<1>1. /\ Closed \in ConnType /\ \A c \in Conns : conns[c] = Closed
      /\ \A p \in Clients : clients[p].step = "idle"
  BY ClosedIsGood DEF QueryInit, Init, IdleClient, GoodConns
<1>2. \A c \in Conns : AllGenuine(conns[c])
  BY <1>1, NothingGenuine
<1>3. \A p \in Clients : Recorded(p)
  BY <1>1 DEF QueryInit, Recorded, Querying
<1> QED BY <1>2, <1>3, NothingIsTyped DEF QueryInit, History

LEMMA ServiceInit == QueryInit => Service!Init
<1> SUFFICES ASSUME QueryInit PROVE Service!Init
  OBVIOUS
<1>1. {p \in Clients : Querying(p)} = {}
  BY DEF QueryInit, Init, IdleClient, Querying
<1> QED BY <1>1 DEF QueryInit, Service!Init, NoQuery, Service!NoQuery

LEMMA HistoryStep ==
  IInv /\ Synced /\ History /\ [QueryNext]_queryVars => History'
<1> SUFFICES ASSUME IInv, Synced, History, [QueryNext]_queryVars PROVE History'
  OBVIOUS
<1>1. ASSUME NEW p \in Clients, StartQuery(p) \/ Drop(p), Records(p, NothingRead, NoQuery)
      PROVE  History'
  <2>1. queries'[p] = NoQuery
    BY <1>1, NothingIsTyped, RecordsOne
  <2> QED BY <1>1, <2>1, OtherSteps, NotQuerying
<1>2. ASSUME NEW p \in Clients,
             \/ CallGet(p) \/ CallConnect(p) \/ GetStep(p) \/ ConnectFails(p)
             \/ Forget(p) \/ CallDisconnect(p) \/ DisconnectStep(p),
             UNCHANGED <<reading, queries>>
      PROVE  History'
  <2>1. clients[p].step # "ready"
    BY <1>2 DEF CallGet, CallConnect, GetStep, Find, Introduce, Insert, FindAgain,
         ConnectFails, Forget, CallDisconnect, DisconnectStep, Goodbye, Shut, At
  <2>2. clients[p].step \notin {"write", "read", "ready"}
    BY <1>2, <2>1, OtherSteps DEF Querying
  <2> QED BY <1>2, <2>2, OtherSteps, NotQuerying
<1>3. ASSUME NEW p \in Clients, TakeLock(p) /\ Begins(p) PROVE History'
  BY <1>3, TakeLockRecorded
<1>4. ASSUME NEW p \in Clients, Read(p) /\ Hears(p) PROVE History'
  BY <1>4, ReadRecorded
<1>5. ASSUME NEW p \in Clients, QueryFails(p) \/ Cancel(p), Records(p, NothingRead, NoQuery)
      PROVE  History'
  BY <1>5, QueryFailsRecorded, CancelRecorded
<1>6. ASSUME NEW p \in Clients, Write(p), UNCHANGED <<reading, queries>> PROVE History'
  BY <1>6, WriteRecorded
<1>7. ASSUME NEW c \in Conns, Answer(c) \/ Closes(c), UNCHANGED <<reading, queries>>
      PROVE  History'
  BY <1>7, PlayerRecorded
<1>8. CASE UNCHANGED queryVars
  BY <1>8 DEF queryVars, vars, History, Recorded, Querying, Conn, AllGenuine
<1> QED BY <1>1, <1>2, <1>3, <1>4, <1>5, <1>6, <1>7, <1>8 DEF QueryNext

\* Whose turn it is after a step of a client that others only watch.
LEMMA TurnAfter ==
  ASSUME IInv, NEW p \in Clients,
         \A q \in Clients \ {p} : clients'[q] = clients[q]
  PROVE  /\ Querying(p)' /\ Querying(p) => Turn' = Turn
         /\ ~Querying(p)' /\ ~Querying(p) => Turn' = Turn
         /\ Querying(p)' /\ lock = None => Turn = {} /\ Turn' = {p}
         /\ ~Querying(p)' /\ Querying(p) => Turn = {p} /\ Turn' = {}
<1>1. \A q \in Clients \ {p} : Querying(q)' <=> Querying(q)
  BY DEF Querying
<1>2. lock = None => \A q \in Clients : ~Querying(q)
  BY NoneIsNoOne DEF IInv, QueriesAreSerialised
<1>3. Querying(p) => \A q \in Clients \ {p} : ~Querying(q)
  BY OneReads
<1>4. Turn' = {q \in Clients : Querying(q)'}
  BY DEF Turn
<1> HIDE DEF Querying
<1>5. CASE Querying(p)' <=> Querying(p)
  <2>1. Turn' = Turn
    BY <1>1, <1>4, <1>5 DEF Turn
  <2> QED BY <1>2, <1>5, <2>1
<1>6. CASE Querying(p)' /\ ~Querying(p)
  BY <1>1, <1>2, <1>4, <1>6 DEF Turn
<1>7. CASE ~Querying(p)' /\ Querying(p)
  BY <1>1, <1>3, <1>4, <1>7 DEF Turn
<1> QED BY <1>5, <1>6, <1>7

LEMMA ServiceStep ==
  IInv /\ Synced /\ History /\ [QueryNext]_queryVars => [Service!Next]_(Service!vars)
<1> SUFFICES ASSUME IInv, Synced, History, [QueryNext]_queryVars
             PROVE  Service!Next \/ UNCHANGED Service!vars
  OBVIOUS
<1>1. ASSUME NEW p \in Clients, p \notin Turn, Turn' = Turn, Records(p, NothingRead, NoQuery)
      PROVE  Service!Next \/ UNCHANGED Service!vars
  <2>1. queries' = [queries EXCEPT ![p] = NoQuery]
    BY <1>1 DEF Records
  <2>2. CASE queries[p] = NoQuery
    <3>1. queries' = queries
      BY <2>1, <2>2 DEF History
    <3> QED BY <1>1, <3>1, Stuttering DEF Stutters
  <2>3. CASE queries[p] # NoQuery
    <3>1. Service!Leave(p)
      BY <1>1, <2>1, <2>3 DEF Service!Leave, NoQuery, Service!NoQuery, Turn
    <3> QED BY <3>1 DEF Service!Next
  <2> QED BY <2>2, <2>3
<1>2. ASSUME NEW p \in Clients, p \in Turn, Turn = {p}, Turn' = {},
             Records(p, NothingRead, NoQuery)
      PROVE  Service!Next
  <2>1. queries' = [queries EXCEPT ![p] = NoQuery]
    BY <1>2 DEF Records
  <2>2. Service!Fail(p)
    BY <1>2, <2>1 DEF Service!Fail, NoQuery, Service!NoQuery, Turn
  <2> QED BY <2>2 DEF Service!Next
<1>3. ASSUME NEW p \in Clients, StartQuery(p) \/ Drop(p), Records(p, NothingRead, NoQuery)
      PROVE  Service!Next \/ UNCHANGED Service!vars
  <2>1. ~Querying(p) /\ Turn' = Turn
    BY <1>3, OtherSteps, TurnAfter
  <2> QED BY <1>1, <1>3, <2>1 DEF Turn
<1>4. ASSUME NEW p \in Clients,
             \/ CallGet(p) \/ CallConnect(p) \/ GetStep(p) \/ ConnectFails(p)
             \/ Forget(p) \/ CallDisconnect(p) \/ DisconnectStep(p),
             UNCHANGED <<reading, queries>>
      PROVE  UNCHANGED Service!vars
  <2>1. Turn' = Turn
    BY <1>4, OtherSteps, TurnAfter
  <2> QED BY <1>4, <2>1, Stuttering DEF Stutters
<1>5. ASSUME NEW p \in Clients, TakeLock(p) /\ Begins(p) PROVE Service!Next
  <2>1. PICK expect \in {"data", "success"} :
          Becomes(p, [Ready(p) EXCEPT !.step = "write", !.expect = expect])
    BY <1>5 DEF TakeLock
  <2> DEFINE m == [Ready(p) EXCEPT !.step = "write", !.expect = expect]
  <2>2. m.step = "write"
    BY DEF Ready, IdleClient
  <2> HIDE DEF m
  <2>3. clients'[p].step = "write" /\ \A q \in Clients \ {p} : clients'[q] = clients[q]
    BY <2>1, <2>2, Becomings DEF m
  <2>4. Turn = {} /\ Turn' = {p}
    BY <1>5, <2>3, TurnAfter DEF TakeLock, Querying
  <2>5. queries[p] = NoQuery
    BY <1>5 DEF TakeLock, At, History, Recorded
  <2>6. PICK asked \in {"data", "menu", "anything"} :
          queries' = [queries EXCEPT ![p] = [NoQuery EXCEPT !.asked = asked]]
    BY <1>5 DEF Begins, Records
  <2>7. [NoQuery EXCEPT !.asked = asked] = [asked |-> asked, answer |-> None]
    BY DEF NoQuery
  <2>8. Service!Begin(p)
    BY <2>4, <2>5, <2>6, <2>7 DEF Service!Begin, NoQuery, Service!NoQuery, Turn
  <2> QED BY <2>8 DEF Service!Next
<1>6. ASSUME NEW p \in Clients, Read(p) /\ Hears(p)
      PROVE  Service!Next \/ UNCHANGED Service!vars
  <2> DEFINE a == Head(Conn(p).inbox)
             m == After(p, a)
  <2>1. /\ Querying(p) /\ clients[p].step = "read" /\ Becomes(p, m)
        /\ queries[p] \in QueryType
        /\ queries[p].asked = "anything" <=> Conn(p).abandoned
        /\ ~Conn(p).abandoned => queries[p].asked \in {"data", "menu"}
    BY <1>6 DEF Read, At, Querying, History, Recorded, ReadRight
  <2>2. m.step \in {"ready", "write", "read"} /\ (m.step = "ready" <=> QueryDone(p, a))
    BY <2>1 DEF After, Ready, IdleClient, NextStep, IInv, GoodClients, ClientType
  <2> HIDE DEF m
  <2>3. clients'[p] = m /\ \A q \in Clients \ {p} : clients'[q] = clients[q]
    BY <2>1, Becomings
  <2>4. CASE m.step # "ready"
    <3>1. Turn' = Turn
      BY <2>1, <2>2, <2>3, <2>4, TurnAfter DEF Querying
    <3>2. queries' = queries
      BY <1>6, <2>3, <2>4 DEF Hears, Records, History
    <3> QED BY <3>1, <3>2, Stuttering DEF Stutters
  <2>5. CASE m.step = "ready"
    <3>1. Turn = {p} /\ Turn' = {}
      BY <2>1, <2>3, <2>5, TurnAfter DEF Querying
    <3>2. CASE Conn(p).abandoned
      <4>1. Records(p, NothingRead, NoQuery)
        BY <1>6, <2>1, <2>3, <2>5, <3>2 DEF Hears
      <4> QED BY <1>2, <3>1, <4>1
    <3>3. CASE ~Conn(p).abandoned
      <4> DEFINE query == [queries[p] EXCEPT !.answer = Heard(p)]
      <4>1. queries' = [queries EXCEPT ![p] = query]
        BY <1>6, <2>1, <2>3, <2>5, <3>3 DEF Hears, Records
      <4>2. PICK total \in Service!Lengths(queries[p].asked) : Heard(p) = Whole(total)
        BY <1>6, <2>2, <2>5, <3>3, HeardRight
      <4>3. query = [asked |-> queries[p].asked, answer |-> Heard(p)]
        BY <2>1 DEF QueryType
      <4>4. Heard(p) = Service!AnswerOf(total)
        BY <4>2 DEF Whole, FirstItems, Service!AnswerOf
      <4> HIDE DEF query
      <4>5. Service!Return(p)
        BY <2>1, <3>1, <3>3, <4>1, <4>3, <4>4 DEF Service!Return, Turn
      <4> QED BY <4>5 DEF Service!Next
    <3> QED BY <3>2, <3>3
  <2> QED BY <2>4, <2>5
<1>7. ASSUME NEW p \in Clients, QueryFails(p) \/ Cancel(p), Records(p, NothingRead, NoQuery)
      PROVE  Service!Next \/ UNCHANGED Service!vars
  <2>1. PICK m \in {Ready(p), IdleClient} : Becomes(p, m)
    BY <1>7 DEF QueryFails, Cancel
  <2>2. m.step \in {"ready", "idle"}
    <3>1. Ready(p).step = "ready" /\ IdleClient.step = "idle"
      BY DEF Ready, IdleClient
    <3> QED BY <3>1
  <2>3. ~Querying(p)' /\ \A q \in Clients \ {p} : clients'[q] = clients[q]
    BY <2>1, <2>2, Becomings DEF Querying
  <2>4. CASE Querying(p)
    <3>1. Turn = {p} /\ Turn' = {}
      BY <2>3, <2>4, TurnAfter
    <3> QED BY <1>2, <1>7, <3>1
  <2>5. CASE ~Querying(p)
    <3>1. p \notin Turn /\ Turn' = Turn
      BY <2>3, <2>5, TurnAfter DEF Turn
    <3> QED BY <1>1, <1>7, <3>1
  <2> QED BY <2>4, <2>5
<1>8. ASSUME NEW p \in Clients, Write(p), UNCHANGED <<reading, queries>>
      PROVE  UNCHANGED Service!vars
  <2>1. /\ Querying(p) /\ Querying(p)'
        /\ \A q \in Clients \ {p} : clients'[q] = clients[q]
    BY <1>8 DEF Write, At, Querying, IInv, GoodClients, ClientType
  <2> QED BY <1>8, <2>1, TurnAfter, Stuttering DEF Stutters
<1>9. ASSUME NEW c \in Conns, Answer(c) \/ Closes(c), UNCHANGED <<reading, queries>>
      PROVE  UNCHANGED Service!vars
  <2>1. UNCHANGED clients
    BY <1>9 DEF Answer, Closes
  <2> QED BY <1>9, <2>1, Stuttering DEF Stutters, Turn, Querying
<1>10. CASE UNCHANGED queryVars
  BY <1>10, Stuttering DEF queryVars, vars, Stutters, Turn, Querying
<1> QED BY <1>3, <1>4, <1>5, <1>6, <1>7, <1>8, <1>9, <1>10 DEF QueryNext

\* For any number of tasks and connections, menus of any length and pages of any
\* size, queries take turns as QueryService says, and one that returns where no
\* query was cancelled returns all of what the player said to its own requests:
\* the menu as long as it is, each item once and in order.
THEOREM AnswersWholeHolds == QuerySpec => AnswersWhole
<1>1. QueryInit => IInv /\ Synced /\ History /\ Service!Init
  BY Initial, SyncedInit, HistoryInit, ServiceInit DEF QueryInit
<1>2. IInv /\ Synced /\ History /\ [QueryNext]_queryVars => IInv' /\ Synced' /\ History'
  BY Preserved, SyncedStep, HistoryStep, QueryStepIsStep
<1> QED BY <1>1, <1>2, ServiceStep, PTL DEF QuerySpec, AnswersWhole, Service!Spec

=============================================================================
