------------------------------ MODULE RemoteDb ------------------------------
(***************************************************************************)
(* Queries to the remote database of one player (src/src/remotedb): the    *)
(* connections, the lock under which they are made and used, and the       *)
(* requests and responses on them.  A menu is read in pages.               *)
(*                                                                         *)
(* Any task may get an interface, query through it, connect, forget or     *)
(* disconnect; a call can be cancelled wherever it waits.  The player      *)
(* answers requests in order and may close a connection.  A response       *)
(* carries the transaction id of its request; the code reads it and does   *)
(* not look at it.                                                         *)
(***************************************************************************)
EXTENDS DeviceId

CONSTANTS
    Clients,    \* tasks that use the remote database
    Conns,      \* connections; bound on how many are open or held
    Target,     \* the id of the player that is queried
    HostIds,    \* ids the virtual CDJ may have
    Rigs,       \* the sets of ids the CDJs on the device map may have
    Limit,      \* LIMIT: items per page
    Totals,     \* lengths a menu may have
    MaxTx       \* bound: queries start on a connection only below this number

ASSUME TargetTyped == Target \in AnnouncedIds
ASSUME PlayersTyped ==
    /\ HostIds \subseteq AnnouncedIds /\ HostIds # {}
    /\ Rigs \subseteq SUBSET AnnouncedIds
ASSUME PagesTyped == Limit \in Nat \ {0} /\ Totals \subseteq Nat /\ MaxTx \in Nat
ASSUME NoneIsNoOne == None \notin Clients \cup Conns

VARIABLES
    lock,       \* the client that holds the player's lock, or None
    table,      \* the connection of the player that is stored, or None
    conns,      \* the connections
    clients     \* where the clients are

vars == <<lock, table, conns, clients>>

ResponseTypes == {"data", "success", "header", "item", "footer", "refusal"}
Requests == [type : {"data", "menu", "render", "goodbye"}, tx : Nat,
             id : AnnouncedIds, from : Nat, count : Nat]
Responses == [type : ResponseTypes, tx : Nat, n : Nat]
\* zero is history: the virtual CDJ or a CDJ of the rig was announced as 0 when the
\* id of the connection was chosen.
ConnType == [open : BOOLEAN, shut : BOOLEAN, id : AnnouncedIds \cup {None},
             zero : BOOLEAN, tx : Nat, sent : Seq(Requests), inbox : Seq(Responses),
             garbled : BOOLEAN, abandoned : BOOLEAN]
Steps == {"idle", "find", "connect", "intro", "inserted", "ready", "wait",
          "write", "read", "goodbye", "shut"}
ClientType == [step : Steps, conn : Conns \cup {None}, id : AnnouncedIds \cup {None},
               tx : Nat, expect : ResponseTypes \cup {None},
               total : Nat, items : Nat]

Closed == [open |-> FALSE, shut |-> FALSE, id |-> None, zero |-> FALSE, tx |-> 0,
           sent |-> <<>>, inbox |-> <<>>, garbled |-> FALSE,
           abandoned |-> FALSE]
IdleClient == [step |-> "idle", conn |-> None, id |-> None, tx |-> 0,
               expect |-> None, total |-> 0, items |-> 0]

Init ==
    /\ lock = None /\ table = None
    /\ conns = [c \in Conns |-> Closed]
    /\ clients = [p \in Clients |-> IdleClient]

At(p, step) == clients[p].step = step
Goes(p, step) == clients' = [clients EXCEPT ![p].step = step]
Becomes(p, client) == clients' = [clients EXCEPT ![p] = client]
Conn(p) == conns[clients[p].conn]

\* The interface of a client that no query is using.
Ready(p) == [IdleClient EXCEPT !.step = "ready", !.conn = clients[p].conn,
                               !.id = clients[p].id]
\* A connection that nobody holds any more is closed.
Sweep(new) ==
    conns' = [c \in Conns |->
      IF c = table' \/ \E p \in Clients : clients'[p].conn = c
      THEN new[c] ELSE Closed]

\* Mutant: whoever leaves frees the lock.
UnlockAnyway(p) == lock' = None

\* The guard of a call is dropped with the call.
Unlock(p) == lock' = IF lock = p THEN None ELSE lock

\* A message is stamped with the next transaction id and sent, which a closed
\* connection may not show.
Sent(conn, request) ==
    [conn EXCEPT !.tx = conn.tx + 1,
                 !.sent = IF conn.open THEN Append(conn.sent, request)
                          ELSE conn.sent]

-----------------------------------------------------------------------------
(* get and connect_to_device.                                               *)

\* The player is on the device map.
CallGet(p) ==
    /\ At(p, "idle")
    /\ Goes(p, "find")
    /\ UNCHANGED <<lock, table, conns>>

\* The lock is kept only to connect.
Find(p) ==
    /\ At(p, "find") /\ lock = None
    /\ IF table # None
       THEN /\ Becomes(p, [IdleClient EXCEPT !.step = "ready", !.conn = table,
                                             !.id = conns[table].id])
            /\ UNCHANGED lock
       ELSE /\ Goes(p, "connect")
            /\ lock' = p
    /\ UNCHANGED <<table, conns>>

\* Anyone may connect, with no lock.
CallConnect(p) ==
    /\ At(p, "idle")
    /\ Goes(p, "connect")
    /\ UNCHANGED <<lock, table, conns>>

\* Mutant: the announced id is used whatever it is.
AnnouncedId(host, cdjs) == host

\* 0 is kept like an id of the players' range.
QueryIdFor(host, cdjs) ==
    IF host <= MaxPlayer THEN host ELSE PickRemoteDbQueryId(Target, cdjs)

\* The preamble has been answered: the id is chosen from what the virtual CDJ
\* and the device map are at this moment.
Introduce(p) ==
    /\ At(p, "connect")
    /\ \E c \in Conns, host \in HostIds, cdjs \in Rigs :
         /\ c # table /\ \A q \in Clients : clients[q].conn # c
         /\ conns' = [conns EXCEPT ![c] =
              [Closed EXCEPT !.id = QueryIdFor(host, cdjs),
                             !.zero = 0 \in cdjs \cup {host}]]
         /\ clients' = [clients EXCEPT ![p].step = "intro", ![p].conn = c]
    /\ UNCHANGED <<lock, table>>

\* The player accepted the introduction; a stored connection is replaced.
Insert(p) ==
    /\ At(p, "intro")
    /\ table' = clients[p].conn
    /\ Becomes(p, IF lock = p THEN [IdleClient EXCEPT !.step = "inserted"]
                  ELSE IdleClient)
    /\ Sweep([conns EXCEPT ![clients[p].conn].open = TRUE])
    /\ UNCHANGED lock

\* Mutant: the connection is there because it was just stored.
FindForSure(p) ==
    /\ At(p, "inserted")
    /\ Becomes(p, [IdleClient EXCEPT !.step = "ready", !.conn = table,
                     !.id = IF table = None THEN None ELSE conns[table].id])
    /\ Unlock(p)
    /\ UNCHANGED <<table, conns>>

\* What is stored by now is used, unless it has been taken again.
FindAgain(p) ==
    /\ At(p, "inserted")
    /\ Becomes(p, IF table = None THEN IdleClient
                  ELSE [IdleClient EXCEPT !.step = "ready", !.conn = table,
                                          !.id = conns[table].id])
    /\ Unlock(p)
    /\ UNCHANGED <<table, conns>>

\* Refused, failed or timed out.
ConnectFails(p) ==
    /\ clients[p].step \in {"connect", "intro"}
    /\ Becomes(p, IdleClient)
    /\ Unlock(p)
    /\ UNCHANGED table
    /\ Sweep(conns)

GetStep(p) == Find(p) \/ Introduce(p) \/ Insert(p) \/ FindAgain(p)

-----------------------------------------------------------------------------
(* A query.                                                                 *)

StartQuery(p) ==
    /\ At(p, "ready") /\ Conn(p).tx < MaxTx
    /\ Goes(p, "wait")
    /\ UNCHANGED <<lock, table, conns>>

\* Its result is "data", or a menu of which the length comes first.
TakeLock(p) ==
    /\ At(p, "wait") /\ lock = None
    /\ lock' = p
    /\ \E expect \in {"data", "success"} :
         Becomes(p, [Ready(p) EXCEPT !.step = "write", !.expect = expect])
    /\ UNCHANGED <<table, conns>>

\* Items to ask for: never more than the menu has left.
PageSize(p) ==
    LET left == clients[p].total - clients[p].items
    IN IF Limit < left THEN Limit ELSE left

Request(p) ==
    LET new == [type |-> "data", tx |-> Conn(p).tx + 1, id |-> clients[p].id,
                from |-> 0, count |-> 0]
    IN CASE clients[p].expect = "data" -> new
         [] clients[p].expect = "success" -> [new EXCEPT !.type = "menu"]
         [] OTHER -> [new EXCEPT !.type = "render", !.from = clients[p].items,
                                 !.count = PageSize(p)]

Write(p) ==
    /\ At(p, "write") /\ ~Conn(p).shut
    /\ conns' = [conns EXCEPT ![clients[p].conn] = Sent(Conn(p), Request(p))]
    /\ clients' = [clients EXCEPT ![p].step = "read", ![p].tx = Conn(p).tx + 1]
    /\ UNCHANGED <<lock, table>>

\* Mutant: only a full page has a footer.
FooterAfterFullPage(p, seen) == seen % Limit = 0

\* A page ends where the number of items is a multiple of Limit, and with the
\* menu.
FooterDue(p, seen) == seen % Limit = 0 \/ seen = clients[p].total

ItemsSeen(p, response) ==
    IF response.type = "item" THEN clients[p].items + 1 ELSE clients[p].items

MenuLength(p, response) ==
    IF response.type = "success" THEN response.n ELSE clients[p].total

\* Mutant: a menu is one page.
FirstPageIsAll(p, response) ==
    \/ response.type \in {"data", "footer"}
    \/ response.type = "success" /\ response.n = 0

QueryDone(p, response) ==
    \/ response.type = "data"
    \/ /\ response.type \in {"success", "footer"}
       /\ ItemsSeen(p, response) = MenuLength(p, response)

\* A menu is read page by page: header, items, footer.
NextExpected(p, response) ==
    CASE response.type \in {"success", "footer"} -> "header"
      [] response.type = "item" /\ FooterDue(p, ItemsSeen(p, response)) -> "footer"
      [] OTHER -> "item"

NextStep(response) ==
    IF response.type \in {"success", "footer"} THEN "write" ELSE "read"

After(p, response) ==
    IF QueryDone(p, response) THEN Ready(p)
    ELSE [clients[p] EXCEPT !.items = ItemsSeen(p, response),
                            !.total = MenuLength(p, response),
                            !.step = NextStep(response),
                            !.expect = NextExpected(p, response)]

\* Only the type of the response is compared.
Read(p) ==
    LET response == Head(Conn(p).inbox)
    IN /\ At(p, "read") /\ Conn(p).inbox # <<>> /\ ~Conn(p).garbled
       /\ response.type = clients[p].expect
       /\ conns' = [conns EXCEPT ![clients[p].conn].inbox = Tail(@)]
       /\ Becomes(p, After(p, response))
       /\ lock' = IF After(p, response).step = "ready" THEN None ELSE lock
       /\ UNCHANGED table

\* A response of another type is consumed, what is read is garbled, or the
\* connection is closed or cannot be written to.  It stays stored.
QueryFails(p) ==
    /\ \/ /\ At(p, "read") /\ Conn(p).inbox # <<>>
          /\ Head(Conn(p).inbox).type # clients[p].expect
          /\ conns' = [conns EXCEPT ![clients[p].conn].inbox = Tail(@)]
       \/ /\ \/ At(p, "read") /\ Conn(p).garbled
             \/ At(p, "read") /\ Conn(p).inbox = <<>> /\ ~Conn(p).open
             \/ At(p, "write") /\ (Conn(p).shut \/ ~Conn(p).open)
          /\ UNCHANGED conns
    /\ Becomes(p, Ready(p))
    /\ lock' = None
    /\ UNCHANGED table

QueryStep(p) == TakeLock(p) \/ Write(p) \/ Read(p) \/ QueryFails(p)

\* The future of a call is dropped where it waits, and its lock with it.  A
\* response that has arrived may have been read in part: then nothing that comes
\* can be told from anything else, and the responses are not kept.
Cancel(p) ==
    /\ clients[p].step \notin {"idle", "inserted", "ready"}
    /\ Becomes(p, IF clients[p].step \in {"wait", "write", "read"}
                  THEN Ready(p) ELSE IdleClient)
    /\ Unlock(p)
    /\ UNCHANGED table
    /\ IF clients[p].step \in {"write", "read"}
       THEN \E garbled \in {Conn(p).garbled, TRUE} :
              /\ garbled => \/ Conn(p).garbled
                            \/ At(p, "read") /\ Conn(p).inbox # <<>>
              /\ conns' = [conns EXCEPT ![clients[p].conn] =
                   [Conn(p) EXCEPT !.abandoned = TRUE, !.garbled = garbled,
                                   !.inbox = IF garbled THEN <<>> ELSE @]]
       ELSE Sweep(conns)

\* The interface is dropped.
Drop(p) ==
    /\ At(p, "ready")
    /\ Becomes(p, IdleClient)
    /\ UNCHANGED <<lock, table>>
    /\ Sweep(conns)

-----------------------------------------------------------------------------
(* disconnect_from_device and forget.                                       *)

Forget(p) ==
    /\ At(p, "idle") /\ table # None
    /\ table' = None
    /\ UNCHANGED <<lock, clients>>
    /\ Sweep(conns)

\* The lock is not asked for: a query may be under way.
CallDisconnect(p) ==
    /\ At(p, "idle") /\ table # None
    /\ table' = None
    /\ Becomes(p, [IdleClient EXCEPT !.step = "goodbye", !.conn = table])
    /\ UNCHANGED <<lock, conns>>

Goodbye(p) ==
    /\ At(p, "goodbye")
    /\ conns' = [conns EXCEPT ![clients[p].conn] = Sent(Conn(p),
         [type |-> "goodbye", tx |-> Conn(p).tx + 1, id |-> Conn(p).id,
          from |-> 0, count |-> 0])]
    /\ Goes(p, "shut")
    /\ UNCHANGED <<lock, table>>

Shut(p) ==
    /\ At(p, "shut")
    /\ Becomes(p, IdleClient)
    /\ UNCHANGED <<lock, table>>
    /\ Sweep([conns EXCEPT ![clients[p].conn].shut = TRUE])

DisconnectStep(p) == Goodbye(p) \/ Shut(p)

-----------------------------------------------------------------------------
(* The player, modelled from what the code expects of it.                   *)

Reply(request, total) ==
    LET new == [type |-> "data", tx |-> request.tx, n |-> 0]
    IN CASE request.type = "data" -> <<new>>
         [] request.type = "menu" -> <<[new EXCEPT !.type = "success", !.n = total]>>
         [] OTHER -> <<[new EXCEPT !.type = "header"]>>
               \o [k \in 1 .. request.count |->
                     [new EXCEPT !.type = "item", !.n = request.from + k - 1]]
               \o <<[new EXCEPT !.type = "footer"]>>

\* Requests under an id outside the players' range are ignored, others are
\* answered or refused.
Answers(request, total) ==
    IF request.id \notin 1 .. MaxPlayer THEN {<<>>}
    ELSE {<<[type |-> "refusal", tx |-> request.tx, n |-> 0]>>,
          Reply(request, total)}

\* What the player does to a connection.
Handled(conn, open, sent, inbox) ==
    [conn EXCEPT !.open = open, !.sent = sent,
                 !.inbox = IF conn.garbled THEN <<>> ELSE inbox]

Answer(c) ==
    LET conn == conns[c]
        request == Head(conn.sent)
    IN /\ conn.open /\ conn.sent # <<>>
       /\ IF request.type = "goodbye"
          THEN conns' = [conns EXCEPT ![c] =
                 Handled(conn, FALSE, <<>>, conn.inbox)]
          ELSE \E total \in Totals : \E answer \in Answers(request, total) :
                 conns' = [conns EXCEPT ![c] =
                   Handled(conn, TRUE, Tail(conn.sent), conn.inbox \o answer)]
       /\ UNCHANGED <<lock, table, clients>>

Closes(c) ==
    /\ conns[c].open
    /\ conns' = [conns EXCEPT ![c] =
         Handled(conns[c], FALSE, <<>>, conns[c].inbox)]
    /\ UNCHANGED <<lock, table, clients>>

Next ==
    \/ \E p \in Clients :
         \/ CallGet(p) \/ CallConnect(p) \/ GetStep(p) \/ ConnectFails(p)
         \/ StartQuery(p) \/ QueryStep(p) \/ Cancel(p) \/ Drop(p)
         \/ Forget(p) \/ CallDisconnect(p) \/ DisconnectStep(p)
    \/ \E c \in Conns : Answer(c) \/ Closes(c)

Spec == Init /\ [][Next]_vars

-----------------------------------------------------------------------------
(* Properties.                                                              *)

TypeOK ==
    /\ lock \in Clients \cup {None} /\ table \in Conns \cup {None}
    /\ conns \in [Conns -> ConnType]
    /\ clients \in [Clients -> ClientType]
    /\ \A p \in Clients :
         clients[p].step \notin {"idle", "find", "connect", "inserted"} =>
           clients[p].conn \in Conns

Querying(p) == clients[p].step \in {"write", "read"}

\* One query runs at a time, also when the stored connection has been
\* replaced and two clients hold different ones ("Every query runs under the
\* device's lock, so queries on a device are serialised").
QueriesAreSerialised ==
    \A p \in Clients : Querying(p) => lock = p

\* Every request carries the id under which its own connection introduced
\* itself, whatever happened to the announced id, the rig or the stored
\* connection since, and it is one that players answer, unless the virtual CDJ or
\* a CDJ of the rig went under 0 (query_id_for, get).
AnsweredId ==
    \A c \in Conns : \A k \in DOMAIN conns[c].sent :
      /\ conns[c].sent[k].id = conns[c].id
      /\ conns[c].id \in 1 .. MaxPlayer \/ (conns[c].id = 0 /\ conns[c].zero)

\* Violated.  "When this device sits outside that range ... each connection picks
\* an in-range query ID" (remotedb/mod.rs:272): the range is 1-6, and 0 is kept, or
\* picked, like one of it.
AlwaysAnswered ==
    \A c \in Conns : \A k \in DOMAIN conns[c].sent : conns[c].id \in 1 .. MaxPlayer

\* The response is not to this client's last request, or not the item
\* that comes next.
Foreign(p, response) ==
    \/ response.tx # clients[p].tx
    \/ response.type = "item" /\ response.n # clients[p].items

\* As long as no query on the connection was cancelled, what a query is about
\* to read answers its own last request, is the next item of its menu, and is
\* of the type it expects or a refusal (render_items, read_message).
NextResponseFits ==
    \A p \in Clients :
      (At(p, "read") /\ ~Conn(p).abandoned /\ Conn(p).inbox # <<>>) =>
        LET response == Head(Conn(p).inbox)
        IN /\ response.type \in {clients[p].expect, "refusal"}
           /\ ~Foreign(p, response)

\* A query that ran to its end has read everything the player sent for it:
\* nothing is left for the next one (the footer of the last page, LIMIT).
StreamInSync ==
    \A c \in Conns :
      (/\ conns[c].open /\ ~conns[c].abandoned
       /\ \A p \in Clients : ~(Querying(p) /\ clients[p].conn = c)) =>
        /\ conns[c].inbox = <<>>
        /\ \A k \in DOMAIN conns[c].sent : conns[c].sent[k].type = "goodbye"

\* Violated.  "The transaction ID is used to associate responses to their
\* requests" (remotedb/message/mod.rs:68): nothing looks at it, so a query
\* after one that was cancelled takes the late answer for its own.
AnswersMatch ==
    \A p \in Clients :
      (At(p, "read") /\ ~Conn(p).garbled /\ Conn(p).inbox # <<>>) =>
        LET response == Head(Conn(p).inbox)
        IN response.type = clients[p].expect => response.tx = clients[p].tx
=============================================================================
