--------------------------- MODULE RemoteQueries ---------------------------
(***************************************************************************)
(* RemoteDb with a history of what the queries of its clients read and     *)
(* return, and the service it is for them: however a menu is cut into      *)
(* pages, whatever other tasks do with the connection, QueryService.       *)
(***************************************************************************)
EXTENDS RemoteDb

VARIABLES
    reading,    \* history: what the query of a client has read
    queries     \* history: what a client asked for and the answer it was given

Service == INSTANCE QueryService WITH turn <- {p \in Clients : Querying(p)}

\* own: every response was to a request of this query.
NothingRead == [own |-> TRUE, total |-> 0, items |-> <<>>]
NoQuery == [asked |-> None, answer |-> None]

QueryInit ==
    /\ Init
    /\ reading = [p \in Clients |-> NothingRead]
    /\ queries = [p \in Clients |-> NoQuery]

Records(p, read, query) ==
    /\ reading' = [reading EXCEPT ![p] = read]
    /\ queries' = [queries EXCEPT ![p] = query]

\* Data is a menu of one item.
Begins(p) ==
    LET data == clients'[p].expect = "data"
    IN Records(p, [NothingRead EXCEPT !.total = IF data THEN 1 ELSE 0],
               [NoQuery EXCEPT !.asked = IF Conn(p).abandoned THEN "anything"
                                         ELSE IF data THEN "data" ELSE "menu"])

Heard(p) ==
    LET response == Head(Conn(p).inbox)
    IN [own |-> reading[p].own /\ response.tx = clients[p].tx,
        total |-> IF response.type = "success" THEN response.n ELSE reading[p].total,
        items |-> IF response.type \in {"data", "item"}
                  THEN Append(reading[p].items, response.n) ELSE reading[p].items]

\* What is read where nothing is promised is not kept.
Hears(p) ==
    CASE queries[p].asked # "anything" /\ clients'[p].step # "ready" ->
           Records(p, Heard(p), queries[p])
      [] queries[p].asked # "anything" /\ clients'[p].step = "ready" ->
           Records(p, NothingRead, [queries[p] EXCEPT !.answer = Heard(p)])
      [] queries[p].asked = "anything" /\ clients'[p].step # "ready" ->
           UNCHANGED <<reading, queries>>
      [] OTHER -> Records(p, NothingRead, NoQuery)

QueryNext ==
    \/ \E p \in Clients :
         \/ TakeLock(p) /\ Begins(p)
         \/ Read(p) /\ Hears(p)
         \/ /\ QueryFails(p) \/ Cancel(p) \/ StartQuery(p) \/ Drop(p)
            /\ Records(p, NothingRead, NoQuery)
         \/ /\ \/ CallGet(p) \/ CallConnect(p) \/ GetStep(p) \/ ConnectFails(p)
               \/ Write(p) \/ Forget(p) \/ CallDisconnect(p) \/ DisconnectStep(p)
            /\ UNCHANGED <<reading, queries>>
    \/ /\ \E c \in Conns : Answer(c) \/ Closes(c)
       /\ UNCHANGED <<reading, queries>>

queryVars == <<vars, reading, queries>>
QuerySpec == QueryInit /\ [][QueryNext]_queryVars

-----------------------------------------------------------------------------
\* Queries take turns, and one that returns has read the answers to its own
\* requests, each item of its menu once and in order, all that the player said it
\* has ("ensuring we always receive count items"), but for one that used the
\* connection of a query that was cancelled.
AnswersWhole == Service!Spec
=============================================================================
