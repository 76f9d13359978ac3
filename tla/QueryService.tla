---------------------------- MODULE QueryService ----------------------------
(***************************************************************************)
(* What a caller of a query of QueryInterface is promised, connections,    *)
(* messages, pages and locks left out: queries of a player take turns, and *)
(* one that returns returns what the player says to its own question, a    *)
(* menu all at once, as long as it is and in its order.                    *)
(***************************************************************************)
EXTENDS Naturals, Sequences

CONSTANTS
    Clients,
    Totals,     \* lengths a menu may have
    None

VARIABLES
    turn,       \* whose query is under way: nobody's or one client's
    queries     \* per client: what it asked for and the answer it was given

vars == <<turn, queries>>

NoQuery == [asked |-> None, answer |-> None]

Init ==
    /\ turn = {}
    /\ queries = [p \in Clients |-> NoQuery]

\* Items are told apart by their place in the menu; data is one item.
Lengths(asked) == IF asked = "data" THEN {1} ELSE Totals
AnswerOf(total) == [own |-> TRUE, total |-> total, items |-> [i \in 1 .. total |-> i - 1]]

\* On a connection on which a query was cancelled nothing is promised.
Begin(p) ==
    /\ queries[p] = NoQuery /\ turn = {}
    /\ turn' = {p}
    /\ \E asked \in {"data", "menu", "anything"} :
         queries' = [queries EXCEPT ![p] = [asked |-> asked, answer |-> None]]

Return(p) ==
    /\ queries[p].asked \in {"data", "menu"} /\ turn = {p}
    /\ turn' = {}
    /\ \E total \in Lengths(queries[p].asked) :
         queries' = [queries EXCEPT ![p] =
           [asked |-> queries[p].asked, answer |-> AnswerOf(total)]]

\* The query failed, was cancelled, or was promised nothing.
Fail(p) ==
    /\ turn = {p}
    /\ turn' = {}
    /\ queries' = [queries EXCEPT ![p] = NoQuery]

\* The caller has its answer and goes on.
Leave(p) ==
    /\ queries[p] # NoQuery /\ p \notin turn
    /\ queries' = [queries EXCEPT ![p] = NoQuery]
    /\ UNCHANGED turn

\* Most steps of a query show nothing here: a stutter, which TLC tries first.
Next ==
    \/ UNCHANGED vars
    \/ \E p \in Clients : Begin(p) \/ Return(p) \/ Fail(p) \/ Leave(p)

Spec == Init /\ [][Next]_vars
=============================================================================
