----------------------------- MODULE RpcService -----------------------------
(***************************************************************************)
(* What a caller of RpcConnection::call is promised, the datagrams and     *)
(* attempts left out: a call returns an error, or the answer to its own    *)
(* question, read from the player at one moment of the call.               *)
(***************************************************************************)
EXTENDS Naturals

CONSTANTS
    Callers,
    Questions,  \* what can be asked: a program, a procedure and its arguments
    None

VARIABLES
    now,        \* the version of what the player serves
    calls       \* per caller: its question, the version when it called, the answer

vars == <<now, calls>>

\* An answer tells what was asked and which version of it was read.
Answers == [to : Questions, at : Nat]
NoCall == [asked |-> None, since |-> 0, answer |-> None]

Init ==
    /\ now = 0
    /\ calls = [c \in Callers |-> NoCall]

Change ==
    /\ now' = now + 1
    /\ UNCHANGED calls

Ask(c) ==
    /\ calls[c].asked = None
    /\ \E q \in Questions :
         calls' = [calls EXCEPT ![c] = [asked |-> q, since |-> now, answer |-> None]]
    /\ UNCHANGED now

Answer(c) ==
    /\ calls[c].asked # None
    /\ \E v \in calls[c].since .. now :
         calls' = [calls EXCEPT ![c] =
           [NoCall EXCEPT !.answer = [to |-> calls[c].asked, at |-> v]]]
    /\ UNCHANGED now

\* The call returned an error, or its future was dropped.
Fail(c) ==
    /\ calls[c].asked # None
    /\ calls' = [calls EXCEPT ![c] = NoCall]
    /\ UNCHANGED now

Next == Change \/ \E c \in Callers : Ask(c) \/ Answer(c) \/ Fail(c)

Spec == Init /\ [][Next]_vars
=============================================================================
