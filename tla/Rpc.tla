-------------------------------- MODULE Rpc --------------------------------
(***************************************************************************)
(* A connection to the RPC server of a player (src/src/nfs/rpc.rs): calls  *)
(* of several tasks over one UDP socket, with transaction ids, a time      *)
(* limit per attempt and retries that send the same datagram again.        *)
(*                                                                         *)
(* Datagrams of both directions are lost, duplicated, delayed and          *)
(* overtaken: one that was sent may be taken at any time, any number of    *)
(* times or never.  The player serves what changes meanwhile.              *)
(***************************************************************************)
EXTENDS Naturals

CONSTANTS
    Callers,    \* tasks that use the connection
    Questions,  \* what can be asked: a program, a procedure and its arguments
    RetryCounts,\* the numbers of retries a RetryConfig may have
    MaxXid,     \* bound: the highest transaction id
    MaxNow,     \* bound: how often what the player serves may change
    None

ASSUME RetriesTyped == RetryCounts \subseteq Nat /\ RetryCounts # {}
ASSUME NoneIsNoOne == None \notin Callers \cup Questions \cup Nat

VARIABLES
    now,        \* the version of what the player serves
    xid,        \* the last transaction id taken
    retries,    \* retry_config: the number of retries
    holder,     \* mutex: whose transaction is under way, or None
    calls,      \* where the calls are
    requests,   \* the datagrams sent to the player
    replies     \* the datagrams it sent, on their way or in the socket's buffer

vars == <<now, xid, retries, holder, calls, requests, replies>>

Steps == {"idle", "lock", "send", "receive", "backoff"}
RequestType == [xid : Nat, asked : Questions]
AnswerType == [to : Questions, at : Nat]
\* Denied and Failed have no answer; what decode_reply cannot read no id.
ReplyType == [xid : Nat \cup {None}, answer : AnswerType \cup {None}]
Garbled == [xid |-> None, answer |-> None]

\* since is a history variable: what the player served when the call was made.
CallType == [step : Steps, asked : Questions \cup {None}, since : Nat, xid : Nat,
             attempt : Nat, retries : Nat, answer : AnswerType \cup {None}]

Idle == [step |-> "idle", asked |-> None, since |-> 0, xid |-> 0,
         attempt |-> 0, retries |-> 0, answer |-> None]

Init ==
    /\ now = 0 /\ xid = 1
    /\ retries \in RetryCounts
    /\ holder = None
    /\ calls = [c \in Callers |-> Idle]
    /\ requests = {} /\ replies = {}

At(c, step) == calls[c].step = step
Becomes(c, call) == calls' = [calls EXCEPT ![c] = call]
Goes(c, step) == Becomes(c, [calls[c] EXCEPT !.step = step])
Unlock(c) == holder' = IF holder = c THEN None ELSE holder

-----------------------------------------------------------------------------
(* The call.                                                                *)

\* The id is taken and the configuration read before the lock is waited for.
Call(c) ==
    /\ At(c, "idle") /\ xid < MaxXid
    /\ xid' = xid + 1
    /\ \E q \in Questions :
         Becomes(c, [step |-> "lock", asked |-> q, since |-> now, xid |-> xid + 1,
                     attempt |-> 0, retries |-> retries, answer |-> None])
    /\ UNCHANGED <<now, retries, holder, requests, replies>>

Lock(c) ==
    /\ At(c, "lock") /\ holder = None
    /\ holder' = c
    /\ Goes(c, "send")
    /\ UNCHANGED <<now, xid, retries, requests, replies>>

Send(c) ==
    /\ At(c, "send")
    /\ requests' = requests \cup {[xid |-> calls[c].xid, asked |-> calls[c].asked]}
    /\ Goes(c, "receive")
    /\ UNCHANGED <<now, xid, retries, holder, replies>>

\* The call returns with an answer or, as None, with an error.
Returns(c, answer) ==
    /\ Becomes(c, [Idle EXCEPT !.answer = answer])
    /\ Unlock(c)

\* Mutant: the transaction id of the reply is not looked at.
TakeAnyReply(c, m) ==
    /\ At(c, "receive")
    /\ Returns(c, m.answer)
    /\ UNCHANGED <<now, xid, retries, requests, replies>>

\* One datagram is read.  If it cannot be decoded the call fails, whoever it was
\* meant for; one that belongs to another transaction is passed over.
Receive(c, m) ==
    /\ At(c, "receive")
    /\ m.xid \in {None, calls[c].xid}
    /\ Returns(c, m.answer)
    /\ UNCHANGED <<now, xid, retries, requests, replies>>

\* Mutant: attempts are not counted.
TimeoutUncounted(c) ==
    /\ At(c, "receive")
    /\ Goes(c, "backoff")
    /\ UNCHANGED <<now, xid, retries, holder, requests, replies>>

\* The attempt took its time: another one after a pause, with the lock held, or
\* the end of the call.
Timeout(c) ==
    /\ At(c, "receive")
    /\ \/ /\ calls[c].attempt < calls[c].retries
          /\ Becomes(c, [calls[c] EXCEPT !.step = "backoff", !.attempt = @ + 1])
          /\ UNCHANGED holder
       \/ /\ calls[c].attempt >= calls[c].retries
          /\ Returns(c, None)
    /\ UNCHANGED <<now, xid, retries, requests, replies>>

Retry(c) ==
    /\ At(c, "backoff")
    /\ Goes(c, "send")
    /\ UNCHANGED <<now, xid, retries, holder, requests, replies>>

\* The future of a call is dropped where it waits, and its guard with it, or the
\* socket fails.
Cancel(c) ==
    /\ ~At(c, "idle")
    /\ Returns(c, None)
    /\ UNCHANGED <<now, xid, retries, requests, replies>>

\* set_retry_config: for calls made from now on.
Configure ==
    /\ \E n \in RetryCounts : retries' = n
    /\ UNCHANGED <<now, xid, holder, calls, requests, replies>>

-----------------------------------------------------------------------------
(* The player and the network.                                              *)

Serve(r) ==
    /\ \E m \in {[xid |-> r.xid, answer |-> [to |-> r.asked, at |-> now]],
                 [xid |-> r.xid, answer |-> None], Garbled} :
         replies' = replies \cup {m}
    /\ UNCHANGED <<now, xid, retries, holder, calls, requests>>

Change ==
    /\ now < MaxNow
    /\ now' = now + 1
    /\ UNCHANGED <<xid, retries, holder, calls, requests, replies>>

-----------------------------------------------------------------------------
CallStep(c) ==
    \/ Lock(c) \/ Send(c) \/ Timeout(c) \/ Retry(c)
    \/ \E m \in replies : Receive(c, m)

Next ==
    \/ \E c \in Callers : Call(c) \/ CallStep(c) \/ Cancel(c)
    \/ \E r \in requests : Serve(r)
    \/ Change \/ Configure

\* A task that can run does, the lock is first come, first served, and the
\* timeout of an attempt and the pause after it end.
Fairness ==
    \A c \in Callers : SF_vars(Lock(c)) /\ WF_vars(Send(c) \/ Timeout(c) \/ Retry(c))

Spec == Init /\ [][Next]_vars
FairSpec == Spec /\ Fairness

-----------------------------------------------------------------------------
(* Properties.                                                              *)

\* State is well typed, and the transaction under way is the one whose call
\* holds the lock, until it returns or is dropped.
TypeOK ==
    /\ now \in Nat /\ xid \in Nat /\ retries \in RetryCounts
    /\ holder \in Callers \cup {None}
    /\ calls \in [Callers -> CallType]
    /\ requests \subseteq RequestType
    /\ replies \subseteq ReplyType
    /\ \A c \in Callers :
         calls[c].step \in {"send", "receive", "backoff"} <=> holder = c

\* The part of a call its caller sees.
Seen(call) == [asked |-> call.asked, since |-> call.since, answer |-> call.answer]
Service == INSTANCE RpcService WITH calls <- [c \in Callers |-> Seen(calls[c])]

\* Whatever is lost, late or delivered twice, and however often a call is sent
\* again: what a call returns answers its own question and was read while it
\* was under way, or it is an error.
Implements == Service!Spec

\* Every call returns: its attempts are counted, and a call in front of it keeps
\* the lock for its own attempts only.
CallsReturn == \A c \in Callers : ~At(c, "idle") ~> At(c, "idle")
=============================================================================
