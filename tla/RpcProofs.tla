----------------------------- MODULE RpcProofs -----------------------------
(***************************************************************************)
(* For any number of tasks, questions and retries, and whatever is lost,   *)
(* late or delivered twice: Rpc implements RpcService.                     *)
(*                                                                         *)
(* An answer is taken by its transaction id alone.  It fits because the id *)
(* of a call that is under way was taken by no other call, so whatever     *)
(* carries it was sent for this call, since this call was made.            *)
(***************************************************************************)
EXTENDS Rpc, TLAPS

Active(c) == ~At(c, "idle")

\* A call that is under way has a question and no answer.
GoodCall(c) ==
    IF Active(c)
    THEN /\ calls[c].asked \in Questions /\ calls[c].answer = None
         /\ calls[c].since <= now /\ calls[c].xid <= xid
    ELSE calls[c].asked = None /\ calls[c].since = 0

OwnXid(c) == \A d \in Callers : Active(c) /\ Active(d) /\ calls[c].xid = calls[d].xid => c = d

GoodRequest(r) ==
    /\ r.xid <= xid
    /\ \A c \in Callers : Active(c) /\ calls[c].xid = r.xid => calls[c].asked = r.asked

GoodReply(m) ==
    m.answer # None =>
      /\ m.xid \in Nat /\ m.xid <= xid
      /\ m.answer.at <= now
      /\ \A c \in Callers : Active(c) /\ calls[c].xid = m.xid =>
           m.answer.to = calls[c].asked /\ calls[c].since <= m.answer.at

IInv ==
    /\ TypeOK
    /\ \A c \in Callers : GoodCall(c) /\ OwnXid(c)
    /\ \A r \in requests : GoodRequest(r)
    /\ \A m \in replies : GoodReply(m)

-----------------------------------------------------------------------------
(* What most steps have in common: no call is made.                         *)

\* Every call that is under way was so before, with the question, version and
\* transaction id it was made with.
NoNewCall ==
    \A c \in Callers : Active(c)' =>
      /\ Active(c)
      /\ calls'[c].asked = calls[c].asked
      /\ calls'[c].since = calls[c].since
      /\ calls'[c].xid = calls[c].xid

\* A step after which one call is elsewhere, and as it was made.
Moves(c, step, attempt) ==
    /\ calls' = [calls EXCEPT ![c] = [calls[c] EXCEPT !.step = step, !.attempt = attempt]]
    /\ step # "idle"

LEMMA IdleIsTyped == Idle \in CallType
BY DEF Idle, CallType, Steps

LEMMA ReturnedIsTyped ==
  ASSUME NEW a \in AnswerType \cup {None}
  PROVE  /\ [Idle EXCEPT !.answer = a] \in CallType
         /\ [Idle EXCEPT !.answer = a].step = "idle"
         /\ Seen([Idle EXCEPT !.answer = a]) = [asked |-> None, since |-> 0, answer |-> a]
BY DEF Idle, CallType, Steps, Seen

\* A return is no new call, and leaves calls and lock well typed.
LEMMA ReturnsIsGood ==
  ASSUME IInv, NEW c \in Callers, Active(c), NEW a \in AnswerType \cup {None},
         Returns(c, a), UNCHANGED <<now, xid>>
  PROVE  /\ NoNewCall
         /\ calls' \in [Callers -> CallType] /\ holder' \in Callers \cup {None}
         /\ \A d \in Callers : GoodCall(d)'
         /\ \A d \in Callers :
              calls'[d].step \in {"send", "receive", "backoff"} <=> holder' = d
<1> DEFINE new == [Idle EXCEPT !.answer = a]
<1>1. calls \in [Callers -> CallType] /\ holder \in Callers \cup {None}
  BY DEF IInv, TypeOK
<1>2. /\ new \in CallType /\ new.step = "idle"
      /\ new.asked = None /\ new.since = 0
  BY ReturnedIsTyped DEF Idle
<1>3. calls' = [calls EXCEPT ![c] = new]
  BY DEF Returns, Becomes
<1> HIDE DEF new
<1>4. calls'[c] = new /\ \A d \in Callers \ {c} : calls'[d] = calls[d]
  BY <1>1, <1>3
<1>5. calls' \in [Callers -> CallType]
  BY <1>1, <1>2, <1>3
<1>6. NoNewCall
  BY <1>2, <1>4 DEF NoNewCall, Active, At
<1>7. \A d \in Callers : GoodCall(d)'
  BY <1>2, <1>4 DEF IInv, GoodCall, Active, At
<1>8. holder' = IF holder = c THEN None ELSE holder
  BY DEF Returns, Unlock
<1>9. \A d \in Callers : calls'[d].step \in {"send", "receive", "backoff"} <=> holder' = d
  BY <1>1, <1>2, <1>4, <1>8, NoneIsNoOne DEF IInv, TypeOK
<1> QED BY <1>1, <1>5, <1>6, <1>7, <1>8, <1>9

\* So is a step of a call between lock, send, receive and pause.
LEMMA MovesIsGood ==
  ASSUME IInv, NEW c \in Callers, Active(c), NEW step \in Steps, NEW n \in Nat,
         Moves(c, step, n), UNCHANGED <<now, xid>>
  PROVE  /\ NoNewCall
         /\ calls' \in [Callers -> CallType]
         /\ \A d \in Callers : GoodCall(d)'
         /\ calls'[c].step = step
         /\ \A d \in Callers \ {c} : calls'[d] = calls[d]
<1> DEFINE new == [calls[c] EXCEPT !.step = step, !.attempt = n]
<1>1. calls \in [Callers -> CallType]
  BY DEF IInv, TypeOK
<1>2. calls[c] \in CallType
  BY <1>1
<1>3. /\ new \in CallType /\ new.step = step
      /\ new.asked = calls[c].asked /\ new.since = calls[c].since
      /\ new.xid = calls[c].xid /\ new.answer = calls[c].answer
  BY <1>2 DEF CallType
<1>4. calls' = [calls EXCEPT ![c] = new] /\ step # "idle"
  BY DEF Moves
<1> HIDE DEF new
<1>5. calls'[c] = new /\ \A d \in Callers \ {c} : calls'[d] = calls[d]
  BY <1>1, <1>4
<1>6. calls' \in [Callers -> CallType]
  BY <1>1, <1>3, <1>4
<1>7. NoNewCall
  BY <1>3, <1>5 DEF NoNewCall, Active, At
<1>8. \A d \in Callers : GoodCall(d)'
  BY <1>3, <1>4, <1>5 DEF IInv, GoodCall, Active, At
<1> QED BY <1>3, <1>5, <1>6, <1>7, <1>8

\* What was sent stays good, and transaction ids their call's own.
LEMMA SentStaysGood ==
  ASSUME IInv, NoNewCall, xid' = xid, now' \in Nat, now' >= now
  PROVE  /\ \A c \in Callers : OwnXid(c)'
         /\ \A r \in requests : GoodRequest(r)'
         /\ \A m \in replies : GoodReply(m)'
<1>1. \A c \in Callers : OwnXid(c)'
  BY DEF IInv, OwnXid, NoNewCall
<1>2. \A r \in requests : GoodRequest(r)'
  BY DEF IInv, GoodRequest, NoNewCall
<1>3. ASSUME NEW m \in replies
      PROVE  GoodReply(m)'
  <2>1. GoodReply(m) /\ m \in ReplyType /\ now \in Nat
    BY DEF IInv, TypeOK
  <2>2. m.answer # None => m.answer.at \in Nat
    BY <2>1 DEF ReplyType, AnswerType
  <2> QED BY <2>1, <2>2 DEF GoodReply, NoNewCall
<1> QED BY <1>1, <1>2, <1>3

-----------------------------------------------------------------------------
(* The inductive invariant.                                                 *)

LEMMA Initial == Init => IInv
<1> SUFFICES ASSUME Init PROVE IInv
  OBVIOUS
<1>1. calls \in [Callers -> CallType]
  BY IdleIsTyped DEF Init
<1>2. \A c \in Callers : calls[c] = Idle
  BY DEF Init
<1>3. \A c \in Callers : GoodCall(c) /\ OwnXid(c)
  <2>1. Idle.step = "idle" /\ Idle.asked = None /\ Idle.since = 0
    BY DEF Idle
  <2> QED BY <1>2, <2>1 DEF GoodCall, OwnXid, Active, At
<1>4. TypeOK
  BY <1>1, <1>2, NoneIsNoOne DEF Init, TypeOK, Idle
<1> QED BY <1>3, <1>4 DEF IInv, Init

LEMMA CallPreserves ==
  ASSUME IInv, NEW c \in Callers, Call(c)
  PROVE  IInv'
<1>1. /\ calls \in [Callers -> CallType] /\ xid \in Nat /\ now \in Nat
      /\ retries \in Nat /\ requests \subseteq RequestType /\ replies \subseteq ReplyType
      /\ holder \in Callers \cup {None} /\ retries \in RetryCounts
  BY RetriesTyped DEF IInv, TypeOK
<1>2. /\ At(c, "idle") /\ xid' = xid + 1
      /\ UNCHANGED <<now, retries, holder, requests, replies>>
  BY DEF Call
<1>3. PICK q \in Questions :
        calls' = [calls EXCEPT ![c] =
                    [step |-> "lock", asked |-> q, since |-> now, xid |-> xid + 1,
                     attempt |-> 0, retries |-> retries, answer |-> None]]
  BY DEF Call, Becomes
<1> DEFINE new == [step |-> "lock", asked |-> q, since |-> now, xid |-> xid + 1,
                   attempt |-> 0, retries |-> retries, answer |-> None]
<1>4. /\ new \in CallType /\ new.step = "lock" /\ new.asked = q /\ new.since = now
      /\ new.xid = xid + 1 /\ new.answer = None
  BY <1>1 DEF CallType, Steps
<1>5. calls' = [calls EXCEPT ![c] = new]
  BY <1>3
<1> HIDE DEF new
<1>6. calls'[c] = new /\ \A d \in Callers \ {c} : calls'[d] = calls[d]
  BY <1>1, <1>5
<1>7. calls' \in [Callers -> CallType]
  BY <1>1, <1>4, <1>5
<1>8. \A d \in Callers : calls[d].xid \in Nat /\ (Active(d) => calls[d].xid <= xid)
  BY <1>1 DEF IInv, GoodCall, CallType
<1>9. \A d \in Callers \ {c} : Active(d)' = Active(d)
  BY <1>6 DEF Active, At
<1>10. \A d \in Callers : GoodCall(d)'
  <2>1. GoodCall(c)'
    BY <1>1, <1>2, <1>4, <1>6 DEF GoodCall, Active, At
  <2>2. ASSUME NEW d \in Callers \ {c}
        PROVE  GoodCall(d)'
    BY <1>1, <1>2, <1>6, <1>8, <1>9 DEF IInv, GoodCall
  <2> QED BY <2>1, <2>2
<1>11. \A d \in Callers : OwnXid(d)'
  <2> SUFFICES ASSUME NEW d \in Callers, NEW e \in Callers, Active(d)', Active(e)',
                      calls'[d].xid = calls'[e].xid
               PROVE  d = e
    BY DEF OwnXid
  <2>1. ASSUME NEW f \in Callers \ {c}, Active(f)'
        PROVE  calls'[f].xid # xid + 1
    BY <1>1, <1>6, <1>8, <1>9, <2>1
  <2>2. calls'[c].xid = xid + 1
    BY <1>4, <1>6
  <2>3. CASE d # c /\ e # c
    BY <2>3, <1>6, <1>9 DEF IInv, OwnXid
  <2> QED BY <2>1, <2>2, <2>3
<1>12. \A r \in requests : GoodRequest(r)'
  <2> SUFFICES ASSUME NEW r \in requests PROVE GoodRequest(r)'
    OBVIOUS
  <2>1. r.xid \in Nat /\ r.xid <= xid /\ GoodRequest(r)
    BY <1>1 DEF RequestType, IInv, GoodRequest
  <2>2. calls'[c].xid # r.xid
    BY <2>1, <1>1, <1>4, <1>6
  <2> QED BY <2>1, <2>2, <1>1, <1>2, <1>6, <1>9 DEF GoodRequest
<1>13. \A m \in replies : GoodReply(m)'
  <2> SUFFICES ASSUME NEW m \in replies, m.answer # None PROVE GoodReply(m)'
    BY DEF GoodReply
  <2>1. m.xid \in Nat /\ m.xid <= xid /\ GoodReply(m)
    BY DEF IInv, GoodReply
  <2>2. calls'[c].xid # m.xid
    BY <2>1, <1>1, <1>4, <1>6
  <2> QED BY <2>1, <2>2, <1>1, <1>2, <1>6, <1>9 DEF GoodReply
<1>14. TypeOK'
  BY <1>1, <1>2, <1>4, <1>6, <1>7 DEF IInv, TypeOK, At
<1> QED BY <1>2, <1>10, <1>11, <1>12, <1>13, <1>14 DEF IInv

\* The steps that move a call on.
LEMMA MovesPreserves ==
  ASSUME IInv, NEW c \in Callers, Lock(c) \/ Send(c) \/ Retry(c)
  PROVE  IInv'
<1>1. /\ calls \in [Callers -> CallType] /\ xid \in Nat /\ now \in Nat
      /\ requests \subseteq RequestType /\ replies \subseteq ReplyType
      /\ holder \in Callers \cup {None} /\ retries \in RetryCounts
  BY DEF IInv, TypeOK
<1>2. /\ Active(c) /\ calls[c] \in CallType /\ calls[c].attempt \in Nat
      /\ UNCHANGED <<now, xid, retries, replies>>
  BY <1>1 DEF Lock, Send, Retry, Active, At, CallType
<1>3. PICK step \in Steps \ {"idle"} : Goes(c, step)
  BY DEF Lock, Send, Retry, Steps
<1>4. Moves(c, step, calls[c].attempt)
  <2>1. [calls[c] EXCEPT !.step = step]
          = [calls[c] EXCEPT !.step = step, !.attempt = calls[c].attempt]
    BY <1>2 DEF CallType
  <2> QED BY <2>1, <1>3 DEF Moves, Goes, Becomes
<1>5. /\ NoNewCall
      /\ calls' \in [Callers -> CallType]
      /\ \A d \in Callers : GoodCall(d)'
      /\ calls'[c].step = step
      /\ \A d \in Callers \ {c} : calls'[d] = calls[d]
  BY <1>2, <1>3, <1>4, MovesIsGood
<1>6. /\ \A d \in Callers : OwnXid(d)'
      /\ \A r \in requests : GoodRequest(r)'
      /\ \A m \in replies : GoodReply(m)'
  BY <1>1, <1>2, <1>5, SentStaysGood
<1>7. calls[c].asked \in Questions /\ calls[c].xid \in Nat /\ calls[c].xid <= xid
  BY <1>2 DEF IInv, GoodCall, CallType
<1>8. /\ requests' \subseteq RequestType
      /\ \A r \in requests' : GoodRequest(r)'
  <2>1. PICK sent \in RequestType :
          /\ sent.xid = calls[c].xid /\ sent.asked = calls[c].asked
          /\ requests' \in {requests, requests \cup {sent}}
    <3> DEFINE sent == [xid |-> calls[c].xid, asked |-> calls[c].asked]
    <3>1. sent \in RequestType /\ sent.xid = calls[c].xid /\ sent.asked = calls[c].asked
      BY <1>7 DEF RequestType
    <3>2. requests' \in {requests, requests \cup {sent}}
      BY DEF Lock, Send, Retry
    <3> QED BY <3>1, <3>2
  <2>2. \A d \in Callers : Active(d)' /\ calls'[d].xid = calls[c].xid =>
          calls'[d].asked = calls[c].asked
    BY <1>2, <1>5 DEF NoNewCall, IInv, OwnXid
  <2>3. GoodRequest(sent)'
    BY <1>2, <1>7, <2>1, <2>2 DEF GoodRequest
  <2> QED BY <1>1, <1>6, <2>1, <2>3
<1>9. /\ holder' \in Callers \cup {None}
      /\ \A d \in Callers : calls'[d].step \in {"send", "receive", "backoff"} <=> holder' = d
  <2>1. CASE Lock(c)
    <3>1. calls[c].step = "lock" /\ holder = None /\ holder' = c /\ calls'[c].step = "send"
      <4>1. calls' = [calls EXCEPT ![c] = [calls[c] EXCEPT !.step = "send"]]
        BY <2>1 DEF Lock, Goes, Becomes
      <4> QED BY <2>1, <4>1, <1>1, <1>2 DEF Lock, At, CallType
    <3> QED BY <3>1, <1>5, NoneIsNoOne DEF IInv, TypeOK
  <2>2. CASE Send(c) \/ Retry(c)
    <3>1. calls[c].step \in {"send", "receive", "backoff"} /\ holder' = holder
      BY <2>2 DEF Send, Retry, At
    <3>2. calls'[c].step \in {"send", "receive", "backoff"}
      <4>1. \/ calls' = [calls EXCEPT ![c] = [calls[c] EXCEPT !.step = "send"]]
            \/ calls' = [calls EXCEPT ![c] = [calls[c] EXCEPT !.step = "receive"]]
        BY <2>2 DEF Send, Retry, Goes, Becomes
      <4> QED BY <4>1, <1>1, <1>2 DEF CallType
    <3> QED BY <3>1, <3>2, <1>5 DEF IInv, TypeOK
  <2> QED BY <2>1, <2>2
<1>10. TypeOK'
  BY <1>1, <1>2, <1>5, <1>8, <1>9 DEF TypeOK
<1> QED BY <1>2, <1>5, <1>6, <1>8, <1>10 DEF IInv

\* The steps after which a call has returned.
LEMMA ReturnsPreserves ==
  ASSUME IInv, NEW c \in Callers, Active(c), NEW a \in AnswerType \cup {None},
         Returns(c, a), UNCHANGED <<now, xid, retries, requests, replies>>
  PROVE  IInv'
<1>1. xid \in Nat /\ now \in Nat /\ TypeOK
  BY DEF IInv, TypeOK
<1>2. /\ NoNewCall
      /\ calls' \in [Callers -> CallType] /\ holder' \in Callers \cup {None}
      /\ \A d \in Callers : GoodCall(d)'
      /\ \A d \in Callers :
           calls'[d].step \in {"send", "receive", "backoff"} <=> holder' = d
  BY ReturnsIsGood
<1>3. /\ \A d \in Callers : OwnXid(d)'
      /\ \A r \in requests : GoodRequest(r)'
      /\ \A m \in replies : GoodReply(m)'
  BY <1>1, <1>2, SentStaysGood
<1>4. TypeOK'
  BY <1>1, <1>2 DEF TypeOK
<1> QED BY <1>2, <1>3, <1>4 DEF IInv

LEMMA TimeoutPreserves ==
  ASSUME IInv, NEW c \in Callers, Timeout(c)
  PROVE  IInv'
<1>1. calls[c] \in CallType /\ calls[c].step = "receive" /\ Active(c) /\ TypeOK
  BY DEF Timeout, Active, At, IInv, TypeOK
<1>2. UNCHANGED <<now, xid, retries, requests, replies>>
  BY DEF Timeout
<1>3. CASE Returns(c, None)
  BY <1>1, <1>2, <1>3, ReturnsPreserves
<1>4. CASE /\ Becomes(c, [calls[c] EXCEPT !.step = "backoff", !.attempt = calls[c].attempt + 1])
           /\ UNCHANGED holder
  <2>1. calls[c].attempt + 1 \in Nat /\ "backoff" \in Steps
    BY <1>1 DEF CallType, Steps
  <2>2. Moves(c, "backoff", calls[c].attempt + 1)
    BY <1>4 DEF Moves, Becomes
  <2>3. /\ NoNewCall
        /\ calls' \in [Callers -> CallType]
        /\ \A d \in Callers : GoodCall(d)'
        /\ calls'[c].step = "backoff"
        /\ \A d \in Callers \ {c} : calls'[d] = calls[d]
    BY <1>1, <1>2, <2>1, <2>2, MovesIsGood
  <2>4. xid \in Nat /\ now \in Nat
    BY <1>1 DEF TypeOK
  <2>5. /\ \A d \in Callers : OwnXid(d)'
        /\ \A r \in requests : GoodRequest(r)'
        /\ \A m \in replies : GoodReply(m)'
    BY <1>2, <2>3, <2>4, SentStaysGood
  <2>6. TypeOK'
    BY <1>1, <1>2, <1>4, <2>3 DEF TypeOK
  <2> QED BY <1>2, <2>3, <2>5, <2>6 DEF IInv
<1> QED BY <1>3, <1>4 DEF Timeout

LEMMA ServePreserves ==
  ASSUME IInv, NEW r \in requests, Serve(r)
  PROVE  IInv'
<1>1. /\ TypeOK /\ now \in Nat /\ xid \in Nat /\ r \in RequestType /\ GoodRequest(r)
      /\ r.xid \in Nat /\ r.asked \in Questions
  BY DEF IInv, TypeOK, RequestType
<1>2. PICK m \in {[xid |-> r.xid, answer |-> [to |-> r.asked, at |-> now]],
                  [xid |-> r.xid, answer |-> None], Garbled} :
        replies' = replies \cup {m}
  BY DEF Serve
<1>3. UNCHANGED <<now, xid, retries, holder, calls, requests>>
  BY DEF Serve
<1>4. m \in ReplyType /\ GoodReply(m)
  <2>1. CASE m.answer = None
    BY <1>1, <1>2, <2>1 DEF ReplyType, AnswerType, GoodReply, Garbled
  <2>2. CASE m = [xid |-> r.xid, answer |-> [to |-> r.asked, at |-> now]]
    <3>1. /\ m.xid = r.xid /\ m.answer.to = r.asked /\ m.answer.at = now
          /\ m \in ReplyType
      BY <1>1, <2>2 DEF ReplyType, AnswerType
    <3>2. \A c \in Callers : Active(c) => calls[c].since <= now
      BY DEF IInv, GoodCall
    <3> QED BY <1>1, <3>1, <3>2 DEF GoodReply, GoodRequest
  <2> QED BY <1>2, <2>1, <2>2 DEF Garbled
<1>5. NoNewCall
  BY <1>3 DEF NoNewCall, Active, At
<1>6. /\ \A d \in Callers : OwnXid(d)'
      /\ \A s \in requests : GoodRequest(s)'
      /\ \A n \in replies : GoodReply(n)'
  BY <1>1, <1>3, <1>5, SentStaysGood
<1>7. GoodReply(m)'
  BY <1>3, <1>4 DEF GoodReply, Active, At
<1>8. \A d \in Callers : GoodCall(d)'
  BY <1>3 DEF IInv, GoodCall, Active, At
<1>9. TypeOK'
  BY <1>1, <1>2, <1>3, <1>4 DEF TypeOK
<1> QED BY <1>2, <1>3, <1>6, <1>7, <1>8, <1>9 DEF IInv

\* The steps that touch no call.
LEMMA OthersPreserve ==
  ASSUME IInv, Change \/ Configure \/ UNCHANGED vars
  PROVE  IInv'
<1>1. /\ TypeOK /\ now \in Nat /\ xid \in Nat
      /\ UNCHANGED <<xid, holder, calls, requests, replies>>
  BY DEF IInv, TypeOK, Change, Configure, vars
<1>2. now' \in Nat /\ now' >= now /\ retries' \in RetryCounts
  BY <1>1 DEF TypeOK, Change, Configure, vars
<1>3. NoNewCall
  BY <1>1 DEF NoNewCall, Active, At
<1>4. /\ \A d \in Callers : OwnXid(d)'
      /\ \A s \in requests : GoodRequest(s)'
      /\ \A n \in replies : GoodReply(n)'
  BY <1>1, <1>2, <1>3, SentStaysGood
<1>5. \A d \in Callers : GoodCall(d)'
  <2> SUFFICES ASSUME NEW d \in Callers PROVE GoodCall(d)'
    OBVIOUS
  <2>1. GoodCall(d) /\ calls[d] \in CallType
    BY <1>1 DEF IInv, TypeOK
  <2>2. calls[d].since \in Nat
    BY <2>1 DEF CallType
  <2> QED BY <1>1, <1>2, <2>1, <2>2 DEF GoodCall, Active, At
<1>6. TypeOK'
  BY <1>1, <1>2 DEF TypeOK
<1> QED BY <1>1, <1>4, <1>5, <1>6 DEF IInv

\* An answer that is taken is well typed and was read during the call.
LEMMA AnswerFits ==
  ASSUME IInv, NEW c \in Callers, NEW m \in replies, Receive(c, m)
  PROVE  /\ m.answer \in AnswerType \cup {None}
         /\ m.answer # None =>
              m.answer.to = calls[c].asked /\ m.answer.at \in calls[c].since .. now
<1>1. m \in ReplyType /\ calls[c] \in CallType /\ now \in Nat /\ GoodReply(m)
  BY DEF IInv, TypeOK
<1>2. Active(c) /\ m.xid \in {None, calls[c].xid}
  BY DEF Receive, Active, At
<1>3. m.answer \in AnswerType \cup {None}
  BY <1>1 DEF ReplyType
<1>4. ASSUME m.answer # None
      PROVE  m.answer.to = calls[c].asked /\ m.answer.at \in calls[c].since .. now
  <2>1. m.xid = calls[c].xid
    BY <1>1, <1>2, <1>4, NoneIsNoOne DEF GoodReply
  <2>2. m.answer.at \in Nat /\ calls[c].since \in Nat
    BY <1>1, <1>3, <1>4 DEF AnswerType, CallType
  <2> QED BY <1>1, <1>2, <1>4, <2>1, <2>2 DEF GoodReply
<1> QED BY <1>3, <1>4

LEMMA Preserved == IInv /\ [Next]_vars => IInv'
<1> SUFFICES ASSUME IInv, [Next]_vars PROVE IInv'
  OBVIOUS
<1>1. ASSUME NEW c \in Callers, Call(c) PROVE IInv'
  BY <1>1, CallPreserves
<1>2. ASSUME NEW c \in Callers, Lock(c) \/ Send(c) \/ Retry(c) PROVE IInv'
  BY <1>2, MovesPreserves
<1>3. ASSUME NEW c \in Callers, Timeout(c) PROVE IInv'
  BY <1>3, TimeoutPreserves
<1>4. ASSUME NEW c \in Callers, NEW m \in replies, Receive(c, m) PROVE IInv'
  <2>1. /\ Active(c) /\ Returns(c, m.answer)
        /\ UNCHANGED <<now, xid, retries, requests, replies>>
    BY <1>4 DEF Receive, Active, At
  <2>2. m.answer \in AnswerType \cup {None}
    BY <1>4, AnswerFits
  <2> QED BY <2>1, <2>2, ReturnsPreserves
<1>5. ASSUME NEW c \in Callers, Cancel(c) PROVE IInv'
  <2>1. /\ Active(c) /\ Returns(c, None)
        /\ UNCHANGED <<now, xid, retries, requests, replies>>
    BY <1>5 DEF Cancel, Active
  <2> QED BY <2>1, ReturnsPreserves
<1>6. ASSUME NEW r \in requests, Serve(r) PROVE IInv'
  BY <1>6, ServePreserves
<1>7. CASE Change \/ Configure \/ UNCHANGED vars
  BY <1>7, OthersPreserve
<1> QED BY <1>1, <1>2, <1>3, <1>4, <1>5, <1>6, <1>7 DEF Next, CallStep

\* State is well typed, and the transaction under way is the one whose call holds
\* the lock.
THEOREM TypeCorrect == Spec => []TypeOK
<1>1. IInv => TypeOK
  BY DEF IInv
<1> QED BY <1>1, Initial, Preserved, PTL DEF Spec

-----------------------------------------------------------------------------
(* The refinement.                                                          *)

\* What callers see of a step in which one call changes.
LEMMA OneSeen ==
  ASSUME calls \in [Callers -> CallType], NEW c \in Callers, NEW new,
         calls' = [calls EXCEPT ![c] = new]
  PROVE  [d \in Callers |-> Seen(calls'[d])]
           = [[d \in Callers |-> Seen(calls[d])] EXCEPT ![c] = Seen(new)]
<1>1. calls'[c] = new /\ \A d \in Callers \ {c} : calls'[d] = calls[d]
  OBVIOUS
<1> QED BY <1>1

\* A call that moves on looks the same to its caller.
LEMMA MovesUnseen ==
  ASSUME IInv, NEW c \in Callers, Goes(c, "send") \/ Goes(c, "receive")
                                \/ \E n \in Nat : Moves(c, "backoff", n)
  PROVE  [d \in Callers |-> Seen(calls'[d])] = [d \in Callers |-> Seen(calls[d])]
<1>1. calls \in [Callers -> CallType] /\ calls[c] \in CallType
  BY DEF IInv, TypeOK
<1>2. PICK new : calls' = [calls EXCEPT ![c] = new] /\ Seen(new) = Seen(calls[c])
  <2>1. ASSUME NEW step, Goes(c, step)
        PROVE  \E new : calls' = [calls EXCEPT ![c] = new] /\ Seen(new) = Seen(calls[c])
    <3>1. Seen([calls[c] EXCEPT !.step = step]) = Seen(calls[c])
      BY <1>1 DEF Seen, CallType
    <3> QED BY <2>1, <3>1 DEF Goes, Becomes
  <2>2. ASSUME NEW n \in Nat, Moves(c, "backoff", n)
        PROVE  \E new : calls' = [calls EXCEPT ![c] = new] /\ Seen(new) = Seen(calls[c])
    <3>1. Seen([calls[c] EXCEPT !.step = "backoff", !.attempt = n]) = Seen(calls[c])
      BY <1>1 DEF Seen, CallType
    <3> QED BY <2>2, <3>1 DEF Moves
  <2> QED BY <2>1, <2>2
<1>3. calls'[c] = new /\ \A d \in Callers \ {c} : calls'[d] = calls[d]
  BY <1>1, <1>2
<1> QED BY <1>2, <1>3

LEMMA CallIsAsk ==
  ASSUME IInv, NEW c \in Callers, Call(c)
  PROVE  Service!Ask(c)
<1> DEFINE bar == [d \in Callers |-> Seen(calls[d])]
<1>1. calls \in [Callers -> CallType] /\ calls[c].asked = None
  BY DEF IInv, TypeOK, GoodCall, Active, Call
<1>2. PICK q \in Questions :
        calls' = [calls EXCEPT ![c] =
                    [step |-> "lock", asked |-> q, since |-> now, xid |-> xid + 1,
                     attempt |-> 0, retries |-> retries, answer |-> None]]
  BY DEF Call, Becomes
<1> DEFINE new == [step |-> "lock", asked |-> q, since |-> now, xid |-> xid + 1,
                   attempt |-> 0, retries |-> retries, answer |-> None]
<1>3. /\ calls' = [calls EXCEPT ![c] = new]
      /\ Seen(new) = [asked |-> q, since |-> now, answer |-> None]
  BY <1>2 DEF Seen
<1> HIDE DEF new
<1>4. [d \in Callers |-> Seen(calls'[d])]
        = [bar EXCEPT ![c] = [asked |-> q, since |-> now, answer |-> None]]
  BY <1>1, <1>3, OneSeen
<1>5. bar[c].asked = None
  BY <1>1 DEF Seen
<1> QED BY <1>4, <1>5 DEF Service!Ask, Call

\* A call that returns fails, or answers its question.
LEMMA ReturnIsAnswerOrFail ==
  ASSUME IInv, NEW c \in Callers, Active(c), NEW a \in AnswerType \cup {None},
         a # None => a.to = calls[c].asked /\ a.at \in calls[c].since .. now,
         Returns(c, a), UNCHANGED now
  PROVE  Service!Answer(c) \/ Service!Fail(c)
<1> DEFINE bar == [d \in Callers |-> Seen(calls[d])]
           new == [Idle EXCEPT !.answer = a]
<1>1. calls \in [Callers -> CallType]
  BY DEF IInv, TypeOK
<1>2. bar[c].asked = calls[c].asked /\ bar[c].since = calls[c].since
  BY DEF Seen
<1>3. calls[c].asked # None
  BY NoneIsNoOne DEF IInv, GoodCall
<1>4. Seen(new) = [asked |-> None, since |-> 0, answer |-> a]
  BY ReturnedIsTyped
<1>5. calls' = [calls EXCEPT ![c] = new]
  BY DEF Returns, Becomes
<1> HIDE DEF new
<1>6. [d \in Callers |-> Seen(calls'[d])]
        = [bar EXCEPT ![c] = [asked |-> None, since |-> 0, answer |-> a]]
  BY <1>1, <1>4, <1>5, OneSeen
<1>7. CASE a = None
  BY <1>2, <1>3, <1>6, <1>7 DEF Service!Fail, Service!NoCall
<1>8. CASE a # None
  <2>1. a = [to |-> calls[c].asked, at |-> a.at] /\ a.at \in calls[c].since .. now
    BY <1>8 DEF AnswerType
  <2>2. [Service!NoCall EXCEPT !.answer = [to |-> bar[c].asked, at |-> a.at]]
          = [asked |-> None, since |-> 0, answer |-> a]
    BY <1>2, <2>1 DEF Service!NoCall
  <2> QED BY <1>2, <1>3, <1>6, <2>1, <2>2 DEF Service!Answer
<1> QED BY <1>7, <1>8

LEMMA InitRefines == Init => Service!Init
<1>1. Seen(Idle) = [asked |-> None, since |-> 0, answer |-> None]
  BY DEF Seen, Idle
<1> QED BY <1>1 DEF Init, Service!Init, Service!NoCall

LEMMA StepRefines == IInv /\ [Next]_vars => [Service!Next]_(Service!vars)
<1> SUFFICES ASSUME IInv, [Next]_vars PROVE [Service!Next]_(Service!vars)
  OBVIOUS
<1>1. ASSUME NEW c \in Callers, Call(c) PROVE Service!Next
  BY <1>1, CallIsAsk DEF Service!Next
<1>2. ASSUME NEW c \in Callers, Lock(c) \/ Send(c) \/ Retry(c)
      PROVE  UNCHANGED Service!vars
  <2>1. (Goes(c, "send") \/ Goes(c, "receive")) /\ now' = now
    BY <1>2 DEF Lock, Send, Retry
  <2> QED BY <2>1, MovesUnseen DEF Service!vars
<1>3. ASSUME NEW c \in Callers, NEW m \in replies, Receive(c, m) PROVE Service!Next
  <2>1. Active(c) /\ Returns(c, m.answer) /\ now' = now
    BY <1>3 DEF Receive, Active, At
  <2> QED BY <1>3, <2>1, AnswerFits, ReturnIsAnswerOrFail DEF Service!Next
<1>4. ASSUME NEW c \in Callers, Active(c), Returns(c, None), now' = now
      PROVE  Service!Next
  BY <1>4, ReturnIsAnswerOrFail DEF Service!Next
<1>5. ASSUME NEW c \in Callers, Timeout(c) PROVE [Service!Next]_(Service!vars)
  <2>1. Active(c) /\ now' = now /\ calls[c] \in CallType
    BY <1>5 DEF Timeout, Active, At, IInv, TypeOK
  <2>2. CASE Returns(c, None)
    BY <1>4, <2>1, <2>2
  <2>3. CASE Becomes(c, [calls[c] EXCEPT !.step = "backoff", !.attempt = calls[c].attempt + 1])
    <3>1. calls[c].attempt + 1 \in Nat
      BY <2>1 DEF CallType
    <3>2. Moves(c, "backoff", calls[c].attempt + 1)
      BY <2>3 DEF Moves, Becomes
    <3> QED BY <2>1, <3>1, <3>2, MovesUnseen DEF Service!vars
  <2> QED BY <1>5, <2>2, <2>3 DEF Timeout
<1>6. ASSUME NEW c \in Callers, Cancel(c) PROVE Service!Next
  BY <1>4, <1>6 DEF Cancel, Active
<1>7. CASE Change
  BY <1>7 DEF Change, Service!Next, Service!Change
<1>8. ASSUME Configure \/ UNCHANGED vars \/ \E r \in requests : Serve(r)
      PROVE  UNCHANGED Service!vars
  BY <1>8 DEF Configure, Serve, vars, Service!vars
<1> QED BY <1>1, <1>2, <1>3, <1>5, <1>6, <1>7, <1>8 DEF Next, CallStep

\* Whatever the network does to its datagrams, what a call returns is an error or
\* the answer to its own question, read from the player during the call.
THEOREM ImplementsService == Spec => Implements
<1> QED BY Initial, Preserved, InitRefines, StepRefines, PTL
        DEF Spec, Implements, Service!Spec
=============================================================================
