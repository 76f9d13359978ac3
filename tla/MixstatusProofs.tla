-------------------------- MODULE MixstatusProofs --------------------------
(***************************************************************************)
(* Type correctness of the mix status processor, that its live players     *)
(* are what listeners were told, that the end of an announced set is never *)
(* forgotten, and that a deck is announced over another only for a reason. *)
(* The operators of Mixstatus map a processor record to the next one; each *)
(* has a lemma on types, one on the invariant and one on what it may       *)
(* announce, and the actions follow by composing them.                     *)
(*                                                                         *)
(* Then the passive network, for any players, slots and tasks: nothing is  *)
(* loaded or connected twice, and a player that left has no database.      *)
(***************************************************************************)
EXTENDS Mixstatus, Passive, SequenceTheorems, TLAPS

Inv(p) == Mirrors(p) /\ Timed(p)

-----------------------------------------------------------------------------
(* Types.                                                                   *)

\* Reporting set_started or set_ended keeps the record typed.
LEMMA EmitSetTypes ==
    ASSUME NEW p \in Processor, NEW type \in {"set_started", "set_ended"}
    PROVE  EmitSet(p, type) \in Processor
<1>1. [type |-> type] \in Events
  BY DEF Events
<1>2. p.out \in Seq(Events)
  BY DEF Processor
<1>3. Append(p.out, [type |-> type]) \in Seq(Events)
  BY <1>1, <1>2
<1> QED BY <1>3 DEF EmitSet, Processor

\* Reporting now_playing keeps the record typed.
LEMMA EmitNowPlayingTypes ==
    ASSUME NEW p \in Processor, NEW d \in Devices, NEW t \in Tracks
    PROVE  EmitNowPlaying(p, d, t) \in Processor
<1> DEFINE e == [type |-> "now_playing", device |-> d, track |-> t]
<1>1. e \in Events
  BY DEF Events
<1>2. p.out \in Seq(Events)
  BY DEF Processor
<1> HIDE DEF e
<1>3. Append(p.out, e) \in Seq(Events)
  BY <1>1, <1>2
<1> QED BY <1>3 DEF EmitNowPlaying, Processor, e

\* Reporting stopped keeps the record typed.
LEMMA EmitStoppedTypes ==
    ASSUME NEW p \in Processor, NEW d \in Devices
    PROVE  EmitStopped(p, d) \in Processor
<1> DEFINE e == [type |-> "stopped", device |-> d]
<1>1. e \in Events
  BY DEF Events
<1>2. p.out \in Seq(Events)
  BY DEF Processor
<1> HIDE DEF e
<1>3. Append(p.out, e) \in Seq(Events)
  BY <1>1, <1>2
<1> QED BY <1>3 DEF EmitStopped, Processor, e

\* Cancelling the timer keeps the record typed.
LEMMA CancelTypes ==
    ASSUME NEW p \in Processor
    PROVE  CancelSetEnding(p) \in Processor
<1> DEFINE n == IF p.set_ending = "fired" THEN p.fired + 1 ELSE p.fired
<1>1. n \in Nat
  BY DEF Processor
<1> HIDE DEF n
<1>2. [p EXCEPT !.set_ending = "none", !.fired = n] \in Processor
  BY <1>1 DEF Processor
<1> QED BY <1>2 DEF CancelSetEnding, n

\* promote_player keeps the record typed.
LEMMA PromoteTypes ==
    ASSUME NEW p \in Processor, NEW d \in Devices, NEW s \in States
    PROVE  Promote(p, d, s) \in Processor
<1> DEFINE running == IF p.is_set_active THEN p
                      ELSE EmitSet([p EXCEPT !.is_set_active = TRUE],
                                   "set_started")
           marked == [CancelSetEnding(running) EXCEPT
                        !.live_players = @ \cup {d},
                        !.last_emitted_track_id[d] = s.track_id]
<1>1. running \in Processor
  <2>1. [p EXCEPT !.is_set_active = TRUE] \in Processor
    BY DEF Processor
  <2> QED BY <2>1, EmitSetTypes
<1>2. s.track_id \in Tracks
  BY DEF States
<1>3. marked \in Processor
  <2> DEFINE c == CancelSetEnding(running)
  <2>1. c \in Processor
    BY <1>1, CancelTypes
  <2> HIDE DEF c
  <2>2. [c EXCEPT !.live_players = @ \cup {d},
                  !.last_emitted_track_id[d] = s.track_id] \in Processor
    BY <1>2, <2>1 DEF Processor
  <2> QED BY <2>2 DEF c
<1>4. EmitNowPlaying(marked, d, s.track_id) \in Processor
  <2> HIDE DEF marked
  <2> QED BY <1>2, <1>3, EmitNowPlayingTypes
<1> QED BY <1>4 DEF Promote

\* set_may_stop keeps the record typed.
LEMMA SetMayStopTypes ==
    ASSUME NEW p \in Processor
    PROVE  SetMayStop(p) \in Processor
<1> DEFINE c == CancelSetEnding(p)
<1>1. c \in Processor
  BY CancelTypes
<1> HIDE DEF c
<1>2. [c EXCEPT !.set_ending = "sleeping"] \in Processor
  BY <1>1 DEF Processor
<1> QED BY <1>2 DEF SetMayStop, c

\* promote_next_player keeps the record typed: it promotes a deck it chose
\* among the candidates, whose last state is known, or lets the set end.
LEMMA PromoteNextTypes ==
    ASSUME NEW p \in Processor, NEW tie \in Devices
    PROVE  PromoteNext(p, tie) \in Processor
<1> DEFINE d == IF tie \in Longest(p) THEN tie
                ELSE CHOOSE e \in Longest(p) : TRUE
<1>1. CASE Longest(p) = {}
  BY <1>1, SetMayStopTypes DEF PromoteNext
<1>2. CASE Longest(p) # {}
  <2>1. d \in Longest(p)
    BY <1>2
  <2> HIDE DEF d
  <2>2. d \in Devices /\ p.last_state[d] # None
    BY <2>1 DEF Longest, Candidates
  <2>3. p.last_state[d] \in States
    BY <2>2 DEF Processor
  <2>4. Promote(p, d, p.last_state[d]) \in Processor
    BY <2>2, <2>3, PromoteTypes
  <2> QED BY <1>2, <2>4 DEF PromoteNext, d
<1> QED BY <1>1, <1>2

\* mark_player_stopped keeps the record typed.
LEMMA MarkPlayerStoppedTypes ==
    ASSUME NEW p \in Processor, NEW d \in Devices, NEW tie \in Devices
    PROVE  MarkPlayerStopped(p, d, tie) \in Processor
<1> DEFINE q == [p EXCEPT !.last_stopped_times[d] = None,
                          !.last_start_time[d] = None,
                          !.live_players = @ \ {d}]
<1>1. q \in Processor
  BY DEF Processor
<1> HIDE DEF q
<1>2. PromoteNext(q, tie) \in Processor
  BY <1>1, PromoteNextTypes
<1>3. EmitStopped(PromoteNext(q, tie), d) \in Processor
  BY <1>2, EmitStoppedTypes
<1> QED BY <1>3 DEF MarkPlayerStopped, q

\* player_may_be_first and player_may_stop keep the record typed.
LEMMA PlayerTypes ==
    ASSUME NEW p \in Processor, NEW d \in Devices, NEW s \in States,
           now \in Nat
    PROVE  /\ PlayerMayBeFirst(p, d, s) \in Processor
           /\ PlayerMayStop(p, d) \in Processor
           /\ [p EXCEPT !.last_start_time[d] = now] \in Processor
           /\ [p EXCEPT !.last_stopped_times[d] = None] \in Processor
<1>1. PlayerMayBeFirst(p, d, s) \in Processor
  BY PromoteTypes DEF PlayerMayBeFirst
<1>2. PlayerMayStop(p, d) \in Processor
  BY DEF PlayerMayStop, Processor
<1>3. [p EXCEPT !.last_start_time[d] = now] \in Processor
  BY DEF Processor
<1>4. [p EXCEPT !.last_stopped_times[d] = None] \in Processor
  BY DEF Processor
<1> QED BY <1>1, <1>2, <1>3, <1>4

\* handle_playstate_change keeps the record typed.
LEMMA PlaystateChangeTypes ==
    ASSUME NEW p \in Processor, NEW d \in Devices, NEW last \in States,
           NEW s \in States, NEW tie \in Devices, now \in Nat
    PROVE  PlaystateChange(p, d, last, s, tie) \in Processor
<1> DEFINE q == IF p.config.mode = "FollowsMaster" /\ s.is_master
                THEN Promote(p, d, s) ELSE p
           begun == [q EXCEPT !.last_start_time[d] = now]
<1>1. q \in Processor
  BY PromoteTypes
<1> HIDE DEF q
<1>2. begun \in Processor
  BY <1>1, PlayerTypes
<1> HIDE DEF begun
<1>3. PlayerMayBeFirst(begun, d, s) \in Processor
  BY <1>2, PlayerTypes
<1> QED BY <1>3, PlayerTypes, MarkPlayerStoppedTypes
        DEF PlaystateChange, begun, q

\* handle_onair_change keeps the record typed.
LEMMA OnairChangeTypes ==
    ASSUME NEW p \in Processor, NEW d \in Devices, NEW s \in States,
           now \in Nat
    PROVE  OnairChange(p, d, s) \in Processor
<1> DEFINE q == PlayerMayBeFirst(p, d, s)
<1>1. q \in Processor
  BY PlayerTypes
<1> HIDE DEF q
<1>2. /\ PlayerMayStop(q, d) \in Processor
      /\ [q EXCEPT !.last_stopped_times[d] = None] \in Processor
  BY <1>1, PlayerTypes
<1> QED BY <1>1, <1>2 DEF OnairChange, q

\* Recording a report, and all it leads to, keeps the record typed.
LEMMA ComparedTypes ==
    ASSUME TypeOK, NEW d \in Devices, NEW s \in States, NEW tie \in Devices
    PROVE  /\ Record(d, s) \in Processor
           /\ Compared(d, s, tie) \in Processor
<1> DEFINE last == st.last_state[d]
           p == IF last # None /\ last.play_state # s.play_state
                THEN PlaystateChange(Record(d, s), d, last, s, tie)
                ELSE Record(d, s)
<1>1. Record(d, s) \in Processor
  <2>1. <<>> \in Seq(Events)
    OBVIOUS
  <2> QED BY <2>1 DEF Record, TypeOK, Processor
<1>2. last \in States \cup {None} /\ now \in Nat
  BY DEF TypeOK, Processor
<1> HIDE DEF last
<1>3. p \in Processor
  BY <1>1, <1>2, PlaystateChangeTypes
<1> HIDE DEF p
<1>4. OnairChange(p, d, s) \in Processor
  BY <1>2, <1>3, OnairChangeTypes
<1> QED BY <1>1, <1>3, <1>4 DEF Compared, p, last

-----------------------------------------------------------------------------
\* The processor state is well typed in every reachable state.
THEOREM TypeCorrect == Spec => []TypeOK
<1>1. Init => TypeOK
  <2> SUFFICES ASSUME Init PROVE TypeOK
    OBVIOUS
  <2>1. <<>> \in Seq(Events) /\ Nothing \in [Devices -> {None}]
    BY DEF Nothing
  <2>2. /\ Nothing \in [Devices -> States \cup {None}]
        /\ Nothing \in [Devices -> Nat \cup {None}]
        /\ Nothing \in [Devices -> Tracks \cup {None}]
    BY DEF Nothing
  <2> QED BY <2>1, <2>2, ConfigsTyped DEF Init, TypeOK, Processor
<1>2. TypeOK /\ [Next]_vars => TypeOK'
  <2> SUFFICES ASSUME TypeOK, [Next]_vars PROVE TypeOK'
    OBVIOUS
  <2> DEFINE quiet == [st EXCEPT !.out = <<>>]
  <2>1. quiet \in Processor
    <3>1. <<>> \in Seq(Events)
      OBVIOUS
    <3> QED BY <3>1 DEF TypeOK, Processor
  <2>2. CASE HandleState
    <3>1. PICK d \in Devices, s \in Packets, tie \in Devices :
            \/ FirstHeardPlaying(d, s)
            \/ BecomesMaster(d, s, tie)
            \/ \E b \in BeatTimes \cup {NoTempo} : ReportState(d, s, b, tie)
      BY <2>2 DEF HandleState
    <3>2. /\ s \in States /\ now \in Nat
          /\ Record(d, s) \in Processor
          /\ Compared(d, s, tie) \in Processor
      BY PacketsTyped, ComparedTypes DEF TypeOK
    <3>3. CASE FirstHeardPlaying(d, s)
      <4> DEFINE r == [Record(d, s) EXCEPT !.last_start_time[d] = now]
      <4>1. r \in Processor
        BY <3>2, PlayerTypes
      <4> HIDE DEF r
      <4>2. PlayerMayBeFirst(r, d, s) \in Processor
        BY <3>2, <4>1, PlayerTypes
      <4> QED BY <3>2, <3>3, <4>2 DEF FirstHeardPlaying, TypeOK, r
    <3>4. CASE BecomesMaster(d, s, tie)
      BY <3>2, <3>4, PromoteTypes DEF BecomesMaster, TypeOK
    <3>5. ASSUME NEW b \in BeatTimes \cup {NoTempo}, ReportState(d, s, b, tie)
          PROVE  TypeOK'
      <4> DEFINE r == PlayedLongEnough(Compared(d, s, tie), d, s, b)
      <4>1. r \in Processor
        BY <3>2, PromoteTypes DEF PlayedLongEnough
      <4> HIDE DEF r
      <4>2. StoppedLongEnough(r, d, b, tie) \in Processor
        BY <4>1, MarkPlayerStoppedTypes DEF StoppedLongEnough
      <4> QED BY <3>2, <3>5, <4>2 DEF ReportState, TypeOK, r
    <3> QED BY <3>1, <3>3, <3>4, <3>5
  <2>3. CASE TriggerNextTrack
    BY <2>1, <2>3, PromoteNextTypes DEF TriggerNextTrack, TypeOK
  <2>4. CASE Configure
    <3>1. PICK c \in Configs : st' = [quiet EXCEPT !.config = c]
      BY <2>4 DEF Configure
    <3>2. c \in ConfigType /\ now' = now
      BY <2>4, ConfigsTyped DEF Configure
    <3> HIDE DEF quiet
    <3>3. [quiet EXCEPT !.config = c] \in Processor
      BY <2>1, <3>2 DEF Processor
    <3> QED BY <3>1, <3>2, <3>3 DEF TypeOK
  <2>5. CASE TimerWakes
    <3>1. CASE st' = [st EXCEPT !.set_ending = "fired", !.out = <<>>]
      BY <2>1, <2>5, <3>1 DEF TimerWakes, TypeOK, Processor
    <3>2. CASE /\ st.detached > 0
               /\ st' = [st EXCEPT !.detached = @ - 1, !.fired = @ + 1,
                                   !.out = <<>>]
      <4>1. st.detached - 1 \in Nat /\ st.fired + 1 \in Nat
        BY <3>2 DEF TypeOK, Processor
      <4> QED BY <2>1, <2>5, <3>2, <4>1 DEF TimerWakes, TypeOK, Processor
    <3> QED BY <2>5, <3>1, <3>2 DEF TimerWakes
  <2>6. CASE TimerEnds
    <3>1. [quiet EXCEPT !.set_ending = "none"] \in Processor
      BY <2>1 DEF Processor
    <3> QED BY <2>1, <2>6, <3>1, EmitSetTypes DEF TimerEnds, SetEnds, TypeOK
  <2>7. CASE LateTimerEnds
    <3> DEFINE f == IF st.set_ending = "fired" THEN st.fired ELSE st.fired - 1
               t == IF st.set_ending = "sleeping" THEN st.detached + 1
                    ELSE st.detached
               p == [st EXCEPT !.out = <<>>, !.fired = f, !.detached = t]
    <3>1. f \in Nat /\ t \in Nat
      BY <2>7 DEF LateTimerEnds, TypeOK, Processor
    <3> HIDE DEF f, t
    <3>2. p \in Processor
      BY <2>1, <3>1 DEF TypeOK, Processor
    <3> HIDE DEF p
    <3>3. [p EXCEPT !.set_ending = "none"] \in Processor
      BY <3>2 DEF Processor
    <3>4. SetEnds(p) \in Processor
      BY <3>3, EmitSetTypes DEF SetEnds
    <3> QED BY <2>7, <3>4 DEF LateTimerEnds, TypeOK, p, f, t
  <2>8. CASE Tick
    BY <2>1, <2>8 DEF Tick, TypeOK
  <2>9. CASE UNCHANGED vars
    BY <2>9 DEF vars, TypeOK
  <2> QED BY <2>2, <2>3, <2>4, <2>5, <2>6, <2>7, <2>8, <2>9 DEF Next
<1> QED BY <1>1, <1>2, PTL DEF Spec

-----------------------------------------------------------------------------
(* The invariant Inv.  It is not kept by every operator: recording a report *)
(* may silence a deck, and mark_player_stopped takes a deck off the live    *)
(* players before it tells the listeners.  The lemmas say what each         *)
(* operator needs and what it restores.                                     *)

\* q differs from p at most in its timer, its events and its live players.
SameDecks(p, q) ==
    /\ q.last_state = p.last_state
    /\ q.last_stopped_times = p.last_stopped_times
    /\ q.last_start_time = p.last_start_time

\* The state inside mark_player_stopped, before `stopped` is emitted for d.
MirrorsBut(p, d) ==
    /\ d \notin p.live_players
    /\ p.live_players = p.heard \ {d}
    /\ p.open \/ p.heard # {} => p.is_set_active

\* promote_player either changes nothing or announces one more live deck.
LEMMA PromoteEffect ==
    ASSUME NEW p \in Processor, NEW d \in Devices, NEW s \in States,
           NEW q, q = Promote(p, d, s), q # p
    PROVE  /\ SameDecks(p, q)
           /\ q.live_players = p.live_players \cup {d}
           /\ q.heard = p.heard \cup {d}
           /\ q.is_set_active
BY DEF Promote, EmitNowPlaying, CancelSetEnding, EmitSet, SameDecks, Processor

\* promote_player keeps the invariant.
LEMMA PromoteInv ==
    ASSUME NEW p \in Processor, NEW d \in Devices, NEW s \in States,
           NEW q, q = Promote(p, d, s)
    PROVE  /\ SameDecks(p, q)
           /\ Mirrors(p) => Mirrors(q)
           /\ Timed(p) => Timed(q)
           /\ \A e \in Devices \ {d} : MirrorsBut(p, e) => MirrorsBut(q, e)
<1>1. CASE q = p
  BY <1>1 DEF SameDecks
<1>2. CASE q # p
  <2>1. /\ SameDecks(p, q)
        /\ q.live_players = p.live_players \cup {d}
        /\ q.heard = p.heard \cup {d}
        /\ q.is_set_active
    BY <1>2, PromoteEffect
  <2>2. Timed(q)
    BY <2>1 DEF Timed, Busy
  <2>3. Mirrors(p) => Mirrors(q)
    BY <2>1 DEF Mirrors
  <2>4. \A e \in Devices \ {d} : MirrorsBut(p, e) => MirrorsBut(q, e)
    BY <2>1 DEF MirrorsBut
  <2> QED BY <2>1, <2>2, <2>3, <2>4
<1> QED BY <1>1, <1>2

\* set_may_stop leaves a busy deck or a running timer behind.
LEMMA SetMayStopInv ==
    ASSUME NEW p \in Processor, p.open => p.is_set_active,
           NEW q, q = SetMayStop(p)
    PROVE  /\ SameDecks(p, q)
           /\ Mirrors(p) => Mirrors(q)
           /\ Timed(q)
           /\ \A e \in Devices : MirrorsBut(p, e) => MirrorsBut(q, e)
<1>1. CASE q = p /\ ~p.is_set_active
  BY <1>1 DEF SameDecks, Timed
<1>2. CASE q = p /\ \E d \in Devices : Audible(p, d)
  BY <1>2 DEF SameDecks, Timed, Busy, Audible
<1>3. CASE q = [CancelSetEnding(p) EXCEPT !.set_ending = "sleeping"]
  <2>1. /\ SameDecks(p, q)
        /\ q.live_players = p.live_players
        /\ q.heard = p.heard
        /\ q.open = p.open
        /\ q.is_set_active = p.is_set_active
        /\ q.set_ending = "sleeping"
    BY <1>3 DEF CancelSetEnding, SameDecks, Processor
  <2> QED BY <2>1 DEF Mirrors, MirrorsBut, Timed, TimerPending
<1> QED BY <1>1, <1>2, <1>3 DEF SetMayStop

\* promote_next_player finds a playing deck or lets the set end: either way
\* the open set is timed, and only a candidate can have been announced.
LEMMA PromoteNextInv ==
    ASSUME NEW p \in Processor, NEW tie \in Devices,
           p.open => p.is_set_active, NEW q, q = PromoteNext(p, tie)
    PROVE  /\ SameDecks(p, q)
           /\ Mirrors(p) => Mirrors(q)
           /\ Timed(q)
           /\ \A e \in Devices : p.last_start_time[e] = None =>
                (MirrorsBut(p, e) => MirrorsBut(q, e))
<1> DEFINE d == IF tie \in Longest(p) THEN tie
                ELSE CHOOSE e \in Longest(p) : TRUE
<1>1. CASE Longest(p) = {}
  BY <1>1, SetMayStopInv DEF PromoteNext
<1>2. CASE Longest(p) # {}
  <2>1. d \in Longest(p)
    BY <1>2
  <2>2. q = Promote(p, d, p.last_state[d])
    BY <1>2 DEF PromoteNext
  <2> HIDE DEF d
  <2>3. /\ d \in Devices
        /\ p.last_start_time[d] # None
        /\ p.last_state[d] # None
        /\ IsPlaying(p.last_state[d])
    BY <2>1 DEF Longest, Candidates
  <2>4. p.last_state[d] \in States
    BY <2>3 DEF Processor
  <2>5. /\ SameDecks(p, q)
        /\ Mirrors(p) => Mirrors(q)
        /\ \A e \in Devices \ {d} : MirrorsBut(p, e) => MirrorsBut(q, e)
    BY <2>2, <2>3, <2>4, PromoteInv
  <2>6. Busy(q, d)
    BY <2>3, <2>5 DEF Busy, SameDecks
  <2> QED BY <2>3, <2>5, <2>6 DEF Timed
<1> QED BY <1>1, <1>2

\* mark_player_stopped restores the invariant, whoever was busy before it.
LEMMA MarkPlayerStoppedInv ==
    ASSUME NEW p \in Processor, NEW d \in Devices, NEW tie \in Devices,
           Mirrors(p)
    PROVE  Inv(MarkPlayerStopped(p, d, tie))
<1> DEFINE a == [p EXCEPT !.last_stopped_times[d] = None,
                          !.last_start_time[d] = None,
                          !.live_players = @ \ {d}]
           q == PromoteNext(a, tie)
           r == EmitStopped(q, d)
<1>1. /\ a \in Processor
      /\ a.last_start_time[d] = None
      /\ a.open => a.is_set_active
      /\ MirrorsBut(a, d)
  BY DEF Processor, Mirrors, MirrorsBut
<1> HIDE DEF a
<1>2. q \in Processor /\ Timed(q) /\ MirrorsBut(q, d)
  BY <1>1, PromoteNextInv, PromoteNextTypes
<1> HIDE DEF q
<1>3. /\ r.heard = q.heard \ {d}
      /\ r.last_state = q.last_state
      /\ r.last_stopped_times = q.last_stopped_times
      /\ r.live_players = q.live_players
      /\ r.open = q.open
      /\ r.is_set_active = q.is_set_active
      /\ r.set_ending = q.set_ending
      /\ r.fired = q.fired
      /\ r.detached = q.detached
  BY <1>2 DEF EmitStopped, Processor
<1>4. Mirrors(r)
  BY <1>2, <1>3 DEF Mirrors, MirrorsBut
<1>5. Timed(r)
  BY <1>2, <1>3 DEF Timed, Busy, TimerPending
<1> HIDE DEF r
<1> QED BY <1>4, <1>5 DEF Inv, MarkPlayerStopped, r, q, a

\* player_may_be_first and player_may_stop keep the invariant.
LEMMA PlayerInv ==
    ASSUME NEW p \in Processor, NEW d \in Devices, NEW s \in States,
           now \in Nat
    PROVE  /\ SameDecks(p, PlayerMayBeFirst(p, d, s))
           /\ Mirrors(p) => Mirrors(PlayerMayBeFirst(p, d, s))
           /\ Timed(p) => Timed(PlayerMayBeFirst(p, d, s))
           /\ Mirrors(p) => Inv(PlayerMayStop(p, d))
<1> DEFINE f == PlayerMayBeFirst(p, d, s)
<1>0. f = p \/ f = Promote(p, d, s)
  BY DEF PlayerMayBeFirst
<1> HIDE DEF f
<1>2. f = Promote(p, d, s) => /\ SameDecks(p, f)
                              /\ Mirrors(p) => Mirrors(f)
                              /\ Timed(p) => Timed(f)
  BY PromoteInv
<1>3. Mirrors(p) => Inv(PlayerMayStop(p, d))
  <2> DEFINE q == PlayerMayStop(p, d)
  <2>1. /\ q.last_stopped_times[d] = now
        /\ q.live_players = p.live_players
        /\ q.heard = p.heard
        /\ q.open = p.open
        /\ q.is_set_active = p.is_set_active
    BY DEF PlayerMayStop, Processor
  <2>2. now # None
    BY NoneIsNoValue
  <2> HIDE DEF q
  <2>3. Timed(q) /\ (Mirrors(p) => Mirrors(q))
    BY <2>1, <2>2 DEF Timed, Busy, Mirrors
  <2> QED BY <2>3 DEF Inv, q
<1> QED
  <2>1. /\ SameDecks(p, f)
        /\ Mirrors(p) => Mirrors(f)
        /\ Timed(p) => Timed(f)
    <3>1. f = p => SameDecks(p, f)
      BY DEF SameDecks
    <3> QED BY <1>0, <1>2, <3>1
  <2> QED BY <1>3, <2>1 DEF f

\* A deck that plays keeps the set timed, whatever else is recorded of it.
LEMMA PlayingIsTimed ==
    ASSUME NEW p, NEW d \in Devices, p.last_state[d] # None,
           IsPlaying(p.last_state[d])
    PROVE  Timed(p)
BY DEF Timed, Busy

\* handle_playstate_change restores the invariant after a report was
\* recorded: before it, deck d may count as busy by its previous report only.
LEMMA PlaystateChangeInv ==
    ASSUME NEW p \in Processor, NEW d \in Devices, NEW last \in States,
           NEW s \in States, NEW tie \in Devices, now \in Nat,
           p.last_state[d] = s, Mirrors(p), IsPlaying(last) \/ Timed(p)
    PROVE  Inv(PlaystateChange(p, d, last, s, tie))
<1> DEFINE r == PlaystateChange(p, d, last, s, tie)
<1>0. s # None
  BY NoneIsNoValue
<1>1. CASE p.last_stopped_times[d] # None /\ IsPlaying(s) /\ OnAir(p, s)
  <2>1. r = [p EXCEPT !.last_stopped_times[d] = None]
    BY <1>1 DEF PlaystateChange
  <2>2. r.last_state[d] = s /\ Mirrors(r)
    BY <2>1 DEF Processor, Mirrors
  <2> HIDE DEF r
  <2>3. Timed(r)
    BY <1>0, <1>1, <2>2, PlayingIsTimed
  <2> QED BY <2>2, <2>3 DEF Inv, r
<1>2. CASE /\ ~(p.last_stopped_times[d] # None /\ IsPlaying(s) /\ OnAir(p, s))
           /\ IsPlaying(s) /\ ~IsPlaying(last)
  <2> DEFINE q == IF p.config.mode = "FollowsMaster" /\ s.is_master
                  THEN Promote(p, d, s) ELSE p
             b == [q EXCEPT !.last_start_time[d] = now]
  <2>1. r = PlayerMayBeFirst(b, d, s)
    BY <1>2 DEF PlaystateChange
  <2>2. q \in Processor /\ Mirrors(q) /\ q.last_state = p.last_state
    BY PromoteTypes, PromoteInv DEF SameDecks
  <2> HIDE DEF q
  <2>3. b \in Processor /\ Mirrors(b) /\ b.last_state = p.last_state
    BY <2>2 DEF Processor, Mirrors
  <2> HIDE DEF b, r
  <2>4. Mirrors(r) /\ r.last_state = p.last_state
    BY <2>1, <2>3, PlayerInv DEF SameDecks
  <2>5. Timed(r)
    BY <1>0, <1>2, <2>4, PlayingIsTimed
  <2> QED BY <2>4, <2>5 DEF Inv, r
<1>3. CASE ~IsPlaying(s) /\ IsPlaying(last) /\ IsStopping(s)
  <2>1. r = MarkPlayerStopped(p, d, tie)
    BY <1>3 DEF PlaystateChange
  <2> QED BY <2>1, MarkPlayerStoppedInv
<1>4. CASE ~IsPlaying(s) /\ IsPlaying(last) /\ ~IsStopping(s)
  <2>1. r = PlayerMayStop(p, d)
    BY <1>4 DEF PlaystateChange
  <2> QED BY <2>1, PlayerInv
<1>5. CASE /\ ~(p.last_stopped_times[d] # None /\ IsPlaying(s) /\ OnAir(p, s))
           /\ IsPlaying(s) /\ IsPlaying(last)
  <2>1. r = p
    BY <1>5 DEF PlaystateChange, IsPlaying, IsStopping
  <2>2. Timed(p)
    BY <1>0, <1>5, PlayingIsTimed
  <2> HIDE DEF r
  <2> QED BY <2>1, <2>2 DEF Inv, r
<1>6. CASE ~IsPlaying(s) /\ ~IsPlaying(last)
  <2>1. r = p
    BY <1>6 DEF PlaystateChange
  <2> HIDE DEF r
  <2> QED BY <1>6, <2>1 DEF Inv, r
<1> QED BY <1>1, <1>2, <1>3, <1>4, <1>5, <1>6

\* handle_onair_change keeps the invariant: the grace period it ends is one
\* of a live deck.
LEMMA OnairChangeInv ==
    ASSUME NEW p \in Processor, NEW d \in Devices, NEW s \in States,
           now \in Nat, Inv(p)
    PROVE  Inv(OnairChange(p, d, s))
<1> DEFINE q == PlayerMayBeFirst(p, d, s)
<1>1. q \in Processor /\ Inv(q)
  BY PlayerTypes, PlayerInv DEF Inv
<1> HIDE DEF q
<1>2. Inv(PlayerMayStop(q, d))
  BY <1>1, PlayerInv DEF Inv
<1>3. ASSUME d \in q.live_players
      PROVE  Inv([q EXCEPT !.last_stopped_times[d] = None])
  <2> DEFINE r == [q EXCEPT !.last_stopped_times[d] = None]
  <2>1. /\ r.live_players = q.live_players
        /\ r.heard = q.heard
        /\ r.open = q.open
        /\ r.is_set_active = q.is_set_active
    BY <1>1 DEF Processor
  <2> HIDE DEF r
  <2>2. Mirrors(r) /\ Timed(r)
    BY <1>1, <1>3, <2>1 DEF Inv, Mirrors, Timed, Busy
  <2> QED BY <2>2 DEF Inv, r
<1> QED BY <1>1, <1>2, <1>3 DEF OnairChange, q

\* Recording a report and comparing it with the previous one.
LEMMA ComparedInv ==
    ASSUME TypeOK, Inv(st), NEW d \in Devices, NEW s \in States,
           NEW tie \in Devices
    PROVE  /\ Mirrors(Record(d, s))
           /\ Record(d, s).last_state[d] = s
           /\ Inv(Compared(d, s, tie))
<1> DEFINE last == st.last_state[d]
           a == Record(d, s)
           p == IF last # None /\ last.play_state # s.play_state
                THEN PlaystateChange(a, d, last, s, tie) ELSE a
<1>1. /\ a \in Processor
      /\ now \in Nat
      /\ last \in States \cup {None}
  BY ComparedTypes DEF TypeOK, Processor
<1>2. /\ a.last_state = [st.last_state EXCEPT ![d] = s]
      /\ a.last_state[d] = s
      /\ a.last_stopped_times = st.last_stopped_times
      /\ a.live_players = st.live_players
      /\ a.heard = st.heard
      /\ a.open = st.open
      /\ a.is_set_active = st.is_set_active
      /\ a.set_ending = st.set_ending
      /\ a.fired = st.fired
      /\ a.detached = st.detached
  BY DEF Record, TypeOK, Processor
<1> HIDE DEF a
<1>3. Mirrors(a)
  BY <1>2 DEF Inv, Mirrors
<1>4. \A e \in Devices \ {d} : Busy(st, e) => Busy(a, e)
  BY <1>2 DEF Busy, TypeOK, Processor
<1>5. (last # None /\ IsPlaying(last)) \/ Timed(a)
  <2>1. CASE ~st.open
    BY <2>1, <1>2 DEF Timed
  <2>2. CASE TimerPending(st)
    BY <2>2, <1>2 DEF Timed, TimerPending
  <2>3. ASSUME NEW e \in Devices, Busy(st, e)
        PROVE  (last # None /\ IsPlaying(last)) \/ Timed(a)
    <3>1. CASE e # d
      BY <2>3, <3>1, <1>4 DEF Timed
    <3>2. CASE e = d
      BY <2>3, <3>2, <1>2 DEF Timed, Busy
    <3> QED BY <3>1, <3>2
  <2> QED BY <2>1, <2>2, <2>3 DEF Inv, Timed
<1>6. p \in Processor /\ Inv(p)
  <2> HIDE DEF last
  <2>1. CASE last # None /\ last.play_state # s.play_state
    <3>1. last \in States
      BY <1>1, <2>1
    <3>2. Inv(PlaystateChange(a, d, last, s, tie))
      BY <1>1, <1>2, <1>3, <1>5, <2>1, <3>1, PlaystateChangeInv
    <3> QED BY <1>1, <2>1, <3>1, <3>2, PlaystateChangeTypes
  <2>2. CASE last = None
    BY <1>1, <1>3, <1>5, <2>2 DEF Inv
  <2>3. CASE last # None /\ last.play_state = s.play_state
    <3>1. IsPlaying(last) => IsPlaying(s)
      BY <2>3 DEF IsPlaying
    <3>2. s # None
      BY NoneIsNoValue
    <3>3. Timed(a)
      BY <1>2, <1>5, <3>1, <3>2, PlayingIsTimed
    <3> QED BY <1>1, <1>3, <2>3, <3>3 DEF Inv
  <2> QED BY <2>1, <2>2, <2>3
<1> HIDE DEF p
<1>7. Inv(OnairChange(p, d, s))
  BY <1>1, <1>6, OnairChangeInv
<1> QED BY <1>2, <1>3, <1>6, <1>7 DEF Compared, a, p, last

-----------------------------------------------------------------------------
\* Two states that agree on what the invariant reads.
LEMMA InvFrame ==
    ASSUME NEW p, NEW q, Inv(p), SameDecks(p, q),
           q.live_players = p.live_players, q.heard = p.heard,
           q.open = p.open, q.is_set_active = p.is_set_active,
           TimerPending(p) => TimerPending(q)
    PROVE  Inv(q)
BY DEF Inv, Mirrors, Timed, Busy, SameDecks

\* The timer task closes the set, so nothing is left to be timed.
LEMMA SetEndsInv ==
    ASSUME NEW p \in Processor, Mirrors(p)
    PROVE  Inv(SetEnds(p))
<1> DEFINE q == SetEnds(p)
<1>1. /\ q.live_players = p.live_players
      /\ q.heard = p.heard
      /\ q.is_set_active = p.is_set_active
      /\ ~q.open
  BY DEF SetEnds, EmitSet, Processor, Mirrors
<1> HIDE DEF q
<1>2. Mirrors(q) /\ Timed(q)
  BY <1>1 DEF Mirrors, Timed
<1> QED BY <1>2 DEF Inv, q

\* Every call, timer step and tick keeps the invariant.
LEMMA InvStep == TypeOK /\ Inv(st) /\ [Next]_vars => Inv(st)'
<1> SUFFICES ASSUME TypeOK, Inv(st), [Next]_vars PROVE Inv(st)'
  OBVIOUS
<1> DEFINE quiet == [st EXCEPT !.out = <<>>]
<1>1. /\ quiet \in Processor
      /\ SameDecks(st, quiet)
      /\ quiet.live_players = st.live_players
      /\ quiet.heard = st.heard
      /\ quiet.open = st.open
      /\ quiet.is_set_active = st.is_set_active
      /\ quiet.set_ending = st.set_ending
      /\ quiet.fired = st.fired
      /\ quiet.detached = st.detached
  <2>1. <<>> \in Seq(Events)
    OBVIOUS
  <2> QED BY <2>1 DEF TypeOK, Processor, SameDecks
<1>2. now \in Nat
  BY DEF TypeOK
<1>3. CASE HandleState
  <2>1. PICK d \in Devices, s \in Packets, tie \in Devices :
          \/ FirstHeardPlaying(d, s)
          \/ BecomesMaster(d, s, tie)
          \/ \E b \in BeatTimes \cup {NoTempo} : ReportState(d, s, b, tie)
    BY <1>3 DEF HandleState
  <2>2. s \in States
    BY PacketsTyped
  <2>3. /\ Record(d, s) \in Processor
        /\ Mirrors(Record(d, s))
        /\ Record(d, s).last_state[d] = s
        /\ Compared(d, s, tie) \in Processor
        /\ Inv(Compared(d, s, tie))
    BY <2>2, ComparedInv, ComparedTypes
  <2>4. CASE FirstHeardPlaying(d, s)
    <3> DEFINE r == [Record(d, s) EXCEPT !.last_start_time[d] = now]
    <3>1. r \in Processor
      BY <1>2, <2>2, <2>3, PlayerTypes
    <3>2. Mirrors(r) /\ r.last_state[d] = s
      BY <2>3 DEF Processor, Mirrors
    <3> HIDE DEF r
    <3>3. Timed(r)
      <4>1. s # None /\ IsPlaying(s)
        BY <2>2, <2>4, NoneIsNoValue DEF FirstHeardPlaying
      <4> QED BY <3>2, <4>1, PlayingIsTimed
    <3>4. Inv(PlayerMayBeFirst(r, d, s))
      BY <1>2, <2>2, <3>1, <3>2, <3>3, PlayerInv DEF Inv
    <3> QED BY <2>4, <3>4 DEF FirstHeardPlaying, r
  <2>5. CASE BecomesMaster(d, s, tie)
    <3>1. Inv(Promote(Compared(d, s, tie), d, s))
      BY <2>2, <2>3, PromoteInv DEF Inv
    <3> QED BY <2>5, <3>1 DEF BecomesMaster
  <2>6. ASSUME NEW b \in BeatTimes \cup {NoTempo}, ReportState(d, s, b, tie)
        PROVE  Inv(st)'
    <3> DEFINE r == PlayedLongEnough(Compared(d, s, tie), d, s, b)
    <3>1. r \in Processor /\ Inv(r)
      BY <2>2, <2>3, PromoteTypes, PromoteInv DEF PlayedLongEnough, Inv
    <3> HIDE DEF r
    <3>2. Inv(StoppedLongEnough(r, d, b, tie))
      BY <3>1, MarkPlayerStoppedInv DEF StoppedLongEnough, Inv
    <3> QED BY <2>6, <3>2 DEF ReportState, r
  <2> QED BY <2>1, <2>4, <2>5, <2>6
<1>4. CASE TriggerNextTrack
  <2>1. PICK tie \in Devices : st' = PromoteNext(quiet, tie)
    BY <1>4 DEF TriggerNextTrack
  <2>2. Mirrors(quiet)
    BY <1>1 DEF Inv, Mirrors
  <2> HIDE DEF quiet
  <2>3. Inv(PromoteNext(quiet, tie))
    BY <1>1, <2>2, PromoteNextInv DEF Inv, Mirrors
  <2> QED BY <2>1, <2>3
<1>5. CASE Configure
  <2>1. PICK c \in Configs : st' = [quiet EXCEPT !.config = c]
    BY <1>5 DEF Configure
  <2>2. /\ SameDecks(st, st')
        /\ st'.live_players = st.live_players
        /\ st'.heard = st.heard
        /\ st'.open = st.open
        /\ st'.is_set_active = st.is_set_active
        /\ TimerPending(st) => TimerPending(st')
    BY <1>1, <2>1 DEF Processor, SameDecks, TimerPending
  <2> QED BY <2>2, InvFrame
<1>6. CASE TimerWakes
  <2>1. /\ SameDecks(st, st')
        /\ st'.live_players = st.live_players
        /\ st'.heard = st.heard
        /\ st'.open = st.open
        /\ st'.is_set_active = st.is_set_active
    BY <1>6 DEF TimerWakes, TypeOK, Processor, SameDecks
  <2>2. TimerPending(st')
    <3>1. CASE st' = [st EXCEPT !.set_ending = "fired", !.out = <<>>]
      BY <3>1 DEF TypeOK, Processor, TimerPending
    <3>2. CASE st' = [st EXCEPT !.detached = @ - 1, !.fired = @ + 1,
                                !.out = <<>>]
      BY <3>2 DEF TypeOK, Processor, TimerPending
    <3> QED BY <1>6, <3>1, <3>2 DEF TimerWakes
  <2> QED BY <2>1, <2>2, InvFrame
<1>7. CASE TimerEnds
  <2>1. Mirrors(quiet)
    BY <1>1 DEF Inv, Mirrors
  <2>2. Inv(SetEnds(quiet))
    BY <1>1, <2>1, SetEndsInv
  <2> QED BY <1>7, <2>2 DEF TimerEnds
<1>8. CASE LateTimerEnds
  <2> DEFINE f == IF st.set_ending = "fired" THEN st.fired ELSE st.fired - 1
             t == IF st.set_ending = "sleeping" THEN st.detached + 1
                  ELSE st.detached
             p == [st EXCEPT !.out = <<>>, !.fired = f, !.detached = t]
  <2>1. f \in Nat /\ t \in Nat
    BY <1>8 DEF LateTimerEnds, TypeOK, Processor
  <2>2. st' = SetEnds(p)
    BY <1>8 DEF LateTimerEnds
  <2> HIDE DEF f, t
  <2>3. /\ p \in Processor
        /\ p.live_players = st.live_players
        /\ p.heard = st.heard
        /\ p.open = st.open
        /\ p.is_set_active = st.is_set_active
    BY <1>1, <2>1 DEF TypeOK, Processor
  <2> HIDE DEF p
  <2>4. Mirrors(p)
    BY <2>3 DEF Inv, Mirrors
  <2> QED BY <2>2, <2>3, <2>4, SetEndsInv
<1>9. CASE Tick
  <2>1. st' = quiet
    BY <1>9 DEF Tick
  <2> QED BY <1>1, <2>1, InvFrame DEF TimerPending
<1>10. CASE UNCHANGED vars
  BY <1>10 DEF vars
<1> QED BY <1>3, <1>4, <1>5, <1>6, <1>7, <1>8, <1>9, <1>10 DEF Next

\* Initially nothing is live and no set is open.
LEMMA InvInit == Init => Inv(st)
BY DEF Init, Inv, Mirrors, Timed

\* In every reachable state the live players are the decks listeners were
\* told about and not told to have stopped.
THEOREM LiveMirrorsEventsHolds == Spec => []LiveMirrorsEvents
<1>1. Inv(st) => LiveMirrorsEvents
  BY DEF Inv, LiveMirrorsEvents
<1> QED BY <1>1, InvInit, InvStep, TypeCorrect, PTL DEF Spec

\* In every reachable state an announced set that has not been ended has a
\* busy deck or a pending timer.
THEOREM SilenceIsTimedHolds == Spec => []SilenceIsTimed
<1>1. Inv(st) => SilenceIsTimed
  BY DEF Inv, SilenceIsTimed
<1> QED BY <1>1, InvInit, InvStep, TypeCorrect, PTL DEF Spec

-----------------------------------------------------------------------------
(* Handovers.  While a report is handled the last states stay as recorded,  *)
(* and only its own deck is announced unless a stop is reported, too.       *)

Tells(p, d) ==
    \E i \in DOMAIN p.out : p.out[i].type = "now_playing" /\ p.out[i].device = d
Stops(p) == \E i \in DOMAIN p.out : p.out[i].type = "stopped"

\* The reasons to announce a deck over another that do not depend on its start,
\* and the one that does.
MayInterrupt(p, d) ==
    \/ \A e \in Devices \ {d} : ~Audible(p, e)
    \/ p.config.mode = "FollowsMaster" /\ p.last_state[d].is_master
PlayedItsBeats(p, d) ==
    /\ p.config.mode = "SmartTiming"
    /\ \E b \in BeatTimes :
         Elapsed(p.config.beats_until_reported, b, p.last_start_time[d])
Reason(p, d) == MayInterrupt(p, d) \/ PlayedItsBeats(p, d)

\* What was announced while a report of deck d is handled, was for a reason.
Reasoned(p, d) == Stops(p) \/ \A e \in Devices : Tells(p, e) => e = d /\ Reason(p, d)

SameReports(p, q) == q.last_state = p.last_state /\ q.config = p.config

\* Events are only added.
LEMMA AppendTells ==
    ASSUME NEW p, NEW q, NEW e \in Events, p.out \in Seq(Events), q.out = Append(p.out, e)
    PROVE  /\ Stops(q) <=> Stops(p) \/ e.type = "stopped"
           /\ \A d : Tells(q, d) <=> Tells(p, d) \/ (e.type = "now_playing" /\ e.device = d)
<1>1. PICK n \in Nat : n = Len(p.out)
  OBVIOUS
<1>2. /\ DOMAIN p.out = 1 .. n /\ DOMAIN q.out = 1 .. n + 1 /\ q.out[n + 1] = e
      /\ \A i \in 1 .. n : q.out[i] = p.out[i]
  BY <1>1
<1>3. \A i : i \in 1 .. n + 1 <=> i \in 1 .. n \/ i = n + 1
  BY <1>1
<1> QED BY <1>2, <1>3 DEF Stops, Tells

\* promote_player announces its deck or nothing.
LEMMA PromoteTells ==
    ASSUME NEW p \in Processor, NEW d \in Devices, NEW s \in States,
           NEW q, q = Promote(p, d, s)
    PROVE  /\ SameReports(p, q) /\ q.last_start_time = p.last_start_time
           /\ Stops(p) => Stops(q)
           /\ \A e : Tells(q, e) => Tells(p, e) \/ e = d
<1> DEFINE active == [p EXCEPT !.is_set_active = TRUE]
           running == IF p.is_set_active THEN p ELSE EmitSet(active, "set_started")
           marked == [CancelSetEnding(running) EXCEPT
                        !.live_players = @ \cup {d},
                        !.last_emitted_track_id[d] = s.track_id]
           set == [type |-> "set_started"]
           playing == [type |-> "now_playing", device |-> d, track |-> s.track_id]
<1>1. q = p \/ q = EmitNowPlaying(marked, d, s.track_id)
  BY DEF Promote
<1>2. CASE q = p
  BY <1>2 DEF SameReports
<1>3. CASE q = EmitNowPlaying(marked, d, s.track_id)
  <2>1. active \in Processor /\ active.out = p.out /\ SameReports(p, active)
        /\ active.last_start_time = p.last_start_time
    BY DEF Processor, SameReports
  <2> HIDE DEF active
  <2>2. set \in Events /\ set.type = "set_started" /\ playing \in Events
        /\ playing.type = "now_playing" /\ playing.device = d
    BY DEF Events, States
  <2> HIDE DEF playing
  <2>3. /\ running \in Processor /\ SameReports(p, running)
        /\ running.last_start_time = p.last_start_time
        /\ running.out = p.out \/ running.out = Append(p.out, set)
    <3>1. EmitSet(active, "set_started") \in Processor
      BY <2>1, EmitSetTypes
    <3> QED BY <2>1, <3>1 DEF EmitSet, Processor, SameReports
  <2>4. (Stops(p) => Stops(running)) /\ \A e : Tells(running, e) => Tells(p, e)
    <3>1. CASE running.out = p.out
      BY <3>1 DEF Stops, Tells
    <3>2. CASE running.out = Append(p.out, set)
      <4>1. p.out \in Seq(Events)
        BY DEF Processor
      <4> HIDE DEF set, running
      <4> QED BY <2>2, <3>2, <4>1, AppendTells
    <3> QED BY <2>3, <3>1, <3>2
  <2> HIDE DEF running, set
  <2>5. /\ marked.out = running.out /\ SameReports(p, marked)
        /\ marked.last_start_time = p.last_start_time /\ marked \in Processor
    <3>1. CancelSetEnding(running) \in Processor /\ s.track_id \in Tracks
      BY <2>3, CancelTypes DEF States
    <3>2. /\ CancelSetEnding(running).out = running.out
          /\ SameReports(running, CancelSetEnding(running))
          /\ CancelSetEnding(running).last_start_time = running.last_start_time
      BY <2>3 DEF CancelSetEnding, Processor, SameReports
    <3> QED BY <2>3, <3>1, <3>2 DEF Processor, SameReports
  <2> HIDE DEF marked
  <2>6. /\ q.out = Append(marked.out, playing) /\ SameReports(marked, q)
        /\ q.last_start_time = marked.last_start_time
    BY <1>3, <2>5 DEF EmitNowPlaying, Processor, SameReports, playing
  <2>7. marked.out \in Seq(Events)
    BY <2>5 DEF Processor
  <2>8. (Stops(running) => Stops(marked)) /\ \A e : Tells(marked, e) => Tells(running, e)
    BY <2>5 DEF Stops, Tells
  <2>9. (Stops(marked) => Stops(q)) /\ \A e : Tells(q, e) => Tells(marked, e) \/ e = d
    BY <2>2, <2>6, <2>7, AppendTells
  <2> QED BY <2>4, <2>5, <2>6, <2>8, <2>9 DEF SameReports
<1> QED BY <1>1, <1>2, <1>3

\* So it may be called wherever there is a reason.
LEMMA PromoteReasoned ==
    ASSUME NEW p \in Processor, NEW d \in Devices, NEW s \in States,
           Reasoned(p, d), Reason(p, d)
    PROVE  Reasoned(Promote(p, d, s), d)
<1> DEFINE q == Promote(p, d, s)
<1>1. /\ SameReports(p, q) /\ q.last_start_time = p.last_start_time
      /\ Stops(p) => Stops(q)
      /\ \A e : Tells(q, e) => Tells(p, e) \/ e = d
  BY PromoteTells
<1> HIDE DEF q
<1>2. Reason(q, d)
  BY <1>1 DEF SameReports, Reason, MayInterrupt, PlayedItsBeats, Audible, OnAir
<1> QED BY <1>1, <1>2 DEF Reasoned, q

\* mark_player_stopped hands over, but reports the stop.
LEMMA MarkPlayerStoppedReasoned ==
    ASSUME NEW p \in Processor, NEW d \in Devices, NEW tie \in Devices
    PROVE  Reasoned(MarkPlayerStopped(p, d, tie), d)
<1> DEFINE a == [p EXCEPT !.last_stopped_times[d] = None, !.last_start_time[d] = None,
                          !.live_players = @ \ {d}]
           q == PromoteNext(a, tie)
           e == [type |-> "stopped", device |-> d]
<1>1. a \in Processor
  BY DEF Processor
<1> HIDE DEF a
<1>2. q \in Processor
  BY <1>1, PromoteNextTypes
<1> HIDE DEF q
<1>3. q.out \in Seq(Events) /\ e \in Events /\ e.type = "stopped"
  BY <1>2 DEF Processor, Events
<1>4. EmitStopped(q, d).out = Append(q.out, e)
  BY <1>2 DEF EmitStopped, Processor
<1> HIDE DEF e
<1>5. Stops(EmitStopped(q, d))
  BY <1>3, <1>4, AppendTells
<1> QED BY <1>5 DEF MarkPlayerStopped, Reasoned, a, q

\* player_may_be_first announces over nobody.
LEMMA PlayerMayBeFirstReasoned ==
    ASSUME NEW p \in Processor, NEW d \in Devices, NEW s \in States, Reasoned(p, d)
    PROVE  Reasoned(PlayerMayBeFirst(p, d, s), d)
<1>1. CASE \E e \in Devices \ {d} : Audible(p, e)
  BY <1>1 DEF PlayerMayBeFirst
<1>2. CASE ~\E e \in Devices \ {d} : Audible(p, e)
  BY <1>2, PromoteReasoned DEF PlayerMayBeFirst, Reason, MayInterrupt
<1> QED BY <1>1, <1>2

\* Grace periods are no reason for anything.
LEMMA GraceReasoned ==
    ASSUME NEW p \in Processor, NEW d \in Devices, NEW e \in Devices, NEW time \in Nat \cup {None},
           Reasoned(p, d)
    PROVE  Reasoned([p EXCEPT !.last_stopped_times[e] = time], d)
<1> DEFINE q == [p EXCEPT !.last_stopped_times[e] = time]
<1>1. /\ q.out = p.out /\ SameReports(p, q) /\ q.last_start_time = p.last_start_time
  BY DEF Processor, SameReports
<1> HIDE DEF q
<1>2. Reason(p, d) => Reason(q, d)
  BY <1>1 DEF SameReports, Reason, MayInterrupt, PlayedItsBeats, Audible, OnAir
<1> QED BY <1>1, <1>2 DEF Reasoned, Stops, Tells, q

\* A deck that begins to play as the master is announced before its start is noted.
LEMMA PlaystateChangeReasoned ==
    ASSUME NEW p \in Processor, NEW d \in Devices, NEW last \in States, NEW s \in States,
           NEW tie \in Devices, now \in Nat, p.last_state[d] = s,
           \A e : ~Tells(p, e)
    PROVE  Reasoned(PlaystateChange(p, d, last, s, tie), d)
<1> DEFINE q == IF p.config.mode = "FollowsMaster" /\ s.is_master
                THEN Promote(p, d, s) ELSE p
           begun == [q EXCEPT !.last_start_time[d] = now]
<1>1. Reasoned(p, d)
  BY DEF Reasoned
<1>2. q \in Processor /\ Reasoned(q, d) /\ (\/ \A e : ~Tells(q, e)
                                            \/ MayInterrupt(q, d))
  <2>1. CASE p.config.mode = "FollowsMaster" /\ s.is_master
    <3>1. MayInterrupt(p, d)
      BY <2>1 DEF MayInterrupt
    <3>2. Reasoned(q, d) /\ q \in Processor
      BY <1>1, <2>1, <3>1, PromoteReasoned, PromoteTypes DEF Reason
    <3>3. SameReports(p, q)
      BY <2>1, PromoteTells
    <3>4. MayInterrupt(q, d)
      BY <2>1, <3>3 DEF MayInterrupt, SameReports
    <3> QED BY <3>2, <3>4
  <2>2. CASE ~(p.config.mode = "FollowsMaster" /\ s.is_master)
    BY <1>1, <2>2
  <2> QED BY <2>1, <2>2
<1> HIDE DEF q
<1>3. /\ begun \in Processor /\ begun.out = q.out /\ SameReports(q, begun)
  BY <1>2 DEF Processor, SameReports
<1> HIDE DEF begun
<1>4. Reasoned(begun, d)
  <2>1. Stops(q) => Stops(begun)
    BY <1>3 DEF Stops
  <2>2. \A e : Tells(begun, e) => Tells(q, e)
    BY <1>3 DEF Tells
  <2>3. MayInterrupt(q, d) => MayInterrupt(begun, d)
    BY <1>3 DEF MayInterrupt, SameReports, Audible, OnAir
  <2> QED BY <1>2, <2>1, <2>2, <2>3 DEF Reasoned, Reason
<1>5. Reasoned(PlayerMayBeFirst(begun, d, s), d)
  BY <1>3, <1>4, PlayerMayBeFirstReasoned
<1>6. Reasoned(MarkPlayerStopped(p, d, tie), d)
  BY MarkPlayerStoppedReasoned
<1>7. /\ Reasoned([p EXCEPT !.last_stopped_times[d] = None], d)
      /\ Reasoned(PlayerMayStop(p, d), d)
  BY <1>1, GraceReasoned DEF PlayerMayStop
<1> QED BY <1>1, <1>5, <1>6, <1>7 DEF PlaystateChange, q, begun

\* handle_onair_change announces what player_may_be_first does.
LEMMA OnairChangeReasoned ==
    ASSUME NEW p \in Processor, NEW d \in Devices, NEW s \in States, now \in Nat,
           Reasoned(p, d)
    PROVE  Reasoned(OnairChange(p, d, s), d)
<1> DEFINE q == PlayerMayBeFirst(p, d, s)
<1>1. q \in Processor /\ Reasoned(q, d)
  BY PlayerTypes, PlayerMayBeFirstReasoned
<1> HIDE DEF q
<1>2. /\ Reasoned([q EXCEPT !.last_stopped_times[d] = None], d)
      /\ Reasoned(PlayerMayStop(q, d), d)
  BY <1>1, GraceReasoned DEF PlayerMayStop
<1> QED BY <1>1, <1>2 DEF OnairChange, q

\* Nothing that follows a report changes what is known of the decks.
LEMMA MarkPlayerStoppedReports ==
    ASSUME NEW p \in Processor, NEW d \in Devices, NEW tie \in Devices
    PROVE  SameReports(p, MarkPlayerStopped(p, d, tie))
<1> DEFINE a == [p EXCEPT !.last_stopped_times[d] = None, !.last_start_time[d] = None,
                          !.live_players = @ \ {d}]
           q == PromoteNext(a, tie)
<1>1. a \in Processor /\ SameReports(p, a)
  BY DEF Processor, SameReports
<1> HIDE DEF a
<1>2. q \in Processor
  BY <1>1, PromoteNextTypes
<1>3. SameReports(a, q)
  <2> DEFINE e == IF tie \in Longest(a) THEN tie ELSE CHOOSE f \in Longest(a) : TRUE
  <2>1. CASE Longest(a) = {}
    <3>1. q = a \/ q = [CancelSetEnding(a) EXCEPT !.set_ending = "sleeping"]
      BY <2>1 DEF PromoteNext, SetMayStop
    <3> QED BY <1>1, <3>1 DEF CancelSetEnding, Processor, SameReports
  <2>2. CASE Longest(a) # {}
    <3>1. e \in Longest(a) /\ q = Promote(a, e, a.last_state[e])
      BY <2>2 DEF PromoteNext
    <3> HIDE DEF e, q
    <3>2. e \in Devices /\ a.last_state[e] \in States
      BY <1>1, <3>1 DEF Longest, Candidates, Processor
    <3> QED BY <1>1, <3>1, <3>2, PromoteTells
  <2> QED BY <2>1, <2>2
<1> HIDE DEF q
<1>4. SameReports(q, EmitStopped(q, d))
  BY <1>2 DEF EmitStopped, Processor, SameReports
<1> QED BY <1>1, <1>3, <1>4 DEF MarkPlayerStopped, SameReports, a, q

\* The same for the other functions a report goes through.
LEMMA PlayerReports ==
    ASSUME NEW p \in Processor, NEW d \in Devices, NEW s \in States, now \in Nat
    PROVE  /\ SameReports(p, p)
           /\ SameReports(p, PlayerMayBeFirst(p, d, s))
           /\ SameReports(p, PlayerMayStop(p, d))
           /\ SameReports(p, [p EXCEPT !.last_stopped_times[d] = None])
           /\ SameReports(p, [p EXCEPT !.last_start_time[d] = now])
           /\ SameReports(p, OnairChange(p, d, s))
<1> DEFINE q == PlayerMayBeFirst(p, d, s)
<1>1. q \in Processor
  BY PlayerTypes
<1>2. SameReports(p, q)
  BY PromoteTells DEF PlayerMayBeFirst, SameReports
<1>3. /\ SameReports(p, p)
      /\ SameReports(p, PlayerMayStop(p, d))
      /\ SameReports(p, [p EXCEPT !.last_stopped_times[d] = None])
      /\ SameReports(p, [p EXCEPT !.last_start_time[d] = now])
  BY DEF PlayerMayStop, Processor, SameReports
<1> HIDE DEF q
<1>4. /\ SameReports(q, PlayerMayStop(q, d))
      /\ SameReports(q, [q EXCEPT !.last_stopped_times[d] = None])
  BY <1>1 DEF PlayerMayStop, Processor, SameReports
<1>5. SameReports(p, OnairChange(p, d, s))
  BY <1>2, <1>4 DEF OnairChange, SameReports, q
<1> QED BY <1>2, <1>3, <1>5 DEF q

\* The same for handle_playstate_change.
LEMMA PlaystateReports ==
    ASSUME NEW p \in Processor, NEW d \in Devices, NEW last \in States, NEW s \in States,
           NEW tie \in Devices, now \in Nat
    PROVE  SameReports(p, PlaystateChange(p, d, last, s, tie))
<1> DEFINE q == IF p.config.mode = "FollowsMaster" /\ s.is_master
                THEN Promote(p, d, s) ELSE p
           begun == [q EXCEPT !.last_start_time[d] = now]
<1>1. q \in Processor /\ SameReports(p, q)
  BY PromoteTypes, PromoteTells DEF SameReports
<1> HIDE DEF q
<1>2. begun \in Processor /\ SameReports(q, begun)
  BY <1>1, PlayerTypes, PlayerReports
<1> HIDE DEF begun
<1>3. SameReports(begun, PlayerMayBeFirst(begun, d, s))
  BY <1>2, PlayerReports
<1>4. SameReports(p, PlayerMayBeFirst(begun, d, s))
  BY <1>1, <1>2, <1>3 DEF SameReports
<1> QED BY <1>4, PlayerReports, MarkPlayerStoppedReports DEF PlaystateChange, begun, q

\* A report is recorded, and what its comparison announces has a reason.
LEMMA ComparedReasoned ==
    ASSUME TypeOK, NEW d \in Devices, NEW s \in States, NEW tie \in Devices
    PROVE  /\ SameReports(Record(d, s), Compared(d, s, tie))
           /\ Reasoned(Compared(d, s, tie), d)
<1> DEFINE r == Record(d, s)
           last == st.last_state[d]
           p == IF last # None /\ last.play_state # s.play_state
                THEN PlaystateChange(r, d, last, s, tie)
                ELSE r
<1>1. r \in Processor /\ r.last_state[d] = s /\ r.out = <<>>
  <2>1. r \in Processor
    BY ComparedTypes
  <2> QED BY <2>1 DEF Record, TypeOK, Processor
<1>2. last \in States \cup {None} /\ now \in Nat
  BY DEF TypeOK, Processor
<1>3. \A e : ~Tells(r, e)
  <2>1. DOMAIN r.out = {}
    BY <1>1
  <2> QED BY <2>1 DEF Tells
<1>4. Reasoned(r, d) /\ SameReports(r, r)
  BY <1>3 DEF Reasoned, SameReports
<1> HIDE DEF r, last
<1>5. p \in Processor /\ SameReports(r, p) /\ Reasoned(p, d)
  BY <1>1, <1>2, <1>3, <1>4, PlaystateChangeTypes, PlaystateReports, PlaystateChangeReasoned
<1> HIDE DEF p
<1>6. SameReports(r, OnairChange(p, d, s)) /\ Reasoned(OnairChange(p, d, s), d)
  BY <1>2, <1>5, PlayerReports, OnairChangeReasoned DEF SameReports
<1>7. Compared(d, s, tie) = p \/ Compared(d, s, tie) = OnairChange(p, d, s)
  BY DEF Compared, p, r, last
<1> QED BY <1>5, <1>6, <1>7 DEF r

\* Every way through handle_state.
LEMMA HandleStateReasoned ==
    ASSUME TypeOK, HandleState
    PROVE  st'.config = st.config /\ \E d \in Devices : Reasoned(st', d)
<1>1. PICK d \in Devices, s \in Packets, tie \in Devices :
        \/ FirstHeardPlaying(d, s)
        \/ BecomesMaster(d, s, tie)
        \/ \E b \in BeatTimes \cup {NoTempo} : ReportState(d, s, b, tie)
  BY DEF HandleState
<1> DEFINE r == Record(d, s)
           c == Compared(d, s, tie)
<1>2. /\ s \in States /\ now \in Nat
      /\ r \in Processor /\ c \in Processor
      /\ SameReports(r, c) /\ Reasoned(c, d)
  BY PacketsTyped, ComparedTypes, ComparedReasoned DEF TypeOK
<1>3. r.config = st.config /\ r.last_state[d] = s /\ r.out = <<>>
  BY DEF Record, TypeOK, Processor
<1> HIDE DEF r
<1>4. CASE FirstHeardPlaying(d, s)
  <2> DEFINE p == [r EXCEPT !.last_start_time[d] = now]
  <2>1. p \in Processor /\ SameReports(r, p) /\ p.out = <<>>
    BY <1>2, <1>3, PlayerTypes, PlayerReports DEF Processor
  <2> HIDE DEF p
  <2>2. Reasoned(p, d)
    <3>1. DOMAIN p.out = {}
      BY <2>1
    <3> QED BY <3>1 DEF Reasoned, Tells
  <2>3. /\ Reasoned(PlayerMayBeFirst(p, d, s), d)
        /\ SameReports(p, PlayerMayBeFirst(p, d, s))
    BY <1>2, <2>1, <2>2, PlayerMayBeFirstReasoned, PlayerReports
  <2> QED BY <1>3, <1>4, <2>1, <2>3 DEF FirstHeardPlaying, SameReports, p, r
<1> HIDE DEF c
<1>5. CASE BecomesMaster(d, s, tie)
  <2>1. c.config.mode = "FollowsMaster" /\ c.last_state[d].is_master
    BY <1>2, <1>3, <1>5 DEF BecomesMaster, TakesMaster, SameReports
  <2>2. Reason(c, d)
    BY <2>1 DEF Reason, MayInterrupt
  <2>3. Reasoned(Promote(c, d, s), d) /\ SameReports(c, Promote(c, d, s))
    BY <1>2, <2>2, PromoteReasoned, PromoteTells
  <2> QED BY <1>2, <1>3, <1>5, <2>3 DEF BecomesMaster, SameReports, c
<1>6. ASSUME NEW b \in BeatTimes \cup {NoTempo}, ReportState(d, s, b, tie)
      PROVE  st'.config = st.config /\ Reasoned(st', d)
  <2> DEFINE p == PlayedLongEnough(c, d, s, b)
  <2>1. p \in Processor /\ SameReports(c, p) /\ Reasoned(p, d)
    <3>1. CASE p = c
      BY <1>2, <3>1 DEF SameReports
    <3>2. CASE p # c
      <4>1. /\ p = Promote(c, d, s)
            /\ c.config.mode = "SmartTiming"
            /\ Elapsed(c.config.beats_until_reported, b, c.last_start_time[d])
        BY <3>2 DEF PlayedLongEnough
      <4>2. b \in BeatTimes
        BY <4>1 DEF Elapsed
      <4>3. Reason(c, d)
        BY <4>1, <4>2 DEF Reason, PlayedItsBeats
      <4> HIDE DEF p
      <4> QED BY <1>2, <4>1, <4>3, PromoteReasoned, PromoteTells, PromoteTypes
    <3> QED BY <3>1, <3>2
  <2> HIDE DEF p
  <2>2. /\ Reasoned(StoppedLongEnough(p, d, b, tie), d)
        /\ SameReports(p, StoppedLongEnough(p, d, b, tie))
    BY <2>1, MarkPlayerStoppedReasoned, MarkPlayerStoppedReports
       DEF StoppedLongEnough, SameReports
  <2> QED BY <1>2, <1>3, <1>6, <2>1, <2>2 DEF ReportState, SameReports, c, p
<1> QED BY <1>1, <1>4, <1>5, <1>6

\* Whatever happens, a deck is announced over one that plays on air only for a reason
\* its mode names, unless the user triggers the next track.
THEOREM NoPrematureHandoverHolds == Spec => NoPrematureHandover
<1> DEFINE Handover ==
      \A d \in Devices :
         /\ EmittedFor("now_playing", d)
         /\ ~TriggerNextTrack
         /\ \E e \in Devices \ {d} : Audible(st', e)
         => \/ Emitted("stopped")
            \/ st.config.mode = "FollowsMaster" /\ st'.last_state[d].is_master
            \/ /\ st.config.mode = "SmartTiming"
               /\ \E b \in BeatTimes : Elapsed(st.config.beats_until_reported,
                                               b, st'.last_start_time[d])
<1>1. TypeOK /\ [Next]_vars => [Handover]_vars
  <2> SUFFICES ASSUME TypeOK, Next, ~TriggerNextTrack PROVE Handover
    BY DEF TriggerNextTrack
  <2>1. CASE HandleState
    <3>1. PICK d \in Devices : Reasoned(st', d) /\ st'.config = st.config
      BY <2>1, HandleStateReasoned
    <3>2. \A e : EmittedFor("now_playing", e) <=> Tells(st', e)
      BY DEF EmittedFor, Tells
    <3>3. Stops(st') => Emitted("stopped")
      BY DEF Emitted, Stops
    <3> SUFFICES ASSUME NEW e \in Devices, Tells(st', e), ~Stops(st'),
                        \E f \in Devices \ {e} : Audible(st', f)
                 PROVE  \/ st.config.mode = "FollowsMaster" /\ st'.last_state[e].is_master
                        \/ /\ st.config.mode = "SmartTiming"
                           /\ \E b \in BeatTimes :
                                Elapsed(st.config.beats_until_reported,
                                        b, st'.last_start_time[e])
      BY <3>2, <3>3
    <3>4. Reason(st', e)
      BY <3>1 DEF Reasoned
    <3> QED BY <3>1, <3>4 DEF Reason, MayInterrupt, PlayedItsBeats
  <2>2. ASSUME ~HandleState PROVE \A d : ~EmittedFor("now_playing", d)
    <3>1. CASE st'.out = <<>>
      BY <3>1 DEF EmittedFor
    <3>2. ASSUME NEW p, p.out = <<>>, p \in Processor, st' = SetEnds(p)
          PROVE  \A d : ~EmittedFor("now_playing", d)
      <4> DEFINE n == [p EXCEPT !.set_ending = "none"]
                 e == [type |-> "set_ended"]
      <4>1. n \in Processor /\ n.out = <<>> /\ e \in Events /\ e.type = "set_ended"
        BY <3>2 DEF Processor, Events
      <4> HIDE DEF n, e
      <4>2. \A d : ~Tells(n, d)
        <5>1. DOMAIN n.out = {}
          BY <4>1
        <5> QED BY <5>1 DEF Tells
      <4>3. st' = n \/ st'.out = Append(n.out, e)
        BY <3>2, <4>1 DEF SetEnds, EmitSet, Processor, n, e
      <4>4. \A d : ~Tells(st', d)
        <5>1. n.out \in Seq(Events)
          BY <4>1 DEF Processor
        <5> QED BY <4>1, <4>2, <4>3, <5>1, AppendTells
      <4> QED BY <4>4 DEF EmittedFor, Tells
    <3>3. CASE Configure \/ Tick \/ TimerWakes
      BY <3>1, <3>3 DEF Configure, Tick, TimerWakes, TypeOK, Processor
    <3> DEFINE quiet == [st EXCEPT !.out = <<>>]
    <3>4. quiet \in Processor /\ quiet.out = <<>>
      <4>1. <<>> \in Seq(Events)
        OBVIOUS
      <4> QED BY <4>1 DEF TypeOK, Processor
    <3>5. CASE TimerEnds
      BY <3>2, <3>4, <3>5 DEF TimerEnds
    <3>6. CASE LateTimerEnds
      <4> DEFINE f == IF st.set_ending = "fired" THEN st.fired ELSE st.fired - 1
                 t == IF st.set_ending = "sleeping" THEN st.detached + 1 ELSE st.detached
                 p == [st EXCEPT !.out = <<>>, !.fired = f, !.detached = t]
      <4>1. f \in Nat /\ t \in Nat
        BY <3>6 DEF LateTimerEnds, TypeOK, Processor
      <4>2. st' = SetEnds(p)
        BY <3>6 DEF LateTimerEnds
      <4> HIDE DEF f, t
      <4>3. p \in Processor /\ p.out = <<>>
        BY <3>4, <4>1 DEF TypeOK, Processor
      <4> QED BY <3>2, <4>2, <4>3
    <3> QED BY <2>2, <3>3, <3>5, <3>6 DEF Next
  <2> QED BY <2>1, <2>2
<1>2. Spec => [][Handover]_vars
  BY <1>1, TypeCorrect, PTL DEF Spec
<1> QED BY <1>2 DEF NoPrematureHandover

-----------------------------------------------------------------------------
(* The passive network (Passive), for any devices, slots and tasks.         *)

\* What a call knows of the slot it loads, whose lock its key tells.
ForSlot(call) ==
    /\ call.key \in Slots \X {"media", "nomedia"}
    /\ IF call.key[2] = "media" THEN call.medium \in Media ELSE call.medium = Unknown

GoodCalls ==
    {call \in CallType :
       /\ call.held => call.step \in {"load", "connect", "inserted", "answer"}
       /\ call.step \in {"load", "inserted", "answer"} => call.held
       /\ call.step = "lock" => call.key \in Players \/ ForSlot(call)
       /\ call.step = "load" => call.key \notin Players /\ ForSlot(call)
       /\ call.step \in {"connect", "inserted", "query", "answer"} => call.key \in Players}

Typed ==
    /\ DevicesTypeOK
    /\ media_cache \in [Slots -> Media \cup {Absent}]
    /\ dbs \in [Item -> Nat]
    /\ connections \in [Players -> Connections \cup {Absent}] /\ direct \subseteq Players
    /\ calls \in [Callers -> GoodCalls]

LocksHeldOnce ==
    \A c, d \in Callers :
      c # d /\ calls[c].held /\ calls[d].held => calls[c].key # calls[d].key

\* No connection, or one that a direct call stored.
Vacant(d) == connections[d] = Absent \/ d \in direct

\* What a call loads or connects to is not there yet.
Wanting(c) ==
    /\ At(c, "load") => ~Listed(SlotOf(calls[c]), {calls[c].medium})
    /\ At(c, "connect") /\ calls[c].held => Vacant(calls[c].key)

Once ==
    /\ Typed
    /\ LocksHeldOnce /\ OnePerKey
    /\ \A c \in Callers : Wanting(c)

\* A device that is on the map, or will be removed from the database.
Due == {removals[k] : k \in 1 .. Len(removals)}
Accounted(d) == d \in devices \cup leaving \cup Due

Loading(call) == call.step \in {"lock", "load"} /\ ~IsRemote(call)
Attended ==
    stopping = "no" =>
      /\ \A i \in Kept : Accounted(OwnerOf[i.slot]) \/ i.late
      /\ \A c \in Callers : Loading(calls[c]) =>
           Accounted(OwnerOf[SlotOf(calls[c])]) \/ calls[c].late

PassiveInv == Once /\ Attended

-----------------------------------------------------------------------------
LEMMA IdlePassiveCall == Idle \in GoodCalls /\ ~Idle.held /\ Idle.step = "idle"
BY DEF Idle, GoodCalls, CallType

LEMMA PassiveStarts == PassiveInit => PassiveInv
<1> SUFFICES ASSUME PassiveInit PROVE PassiveInv
  OBVIOUS
<1>1. Kept = {}
  BY DEF PassiveInit, Kept, NoDbs
<1>2. DevicesTypeOK
  <2>1. <<>> \in Seq(Players)
    OBVIOUS
  <2> QED BY <2>1 DEF PassiveInit, DevicesInit, DevicesTypeOK
<1>3. calls = [c \in Callers |-> Idle] /\ connections = [d \in Players |-> Absent]
      /\ direct = {} /\ media_cache = [s \in Slots |-> Absent] /\ dbs = NoDbs
  BY DEF PassiveInit
<1>4. Typed
  BY <1>2, <1>3, IdlePassiveCall DEF Typed, NoDbs
<1>5. Once
  BY <1>1, <1>3, <1>4, IdlePassiveCall DEF Once, LocksHeldOnce, OnePerKey, Wanting, At
<1>6. Attended
  BY <1>1, <1>3, IdlePassiveCall DEF Attended, Loading
<1> QED BY <1>5, <1>6 DEF PassiveInv

-----------------------------------------------------------------------------
(* Nothing is loaded or connected twice.                                    *)

\* The devices that come and go.
LEMMA DevicesTyped ==
  ASSUME DevicesTypeOK, DevicesNext
  PROVE  DevicesTypeOK'
<1> USE DEF DevicesTypeOK
<1>1. CASE StartCapture \/ CaptureFails \/ ResetTimeout \/ StopDevices \/ StopCapture
  BY <1>1 DEF StartCapture, CaptureFails, ResetTimeout, StopDevices, StopCapture,
              captureVars, deviceVars
<1>2. ASSUME NEW d \in Players, Announce(d) \/ Expire(d)
      PROVE  DevicesTypeOK'
  BY <1>2 DEF Announce, Expire, captureVars
<1>3. ASSUME NEW d \in Players, EmitDisconnected(d)
      PROVE  DevicesTypeOK'
  <2>1. removals' \in Seq(Players)
    BY <1>3 DEF EmitDisconnected
  <2> QED BY <1>3, <2>1 DEF EmitDisconnected, captureVars
<1> QED BY <1>1, <1>2, <1>3 DEF DevicesNext

\* One call moves on without loading anything.
LEMMA CallMoves ==
  ASSUME Once, NEW c \in Callers, NEW w \in GoodCalls, Becomes(c, w),
         DevicesTypeOK', media_cache' = media_cache, dbs' = dbs,
         connections' \in [Players -> Connections \cup {Absent}],
         direct' \subseteq Players,
         w.held => w.key = calls[c].key /\ (calls[c].held \/ LockFree(c)),
         w.step = "load" => ~Listed(SlotOf(w), {w.medium}),
         w.step = "connect" /\ w.held => Vacant(w.key)',
         \A d \in Callers \ {c} :
           At(d, "connect") /\ calls[d].held =>
             connections'[calls[d].key] = Absent \/ calls[d].key \in direct'
  PROVE  Once'
<1>1. calls' = [calls EXCEPT ![c] = w] /\ calls \in [Callers -> GoodCalls]
  BY DEF Becomes, Once, Typed
<1>2. calls'[c] = w /\ \A d \in Callers \ {c} : calls'[d] = calls[d]
  BY <1>1
<1>3. Typed'
  BY <1>1 DEF Once, Typed
<1>4. LocksHeldOnce'
  BY <1>2 DEF Once, LocksHeldOnce, LockFree
<1>5. \A d \in Callers : Wanting(d)'
  <2>1. ASSUME NEW d \in Callers PROVE Wanting(d)'
    <3>1. CASE d = c
      BY <1>2, <3>1 DEF Wanting, Vacant, At, Listed, Kept, SlotOf
    <3>2. CASE d # c
      <4>1. Wanting(d)
        BY DEF Once
      <4> QED BY <1>2, <3>2, <4>1 DEF Wanting, Vacant, At, Listed, Kept, SlotOf
    <3> QED BY <3>1, <3>2
  <2> QED BY <2>1
<1>6. OnePerKey'
  <2>1. ASSUME NEW d \in Callers, At(d, "connect")', calls'[d].held
        PROVE  Vacant(calls[d].key)'
    BY <1>5, <2>1 DEF Wanting
  <2> QED BY <2>1 DEF Once, OnePerKey, Vacant, Kept
<1> QED BY <1>3, <1>4, <1>5, <1>6 DEF Once

\* What a call is and holds before it moves.
LEMMA CallFacts ==
  ASSUME Once, NEW c \in Callers
  PROVE  /\ calls[c] \in GoodCalls /\ Wanting(c) /\ DevicesTypeOK
         /\ connections \in [Players -> Connections \cup {Absent}]
         /\ direct \subseteq Players
         /\ \A d \in Callers : At(d, "connect") /\ calls[d].held =>
              connections[calls[d].key] = Absent \/ calls[d].key \in direct
BY DEF Once, Typed, Wanting, Vacant

\* The devices stay as they are.
LEMMA DevicesStay ==
  ASSUME DevicesTypeOK, UNCHANGED <<captureVars, deviceVars, stopping>>
  PROVE  DevicesTypeOK'
BY DEF DevicesTypeOK, captureVars, deviceVars

\* A lookup takes its place at the lock of its slot.
LEMMA LookupStarts ==
  ASSUME Once, NEW c \in Callers, CallGet(c) \/ CallDirectly(c)
  PROVE  \E s \in Slots, w \in GoodCalls :
           /\ Becomes(c, w) /\ ~w.held /\ w.step = "lock"
           /\ SlotOf(w) = s /\ w.late = (OwnerOf[s] \notin devices)
<1>1. media_cache \in [Slots -> Media \cup {Absent}]
  BY DEF Once, Typed
<1>2. PICK s \in Slots :
        \/ \E m \in Media : Locking(c, s, "media", m)
        \/ Locking(c, s, "nomedia", Unknown)
  BY <1>1 DEF CallGet, CallDirectly, GetWithoutMedia
<1>3. PICK kind \in {"media", "nomedia"}, m \in Media \cup {Unknown} :
        /\ (kind = "media" /\ m \in Media) \/ (kind = "nomedia" /\ m = Unknown)
        /\ Locking(c, s, kind, m)
  BY <1>2
<1> DEFINE late == OwnerOf[s] \notin devices
           w == [Idle EXCEPT !.step = "lock", !.key = <<s, kind>>, !.medium = m,
                             !.late = late]
<1>4. Becomes(c, w) /\ late \in BOOLEAN
  BY <1>3 DEF Locking
<1> HIDE DEF late
<1>5. w \in GoodCalls /\ ~w.held /\ w.step = "lock" /\ SlotOf(w) = s /\ w.late = late
  BY <1>3, <1>4 DEF Idle, GoodCalls, CallType, ForSlot, SlotOf
<1> QED BY <1>4, <1>5 DEF late

\* A remote call, and one that is cancelled.
LEMMA RemoteStarts ==
  ASSUME Once, NEW c \in Callers, CallRemote(c) \/ CallConnect(c) \/ Cancel(c)
  PROVE  \E w \in GoodCalls :
           Becomes(c, w) /\ ~w.held /\ w.step # "load" /\ ~Loading(w)
<1>1. ASSUME NEW d \in Players, NEW step \in {"lock", "connect"}
      PROVE  LET w == [Idle EXCEPT !.step = step, !.key = d]
             IN w \in GoodCalls /\ ~w.held /\ w.step # "load" /\ ~Loading(w)
  BY DEF Idle, GoodCalls, CallType, Loading, IsRemote
<1>2. CASE CallRemote(c) \/ CallConnect(c)
  <2>1. devices \subseteq Players
    BY DEF Once, Typed, DevicesTypeOK
  <2>2. PICK d \in Players, step \in {"lock", "connect"} :
          Becomes(c, [Idle EXCEPT !.step = step, !.key = d])
    BY <1>2, <2>1 DEF CallRemote, CallConnect
  <2> QED BY <1>1, <2>2
<1>3. CASE Cancel(c)
  BY <1>3, IdlePassiveCall DEF Cancel, Returns, Loading
<1> QED BY <1>2, <1>3

LEMMA CallsOnce ==
  ASSUME Once, NEW c \in Callers,
         \/ CallGet(c) \/ CallDirectly(c) \/ CallRemote(c) \/ CallConnect(c)
         \/ Cancel(c)
  PROVE  Once'
<1>0. Typed /\ DevicesTypeOK'
  <2>1. UNCHANGED <<captureVars, deviceVars, stopping>>
    BY DEF CallGet, CallDirectly, CallRemote, CallConnect, Cancel
  <2> QED BY <2>1, DevicesStay DEF Once, Typed
<1>1. UNCHANGED <<media_cache, dbs, connections, direct>>
  BY DEF CallGet, CallDirectly, CallRemote, CallConnect, Cancel, remoteVars
<1>2. \E w \in GoodCalls : Becomes(c, w) /\ ~w.held /\ w.step # "load"
  BY LookupStarts, RemoteStarts
<1> QED BY <1>0, <1>1, <1>2, CallFacts, CallMoves

LEMMA LockSlotOnce ==
  ASSUME Once, NEW c \in Callers, LockSlot(c)
  PROVE  Once'
<1> DEFINE w == [calls[c] EXCEPT !.step = "load", !.held = TRUE]
<1>1. /\ calls[c] \in GoodCalls /\ DevicesTypeOK' /\ calls[c].step = "lock"
      /\ calls[c].key \notin Players /\ LockFree(c)
  BY CallFacts, DevicesStay DEF LockSlot, At, IsRemote
<1>2. UNCHANGED <<media_cache, dbs, connections, direct>>
  BY DEF LockSlot, remoteVars
<1>3. CASE Returns(c)
  BY <1>1, <1>2, <1>3, IdlePassiveCall, CallFacts, CallMoves DEF Returns
<1>4. CASE ~Found(calls[c]) /\ Becomes(c, w)
  <2>1. /\ w.step = "load" /\ w.key = calls[c].key /\ w.medium = calls[c].medium
        /\ ForSlot(calls[c]) /\ w \in GoodCalls
    BY <1>1 DEF GoodCalls, CallType, ForSlot
  <2> HIDE DEF w
  <2>2. ~Listed(SlotOf(w), {w.medium})
    BY <1>4, <2>1 DEF Found, Listed, SlotOf
  <2> QED BY <1>1, <1>2, <1>4, <2>1, <2>2, CallFacts, CallMoves
<1> QED BY <1>3, <1>4 DEF LockSlot

\* A database that is listed under its lock is the only one of its kind.
LEMMA LoadOnce ==
  ASSUME Once, NEW c \in Callers, Load(c)
  PROVE  Once'
<1> DEFINE item == [slot |-> SlotOf(calls[c]), medium |-> calls[c].medium,
                    late |-> calls[c].late]
<1>1. /\ calls[c] \in GoodCalls /\ DevicesTypeOK' /\ calls[c].step = "load"
      /\ ForSlot(calls[c]) /\ calls[c].held /\ Returns(c)
      /\ ~Listed(SlotOf(calls[c]), {calls[c].medium})
      /\ UNCHANGED <<media_cache, connections, direct>>
  BY CallFacts, DevicesStay DEF Load, At, GoodCalls, Wanting, remoteVars
<1>2. CASE UNCHANGED dbs
  BY <1>1, <1>2, IdlePassiveCall, CallFacts, CallMoves DEF Returns
<1>3. CASE dbs' = [dbs EXCEPT ![item] = @ + 1]
  <2>1. item \in Item /\ item.slot = SlotOf(calls[c]) /\ item.medium = calls[c].medium
    BY <1>1 DEF Item, ForSlot, SlotOf, GoodCalls, CallType
  <2> HIDE DEF item
  <2>2. dbs \in [Item -> Nat] /\ item \notin Kept
    BY <1>1, <2>1 DEF Once, Typed, Listed
  <2>3. /\ dbs' \in [Item -> Nat] /\ dbs[item] = 0 /\ dbs'[item] = 1
        /\ \A i \in Item \ {item} : dbs'[i] = dbs[i]
    BY <1>3, <2>1, <2>2 DEF Kept
  <2>4. Kept' = Kept \cup {item}
    BY <2>1, <2>3 DEF Kept
  <2>5. calls' = [calls EXCEPT ![c] = Idle] /\ calls \in [Callers -> GoodCalls]
    BY <1>1 DEF Returns, Becomes, Once, Typed
  <2>6. calls'[c] = Idle /\ \A d \in Callers \ {c} : calls'[d] = calls[d]
    BY <2>5
  <2>7. Typed'
    BY <1>1, <2>3, <2>5, IdlePassiveCall DEF Once, Typed
  <2>8. LocksHeldOnce'
    BY <2>6, IdlePassiveCall DEF Once, LocksHeldOnce
  <2>9. ASSUME NEW d \in Callers PROVE Wanting(d)'
    <3>1. CASE d = c
      BY <2>6, <3>1, IdlePassiveCall DEF Wanting, At
    <3>2. CASE d # c /\ calls[d].step = "load"
      <4>1. /\ calls[d] \in GoodCalls /\ calls[d].held /\ ForSlot(calls[d])
            /\ ~Listed(SlotOf(calls[d]), {calls[d].medium}) /\ calls[d].key # calls[c].key
        BY <1>1, <3>2, CallFacts DEF GoodCalls, Wanting, At, Once, LocksHeldOnce
      <4>2. calls[d].key[1] # calls[c].key[1] \/ calls[d].medium # calls[c].medium
        BY <1>1, <4>1, SlotsTyped, UnknownIsNoMedium DEF ForSlot, Once
      <4>3. ~(item.slot = SlotOf(calls[d]) /\ item.medium = calls[d].medium)
        BY <2>1, <4>2 DEF SlotOf
      <4>4. ~Listed(SlotOf(calls[d]), {calls[d].medium})'
        BY <2>4, <2>6, <3>2, <4>1, <4>3 DEF Listed, SlotOf
      <4> QED BY <2>6, <3>2, <4>4 DEF Wanting, At
    <3>3. CASE d # c /\ calls[d].step # "load"
      <4>1. Wanting(d)
        BY DEF Once
      <4> QED BY <1>1, <2>6, <3>3, <4>1 DEF Wanting, Vacant, At
    <3> QED BY <3>1, <3>2, <3>3
  <2>10. OnePerKey'
    <3>1. ASSUME NEW i \in Kept', NEW j \in Kept', i.slot = j.slot, i.medium = j.medium
          PROVE  i = j /\ dbs'[i] = 1
      <4>1. CASE i \in Kept /\ j \in Kept
        <5>1. i # item /\ i \in Item
          BY <2>2, <4>1 DEF Kept
        <5> QED BY <2>3, <3>1, <4>1, <5>1 DEF Once, OnePerKey
      <4>2. CASE i = item \/ j = item
        <5>1. i = item /\ j = item
          BY <1>1, <2>1, <2>4, <3>1, <4>2 DEF Listed
        <5> QED BY <2>3, <5>1
      <4> QED BY <2>4, <4>1, <4>2
    <3>2. ASSUME NEW d \in Callers, At(d, "connect")', calls'[d].held
          PROVE  Vacant(calls[d].key)'
      BY <2>9, <3>2 DEF Wanting
    <3> QED BY <3>1, <3>2 DEF OnePerKey, Vacant
  <2> QED BY <2>7, <2>8, <2>9, <2>10 DEF Once
<1> QED BY <1>2, <1>3 DEF Load

\* Where a remote call goes next.
LEMMA RemoteMoves ==
  ASSUME Once, NEW c \in Callers, RemoteStep(c)
  PROVE  \E w \in GoodCalls :
           /\ Becomes(c, w) /\ w.step # "load" /\ ~Loading(w)
           /\ w.held => w.key = calls[c].key /\ (calls[c].held \/ LockFree(c))
           /\ w.step = "connect" =>
                UNCHANGED remoteVars /\ connections[w.key] = Absent
<1>0. /\ calls[c] \in GoodCalls /\ connections \in [Players -> Connections \cup {Absent}]
      /\ ~Loading(Idle)
  BY CallFacts DEF Idle, Loading
<1> DEFINE k == connections[calls[c].key]
           query == [calls[c] EXCEPT !.step = "query", !.connection = k]
           connect == [calls[c] EXCEPT !.step = "connect", !.held = TRUE]
           inserted == [calls[c] EXCEPT !.step = "inserted"]
           found == [calls[c] EXCEPT !.step = "query", !.connection = k, !.held = FALSE]
           answer == [calls[c] EXCEPT !.step = "answer", !.held = TRUE]
<1>1. CASE LockDevice(c)
  <2>1. /\ calls[c].step = "lock" /\ calls[c].key \in Players /\ LockFree(c)
        /\ k \in Connections \cup {Absent} /\ ~calls[c].held /\ UNCHANGED remoteVars
    BY <1>0, <1>1 DEF LockDevice, At, IsRemote, GoodCalls
  <2>2. /\ query \in GoodCalls /\ ~query.held /\ query.step = "query"
        /\ connect \in GoodCalls /\ connect.step = "connect" /\ connect.key = calls[c].key
    BY <1>0, <2>1 DEF GoodCalls, CallType
  <2>3. Becomes(c, query) \/ (k = Absent /\ Becomes(c, connect))
    BY <1>1 DEF LockDevice
  <2> HIDE DEF query, connect
  <2> QED BY <2>1, <2>2, <2>3 DEF Loading
<1>2. CASE Connect(c)
  <2>1. calls[c].step = "connect" /\ calls[c].key \in Players
    BY <1>0, <1>2 DEF Connect, At, GoodCalls
  <2>2. calls[c].held =>
          /\ inserted \in GoodCalls /\ inserted.step = "inserted"
          /\ inserted.key = calls[c].key
    BY <1>0, <2>1 DEF GoodCalls, CallType
  <2>3. (calls[c].held /\ Becomes(c, inserted)) \/ Becomes(c, Idle)
    BY <1>2 DEF Connect, Returns
  <2> HIDE DEF inserted
  <2> QED BY <1>0, <2>2, <2>3, IdlePassiveCall DEF Loading
<1>3. CASE FindConnected(c)
  <2>1. calls[c].step = "inserted" /\ calls[c].key \in Players
        /\ k \in Connections \cup {Absent}
    BY <1>0, <1>3 DEF FindConnected, At, GoodCalls
  <2>2. found \in GoodCalls /\ found.step = "query" /\ ~found.held
    BY <1>0, <2>1 DEF GoodCalls, CallType
  <2>3. Becomes(c, found) \/ Becomes(c, Idle)
    BY <1>3 DEF FindConnected, Returns
  <2> HIDE DEF found
  <2> QED BY <1>0, <2>2, <2>3, IdlePassiveCall DEF Loading
<1>4. CASE Query(c)
  <2>1. calls[c].step = "query" /\ LockFree(c) /\ Becomes(c, answer)
    BY <1>4 DEF Query, At
  <2>2. answer \in GoodCalls /\ answer.step = "answer" /\ answer.key = calls[c].key
    BY <1>0, <2>1 DEF GoodCalls, CallType
  <2> HIDE DEF answer
  <2> QED BY <2>1, <2>2 DEF Loading
<1>5. CASE ConnectFails(c) \/ Answer(c)
  BY <1>0, <1>5, IdlePassiveCall DEF ConnectFails, Answer, Returns
<1> QED BY <1>1, <1>2, <1>3, <1>4, <1>5 DEF RemoteStep

\* Where a get is connecting nothing is stored by another one.
LEMMA RemoteVacant ==
  ASSUME Once, NEW c \in Callers, RemoteStep(c)
  PROVE  /\ connections' \in [Players -> Connections \cup {Absent}]
         /\ direct' \subseteq Players
         /\ \A d \in Callers \ {c} :
              At(d, "connect") /\ calls[d].held =>
                connections'[calls[d].key] = Absent \/ calls[d].key \in direct'
<1>0. /\ calls[c] \in GoodCalls /\ connections \in [Players -> Connections \cup {Absent}]
      /\ direct \subseteq Players
  BY CallFacts
<1>1. ASSUME NEW d \in Callers \ {c}, At(d, "connect"), calls[d].held
      PROVE  /\ calls[d].key \in Players /\ Vacant(calls[d].key)
             /\ calls[c].held => calls[c].key # calls[d].key
  BY <1>1, CallFacts DEF GoodCalls, At, Wanting, Once, LocksHeldOnce
<1>2. CASE UNCHANGED remoteVars
  BY <1>0, <1>1, <1>2 DEF remoteVars, Vacant
<1>3. CASE Connect(c)
  <2>1. calls[c].key \in Players
    BY <1>0, <1>3 DEF Connect, At, GoodCalls
  <2>2. PICK k \in Connections :
          /\ connections' = [connections EXCEPT ![calls[c].key] = k]
          /\ direct' = IF calls[c].held THEN direct \ {calls[c].key}
                       ELSE direct \cup {calls[c].key}
    BY <1>3 DEF Connect
  <2>3. ASSUME NEW d \in Callers \ {c}, At(d, "connect"), calls[d].held
        PROVE  connections'[calls[d].key] = Absent \/ calls[d].key \in direct'
    BY <1>0, <1>1, <2>1, <2>2, <2>3 DEF Vacant
  <2> QED BY <1>0, <2>1, <2>2, <2>3
<1>4. CASE Answer(c) /\ TakesOut(calls[c].key)
  <2>1. calls[c].key \in Players
    BY <1>0, <1>4 DEF Answer, At, GoodCalls
  <2> QED BY <1>0, <1>1, <1>4, <2>1 DEF TakesOut, Vacant
<1> QED BY <1>2, <1>3, <1>4
        DEF RemoteStep, LockDevice, ConnectFails, FindConnected, Query, Answer

LEMMA RemoteOnce ==
  ASSUME Once, NEW c \in Callers, RemoteStep(c)
  PROVE  Once'
<1>1. DevicesTypeOK' /\ UNCHANGED <<media_cache, dbs>>
  BY CallFacts, DevicesStay
     DEF RemoteStep, LockDevice, Connect, ConnectFails, FindConnected, Query, Answer
<1>2. PICK w \in GoodCalls :
        /\ Becomes(c, w) /\ w.step # "load"
        /\ w.held => w.key = calls[c].key /\ (calls[c].held \/ LockFree(c))
        /\ w.step = "connect" => UNCHANGED remoteVars /\ connections[w.key] = Absent
  BY RemoteMoves
<1>3. w.step = "connect" /\ w.held => Vacant(w.key)'
  BY <1>2 DEF Vacant, remoteVars
<1> QED BY <1>1, <1>2, <1>3, RemoteVacant, CallMoves

\* Databases and connections that are dropped; calls only hear that they are late.
LEMMA DropsOnce ==
  ASSUME Once, DevicesTypeOK', media_cache' \in [Slots -> Media \cup {Absent}],
         dbs' \in [Item -> Nat], \A i \in Item : dbs'[i] \in {0, dbs[i]},
         connections' \in [Players -> Connections \cup {Absent}],
         direct' \subseteq Players,
         \A d \in Players : connections'[d] = Absent
           \/ (connections'[d] = connections[d] /\ (d \in direct => d \in direct')),
         calls' \in [Callers -> GoodCalls],
         \A c \in Callers : /\ calls'[c].step = calls[c].step /\ calls'[c].key = calls[c].key
                            /\ calls'[c].medium = calls[c].medium
                            /\ calls'[c].held = calls[c].held
  PROVE  Once'
<1>1. Kept' \subseteq Kept /\ \A i \in Kept' : dbs'[i] = dbs[i]
  BY DEF Kept, Once, Typed
<1>2. Typed'
  BY DEF Typed
<1>3. LocksHeldOnce'
  BY DEF Once, LocksHeldOnce
<1>4. ASSUME NEW c \in Callers PROVE Wanting(c)'
  <2>1. calls[c] \in GoodCalls /\ Wanting(c)
    BY CallFacts
  <2>2. At(c, "connect") => calls[c].key \in Players
    BY <2>1 DEF At, GoodCalls
  <2>3. At(c, "connect")' /\ calls'[c].held => Vacant(calls[c].key)'
    BY <2>1, <2>2 DEF Wanting, Vacant, At
  <2>4. At(c, "load")' => ~Listed(SlotOf(calls[c]), {calls[c].medium})'
    BY <1>1, <2>1 DEF Wanting, At, Listed, SlotOf
  <2> QED BY <2>3, <2>4 DEF Wanting, At, Listed, SlotOf
<1>5. OnePerKey'
  <2>1. ASSUME NEW d \in Callers, At(d, "connect")', calls'[d].held
        PROVE  Vacant(calls[d].key)'
    BY <1>4, <2>1 DEF Wanting
  <2> QED BY <1>1, <2>1 DEF Once, OnePerKey, Vacant
<1> QED BY <1>2, <1>3, <1>4, <1>5 DEF Once

\* The calls under way hear that their device was removed.
LEMMA RemovedFacts ==
  ASSUME Once, NEW d \in Players, Removed(d)
  PROVE  /\ media_cache' \in [Slots -> Media \cup {Absent}]
         /\ dbs' \in [Item -> Nat] /\ \A i \in Item : dbs'[i] \in {0, dbs[i]}
         /\ Kept' = {i \in Kept : OwnerOf[i.slot] # d}
         /\ calls' \in [Callers -> GoodCalls]
         /\ \A c \in Callers :
              /\ calls'[c].step = calls[c].step /\ calls'[c].key = calls[c].key
              /\ calls'[c].medium = calls[c].medium /\ calls'[c].held = calls[c].held
              /\ calls[c].step # "idle" =>
                   calls'[c].late = (calls[c].late \/ DeviceOf(calls[c]) = d)
<1>1. dbs' = [i \in Item |-> IF OwnerOf[i.slot] = d THEN 0 ELSE dbs[i]] /\ dbs \in [Item -> Nat]
  BY DEF Removed, Without, Once, Typed
<1>2. media_cache' \in [Slots -> Media \cup {Absent}]
  BY DEF Removed, Once, Typed
<1>3. ASSUME NEW c \in Callers
      PROVE  /\ calls'[c] \in GoodCalls
             /\ calls'[c].step = calls[c].step /\ calls'[c].key = calls[c].key
             /\ calls'[c].medium = calls[c].medium /\ calls'[c].held = calls[c].held
             /\ calls[c].step # "idle" =>
                  calls'[c].late = (calls[c].late \/ DeviceOf(calls[c]) = d)
  <2> DEFINE old == calls[c]
             w == [old EXCEPT !.late = @ \/ DeviceOf(old) = d]
  <2>1. old \in GoodCalls /\ old.late \in BOOLEAN
    BY CallFacts DEF GoodCalls, CallType
  <2>2. /\ w.step = old.step /\ w.key = old.key /\ w.medium = old.medium
        /\ w.held = old.held /\ w.late = (old.late \/ DeviceOf(old) = d)
        /\ w.connection = old.connection /\ w \in CallType
    BY <2>1 DEF GoodCalls, CallType
  <2>3. calls'[c] = IF old.step = "idle" THEN old ELSE w
    BY DEF Removed
  <2> HIDE DEF w
  <2>4. w \in GoodCalls
    BY <2>1, <2>2 DEF GoodCalls, ForSlot
  <2> QED BY <2>1, <2>2, <2>3, <2>4
<1>4. calls' \in [Callers -> GoodCalls]
  <2>1. calls' = [c \in Callers |-> calls'[c]]
    BY DEF Removed
  <2> QED BY <1>3, <2>1
<1>5. /\ dbs' \in [Item -> Nat] /\ \A i \in Item : dbs'[i] \in {0, dbs[i]}
      /\ Kept' = {i \in Kept : OwnerOf[i.slot] # d}
  BY <1>1 DEF Kept
<1> QED BY <1>2, <1>3, <1>4, <1>5

\* The event that is handled is the oldest of those that are due.
LEMMA OldestRemoval ==
  ASSUME DevicesTypeOK, HandleRemoved
  PROVE  /\ Head(removals) \in Players /\ Removed(Head(removals))
         /\ removals' \in Seq(Players) /\ Due \subseteq Due' \cup {Head(removals)}
<1>1. removals \in Seq(Players) /\ removals # <<>> /\ removals' = Tail(removals)
  BY DEF HandleRemoved, DevicesTypeOK
<1>2. Head(removals) \in Players /\ removals' \in Seq(Players)
  BY <1>1
<1>3. ASSUME NEW k \in 1 .. Len(removals), removals[k] # Head(removals)
      PROVE  removals[k] \in Due'
  <2>1. k # 1
    BY <1>1, <1>3
  <2>2. Len(removals') = Len(removals) - 1 /\ Len(removals) \in Nat
    BY <1>1, HeadTailProperties
  <2>3. k - 1 \in 1 .. Len(removals')
    BY <2>1, <2>2
  <2>4. removals'[k - 1] = removals[k]
    <3>1. Tail(removals)[k - 1] = removals[k - 1 + 1]
      BY <1>1, <2>3, HeadTailProperties
    <3>2. k - 1 + 1 = k
      BY <2>2
    <3> QED BY <1>1, <3>1, <3>2
  <2> QED BY <2>3, <2>4 DEF Due
<1>4. Due \subseteq Due' \cup {Head(removals)}
  BY <1>3 DEF Due
<1> QED BY <1>1, <1>2, <1>4 DEF HandleRemoved

LEMMA OnceStep == Once /\ [PassiveNext]_passiveVars => Once'
<1> SUFFICES ASSUME Once, [PassiveNext]_passiveVars PROVE Once'
  OBVIOUS
<1>0. Typed /\ DevicesTypeOK
  BY DEF Once, Typed
<1>1. CASE (DevicesNext /\ UNCHANGED dbVars) \/ UNCHANGED passiveVars
  <2>1. DevicesTypeOK'
    BY <1>0, <1>1, DevicesTyped, DevicesStay DEF passiveVars
  <2> QED BY <1>0, <1>1, <2>1, DropsOnce DEF dbVars, remoteVars, passiveVars, Typed
<1>2. CASE HandleRemoved
  <2>1. Head(removals) \in Players /\ Removed(Head(removals)) /\ removals' \in Seq(Players)
    BY <1>0, <1>2, OldestRemoval
  <2>2. DevicesTypeOK' /\ UNCHANGED <<connections, direct>>
    BY <1>0, <1>2, <2>1 DEF HandleRemoved, DevicesTypeOK, captureVars, remoteVars
  <2> QED BY <1>0, <2>1, <2>2, RemovedFacts, DropsOnce DEF Typed
<1>3. CASE StopLocal \/ StopRemote
  <2>1. DevicesTypeOK'
    BY <1>0, <1>3 DEF StopLocal, StopRemote, DevicesTypeOK, captureVars, deviceVars
  <2>2. /\ dbs' \in [Item -> Nat] /\ \A i \in Item : dbs'[i] \in {0, dbs[i]}
        /\ connections' \in [Players -> Connections \cup {Absent}]
        /\ \/ UNCHANGED <<connections, direct>>
           \/ \A d \in Players : connections'[d] = Absent
        /\ direct' \subseteq Players
        /\ media_cache' \in [Slots -> Media \cup {Absent}] /\ UNCHANGED calls
    BY <1>0, <1>3 DEF StopLocal, StopRemote, NoDbs, Typed, remoteVars
  <2> QED BY <1>0, <2>1, <2>2, DropsOnce DEF Typed
<1>4. ASSUME NEW s \in Slots, CacheMedia(s) PROVE Once'
  <2>1. DevicesTypeOK' /\ UNCHANGED <<dbs, connections, direct, calls>>
        /\ media_cache' \in [Slots -> Media \cup {Absent}]
    BY <1>0, <1>4, DevicesStay DEF CacheMedia, Typed, remoteVars
  <2> QED BY <1>0, <2>1, DropsOnce DEF Typed
<1>5. ASSUME NEW d \in Players, DisconnectForDevice(d) PROVE Once'
  <2>1. DevicesTypeOK' /\ UNCHANGED <<connections, direct>> /\ Removed(d)
    BY <1>0, <1>5, DevicesStay DEF DisconnectForDevice, remoteVars
  <2> QED BY <1>0, <2>1, RemovedFacts, DropsOnce DEF Typed
<1>6. ASSUME NEW d \in Players, DisconnectFromDevice(d) PROVE Once'
  <2>1. /\ DevicesTypeOK' /\ UNCHANGED <<media_cache, dbs, calls>>
        /\ connections' \in [Players -> Connections \cup {Absent}]
        /\ direct' = direct \ {d}
        /\ \A e \in Players : connections'[e] = IF e = d THEN Absent ELSE connections[e]
    BY <1>0, <1>6, DevicesStay DEF DisconnectFromDevice, TakesOut, Typed
  <2> QED BY <1>0, <2>1, DropsOnce DEF Typed
<1>7. ASSUME NEW c \in Callers,
             \/ CallGet(c) \/ CallDirectly(c) \/ CallRemote(c) \/ CallConnect(c)
             \/ LocalStep(c) \/ RemoteStep(c) \/ Cancel(c)
      PROVE  Once'
  BY <1>7, CallsOnce, LockSlotOnce, LoadOnce, RemoteOnce DEF LocalStep
<1> QED BY <1>1, <1>2, <1>3, <1>4, <1>5, <1>6, <1>7 DEF PassiveNext

-----------------------------------------------------------------------------
(* A device that left has no database.                                      *)

\* One call moves on: it may load only what it was after.
LEMMA CallAttended ==
  ASSUME Once, Attended, NEW c \in Callers, NEW w \in GoodCalls, Becomes(c, w),
         UNCHANGED <<devices, leaving, removals, stopping>>,
         Loading(w) =>
           \/ Accounted(OwnerOf[SlotOf(w)]) \/ w.late
           \/ Loading(calls[c]) /\ w.key = calls[c].key /\ w.late = calls[c].late,
         \A i \in Kept' \ Kept :
           /\ Loading(calls[c]) /\ i.slot = SlotOf(calls[c]) /\ i.late = calls[c].late
  PROVE  Attended'
<1>1. calls'[c] = w /\ \A d \in Callers \ {c} : calls'[d] = calls[d]
  BY DEF Becomes, Once, Typed
<1> SUFFICES ASSUME stopping = "no" PROVE Attended'
  BY DEF Attended
<1>2. \A d : Accounted(d)' <=> Accounted(d)
  BY DEF Accounted, Due
<1>3. ASSUME NEW i \in Kept' PROVE Accounted(OwnerOf[i.slot])' \/ i.late
  BY <1>2, <1>3 DEF Attended
<1>4. ASSUME NEW d \in Callers, Loading(calls[d])'
      PROVE  (Accounted(OwnerOf[SlotOf(calls[d])]) \/ calls[d].late)'
  <2>1. CASE d = c
    BY <1>1, <1>2, <1>4, <2>1 DEF Attended, SlotOf
  <2>2. CASE d # c
    BY <1>1, <1>2, <1>4, <2>2 DEF Attended
  <2> QED BY <2>1, <2>2
<1> QED BY <1>3, <1>4 DEF Attended

LEMMA CallsAttended ==
  ASSUME Once, Attended, NEW c \in Callers,
         \/ CallGet(c) \/ CallDirectly(c) \/ CallRemote(c) \/ CallConnect(c)
         \/ Cancel(c)
  PROVE  Attended'
<1>1. UNCHANGED <<devices, leaving, removals, stopping, dbs>> /\ Kept' = Kept
  BY DEF CallGet, CallDirectly, CallRemote, CallConnect, Cancel, deviceVars, Kept
<1>2. \E w \in GoodCalls :
        Becomes(c, w) /\ (Loading(w) => Accounted(OwnerOf[SlotOf(w)]) \/ w.late)
  <2>1. CASE CallGet(c) \/ CallDirectly(c)
    BY <2>1, LookupStarts DEF Accounted
  <2>2. CASE CallRemote(c) \/ CallConnect(c) \/ Cancel(c)
    BY <2>2, RemoteStarts
  <2> QED BY <2>1, <2>2
<1> QED BY <1>1, <1>2, CallAttended

LEMMA StepsAttended ==
  ASSUME Once, Attended, NEW c \in Callers, LocalStep(c) \/ RemoteStep(c)
  PROVE  Attended'
<1>0. /\ UNCHANGED <<devices, leaving, removals, stopping>> /\ ~Loading(Idle)
      /\ calls[c] \in GoodCalls /\ calls[c].late \in BOOLEAN
  BY CallFacts DEF LocalStep, RemoteStep, LockSlot, Load, LockDevice, Connect, ConnectFails,
                   FindConnected, Query, Answer, deviceVars, Idle, Loading, GoodCalls, CallType
<1>1. CASE LockSlot(c)
  <2> DEFINE w == [calls[c] EXCEPT !.step = "load", !.held = TRUE]
  <2>1. calls[c].step = "lock" /\ calls[c].key \notin Players /\ UNCHANGED dbs
    BY <1>1 DEF LockSlot, At, IsRemote
  <2>2. /\ w \in GoodCalls /\ w.key = calls[c].key /\ w.late = calls[c].late
        /\ Loading(calls[c])
    BY <1>0, <2>1 DEF GoodCalls, CallType, ForSlot, Loading, IsRemote
  <2>3. Becomes(c, Idle) \/ Becomes(c, w)
    BY <1>1 DEF LockSlot, Returns
  <2>4. Kept' = Kept
    BY <2>1 DEF Kept
  <2> HIDE DEF w
  <2> QED BY <1>0, <2>2, <2>3, <2>4, IdlePassiveCall, CallAttended
<1>2. CASE Load(c)
  <2> DEFINE item == [slot |-> SlotOf(calls[c]), medium |-> calls[c].medium,
                      late |-> calls[c].late]
  <2>1. Loading(calls[c]) /\ Becomes(c, Idle)
    BY <1>0, <1>2 DEF Load, At, GoodCalls, Loading, IsRemote, Returns
  <2>2. dbs' = [dbs EXCEPT ![item] = @ + 1] \/ UNCHANGED dbs
    BY <1>2 DEF Load
  <2>3. dbs \in [Item -> Nat] /\ item.slot = SlotOf(calls[c]) /\ item.late = calls[c].late
    BY DEF Once, Typed
  <2> HIDE DEF item
  <2>4. Kept' \subseteq Kept \cup {item}
    BY <2>2, <2>3 DEF Kept
  <2> QED BY <1>0, <2>1, <2>3, <2>4, IdlePassiveCall, CallAttended
<1>3. CASE RemoteStep(c)
  <2>1. UNCHANGED dbs /\ Kept' = Kept
    BY <1>3 DEF RemoteStep, LockDevice, Connect, ConnectFails, FindConnected, Query,
                Answer, Kept
  <2> QED BY <1>0, <1>3, <2>1, RemoteMoves, CallAttended
<1> QED BY <1>1, <1>2, <1>3 DEF LocalStep

\* Whoever the removal of a device concerns is late, or its database gone.
LEMMA RemovedAttended ==
  ASSUME Once, Attended, NEW d \in Players, Removed(d), UNCHANGED stopping,
         stopping = "no" => \A e \in Players \ {d} : Accounted(e) => Accounted(e)'
  PROVE  Attended'
<1> SUFFICES ASSUME stopping = "no" PROVE Attended'
  BY DEF Attended
<1>1. ASSUME NEW i \in Kept' PROVE Accounted(OwnerOf[i.slot])' \/ i.late
  <2>1. i \in Kept /\ OwnerOf[i.slot] \in Players \ {d}
    BY <1>1, RemovedFacts, SlotsTyped, UnknownIsNoMedium DEF Kept, Item, Once
  <2> QED BY <2>1 DEF Attended
<1>2. ASSUME NEW c \in Callers, Loading(calls[c])'
      PROVE  (Accounted(OwnerOf[SlotOf(calls[c])]) \/ calls[c].late)'
  <2>1. /\ Loading(calls[c]) /\ calls'[c].key = calls[c].key /\ calls[c] \in GoodCalls
        /\ calls'[c].late = (calls[c].late \/ DeviceOf(calls[c]) = d)
    BY <1>2, RemovedFacts, CallFacts DEF Loading, IsRemote
  <2>2. ForSlot(calls[c]) /\ DeviceOf(calls[c]) = OwnerOf[SlotOf(calls[c])]
    BY <2>1 DEF Loading, IsRemote, GoodCalls, DeviceOf
  <2>3. OwnerOf[SlotOf(calls[c])] \in Players
    BY <2>2, SlotsTyped, UnknownIsNoMedium DEF ForSlot, SlotOf, Once
  <2>4. calls[c].late \/ Accounted(OwnerOf[SlotOf(calls[c])])
    BY <2>1 DEF Attended
  <2> QED BY <2>1, <2>2, <2>3, <2>4 DEF SlotOf
<1> QED BY <1>1, <1>2 DEF Attended

\* A device that leaves the map is accounted for until its event is handled.
LEMMA DevicesAttended ==
  ASSUME Once, Attended, DevicesNext, UNCHANGED dbVars
  PROVE  Attended'
<1>1. CASE stopping' # "no"
  BY <1>1 DEF Attended
<1>2. CASE stopping' = "no"
  <2>1. stopping = "no"
    BY <1>2 DEF DevicesNext, StartCapture, CaptureFails, ResetTimeout, StopDevices,
                StopCapture, Announce, Expire, EmitDisconnected
  <2>2. ASSUME NEW e, Accounted(e) PROVE Accounted(e)'
    <3>1. CASE StartCapture \/ CaptureFails \/ ResetTimeout \/ StopDevices \/ StopCapture
      BY <2>2, <3>1 DEF StartCapture, CaptureFails, ResetTimeout, StopDevices, StopCapture,
                        deviceVars, Accounted, Due
    <3>2. ASSUME NEW d \in Players, Announce(d) \/ Expire(d) PROVE Accounted(e)'
      BY <2>2, <3>2 DEF Announce, Expire, Accounted, Due
    <3>3. ASSUME NEW d \in Players, EmitDisconnected(d) PROVE Accounted(e)'
      <4>1. removals \in Seq(Players) /\ removals' = Append(removals, d)
        BY <3>3 DEF EmitDisconnected, Once, Typed, DevicesTypeOK
      <4>2. Due' = Due \cup {d}
        <5>1. /\ Len(removals') = Len(removals) + 1 /\ Len(removals) \in Nat
              /\ removals'[Len(removals) + 1] = d
              /\ \A k \in 1 .. Len(removals) : removals'[k] = removals[k]
          BY <4>1, AppendProperties
        <5> QED BY <5>1 DEF Due
      <4> QED BY <2>2, <3>3, <4>2 DEF EmitDisconnected, Accounted
    <3> QED BY <3>1, <3>2, <3>3 DEF DevicesNext
  <2> QED BY <1>2, <2>1, <2>2 DEF Attended, dbVars, Kept
<1> QED BY <1>1, <1>2

LEMMA AttendedStep == Once /\ Attended /\ [PassiveNext]_passiveVars => Attended'
<1> SUFFICES ASSUME Once, Attended, [PassiveNext]_passiveVars PROVE Attended'
  OBVIOUS
<1>1. CASE DevicesNext /\ UNCHANGED dbVars
  BY <1>1, DevicesAttended
<1>2. CASE HandleRemoved
  <2>1. DevicesTypeOK
    BY DEF Once, Typed
  <2>2. \A e \in Players \ {Head(removals)} : Accounted(e) => Accounted(e)'
    BY <1>2, <2>1, OldestRemoval DEF HandleRemoved, Accounted
  <2>3. UNCHANGED stopping
    BY <1>2 DEF HandleRemoved
  <2> QED BY <1>2, <2>1, <2>2, <2>3, OldestRemoval, RemovedAttended
<1>3. CASE StopLocal \/ StopRemote
  BY <1>3 DEF StopLocal, StopRemote, Attended
<1>4. CASE UNCHANGED passiveVars \/ \E s \in Slots : CacheMedia(s)
  <2>1. UNCHANGED <<devices, leaving, removals, stopping, dbs, calls>>
    BY <1>4 DEF passiveVars, dbVars, deviceVars, CacheMedia
  <2> QED BY <2>1 DEF Attended, Accounted, Due, Kept
<1>5. ASSUME NEW d \in Players, DisconnectForDevice(d) PROVE Attended'
  <2>1. UNCHANGED <<devices, leaving, removals, stopping>> /\ Removed(d)
    BY <1>5 DEF DisconnectForDevice, deviceVars
  <2> QED BY <2>1, RemovedAttended DEF Accounted, Due
<1>6. ASSUME NEW d \in Players, DisconnectFromDevice(d) PROVE Attended'
  <2>1. UNCHANGED <<devices, leaving, removals, stopping, dbs, calls>>
    BY <1>6 DEF DisconnectFromDevice, deviceVars
  <2> QED BY <2>1 DEF Attended, Accounted, Due, Kept
<1>7. ASSUME NEW c \in Callers,
             \/ CallGet(c) \/ CallDirectly(c) \/ CallRemote(c) \/ CallConnect(c)
             \/ LocalStep(c) \/ RemoteStep(c) \/ Cancel(c)
      PROVE  Attended'
  BY <1>7, CallsAttended, StepsAttended
<1> QED BY <1>1, <1>2, <1>3, <1>4, <1>5, <1>6, <1>7 DEF PassiveNext

LEMMA PassivePreserved == PassiveInv /\ [PassiveNext]_passiveVars => PassiveInv'
BY OnceStep, AttendedStep DEF PassiveInv

LEMMA PassiveImplied == PassiveInv => PassiveTypeOK /\ OnePerKey /\ AbsentHasNoDatabase
<1> SUFFICES ASSUME PassiveInv PROVE PassiveTypeOK /\ OnePerKey /\ AbsentHasNoDatabase
  OBVIOUS
<1>1. PassiveTypeOK
  BY DEF PassiveInv, Once, Typed, PassiveTypeOK, GoodCalls
<1>2. OnePerKey
  BY DEF PassiveInv, Once
<1>3. AbsentHasNoDatabase
  BY DEF PassiveInv, Attended, Accounted, Due, AbsentHasNoDatabase
<1> QED BY <1>1, <1>2, <1>3

\* In passive mode, too, state stays well typed for any number of devices, slots and
\* tasks.
THEOREM PassiveTypeCorrect == PassiveSpec => []PassiveTypeOK
<1> QED BY PassiveStarts, PassivePreserved, PassiveImplied, PTL DEF PassiveSpec

\* However many tasks ask for a slot while media are broadcast and devices come and
\* go, no database is listed twice, and get opens no connection over another but over one
\* of a direct call of connect_to_device.
THEOREM OnePerKeyHolds == PassiveSpec => []OnePerKey
<1> QED BY PassiveStarts, PassivePreserved, PassiveImplied, PTL DEF PassiveSpec

\* A device that timed out leaves no database behind but one that was being loaded
\* when its disconnected event was handled, in any order of those events, or asked for
\* with a device that was not on the map.
THEOREM AbsentHasNoDatabaseHolds == PassiveSpec => []AbsentHasNoDatabase
<1> QED BY PassiveStarts, PassivePreserved, PassiveImplied, PTL DEF PassiveSpec
=============================================================================
