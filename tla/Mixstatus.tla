----------------------------- MODULE Mixstatus -----------------------------
(***************************************************************************)
(* The mix status processor (src/src/mixstatus/mod.rs): it turns the       *)
(* stream of CDJ states into now_playing / stopped / set_started /         *)
(* set_ended events.                                                       *)
(*                                                                         *)
(* Everything lives behind one mutex, so each public call is one step on   *)
(* the record `st` (the code's ProcessorState).  What is concurrent with   *)
(* them is the task that waits `time_between_sets` and then reports the    *)
(* end of the set: it sleeps outside the lock, and JoinHandle::abort only  *)
(* stops it while it is still asleep.  A task that has woken up and waits  *)
(* for the lock runs to its end whatever was done to its handle.           *)
(***************************************************************************)
EXTENDS Integers, Sequences, FiniteSets

CONSTANTS
    Devices,        \* player ids
    Tracks,         \* track ids
    Packets,        \* the CDJ states a player may report
    BeatTimes,      \* time units per beat the reported tempo and pitch give
    NoTempo,        \* a packet without a tempo: bpm_to_seconds yields NaN
    Configs,        \* the configurations `configure` may install
    None,           \* a missing map entry
    MaxTime,        \* bound: the clock stops here
    MaxLost         \* bound: no call arrives while that many timer tasks
                    \* whose handle is gone have still to end

PlayStates == {"Playing", "Looping", "Paused", "Cued", "Loading"}
Modes == {"SmartTiming", "WaitsForSilence", "FollowsMaster"}

States == [play_state : PlayStates, is_on_air : BOOLEAN,
           is_master : BOOLEAN, track_id : Tracks]
ConfigType == [mode : Modes, use_on_air_status : BOOLEAN,
               allowed_interrupt_beats : Nat, beats_until_reported : Nat]

ASSUME DevicesFinite == IsFiniteSet(Devices)
ASSUME PacketsTyped == Packets \subseteq States
ASSUME BeatTimesTyped == BeatTimes \subseteq Nat /\ NoTempo \notin Nat
ASSUME ConfigsTyped == Configs \subseteq ConfigType /\ Configs # {}
ASSUME NoneIsNoValue == None \notin Tracks \cup States \cup Nat
ASSUME BoundsTyped == MaxTime \in Nat /\ MaxLost \in Nat

VARIABLES
    st,     \* the processor state, its timer tasks and what listeners saw
    now     \* now_ms()

vars == <<st, now>>

(***************************************************************************)
(* ProcessorState.  `set_ending` is the handle the code keeps, described   *)
(* by what its task is doing; `fired` and `detached` count the tasks that  *)
(* no handle refers to any more, past their sleep and still asleep.        *)
(* `out` is what the last step emitted; `heard` and `open` are a           *)
(* listener's view: the decks announced and not stopped since, and         *)
(* whether a track was announced since the last set_ended.                 *)
(***************************************************************************)
Events ==
    [type : {"set_started", "set_ended"}]
      \cup [type : {"now_playing"}, device : Devices, track : Tracks]
      \cup [type : {"stopped"}, device : Devices]

Processor ==
    [last_state : [Devices -> States \cup {None}],
     last_start_time : [Devices -> Nat \cup {None}],
     last_stopped_times : [Devices -> Nat \cup {None}],
     live_players : SUBSET Devices,
     last_emitted_track_id : [Devices -> Tracks \cup {None}],
     is_set_active : BOOLEAN,
     set_ending : {"none", "sleeping", "fired"},
     fired : Nat,
     detached : Nat,
     config : ConfigType,
     out : Seq(Events),
     heard : SUBSET Devices,
     open : BOOLEAN]

Nothing == [d \in Devices |-> None]

Init ==
    /\ now = 0
    /\ \E c \in Configs :
         st = [last_state |-> Nothing, last_start_time |-> Nothing,
               last_stopped_times |-> Nothing, live_players |-> {},
               last_emitted_track_id |-> Nothing, is_set_active |-> FALSE,
               set_ending |-> "none", fired |-> 0, detached |-> 0,
               config |-> c, out |-> <<>>, heard |-> {}, open |-> FALSE]

-----------------------------------------------------------------------------
(* Helpers on one processor state p.                                        *)

IsPlaying(s) == s.play_state \in {"Playing", "Looping"}
IsStopping(s) == s.play_state \in {"Cued", "Loading"}

OnAir(p, s) == p.config.use_on_air_status => s.is_on_air

\* A deck that a listener should be hearing: last reported playing, on air.
Audible(p, d) ==
    /\ p.last_state[d] # None
    /\ OnAir(p, p.last_state[d])
    /\ IsPlaying(p.last_state[d])

\* required time <= now - since; a NaN on the left makes it false
Elapsed(beats, beatTime, since) ==
    /\ since # None
    /\ beatTime # NoTempo
    /\ beats * beatTime <= now - since

EmitSet(p, type) ==
    [p EXCEPT !.out = Append(@, [type |-> type]),
              !.open = (type = "set_started")]

EmitNowPlaying(p, d, t) ==
    [p EXCEPT
       !.out = Append(@, [type |-> "now_playing", device |-> d, track |-> t]),
       !.heard = @ \cup {d},
       !.open = TRUE]

EmitStopped(p, d) ==
    [p EXCEPT !.out = Append(@, [type |-> "stopped", device |-> d]),
              !.heard = @ \ {d}]

\* set_ending.take() followed by abort(): only a sleeping task is stopped
CancelSetEnding(p) ==
    [p EXCEPT !.set_ending = "none",
              !.fired = IF p.set_ending = "fired" THEN @ + 1 ELSE @]

Promote(p, d, s) ==
    IF \/ ~OnAir(p, s)
       \/ ~IsPlaying(s)
       \/ d \in p.live_players
       \/ p.last_emitted_track_id[d] = s.track_id
    THEN p
    ELSE LET started == IF p.is_set_active THEN p
                        ELSE EmitSet([p EXCEPT !.is_set_active = TRUE],
                                     "set_started")
         IN EmitNowPlaying(
              [CancelSetEnding(started) EXCEPT
                 !.live_players = @ \cup {d},
                 !.last_emitted_track_id[d] = s.track_id],
              d, s.track_id)

\* Mutant: the pending timer is cancelled and no new one is started.
SetMayStopUnarmed(p) ==
    IF ~p.is_set_active \/ \E d \in Devices : Audible(p, d)
    THEN p
    ELSE CancelSetEnding(p)

SetMayStop(p) ==
    IF ~p.is_set_active \/ \E d \in Devices : Audible(p, d)
    THEN p
    ELSE [CancelSetEnding(p) EXCEPT !.set_ending = "sleeping"]

Candidates(p) ==
    {d \in Devices : /\ p.last_start_time[d] # None
                     /\ d \notin p.live_players
                     /\ p.last_state[d] # None
                     /\ IsPlaying(p.last_state[d])}

Longest(p) ==
    {d \in Candidates(p) : \A e \in Candidates(p) :
        p.last_start_time[d] <= p.last_start_time[e]}

\* `tie` is the deck the hash map's order prefers among equal start times
PromoteNext(p, tie) ==
    IF Longest(p) = {}
    THEN SetMayStop(p)
    ELSE LET d == IF tie \in Longest(p) THEN tie
                  ELSE CHOOSE e \in Longest(p) : TRUE
         IN Promote(p, d, p.last_state[d])

\* Mutant: the stopped deck stays in live_players.
MarkPlayerStoppedStillLive(p, d, tie) ==
    EmitStopped(PromoteNext([p EXCEPT !.last_stopped_times[d] = None,
                                      !.last_start_time[d] = None], tie), d)

MarkPlayerStopped(p, d, tie) ==
    EmitStopped(PromoteNext([p EXCEPT !.last_stopped_times[d] = None,
                                      !.last_start_time[d] = None,
                                      !.live_players = @ \ {d}], tie), d)

\* Mutant: other decks are not looked at.
PlayerIsFirst(p, d, s) == Promote(p, d, s)

PlayerMayBeFirst(p, d, s) ==
    IF \E e \in Devices \ {d} : Audible(p, e)
    THEN p
    ELSE Promote(p, d, s)

PlayerMayStop(p, d) == [p EXCEPT !.last_stopped_times[d] = now]

PlaystateChange(p, d, last, s, tie) ==
    IF p.last_stopped_times[d] # None /\ IsPlaying(s) /\ OnAir(p, s)
    THEN [p EXCEPT !.last_stopped_times[d] = None]
    ELSE IF IsPlaying(s) /\ ~IsPlaying(last)
    THEN LET q == IF p.config.mode = "FollowsMaster" /\ s.is_master
                  THEN Promote(p, d, s) ELSE p
         IN PlayerMayBeFirst([q EXCEPT !.last_start_time[d] = now], d, s)
    ELSE IF IsPlaying(last) /\ IsStopping(s)
    THEN MarkPlayerStopped(p, d, tie)
    ELSE IF IsPlaying(last) /\ ~IsPlaying(s)
    THEN PlayerMayStop(p, d)
    ELSE p

\* Mutant: the grace period is ended for decks that are not live too.
OnairChangeAnyDeck(p, d, s) ==
    LET q == PlayerMayBeFirst(p, d, s)
    IN IF ~OnAir(q, s) THEN PlayerMayStop(q, d)
       ELSE [q EXCEPT !.last_stopped_times[d] = None]

OnairChange(p, d, s) ==
    LET q == PlayerMayBeFirst(p, d, s)
    IN IF d \notin q.live_players THEN q
       ELSE IF ~OnAir(q, s) THEN PlayerMayStop(q, d)
       ELSE [q EXCEPT !.last_stopped_times[d] = None]

-----------------------------------------------------------------------------
(* handle_state: one action for each way through it.                        *)

Room == st.fired + st.detached < MaxLost

Record(d, s) == [st EXCEPT !.last_state[d] = s, !.out = <<>>]

\* The first report of a deck, already playing on air: report it and return.
FirstHeardPlaying(d, s) ==
    /\ st.last_state[d] = None
    /\ OnAir(st, s) /\ IsPlaying(s)
    /\ st' = PlayerMayBeFirst(
               [Record(d, s) EXCEPT !.last_start_time[d] = now], d, s)
    /\ UNCHANGED now

\* The comparison with the previous report.
Compared(d, s, tie) ==
    LET last == st.last_state[d]
        p == IF last # None /\ last.play_state # s.play_state
             THEN PlaystateChange(Record(d, s), d, last, s, tie)
             ELSE Record(d, s)
    IN IF last # None /\ OnAir(p, last) # OnAir(p, s)
       THEN OnairChange(p, d, s)
       ELSE p

TakesMaster(d, s) ==
    /\ st.config.mode = "FollowsMaster"
    /\ st.last_state[d] # None
    /\ ~st.last_state[d].is_master
    /\ s.is_master

\* Following master, and this deck has just become it.
BecomesMaster(d, s, tie) ==
    /\ TakesMaster(d, s)
    /\ st' = Promote(Compared(d, s, tie), d, s)
    /\ UNCHANGED now

\* Has the deck played long enough to be reported (smart timing only)?
PlayedLongEnough(p, d, s, beatTime) ==
    IF /\ p.config.mode = "SmartTiming"
       /\ Elapsed(p.config.beats_until_reported, beatTime,
                  p.last_start_time[d])
    THEN Promote(p, d, s)
    ELSE p

\* Has the deck been quiet long enough to be reported stopped?
StoppedLongEnough(p, d, beatTime, tie) ==
    IF Elapsed(p.config.allowed_interrupt_beats, beatTime,
               p.last_stopped_times[d])
    THEN MarkPlayerStopped(p, d, tie)
    ELSE p

\* Any other report.
ReportState(d, s, beatTime, tie) ==
    /\ ~(st.last_state[d] = None /\ OnAir(st, s) /\ IsPlaying(s))
    /\ ~TakesMaster(d, s)
    /\ st' = StoppedLongEnough(
               PlayedLongEnough(Compared(d, s, tie), d, s, beatTime),
               d, beatTime, tie)
    /\ UNCHANGED now

HandleState ==
    /\ Room
    /\ \E d \in Devices, s \in Packets, tie \in Devices :
        \/ FirstHeardPlaying(d, s)
        \/ BecomesMaster(d, s, tie)
        \/ \E b \in BeatTimes \cup {NoTempo} : ReportState(d, s, b, tie)

-----------------------------------------------------------------------------
(* The other calls, the timer task and the clock.                           *)

TriggerNextTrack ==
    /\ Room
    /\ \E tie \in Devices : st' = PromoteNext([st EXCEPT !.out = <<>>], tie)
    /\ UNCHANGED now

Configure ==
    /\ \E c \in Configs \ {st.config} :
         st' = [st EXCEPT !.config = c, !.out = <<>>]
    /\ UNCHANGED now

\* The sleep of the task in set_ending, or of a task with no handle, is over.
TimerWakes ==
    /\ \/ /\ st.set_ending = "sleeping"
          /\ st' = [st EXCEPT !.set_ending = "fired", !.out = <<>>]
       \/ /\ st.detached > 0
          /\ st' = [st EXCEPT !.detached = @ - 1, !.fired = @ + 1,
                              !.out = <<>>]
    /\ UNCHANGED now

\* The woken task gets the lock: whatever handle is stored is forgotten.
SetEnds(p) ==
    IF p.is_set_active
    THEN EmitSet([p EXCEPT !.set_ending = "none"], "set_ended")
    ELSE [p EXCEPT !.set_ending = "none"]

TimerEnds ==
    /\ st.set_ending = "fired"
    /\ st' = SetEnds([st EXCEPT !.out = <<>>])
    /\ UNCHANGED now

\* The same for a task that was cancelled too late to be stopped.
LateTimerEnds ==
    /\ st.fired > 0
    /\ st' = SetEnds(
               [st EXCEPT !.out = <<>>,
                  !.fired = IF st.set_ending = "fired" THEN @ ELSE @ - 1,
                  !.detached = IF st.set_ending = "sleeping" THEN @ + 1
                               ELSE @])
    /\ UNCHANGED now

Tick ==
    /\ now < MaxTime
    /\ now' = now + 1
    /\ st' = [st EXCEPT !.out = <<>>]

Next ==
    \/ HandleState
    \/ TriggerNextTrack
    \/ Configure
    \/ TimerWakes
    \/ TimerEnds
    \/ LateTimerEnds
    \/ Tick

Spec == Init /\ [][Next]_vars

\* The runtime runs a task whose sleep is over, and lets it take the lock.
FairSpec ==
    /\ Spec
    /\ WF_vars(TimerWakes)
    /\ WF_vars(TimerEnds)
    /\ WF_vars(LateTimerEnds)

-----------------------------------------------------------------------------
(* Properties.                                                              *)

\* The processor state is well typed.
TypeOK == st \in Processor /\ now \in Nat

Mirrors(p) ==
    /\ p.live_players = p.heard
    /\ p.open \/ p.heard # {} => p.is_set_active

\* What the processor believes is live is exactly what listeners were told:
\* the decks announced by now_playing and not yet taken back by stopped.
LiveMirrorsEvents == Mirrors(st)

\* A deck that can still lead to an event: it plays, or it is in its grace
\* period, or it is announced.
Busy(p, d) ==
    \/ p.last_state[d] # None /\ IsPlaying(p.last_state[d])
    \/ p.last_stopped_times[d] # None
    \/ d \in p.live_players

TimerPending(p) ==
    p.set_ending # "none" \/ p.fired > 0 \/ p.detached > 0

Timed(p) == p.open => (\E d \in Devices : Busy(p, d)) \/ TimerPending(p)

\* Once a track was announced the end of the set cannot be forgotten: until
\* set_ended is reported some deck is still busy or a timer is pending
\* (mark_player_stopped, promote_next_player, set_may_stop, the timer task).
SilenceIsTimed == Timed(st)

Emitted(type) == \E i \in DOMAIN st'.out : st'.out[i].type = type
EmittedFor(type, d) ==
    \E i \in DOMAIN st'.out :
        st'.out[i].type = type /\ st'.out[i].device = d

\* A deck is announced over one that is playing on air only for a reason the
\* mode names: it played beats_until_reported beats in smart timing, it is
\* the master, or another deck has just been reported stopped
\* (player_may_be_first, types.rs on MixstatusMode).
NoPrematureHandover ==
    [][\A d \in Devices :
         /\ EmittedFor("now_playing", d)
         /\ ~TriggerNextTrack
         /\ \E e \in Devices \ {d} : Audible(st', e)
         => \/ Emitted("stopped")
            \/ st.config.mode = "FollowsMaster" /\ st'.last_state[d].is_master
            \/ /\ st.config.mode = "SmartTiming"
               /\ \E b \in BeatTimes : Elapsed(st.config.beats_until_reported,
                                               b, st'.last_start_time[d])
      ]_vars

\* When every deck is quiet and an announced set is open, set_ended follows
\* unless a deck starts to play (test set_ends_after_silence).  A manual
\* trigger restarts the timer, so the triggers have to cease.
SilenceEndsSet ==
    <>[][~TriggerNextTrack]_vars =>
        ((st.open /\ \A d \in Devices : ~Busy(st, d))
            ~> (~st.open \/ \E d \in Devices : Busy(st, d)))

-----------------------------------------------------------------------------
(* What the documentation says and the code does not do.                    *)

\* set_ended: "The time_between_sets has passed since any tracks were live":
\* it is not reported while a deck plays on air.
SetEndedMeansSilence ==
    [][Emitted("set_ended") => \A d \in Devices : ~Audible(st', d)]_vars
=============================================================================
