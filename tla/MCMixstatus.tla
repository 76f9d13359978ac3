---------------------------- MODULE MCMixstatus ----------------------------
(* Instances of Mixstatus for TLC: two decks, two tracks, unit beats.       *)
EXTENDS Mixstatus

CONSTANTS t1, t2

Report(play, air, master, tracks) ==
    [play_state : play, is_on_air : air, is_master : master,
     track_id : tracks]

\* Decks that play and cue on air, pause off air, and become master with
\* another track.
MCPackets ==
    Report({"Playing", "Cued"}, {TRUE}, {FALSE}, {t1})
      \cup Report({"Paused"}, {FALSE}, {FALSE}, {t1})
      \cup Report({"Playing"}, {TRUE}, {TRUE}, {t2})

Config(mode, air, interrupt, reported) ==
    [mode |-> mode, use_on_air_status |-> air,
     allowed_interrupt_beats |-> interrupt, beats_until_reported |-> reported]

MCConfigs == {Config("SmartTiming", TRUE, 1, 2),
              Config("FollowsMaster", TRUE, 1, 1)}
=============================================================================
