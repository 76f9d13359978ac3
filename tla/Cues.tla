-------------------------------- MODULE Cues --------------------------------
(***************************************************************************)
(* Cue points, loops and waveforms: what the remote database's answers and *)
(* the analysis files have in common (localdb/utils.rs, entities.rs,       *)
(* utils/converters.rs).                                                   *)
(***************************************************************************)
EXTENDS Bytes

\* What has no value, or is left out.
None == <<>>
Present(value) == <<value>>

\* Buttons A to H.
HotcueButton(n) == IF n \in 1..8 THEN Present(n) ELSE None

\* The entry as a sequence of one, or of none if it is neither cue nor loop.
\* A length is kept as the two positions it is the difference of.
MakeCueLoopEntry(isCue, isLoop, offset, end, button) ==
    CASE button # None /\ isLoop ->
           <<[is |-> "hotLoop", offset |-> offset, end |-> end, button |-> button]>>
      [] button # None /\ ~isLoop ->
           <<[is |-> "hotCue", offset |-> offset, end |-> None, button |-> button]>>
      [] button = None /\ isLoop ->
           <<[is |-> "loop", offset |-> offset, end |-> end, button |-> None]>>
      [] button = None /\ ~isLoop /\ isCue ->
           <<[is |-> "cuePoint", offset |-> offset, end |-> None, button |-> None]>>
      [] OTHER -> <<>>

\* Two bytes per segment: three bits each of red, green and blue, five of height.
ConvertWaveformHd(data) ==
    [i \in 1 .. Len(data) \div 2 |->
      LET word == U16(data, 2 * (i - 1))
      IN [height |-> (word \div 4) % 32,
          color |-> <<word \div 8192, (word \div 1024) % 8, (word \div 128) % 8>>]]
=============================================================================
