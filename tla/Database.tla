------------------------------ MODULE Database ------------------------------
(***************************************************************************)
(* The database service (src/src/db/): where a lookup is answered from,    *)
(* what it asks there, and what becomes of it when a part of the answer    *)
(* cannot be had, while media are swapped in the slot of the player.       *)
(*                                                                         *)
(* LocalDb and RemoteDb are about the two services it asks; here a lookup  *)
(* of theirs is one step that succeeds or fails.                           *)
(***************************************************************************)
EXTENDS Naturals, Sequences

CONSTANTS
    Callers,    \* tasks that look something up on a player
    Media,      \* media that are put into the slot
    Missing

ASSUME MissingIsNoMedium == Missing \notin Media

VARIABLES
    media,      \* the medium in the slot
    local,      \* the local databases: medium it is listed as -> contents
    calls       \* where the lookups are

databaseVars == <<media, local, calls>>

DeviceTypes == {"cdj", "rekordbox", "mixer"}
TrackTypes == {"rb", "unanalyzed", "audioCd", "streaming", "none"}
Slots == {"usb", "rb", "empty"}
Ops == {"metadata", "file", "thumbnail", "artwork", "waveforms", "analysis", "playlist"}

\* A part of an answer and what a failure to get it makes of the lookup.
Part(what, failed) == [what |-> what, failed |-> failed]

\* late is history: the medium was swapped during the lookup, or while the
\* database it uses was downloaded.
Idle == [step |-> "idle", op |-> "metadata", track |-> "none", plan |-> <<>>,
         got |-> {}, asked |-> {}, medium |-> Missing, failure |-> "no",
         fallback |-> FALSE, late |-> FALSE, end |-> "no"]

DatabaseInit ==
    /\ media \in Media
    /\ local = [m \in Media |-> Missing]
    /\ calls = [c \in Callers |-> Idle]

At(c, step) == calls[c].step = step
Becomes(c, call) == calls' = [calls EXCEPT ![c] = call]
Ends(c, call, end) == Becomes(c, [call EXCEPT !.step = "done", !.plan = <<>>, !.end = end])

-----------------------------------------------------------------------------
(* Which service a lookup goes to, and what it asks there.                  *)

Strategy(op, device, track, slot) ==
    IF op = "playlist"
    THEN IF device # "rekordbox" THEN "local"
         ELSE IF slot = "rb" THEN "remote" ELSE "none"
    ELSE CASE device = "rekordbox" -> "remote"
           [] device = "cdj" /\ track \in {"unanalyzed", "audioCd", "streaming"} -> "remote"
           [] device = "cdj" /\ track = "rb" -> "local"
           [] OTHER -> "none"

Required(parts) == [i \in 1 .. Len(parts) |-> Part(parts[i], "error")]

\* Neither files nor analysis come from the remote database.
RemotePlan(op, track) ==
    CASE op = "metadata" ->
           IF track \in {"unanalyzed", "audioCd", "streaming"}
           THEN <<Part("row", "error"), Part("info", "skip")>>
           ELSE Required(<<"row", "info", "beatGrid">>)
      [] op = "waveforms" ->
           Required(IF track = "streaming" THEN <<"hd", "preview", "detailed">>
                    ELSE <<"hd">>)
      [] OTHER -> Required(<<op>>)

\* The files of a track, fetched over NFS.
FilePlan(op) ==
    CASE op = "metadata" -> Required(<<"dat">>)
      [] op \in {"file", "thumbnail", "artwork"} -> <<Part(op, "none")>>
      [] op = "waveforms" -> Required(<<"ext">>)
      [] op = "analysis" -> <<Part("ext", "error"), Part("twoEx", "skip")>>

-----------------------------------------------------------------------------
(* The lookups.                                                             *)

\* get_device_ensured finds the device, and the strategy is chosen.
Lookup(c) ==
    /\ At(c, "idle")
    /\ \E op \in Ops \ {"artwork"}, device \in DeviceTypes, track \in TrackTypes, slot \in Slots :
         LET strategy == Strategy(op, device, track, slot)
             call == [Idle EXCEPT !.op = op, !.track = track]
         IN \/ strategy = "none" /\ Ends(c, call, "none")
            \/ /\ strategy = "remote" /\ op \in {"file", "analysis"}
               /\ Ends(c, call, "none")
            \/ /\ strategy = "remote" /\ op \notin {"file", "analysis"}
               /\ Becomes(c, [call EXCEPT !.step = "remote"])
            \/ /\ strategy = "local" /\ slot # "usb"
               /\ Ends(c, [call EXCEPT !.failure = "error"], "error")
            \/ /\ strategy = "local" /\ slot = "usb"
               /\ Becomes(c, [call EXCEPT !.step = "ask"])
    /\ UNCHANGED <<media, local>>

\* Artwork is in the audio file, if its type is known and the slot one of NFS.
LookupArtwork(c) ==
    /\ At(c, "idle")
    /\ LET call == [Idle EXCEPT !.op = "artwork"]
       IN \/ Ends(c, call, "none")
          \/ Becomes(c, [call EXCEPT !.step = "parts", !.plan = FilePlan("artwork")])
    /\ UNCHANGED <<media, local>>

\* The device is not on the network within the time get_device_ensured waits.
NoDevice(c) ==
    /\ At(c, "idle")
    /\ Ends(c, Idle, "none")
    /\ UNCHANGED <<media, local>>

\* Mutant: a database that is listed is used without asking the player.
AskOnce(c) ==
    /\ At(c, "ask")
    /\ \E m \in Media :
         /\ m = media \/ local[m] # Missing
         /\ Becomes(c, [calls[c] EXCEPT !.step = "open", !.medium = m])
    /\ UNCHANGED <<media, local>>

\* The local database asks the player what medium is in the slot.
Ask(c) ==
    /\ At(c, "ask")
    /\ Becomes(c, [calls[c] EXCEPT !.step = "open", !.medium = media])
    /\ UNCHANGED <<media, local>>

\* The database that is listed as that medium, or the one that is in the slot by
\* the time it is downloaded.  Tracks and playlists are looked up in it, the files
\* are those of a track the caller has.
Open(c) ==
    /\ At(c, "open")
    /\ LET contents == IF local[calls[c].medium] # Missing
                       THEN local[calls[c].medium] ELSE media
           call == [calls[c] EXCEPT !.asked = @ \cup {"local"},
                                    !.late = @ \/ contents # calls[c].medium]
           row == [call EXCEPT !.got = {[what |-> "row", medium |-> contents]}]
       IN /\ local' = [local EXCEPT ![calls[c].medium] = contents]
          /\ CASE call.op = "playlist" -> Ends(c, row, "found")
               [] call.op = "metadata" ->
                    \/ Becomes(c, [row EXCEPT !.step = "parts", !.plan = FilePlan(call.op)])
                    \/ Becomes(c, [call EXCEPT !.step = "remote", !.fallback = TRUE])
               [] OTHER -> Becomes(c, [call EXCEPT !.step = "parts", !.plan = FilePlan(call.op)])
    /\ UNCHANGED media

\* Mutant: a slot without a database ends the lookup (NP3-361).
MissEnds(c) ==
    /\ calls[c].step \in {"ask", "open"}
    /\ Ends(c, [calls[c] EXCEPT !.asked = @ \cup {"local"}], "none")
    /\ UNCHANGED <<media, local>>

\* No rekordbox database is loaded for the slot.
Miss(c) ==
    /\ calls[c].step \in {"ask", "open"}
    /\ LET call == [calls[c] EXCEPT !.asked = @ \cup {"local"}]
       IN IF call.op = "metadata"
          THEN Becomes(c, [call EXCEPT !.step = "remote", !.fallback = TRUE])
          ELSE Ends(c, call, "none")
    /\ UNCHANGED <<media, local>>

\* The track has no artwork, or no analysis path.
NoFile(c) ==
    /\ At(c, "parts")
    /\ \/ calls[c].op = "thumbnail" /\ Ends(c, calls[c], "none")
       \/ /\ calls[c].op \in {"metadata", "waveforms", "analysis"}
          /\ calls[c].plan = FilePlan(calls[c].op)
          /\ Ends(c, calls[c], "found")
    /\ UNCHANGED <<media, local>>

Connect(c) ==
    /\ At(c, "remote")
    /\ LET call == [calls[c] EXCEPT !.asked = @ \cup {"remote"}]
       IN \/ Becomes(c, [call EXCEPT !.step = "parts",
                                     !.plan = RemotePlan(call.op, call.track)])
          \/ Ends(c, call, "none")
    /\ UNCHANGED <<media, local>>

\* The next part of the answer; the last one ends the lookup.
Get(c) ==
    /\ At(c, "parts")
    /\ LET part == Head(calls[c].plan)
           call == [calls[c] EXCEPT !.plan = Tail(@),
                      !.got = @ \cup {[what |-> part.what, medium |-> media]}]
       IN IF call.plan = <<>> THEN Ends(c, call, "found") ELSE Becomes(c, call)
    /\ UNCHANGED <<media, local>>

\* A fallback that fails is logged and ends without a track.
Failed(c, how) ==
    LET call == [calls[c] EXCEPT !.failure = how]
    IN IF how = "skip"
       THEN IF Len(call.plan) = 1 THEN Ends(c, call, "found")
            ELSE Becomes(c, [call EXCEPT !.plan = Tail(@)])
       ELSE Ends(c, call, IF how = "none" \/ call.fallback THEN "none" ELSE "error")

PartFails(c) ==
    /\ At(c, "parts")
    /\ Failed(c, Head(calls[c].plan).failed)
    /\ UNCHANGED <<media, local>>

\* The player cannot be asked, its database not be loaded or connected to.
ServiceFails(c) ==
    /\ calls[c].step \in {"ask", "open", "remote"}
    /\ Failed(c, "error")
    /\ UNCHANGED <<media, local>>

-----------------------------------------------------------------------------
Swap ==
    /\ \E m \in Media \ {media} : media' = m
    /\ calls' = [c \in Callers |->
         IF calls[c].step \in {"idle", "done"} THEN calls[c] ELSE [calls[c] EXCEPT !.late = TRUE]]
    /\ UNCHANGED local

\* The player leaves the network, and with it its databases.
Remove ==
    /\ \E m \in Media : local[m] # Missing
    /\ local' = [m \in Media |-> Missing]
    /\ UNCHANGED <<media, calls>>

Return(c) ==
    /\ At(c, "done")
    /\ Becomes(c, Idle)
    /\ UNCHANGED <<media, local>>

CallStep(c) ==
    \/ Lookup(c) \/ LookupArtwork(c) \/ NoDevice(c) \/ Return(c)
    \/ Ask(c) \/ Open(c) \/ Miss(c) \/ NoFile(c) \/ Connect(c) \/ Get(c) \/ PartFails(c) \/ ServiceFails(c)

DatabaseNext == (\E c \in Callers : CallStep(c)) \/ Swap \/ Remove

DatabaseSpec == DatabaseInit /\ [][DatabaseNext]_databaseVars

-----------------------------------------------------------------------------
(* Properties.                                                              *)

\* State is well typed, and a lookup waits for a part only if one is left.
DatabaseTypeOK ==
    /\ media \in Media
    /\ local \in [Media -> Media \cup {Missing}]
    /\ \A c \in Callers :
         /\ calls[c].step \in {"idle", "ask", "open", "remote", "parts", "done"}
         /\ At(c, "parts") => calls[c].plan # <<>>
         /\ calls[c].end \in {"no", "none", "error", "found"}

\* A lookup has the one part it cannot do without, and only parts it can are left:
\* the info of a track that is in no rekordbox database, the 2EX file.
HasEnough(call) ==
    \E part \in call.got :
      \/ call.op = "analysis" /\ part.what = "ext"
      \/ /\ call.op = "metadata" /\ call.track \in {"streaming", "unanalyzed", "audioCd"}
         /\ part.what = "row"

\* A lookup of the track a player is on ends without it only if the player's own
\* database was asked, too (NP3-361), and a failure of that second chance is not
\* raised; and a lookup that has enough ends with an answer, whatever becomes of
\* the rest.
FailsOnlyIfItMust ==
    \A c \in Callers : LET call == calls[c] IN
      /\ call.op = "metadata" /\ call.end = "none" /\ "local" \in call.asked
           => "remote" \in call.asked \/ call.failure # "no"
      /\ call.end = "error" => ~call.fallback
      /\ HasEnough(call) => call.end \in {"no", "found"}

\* The parts of an answer are of one medium, the one in the slot: a row of the
\* local database and the files it names, too, but if the medium is swapped
\* during the lookup or the download of its database.
OneMedium ==
    \A c \in Callers :
      \/ calls[c].late
      \/ \A p, q \in calls[c].got : p.medium = q.medium
=============================================================================
