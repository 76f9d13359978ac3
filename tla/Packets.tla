------------------------------ MODULE Packets ------------------------------
(***************************************************************************)
(* The packets of the three ports: what the crate sends (virtualcdj/,      *)
(* control/, status/media.rs) and what it makes of the packets it hears    *)
(* (status/utils.rs, status/mod.rs, status/position.rs, devices/utils.rs,  *)
(* passive/).                                                              *)
(*                                                                         *)
(* A packet is its bytes.  A number in a parsed packet stays the bytes it  *)
(* is made of, its scale (BPM in hundredths, pitch in percent) is left     *)
(* out, and so is the decoding of text beyond the NUL bytes.  Bytes that   *)
(* no parser looks at are 0 in the packets of players and mixers.          *)
(***************************************************************************)
EXTENDS Bytes

Magic == <<81, 115, 112, 116, 49, 87, 109, 74, 79, 76>>
HasHeader(p) == Len(p) >= 10 /\ Slice(p, 0, 10) = Magic

\* A device: its id and type, six bytes of MAC and four of IP address, its name.
Cdj == 1
Mixer == 3
Rekordbox == 4
Stagehand == 5

-----------------------------------------------------------------------------
(* Packets the crate sends.                                                 *)

\* The announce port: type, name, a structure byte and the length stated.
Announced(type, d, structure, length, body) ==
    Magic \o <<type, 0>> \o Padded(d.name, 20) \o <<1, structure, 0, length>> \o body

High(d) == d.id >= 5
Structure(d) == IF High(d) THEN 3 ELSE 2

MakeAnnouncePacket(d) ==
    Announced(6, d, 2, 54,
      <<d.id, d.type>> \o d.mac \o d.ip \o <<2, 0, 0, 0, d.type, 100>>)

MakeStage0a(d) ==
    IF High(d) THEN Announced(10, d, 4, 38, <<1, 64>>)
    ELSE Announced(10, d, 2, 37, <<1>>)
MakeStage00(d, counter) ==
    Announced(0, d, Structure(d), 44, <<counter, 1>> \o d.mac)
MakeStage02(d, counter) ==
    Announced(2, d, Structure(d), 50,
      d.ip \o d.mac \o <<d.id, counter, 48, 1, 1>>)
MakeStage04(d, counter) ==
    Announced(4, d, Structure(d), 38, <<d.id, counter>>)
MakeStage06(d, peers) ==
    Announced(6, d, 2, 54,
      <<d.id, 1>> \o d.mac \o d.ip
        \o <<48, peers, 0, 0, 0, 1, IF High(d) THEN 100 ELSE 0>>)

MakeStagehand0a(d) == Announced(10, d, 3, 37, <<Stagehand>>)
MakeStagehand02(d, counter) ==
    Announced(2, d, 3, 50, d.ip \o d.mac \o <<58, counter, Stagehand, 1>>)
\* Mutant: address and MAC in the order of the claim.
StagehandClaimOrder(d) ==
    Announced(6, d, 3, 54,
      <<d.id, 1>> \o d.ip \o d.mac \o <<1, 0, 0, 0, Stagehand, 32>>)
MakeStagehand06(d) ==
    Announced(6, d, 3, 54,
      <<d.id, 1>> \o d.mac \o d.ip \o <<1, 0, 0, 0, Stagehand, 32>>)

\* The beat and status ports: the name is one byte earlier.
Framed(type, d, body) == Magic \o <<type>> \o Padded(d.name, 20) \o body

MakeMediaSlotRequest(host, d, slot) ==
    Framed(5, host, <<1, 0, host.id, 0, 12>> \o host.ip
                      \o <<0, 0, 0, d.id, 0, 0, 0, slot>>)
\* One byte per slot 0 to 3, indexed by the id of the device.
MakePlaystate(host, d, cued) ==
    Framed(2, host, <<1, 0, host.id, 0, 4>>
                      \o [i \in 1..4 |-> IF cued /\ i - 1 = d.id THEN 1 ELSE 0])
MakeTransport(host, op, press, correlation) ==
    Framed(7, host, <<1, 3, correlation, 0, 48, 0, 0, 0, 0, 58, 0, 0, 0, op, 0, press>>
                      \o Zeros(9))
MakePrefWrite(host, onAir, quantize) ==
    Magic \o <<107>> \o Padded(host.name, 19) \o <<3, 1, 3, 58, 0, 80, 1>>
      \o Zeros(7) \o <<onAir>> \o Zeros(15) \o <<quantize>> \o Zeros(63)

\* Unicast names have 19 bytes.
MakeMixerHeartbeat(d) ==
    Magic \o <<58>> \o Padded(d.name, 19) \o <<33, 2, 0, 254, 0, 4, 0, 28, 0, 0>>
MakePlayerHeartbeat(d) ==
    Magic \o <<104>> \o Padded(d.name, 19) \o <<3, 1, 0, 58, 0, 0>>
\* What a device is sent every 250 ms; <<>> if nothing.
Heartbeat(host, d) ==
    IF d.id = host.id THEN <<>>
    ELSE CASE d.type = Mixer -> MakeMixerHeartbeat(host)
           [] d.type = Cdj -> MakePlayerHeartbeat(host)
           [] OTHER -> <<>>

\* No track: 284 bytes, those a parser looks at as they are set.
MakeStatusPacket(d) ==
    LET fixed == Framed(10, d, <<1, 3, d.id, 0, 248, d.id>>)
    IN [i \in 1..284 |->
          CASE i <= Len(fixed) -> fixed[i]
            [] i - 1 \in (146..147) \cup (160..163) \cup {165} -> 255
            [] i - 1 \in {38, 164} -> 1
            [] i - 1 = 137 -> 156
            [] i - 1 \in {141, 153, 193, 197} -> 16
            [] i - 1 = 204 -> 15
            [] OTHER -> 0]
=============================================================================
