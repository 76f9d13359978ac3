--------------------------- MODULE PacketReaders ---------------------------
(***************************************************************************)
(* What the crate makes of a packet it hears, and of a captured frame.     *)
(***************************************************************************)
EXTENDS Packets

\* A packet that is not for this parser, and one that is but is no good.
Nothing == [is |-> "nothing"]
Invalid == [is |-> "error"]

-----------------------------------------------------------------------------
(* The announce port.                                                       *)

DeviceFromPacket(p) ==
    IF ~HasHeader(p) THEN Invalid
    ELSE IF Len(p) < 11 \/ Byte(p, 10) # 6 THEN Nothing
    ELSE IF Len(p) < 53 THEN Invalid
    ELSE [is |-> "device", name |-> Unpadded(Slice(p, 12, 32)), id |-> Slice(p, 36, 37),
          mac |-> Slice(p, 38, 44), ip |-> Slice(p, 44, 48), type |-> Slice(p, 52, 53)]

\* Short packets have no type and no address: the id tells the one, the sender
\* of the packet is the other.
TypeById(id) ==
    CASE id \in 1..6 -> Cdj [] id = 17 -> Rekordbox [] OTHER -> Mixer
DeviceFromPacketWithInfo(p, sender) ==
    IF ~HasHeader(p) \/ Len(p) < 44 \/ Byte(p, 10) # 6 THEN Nothing
    ELSE LET short == Len(p) < 53
         IN [is |-> "device", name |-> Unpadded(Slice(p, 12, 32)), id |-> Slice(p, 36, 37),
             mac |-> Slice(p, 38, 44),
             ip |-> IF short THEN sender ELSE Slice(p, 44, 48),
             type |-> IF short THEN <<TypeById(Byte(p, 36))>> ELSE Slice(p, 52, 53)]

\* The id that is defended, or nothing.
ParseConflictPacket(p) ==
    IF Len(p) = 41 /\ HasHeader(p) /\ Byte(p, 10) = 8
    THEN [is |-> "conflict", id |-> Slice(p, 36, 37)]
    ELSE Nothing

-----------------------------------------------------------------------------
(* The status and beat ports.                                               *)

Unless(bytes, none) == IF bytes = none THEN <<>> ELSE bytes

\* Mutant: packet_num, at 200 to 203, is not covered by the length.
StatusTooShort(p) ==
    IF ~HasHeader(p) THEN Invalid
    ELSE IF Len(p) < 200 THEN Nothing
    ELSE [is |-> "status", id |-> Slice(p, 33, 34), track |-> Slice(p, 40, 48),
          playState |-> Slice(p, 123, 124), flags |-> Slice(p, 137, 138),
          emergency |-> Slice(p, 186, 187),
          bpm |-> Unless(Slice(p, 146, 148), <<255, 255>>),
          pitch |-> Slice(p, 141, 144) \o Slice(p, 153, 156),
          beat |-> Unless(Slice(p, 160, 164), <<255, 255, 255, 255>>),
          cue |-> Unless(Slice(p, 164, 166), <<1, 255>>),
          inMeasure |-> Slice(p, 166, 167), number |-> Slice(p, 200, 204),
          player |-> IF Len(p) > 204 THEN Slice(p, 204, 205) ELSE <<0>>]

\* Any packet that is long enough is a status, whatever its type.
StatusFromPacket(p) ==
    IF ~HasHeader(p) THEN Invalid
    ELSE IF Len(p) < 204 THEN Nothing
    ELSE [is |-> "status", id |-> Slice(p, 33, 34), track |-> Slice(p, 40, 48),
          playState |-> Slice(p, 123, 124), flags |-> Slice(p, 137, 138),
          emergency |-> Slice(p, 186, 187),
          bpm |-> Unless(Slice(p, 146, 148), <<255, 255>>),
          pitch |-> Slice(p, 141, 144) \o Slice(p, 153, 156),
          beat |-> Unless(Slice(p, 160, 164), <<255, 255, 255, 255>>),
          cue |-> Unless(Slice(p, 164, 166), <<1, 255>>),
          inMeasure |-> Slice(p, 166, 167), number |-> Slice(p, 200, 204),
          player |-> IF Len(p) > 204 THEN Slice(p, 204, 205) ELSE <<0>>]

MediaSlotFromPacket(p) ==
    IF ~HasHeader(p) THEN Invalid
    ELSE IF Len(p) < 11 \/ Byte(p, 10) # 6 THEN Nothing
    ELSE IF Len(p) < 192 THEN Invalid
    ELSE [is |-> "mediaSlot", id |-> Slice(p, 39, 40), slot |-> Slice(p, 43, 44),
          name |-> Unpadded(Slice(p, 44, 84)), created |-> Unpadded(Slice(p, 108, 132)),
          tracks |-> Slice(p, 166, 168), color |-> Slice(p, 168, 169),
          tracksType |-> Slice(p, 170, 171), settings |-> Slice(p, 171, 172),
          playlists |-> Slice(p, 174, 176),
          total |-> Slice(p, 176, 184), free |-> Slice(p, 184, 192)]

PositionFromPacket(p) ==
    IF ~HasHeader(p) \/ Len(p) < 52 \/ Byte(p, 32) # 0 \/ U16(p, 34) < 12 THEN Nothing
    ELSE [is |-> "position", id |-> Slice(p, 33, 34), length |-> Slice(p, 36, 40),
          playhead |-> Slice(p, 40, 44), pitch |-> Slice(p, 44, 48),
          bpm |-> Unless(Slice(p, 48, 52), <<255, 255, 255, 255>>)]

\* Mutant: the length stated in the packet is not looked at.
OnAirAnyLength(p) ==
    IF ~HasHeader(p) \/ Len(p) < 36 THEN Nothing
    ELSE IF Byte(p, 32) = 0 /\ Len(p) >= 46 THEN
         [is |-> "onAir", id |-> Slice(p, 33, 34), channels |-> Slice(p, 36, 40)]
    ELSE IF Byte(p, 32) = 3 /\ Len(p) >= 54 THEN
         [is |-> "onAir", id |-> Slice(p, 33, 34),
          channels |-> Slice(p, 36, 40) \o Slice(p, 46, 48)]
    ELSE Nothing

OnAirFromPacket(p) ==
    IF ~HasHeader(p) \/ Len(p) < 36 THEN Nothing
    ELSE IF Byte(p, 32) = 0 /\ U16(p, 34) = 9 /\ Len(p) >= 46 THEN
         [is |-> "onAir", id |-> Slice(p, 33, 34), channels |-> Slice(p, 36, 40)]
    ELSE IF Byte(p, 32) = 3 /\ U16(p, 34) = 17 /\ Len(p) >= 54 THEN
         [is |-> "onAir", id |-> Slice(p, 33, 34),
          channels |-> Slice(p, 36, 40) \o Slice(p, 46, 48)]
    ELSE Nothing

\* Per channel: trim, three of equaliser, colour, fader, crossfader side.
ChannelBytes == <<1, 3, 4, 6, 7, 11, 12>>
MixerStateFromPacket(p) ==
    IF ~HasHeader(p) \/ Len(p) < 266 \/ Byte(p, 10) # 57 THEN Nothing
    ELSE [is |-> "mixerState", name |-> Unpadded(Slice(p, 11, 30)),
          crossfader |-> Slice(p, 180, 181),
          channels |-> [i \in 1..28 |->
            Byte(p, 36 + ((i - 1) \div 7) * 24 + ChannelBytes[((i - 1) % 7) + 1])]]

\* Four channels of 15 frames of a left and a right level.
VuFromPacket(p) ==
    IF ~HasHeader(p) \/ Len(p) < 584 \/ Byte(p, 10) # 88 THEN Nothing
    ELSE [is |-> "vu", channels |-> Slice(p, 44, 284)]

-----------------------------------------------------------------------------
(* Which event a packet becomes.                                            *)

Sound(result) == result.is \notin {"nothing", "error"}

\* A packet too short for the mixer's state is tried as the others.
HandleStatus(p, stagehand) ==
    LET mixer == MixerStateFromPacket(p)
        status == StatusFromPacket(p)
        media == MediaSlotFromPacket(p)
    IN IF stagehand /\ Sound(mixer) THEN mixer
       ELSE IF status # Nothing THEN status
       ELSE IF media # Nothing THEN media
       ELSE OnAirFromPacket(p)

\* The captured status port: an invalid packet is tried as the next kind.
HandleStatusPassive(p) ==
    LET status == StatusFromPacket(p)
        media == MediaSlotFromPacket(p)
    IN IF Sound(status) THEN status
       ELSE IF Sound(media) THEN media
       ELSE OnAirFromPacket(p)

HandlePosition(p, stagehand) ==
    IF stagehand /\ Sound(VuFromPacket(p)) THEN VuFromPacket(p)
    ELSE PositionFromPacket(p)

\* What a listener of a port makes of a packet; a capture routes by the port.
Heard(port, p, stagehand) ==
    CASE port = "announce" -> DeviceFromPacket(p)
      [] port = "status" -> HandleStatus(p, stagehand)
      [] port = "beat" -> HandlePosition(p, stagehand)
HeardPassive(port, p, sender) ==
    CASE port = "announce" -> DeviceFromPacketWithInfo(p, sender)
      [] port = "status" -> HandleStatusPassive(p)
      [] port = "beat" -> HandlePosition(p, FALSE)

-----------------------------------------------------------------------------
(* Ethernet frames with IPv4 and UDP.                                       *)

\* Where the IP packet starts: behind one VLAN tag or none.
IpAt(frame) == IF Len(frame) >= 14 /\ U16(frame, 12) = 33024 THEN 18 ELSE 14
HeaderSize(ip) == (Byte(ip, 0) % 16) * 4
\* What is behind the IP header, without the padding of a short frame.
UdpOf(ip) ==
    Slice(ip, HeaderSize(ip), LeastOf(Len(ip), MostOf(U16(ip, 2), HeaderSize(ip))))
PayloadSize(udp) == LeastOf(U16(udp, 4), Len(udp)) - 8

\* Port, sender and payload of the datagram of an IP packet.
Datagram(ip, udp) ==
    IF \/ Len(ip) < 20 \/ Byte(ip, 0) \div 16 # 4
       \/ HeaderSize(ip) < 20 \/ Len(ip) < HeaderSize(ip) \/ Byte(ip, 9) # 17
       \/ Len(udp) < 8 \/ PayloadSize(udp) <= 0
    THEN Nothing
    ELSE [is |-> "datagram", port |-> Slice(udp, 2, 4), sender |-> Slice(ip, 12, 16),
          payload |-> Slice(udp, 8, 8 + PayloadSize(udp))]
DecodeUdpFrame(frame) ==
    LET at == IpAt(frame)
        ip == Slice(frame, at, Len(frame))
    IN IF Len(frame) < at \/ U16(frame, at - 2) # 2048 THEN Nothing
       ELSE Datagram(ip, UdpOf(ip))
=============================================================================
