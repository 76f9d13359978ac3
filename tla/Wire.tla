------------------------------- MODULE Wire -------------------------------
(***************************************************************************)
(* The packets of the three ports on their way: those the crate sends,     *)
(* those players and mixers send, and captured frames, whole or cut off at *)
(* some byte.  A behaviour is one of them put through the parsers of       *)
(* PacketReaders; this module states what the parsers promise together.    *)
(***************************************************************************)
EXTENDS PacketReaders

CONSTANTS
    Senders,    \* devices this process may be: [id, type, mac, ip, name]
    Peers,      \* devices its packets may be sent to
    Foreign,    \* packets of players and mixers: [port, as, bytes]
    Frames      \* captured frames, as FrameOf makes them

VARIABLE case   \* the input: what it is "of" and its bytes

WireInit == case = [of |-> "none"]

Octet == 0 .. 255
Octets == Seq(Octet)
\* Byte strings of a length.
Long(n, s) == s \in Octets /\ Len(s) = n

-----------------------------------------------------------------------------
(* The inputs.                                                              *)

\* Devices have ids and types of one byte, addresses of six and four, any name.
AnyHost == [id : Octet, type : Octet, mac : {m \in Octets : Len(m) = 6},
            ip : {a \in Octets : Len(a) = 4}, name : Octets]
ASSUME DevicesAssumption == Senders \cup Peers \subseteq AnyHost

\* The port and the type of a kind of packet, and the length one states.
KindOf(p, as, port, type) == p.as = as /\ p.port = port /\ Byte(p.bytes, 10) = type
States(p, subtype, length) == Byte(p.bytes, 32) = subtype /\ U16(p.bytes, 34) = length

\* A packet of a player or a mixer has the header, the type of its kind and at
\* least the size the parser of its kind asks for; the mask of a mixer states its
\* length, one of six channels is longer; a position states at least twelve
\* bytes.  No parser is for beats, but they come to the port of the positions.
HasShape(p, n) ==
    \/ KindOf(p, "status", "status", 10) /\ n >= 204
    \/ KindOf(p, "mediaSlot", "status", 6) /\ n >= 192
    \/ KindOf(p, "onAir", "status", 3) /\ n >= 46 /\ States(p, 0, 9)
    \/ KindOf(p, "onAir", "status", 3) /\ n >= 54 /\ States(p, 3, 17)
    \/ KindOf(p, "mixerState", "status", 57) /\ n >= 266
    \/ /\ KindOf(p, "position", "beat", 11) /\ n >= 52
       /\ Byte(p.bytes, 32) = 0 /\ U16(p.bytes, 34) >= 12
    \/ KindOf(p, "beat", "beat", 40) /\ n >= 52
    \/ KindOf(p, "vu", "beat", 88) /\ n >= 584
IsForeign(p) == p.bytes \in Octets /\ HasHeader(p.bytes) /\ HasShape(p, Len(p.bytes))
ASSUME ForeignAssumption == \A p \in Foreign : IsForeign(p)

\* What an IP packet has behind the fixed part of its headers, of 1500 bytes at most.
Carried(f) == Len(f.options) + Len(f.payload)
Room == 1500 - 28

\* A frame of Ethernet around a datagram: with a VLAN tag or none, IP options or
\* none, and a padding behind it.
Vlan == 33024
IsEthernet(f) ==
    /\ f.tag = <<>> \/ (Long(4, f.tag) /\ Half(Vlan) = SubSeq(f.tag, 1, 2))
    /\ f.options \in Octets /\ Len(f.options) \in {4 * n : n \in 0..10}
    /\ Long(4, f.sender) /\ Long(4, f.receiver) /\ Long(2, f.port)
    /\ f.payload \in Octets /\ f.padding \in Octets
    /\ Carried(f) <= Room
ASSUME FramesAssumption == \A f \in Frames : IsEthernet(f)

FrameOf(f) ==
    LET ip == <<69 + (Len(f.options) \div 4), 0>> \o Half(28 + Carried(f))
                \o <<0, 0, 0, 0, 64, 17, 0, 0>> \o f.sender \o f.receiver \o f.options
        udp == Half(50000) \o f.port \o Half(8 + Len(f.payload)) \o <<0, 0>>
    IN Zeros(12) \o f.tag \o <<8, 0>> \o ip \o udp \o f.payload \o f.padding

\* The packets the crate sends: those that announce it, the other stages of its
\* startup, the status of a player, requests and keep-alives, and commands.  A
\* Stagehand has its own; anyone may ask for media and write preferences.
Announcing(host) ==
    IF host.type = Stagehand THEN {MakeStagehand06(host)}
    ELSE {MakeAnnouncePacket(host), MakeStage06(host, 2)}
Starting(host) ==
    IF host.type = Stagehand THEN {MakeStagehand0a(host), MakeStagehand02(host, 1)}
    ELSE {MakeStage0a(host), MakeStage00(host, 1), MakeStage02(host, 2), MakeStage04(host, 3)}
Playing(host) == IF host.type = Stagehand THEN {} ELSE {MakeStatusPacket(host)}
Asking(host, peer) ==
    {MakePrefWrite(host, 129, 130), MakeMediaSlotRequest(host, peer, 3)}
      \cup (IF host.type = Stagehand THEN {Heartbeat(host, peer)} \ {<<>>} ELSE {})
Commanding(host, peer) ==
    IF host.type = Stagehand THEN {MakeTransport(host, 15, 1, 171)}
    ELSE {MakePlaystate(host, peer, TRUE), MakePlaystate(host, peer, FALSE)}

\* Each with the port it goes to and what a listener there is to take it for.
Outgoing(port, as, all) == {[port |-> port, as |-> as, bytes |-> p] : p \in all}
Sent(host, peer) ==
    Outgoing("announce", "device", Announcing(host))
      \cup Outgoing("announce", "nothing", Starting(host))
      \cup Outgoing("status", "status", Playing(host))
      \cup Outgoing("status", "nothing", Asking(host, peer))
      \cup Outgoing("beat", "nothing", Commanding(host, peer))

Cut(bytes, n) == SubSeq(bytes, 1, n)
Consider(input) == case.of = "none" /\ case' = input

\* A packet or a frame of which n bytes are there.
SentInput(host, p, n) ==
    [of |-> "sent", host |-> host, port |-> p.port, as |-> p.as,
     whole |-> n = Len(p.bytes), bytes |-> Cut(p.bytes, n)]
HeardInput(p, n) ==
    [of |-> "heard", port |-> p.port, as |-> p.as,
     whole |-> n = Len(p.bytes), bytes |-> Cut(p.bytes, n)]
FrameInput(f, n) ==
    [of |-> "frame", frame |-> f, whole |-> n = Len(FrameOf(f)), bytes |-> Cut(FrameOf(f), n)]

Send(host, peer) ==
    \E p \in Sent(host, peer) : \E n \in 0 .. Len(p.bytes) : Consider(SentInput(host, p, n))
Hear(p) == \E n \in 0 .. Len(p.bytes) : Consider(HeardInput(p, n))
Capture(f) == \E n \in 0 .. Len(FrameOf(f)) : Consider(FrameInput(f, n))

WireNext ==
    \/ \E host \in Senders, peer \in Peers : Send(host, peer)
    \/ \E p \in Foreign : Hear(p)
    \/ \E f \in Frames : Capture(f)

WireSpec == WireInit /\ [][WireNext]_case

-----------------------------------------------------------------------------
(* What the parsers promise.                                                *)

Of(kinds) == case.of \in kinds
WholeOf(kinds) == Of(kinds) /\ case.whole

\* A device as a packet says it: the one this process is, with its name if it is
\* text that fits.
Says(device, host) ==
    /\ device.id = <<host.id>> /\ device.mac = host.mac /\ device.ip = host.ip
    /\ Len(host.name) <= 20 /\ (\A i \in 1 .. Len(host.name) : host.name[i] # 0)
         => device.name = host.name
\* All but the last packet of the startup of a player also say its type.
SaysType(device, host) ==
    case.bytes # MakeStage06(host, 2) => device.type = <<host.type>>

(* What the crate announces is read back as the device it is, by an active  *)
(* and by a passive listener, and from a packet cut before the type with    *)
(* the address of its sender; the status it sends reads as a player with no *)
(* track; a captured frame gives its payload, whatever padding, IP options  *)
(* or VLAN tag surround it.                                                 *)
SentReadsBack ==
    /\ Of({"sent"}) /\ case.as = "device" =>
         LET host == case.host
             active == DeviceFromPacket(case.bytes)
             passive == DeviceFromPacketWithInfo(case.bytes, host.ip)
         IN /\ Len(case.bytes) >= 44 => Says(passive, host)
            /\ case.whole => /\ Says(active, host) /\ SaysType(active, host)
                             /\ passive = active
    /\ WholeOf({"sent"}) /\ case.as = "status" =>
         LET status == Heard(case.port, case.bytes, FALSE)
         IN /\ status.id = <<case.host.id>> /\ status.track = Zeros(8)
            /\ <<>> = status.bpm /\ <<>> = status.beat /\ <<>> = status.cue
    /\ WholeOf({"frame"}) =>
         LET f == case.frame
         IN DecodeUdpFrame(case.bytes) =
              IF f.payload = <<>> THEN Nothing
              ELSE [is |-> "datagram", port |-> f.port, sender |-> f.sender,
                    payload |-> f.payload]

\* The packets a listener mistakes for others, as it does not look at their type:
\* on the status port any of 204 bytes is the status of a player to it, on the beat
\* port any with the subtype and the length of a position is one.  Only a Stagehand
\* looks for the state and the levels of a mixer first.
Mistaken(event, stagehand) ==
    /\ ~(stagehand /\ case.as \in {"mixerState", "vu"})
    /\ \/ /\ case.as \in {"mediaSlot", "onAir", "mixerState"} /\ Len(case.bytes) >= 204
          /\ event = "status"
       \/ case.as \in {"beat", "vu"} /\ event \in {"position", "nothing"}
Taken(event, stagehand) == event = case.as \/ Mistaken(event, stagehand)

(* No packet is taken for one of another kind by the listeners of the port  *)
(* it goes to, for the network and for a capture, but the Mistaken: another *)
(* process running this crate makes nothing of our requests, commands and   *)
(* keep-alives, and what players and mixers send is the event it is.        *)
NothingMisread ==
    WholeOf({"sent", "heard"}) =>
      /\ \A stagehand \in BOOLEAN :
           Taken(Heard(case.port, case.bytes, stagehand).is, stagehand)
      /\ Taken(HeardPassive(case.port, case.bytes, <<10, 0, 0, 9>>).is, FALSE)

(* Position packets are distinguished from beat packets                     *)
(* (docs/ABSOLUTE_POSITION.md:96).  They are not: the three things looked   *)
(* at are true of both, so this does not hold.                              *)
BeatsAreNoPositions ==
    WholeOf({"heard"}) /\ case.as = "beat" =>
      \A stagehand \in BOOLEAN : Heard(case.port, case.bytes, stagehand).is # "position"

\* The fields of a parsed packet, as byte strings.
FieldsOf(result) == {result[f] : f \in DOMAIN result \ {"is"}}

(* No parser of packets or frames reads a byte that is not there, wherever  *)
(* they end: in Rust that is a panic, which ends the task that listens.     *)
NeverPastTheEnd ==
    /\ Of({"sent", "heard"}) =>
         \A stagehand \in BOOLEAN :
           LET results == {Heard(case.port, case.bytes, stagehand),
                           HeardPassive(case.port, case.bytes, <<10, 0, 0, 9>>),
                           ParseConflictPacket(case.bytes)}
           IN \A r \in results : \A field \in FieldsOf(r) : ~Broken(field)
    /\ Of({"frame"}) => \A field \in FieldsOf(DecodeUdpFrame(case.bytes)) : ~Broken(field)
=============================================================================
