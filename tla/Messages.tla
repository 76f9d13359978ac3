------------------------------ MODULE Messages ------------------------------
(***************************************************************************)
(* The messages of the remote database as bytes: fields                    *)
(* (remotedb/fields.rs), messages (remotedb/message/mod.rs), menu items    *)
(* (item.rs) and what a response says (response.rs).  RemoteDb models when *)
(* they are sent and read.                                                 *)
(*                                                                         *)
(* The value of a field is its bytes, of a string its UTF-16 units without *)
(* the NUL at their end.                                                   *)
(***************************************************************************)
EXTENDS Cues
LOCAL INSTANCE SequencesExt

UInt8 == 15
UInt16 == 16
UInt32 == 17
Binary == 20
String16 == 38
FieldTypes == {UInt8, UInt16, UInt32, Binary, String16}

Field(type, value) == [type |-> type, value |-> value]
AsNumber(field) ==
    CASE field.type = UInt8 -> field.value[1]
      [] field.type = UInt16 -> U16(field.value, 0)
      [] field.type = UInt32 -> U32(field.value, 0)

FieldToBytes(field) ==
    CASE field.type = Binary ->
           <<Binary>> \o Word(Len(field.value)) \o field.value
      [] field.type = String16 ->
           <<String16>> \o Word(Len(field.value) \div 2 + 1) \o field.value \o <<0, 0>>
      [] OTHER -> <<field.type>> \o field.value

-----------------------------------------------------------------------------
(* Reading: a reader is what has been read and the offset of the next byte. *)

Failed == [ok |-> FALSE]
Reader(at, fields) == [ok |-> TRUE, at |-> at, fields |-> fields]

ReadField(reader, s, expect) ==
    LET at == reader.at
        sized == expect \in {Binary, String16}
        from == IF sized THEN at + 5 ELSE at + 1
        size == CASE expect = UInt8 -> 1
                  [] expect = UInt16 -> 2
                  [] expect = UInt32 -> 4
                  [] expect = Binary -> U32(s, at + 1)
                  [] expect = String16 -> 2 * U32(s, at + 1)
        kept == IF expect = String16 THEN MostOf(size - 2, 0) ELSE size
    IN IF ~reader.ok THEN Failed
       ELSE IF Byte(s, at) # expect \/ ~Fits(s, from, 0) \/ ~Fits(s, from, size) THEN Failed
       ELSE Reader(from + size,
                   Append(reader.fields, Field(expect, Slice(s, from, from + kept))))

-----------------------------------------------------------------------------
(* Messages.                                                                *)

RemoteDbMagic == <<135, 35, 73, 174>>
ArgCount == 12

ArgumentType(fieldType) ==
    CASE fieldType = UInt32 -> 6
      [] fieldType = String16 -> 2
      [] fieldType = Binary -> 3
      [] OTHER -> 0

\* An empty binary field behind a number that says so is not sent: any binary
\* field behind a zero.
Elided(args, i) ==
    i > 1 /\ args[i].type = Binary /\ args[i - 1] = Field(UInt32, Word(0))

MessageToBytes(m) ==
    LET slots == [i \in 1..ArgCount |->
                    IF i <= Len(m.args) THEN ArgumentType(m.args[i].type) ELSE 0]
        header == <<Field(UInt32, RemoteDbMagic), Field(UInt32, m.transaction),
                    Field(UInt16, Half(m.type)), Field(UInt8, <<Len(m.args)>>),
                    Field(Binary, slots)>>
        sent == [i \in 1 .. Len(m.args) |->
                   IF Elided(m.args, i) THEN <<>> ELSE FieldToBytes(m.args[i])]
    IN FlattenSeq([i \in 1..5 |-> FieldToBytes(header[i])]) \o FlattenSeq(sent)

\* Mutant: a field that was not sent is read all the same.
ReadEveryArg(reader, s, slots, i) ==
    LET types == {t \in FieldTypes : ArgumentType(t) # 0 /\ i <= Len(slots)
                                       /\ ArgumentType(t) = slots[i]}
    IN IF ~reader.ok \/ types = {} THEN Failed
       ELSE ReadField(reader, s, CHOOSE t \in types : TRUE)

\* Argument i of a message read so far: an empty binary field is not there.
ReadArg(reader, s, slots, i) ==
    LET types == {t \in FieldTypes : ArgumentType(t) # 0 /\ i <= Len(slots)
                                       /\ ArgumentType(t) = slots[i]}
        type == CHOOSE t \in types : TRUE
        before == reader.fields[Len(reader.fields)]
    IN IF ~reader.ok \/ types = {} THEN Failed
       ELSE IF type = Binary /\ i > 1 /\ before.type = UInt32 /\ AsNumber(before) = 0
            THEN Reader(reader.at, Append(reader.fields, Field(Binary, <<>>)))
            ELSE ReadField(reader, s, type)

FromStream(s, expect) ==
    LET header == FoldLeft(LAMBDA r, t : ReadField(r, s, t), Reader(0, <<>>),
                           <<UInt32, UInt32, UInt16, UInt8, Binary>>)
        slots == header.fields[5].value
        count == AsNumber(header.fields[4])
        all == FoldLeft(LAMBDA r, i : ReadArg(r, s, slots, i),
                        Reader(header.at, <<>>), [i \in 1..count |-> i])
    IN IF ~header.ok \/ header.fields[1].value # RemoteDbMagic THEN Failed
       ELSE IF ~all.ok \/ AsNumber(header.fields[3]) # expect THEN Failed
       ELSE [ok |-> TRUE, at |-> all.at,
             message |-> [transaction |-> header.fields[2].value,
                          type |-> expect, args |-> all.fields]]

-----------------------------------------------------------------------------
(* What a response says.  Argument i, from 0, is args[i + 1].               *)

Numeric == {UInt8, UInt16, UInt32}
Num(args, i) ==
    IF i < Len(args) /\ args[i + 1].type \in Numeric THEN AsNumber(args[i + 1]) ELSE 0
Str(args, i) ==
    IF i < Len(args) /\ args[i + 1].type = String16 THEN args[i + 1].value ELSE <<>>

\* The item types the crate has a name for; any other number stays one.
ItemTypes ==
    (0..4) \cup (6..8) \cup {10, 11} \cup (13..17) \cup (19..27) \cup (35..36)
      \cup (40..42) \cup {46, 47} \cup (128..139) \cup {142} \cup (144..149) \cup {160}
      \cup {256 * n + 4 : n \in {2, 6, 7, 10, 11, 13, 14, 15, 16, 26, 35, 40, 41, 42, 46}}
ItemType(n) == [known |-> n \in ItemTypes, number |-> n]

FieldsToItem(args) ==
    [type |-> ItemType(Num(args, 6)), parent |-> Num(args, 0), main |-> Num(args, 1),
     label1 |-> Str(args, 3), label2 |-> Str(args, 5), artwork |-> Num(args, 8)]

\* Data from an offset to the end, none if the offset is past it.
From(data, at) == IF at <= Len(data) THEN SubSeq(data, at + 1, Len(data)) ELSE <<>>

ConvertBeatGrid(data) ==
    LET entries == Chunks(From(data, 20), 16)
    IN [i \in 1 .. Len(entries) |->
          [offset |-> Slice(entries[i], 4, 8), bpm |-> Slice(entries[i], 2, 4),
           count |-> Slice(entries[i], 0, 1)]]

\* Always 400 segments, of zeros where the data ends.
ConvertWaveformPreview(data) ==
    LET at(i) == IF i < Len(data) THEN Byte(data, i) ELSE 0
    IN [n \in 1..400 |-> <<at(2 * n - 2), at(2 * n - 1)>>]
\* Three bits of whiteness, five of height.
ConvertWaveformDetailed(data) ==
    [n \in 1 .. Len(data) |-> <<data[n] \div 32, data[n] % 32>>]

ConvertCueAndLoops(data) ==
    LET entries == Chunks(data, 36)
        cue(e) == MakeCueLoopEntry(Byte(e, 1) # 0, Byte(e, 0) # 0,
                                   Slice(e, 12, 16), Slice(e, 16, 20), HotcueButton(Byte(e, 2)))
    IN FlattenSeq([i \in 1 .. Len(entries) |-> cue(entries[i])])

\* The entries state their lengths, the last may be cut short.
AdvEntries(data) ==
    LET entries[at \in Nat] ==
          LET length == U32le(data, at)
          IN IF ~Fits(data, at, 4) \/ length = 0 THEN <<>>
             ELSE <<Slice(data, at, LeastOf(at + length, Len(data)))>>
                    \o entries[at + length]
    IN entries[0]

\* A label of so many bytes, the NUL at its end left out, and a colour behind it.
Labelled(e) ==
    LET length == U16le(e, 72)
        text == Slice(e, 74, LeastOf(74 + length, Len(e)))
    IN [label |-> SubSeq(text, 1, MostOf(Len(text) - 2, 0)),
        color |-> IF 78 + length < Len(e) THEN Slice(e, 78 + length, 79 + length) ELSE None]

ConvertAdvCueAndLoops(data) ==
    LET entries == AdvEntries(data)
        cue(e) ==
          IF Len(e) < 20 \/ Byte(e, 6) = 0 THEN <<>>
          ELSE LET basic == MakeCueLoopEntry(Byte(e, 6) = 1, Byte(e, 6) = 2,
                              Slice(e, 12, 16), Slice(e, 16, 20), HotcueButton(Byte(e, 4)))
               IN IF basic = <<>> THEN <<>>
                  ELSE <<[cue |-> basic[1],
                          more |-> IF Len(e) < 74 THEN None ELSE Labelled(e)]>>
    IN FlattenSeq([i \in 1 .. Len(entries) |-> cue(entries[i])])

Success == 16384
Artwork == 16386
MenuItem == 16641
BeatGrid == 17922
CueAndLoop == 18178
WaveformPreview == 17410
WaveformDetailed == 18946
AdvCueAndLoops == 19970
WaveformHd == 20226
\* Errors, menu headers and menu footers say nothing.
Silent == {16387, 16385, 16897}

WithData == {Artwork, BeatGrid, CueAndLoop, WaveformPreview, WaveformDetailed,
             AdvCueAndLoops, WaveformHd}
ConvertData(type, data) ==
    CASE type = Artwork -> data
      [] type = BeatGrid -> ConvertBeatGrid(data)
      [] type = CueAndLoop -> ConvertCueAndLoops(data)
      [] type = WaveformPreview -> ConvertWaveformPreview(data)
      [] type = WaveformDetailed -> ConvertWaveformDetailed(data)
      [] type = AdvCueAndLoops -> ConvertAdvCueAndLoops(data)
      [] type = WaveformHd -> ConvertWaveformHd(From(data, 52))

ResponseTransform(type, args) ==
    CASE type \in WithData ->
           IF 4 <= Len(args) /\ args[4].type = Binary
           THEN [ok |-> TRUE, data |-> ConvertData(type, args[4].value)] ELSE Failed
      [] type = Success ->
           IF 2 <= Len(args) /\ args[2].type \in Numeric
           THEN [ok |-> TRUE, available |-> AsNumber(args[2])] ELSE Failed
      [] type = MenuItem -> [ok |-> TRUE, item |-> FieldsToItem(args)]
      [] type \in Silent -> [ok |-> TRUE]
      [] OTHER -> Failed
=============================================================================
