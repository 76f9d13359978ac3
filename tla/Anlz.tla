-------------------------------- MODULE Anlz --------------------------------
(***************************************************************************)
(* Analysis files (localdb/rekordbox/anlz.rs): a header and tagged         *)
(* sections, and what the crate gives of them (anlz_parsers.rs,            *)
(* rekordbox/mod.rs).                                                      *)
(*                                                                         *)
(* A number in a section stays the bytes it is made of unless it is a      *)
(* length or tells kinds apart; the wording of phrases is left out.        *)
(***************************************************************************)
EXTENDS Cues
LOCAL INSTANCE SequencesExt
LOCAL INSTANCE Bitwise

Magic4 == [file |-> <<80, 77, 65, 73>>, cue |-> <<80, 67, 80, 84>>, cue2 |-> <<80, 67, 80, 50>>]

\* The four bytes of the tags the crate knows.
TagBytes ==
    [cues |-> <<80, 67, 79, 66>>, cues2 |-> <<80, 67, 79, 50>>,
     path |-> <<80, 80, 84, 72>>, vbr |-> <<80, 86, 66, 82>>,
     beatGrid |-> <<80, 81, 84, 90>>, wavePreview |-> <<80, 87, 65, 86>>,
     waveTiny |-> <<80, 87, 86, 50>>, waveScroll |-> <<80, 87, 86, 51>>,
     waveColorPreview |-> <<80, 87, 86, 52>>, waveColorScroll |-> <<80, 87, 86, 53>>,
     songStructure |-> <<80, 83, 83, 73>>, wave3BandPreview |-> <<80, 87, 86, 54>>,
     wave3BandDetail |-> <<80, 87, 86, 55>>, vocalConfig |-> <<80, 87, 86, 67>>]
Tags == DOMAIN TagBytes
SectionTag(fourcc) ==
    IF \E t \in Tags : TagBytes[t] = fourcc THEN CHOOSE t \in Tags : TagBytes[t] = fourcc
    ELSE "other"

\* A body that does not parse, as well as one of a tag that is not known.
Unknown == [is |-> "unknown"]
Body(is, data) == [is |-> is, data |-> data]
\* A body that needs so many bytes.
IfFits(b, n, body) == IF Fits(b, 0, n) THEN body ELSE Unknown

-----------------------------------------------------------------------------
(* The bodies.                                                              *)

BeatGridBody(b) ==
    LET n == U32(b, 8)
        beat(at) == [number |-> U16(b, at), tempo |-> Slice(b, at + 2, at + 4),
                     time |-> Slice(b, at + 4, at + 8)]
    IN IF ~Fits(b, 0, 12) THEN Unknown
       ELSE IfFits(b, 12 + 8 * n, Body("beats", [i \in 1..n |-> beat(4 + 8 * i)]))

\* Entries of 56 bytes, or of what they state if that is more.
CuesBody(b) ==
    LET n == U16(b, 6)
        start[i \in Nat] ==
          IF i = 1 THEN 12 ELSE start[i - 1] + MostOf(56, U32(b, start[i - 1] + 8))
        good(at) == Fits(b, at, 56) /\ Slice(b, at, at + 4) = Magic4.cue
        entry(at) == [hotCue |-> U32(b, at + 12), status |-> U32(b, at + 16),
                      type |-> Byte(b, at + 28), time |-> Slice(b, at + 32, at + 36),
                      loopTime |-> Slice(b, at + 36, at + 40)]
    IN IF ~Fits(b, 0, 12) \/ \E i \in 1..n : ~good(start[i]) THEN Unknown
       ELSE Body("cues", [i \in 1..n |-> entry(start[i])])

\* Entries of the length they state, with a comment if that is over 43 and with
\* up to four bytes of colour if there is room behind the comment.
Cues2Body(b) ==
    LET n == U16(b, 4)
        start[i \in Nat] ==
          IF i = 1 THEN 8 ELSE start[i - 1] + U32(b, start[i - 1] + 8)
        length(at) == U32(b, at + 8)
        comment(at) == IF length(at) > 43 THEN U32(b, at + 40) ELSE 0
        colors(at) == LeastOf(4, MostOf(0, length(at) - comment(at) - 44))
        size(at) == IF length(at) > 43 THEN 44 + comment(at) + colors(at) ELSE 40
        good(at) == /\ Fits(b, at, 40) /\ Slice(b, at, at + 4) = Magic4.cue2
                    /\ length(at) > 43 => Fits(b, at, 44)
                    /\ Fits(b, at, size(at))
        entry(at) ==
          [hotCue |-> Slice(b, at + 12, at + 16), type |-> Byte(b, at + 16),
           time |-> Slice(b, at + 20, at + 24), loopTime |-> Slice(b, at + 24, at + 28),
           colorId |-> Byte(b, at + 28), numerator |-> U16(b, at + 36),
           denominator |-> U16(b, at + 38),
           comment |-> Slice(b, at + 44, at + 44 + comment(at)),
           colors |-> Slice(b, at + size(at) - colors(at), at + size(at))]
    IN IF ~Fits(b, 0, 8) \/ \E i \in 1..n : ~good(start[i]) THEN Unknown
       ELSE Body("cues2", [i \in 1..n |-> entry(start[i])])

\* The two bytes of the NUL at the end of a path are not read.
PathBody(b) ==
    LET n == MostOf(0, U32(b, 0) - 2)
    IN IF ~Fits(b, 0, 4) THEN Unknown
       ELSE IfFits(b, 4 + n, Body("path", Slice(b, 4, 4 + n)))
VbrBody(b) == IfFits(b, 1604, Body("index", SubSeq(b, 5, 1604)))

WavePreviewBody(b, lenHeader, lenTag) ==
    IF ~Fits(b, 0, 8) THEN Unknown
    ELSE IF lenTag <= lenHeader THEN Body("preview", <<>>)
    ELSE IfFits(b, 8 + U32(b, 0), Body("preview", Slice(b, 8, 8 + U32(b, 0))))
\* Mutant: as many entries as there are.
WaveBodyLenient(b, header) ==
    LET n == LeastOf(U32(b, 0) * U32(b, 4), Len(b) - header)
    IN IF ~Fits(b, 0, header) THEN Unknown
       ELSE Body("wave", Slice(b, header, header + n))
\* Entries of so many bytes each behind a header of so many bytes.
WaveBody(b, header) ==
    LET n == U32(b, 0) * U32(b, 4)
    IN IF ~Fits(b, 0, header) THEN Unknown
       ELSE IfFits(b, header + n, Body("wave", Slice(b, header, header + n)))

\* The song structure is masked with a key that depends on the phrase count.
MaskBase ==
    <<203, 225, 238, 250, 229, 238, 173, 238, 233, 210, 233, 235, 225, 233, 243, 232,
      233, 244, 225>>
Masked(bytes, n) ==
    [i \in 1 .. Len(bytes) |-> bytes[i] ^^ ((MaskBase[((i - 1) % 19) + 1] + n) % 256)]

SongStructureBody(b) ==
    LET n == U16(b, 4)
        body == Masked(SubSeq(b, 7, Len(b)), n)
        size == 9 + MostOf(0, U32(b, 0) - 9)
        phrase(at) == [number |-> Slice(body, at, at + 2), beat |-> Slice(body, at + 2, at + 4),
                       kind |-> Slice(body, at + 4, at + 6),
                       fill |-> Byte(body, at + size - 3),
                       fillBeat |-> Slice(body, at + size - 2, at + size)]
    IN IF ~Fits(b, 0, 6) THEN Unknown
       ELSE IfFits(b, 20 + n * size,
              Body("song", [mood |-> U16(body, 0), endBeat |-> Slice(body, 8, 10),
                            bank |-> Byte(body, 12),
                            phrases |-> [i \in 1..n |-> phrase(14 + (i - 1) * size)]]))

VocalConfigBody(b) == IfFits(b, 8, Body("vocal", SubSeq(b, 3, 8)))

ParseBody(tag, b, lenHeader, lenTag) ==
    CASE tag = "beatGrid" -> BeatGridBody(b)
      [] tag = "cues" -> CuesBody(b)
      [] tag = "cues2" -> Cues2Body(b)
      [] tag = "path" -> PathBody(b)
      [] tag = "vbr" -> VbrBody(b)
      [] tag \in {"wavePreview", "waveTiny"} -> WavePreviewBody(b, lenHeader, lenTag)
      [] tag \in {"waveScroll", "waveColorPreview", "waveColorScroll", "wave3BandDetail"} ->
           WaveBody(b, 12)
      [] tag = "wave3BandPreview" -> WaveBody(b, 8)
      [] tag = "songStructure" -> SongStructureBody(b)
      [] tag = "vocalConfig" -> VocalConfigBody(b)
      [] OTHER -> Unknown

-----------------------------------------------------------------------------
(* The file.                                                                *)

NoFile == [ok |-> FALSE]

\* The last section may be cut short: its body is what there is of it.
ParseAnlz(d) ==
    LET section(at) ==
          LET end == LeastOf(at + U32(d, at + 8), Len(d))
              tag == SectionTag(Slice(d, at, at + 4))
          IN [tag |-> tag, end |-> end,
              body |-> ParseBody(tag, Slice(d, at + 12, end),
                                 U32(d, at + 4), U32(d, at + 8))]
        sections[at \in Nat] ==
          IF ~Fits(d, at, 12) THEN <<>>
          ELSE IF U32(d, at + 8) < 12 THEN <<Unknown>>
          ELSE <<section(at)>> \o sections[section(at).end]
        all == sections[LeastOf(U32(d, 4), Len(d))]
    IN IF ~Fits(d, 0, 12) \/ Slice(d, 0, 4) # Magic4.file THEN NoFile
       ELSE IF all # <<>> /\ Last(all) = Unknown THEN NoFile
       ELSE [ok |-> TRUE, sections |-> all]

-----------------------------------------------------------------------------
(* What is made of the sections.                                            *)

MakeBeatGrid(beats) ==
    [i \in 1 .. Len(beats) |->
      [offset |-> beats[i].time, bpm |-> beats[i].tempo,
       count |-> LeastOf(beats[i].number, 255)]]

\* The status of an entry is not looked at.
MakeCueAndLoop(cues) ==
    FlattenSeq([i \in 1 .. Len(cues) |->
      MakeCueLoopEntry(cues[i].type = 1, cues[i].type = 2, cues[i].time,
                       cues[i].loopTime, HotcueButton(LeastOf(cues[i].hotCue, 255)))])

IfPositive(n, value) == IF n > 0 THEN Present(value) ELSE None
\* The comment without the NUL characters at its end.
Trimmed(text) ==
    LET ends == {0} \cup {k \in 1 .. Len(text) \div 2 : Slice(text, 2 * k - 2, 2 * k) # <<0, 0>>}
    IN SubSeq(text, 1, 2 * CHOOSE k \in ends : \A j \in ends : j <= k)
MakeExtendedCues(cues) ==
    [i \in 1 .. Len(cues) |->
      LET c == cues[i]
          text == Trimmed(c.comment)
          rgb == [k \in 1..3 |-> IF k < Len(c.colors) THEN c.colors[k + 1] ELSE 0]
      IN [hotCue |-> c.hotCue, type |-> c.type, time |-> c.time,
          loopTime |-> IF c.type = 2 THEN Present(c.loopTime) ELSE None,
          colorId |-> IfPositive(c.colorId, c.colorId),
          color |-> IF c.colors = <<>> THEN None
                    ELSE IfPositive(c.colors[1], <<c.colors[1]>> \o rgb),
          comment |-> IfPositive(Len(text), text),
          loopSize |-> IfPositive(c.numerator, <<c.numerator, c.denominator>>)]]

Mood(n) == CASE n = 2 -> "mid" [] n = 3 -> "low" [] OTHER -> "high"
Bank(n) == IF n \in 1..8 THEN n ELSE 0
MakeSongStructure(song) ==
    [mood |-> Mood(song.mood), bank |-> Bank(song.bank), endBeat |-> song.endBeat,
     phrases |-> [i \in 1 .. Len(song.phrases) |->
       LET p == song.phrases[i]
       IN [index |-> p.number, beat |-> p.beat, kind |-> p.kind,
           fill |-> IfPositive(p.fill, <<p.fill, p.fillBeat>>)]]]

Made(tag, data) ==
    CASE tag = "beatGrid" -> MakeBeatGrid(data)
      [] tag = "cues" -> MakeCueAndLoop(data)
      [] tag = "cues2" -> MakeExtendedCues(data)
      [] tag = "waveColorScroll" -> ConvertWaveformHd(data)
      [] tag = "songStructure" -> MakeSongStructure(data)
      [] OTHER -> data

\* Paths and VBR indices are not given.  Of two sections of a tag the last one
\* that parses is.
Given == Tags \ {"path", "vbr"}
ParseAnlzResponse(d) ==
    LET file == ParseAnlz(d)
        of(tag) == SelectSeq(file.sections, LAMBDA s : s.tag = tag /\ s.body # Unknown)
    IN IF ~file.ok THEN NoFile
       ELSE [ok |-> TRUE,
             given |-> [tag \in Given |->
               IF of(tag) = <<>> THEN None
               ELSE Present(Made(tag, Last(of(tag)).body.data))]]

Kinds == {"dat", "ext", "2ex"}
\* The file beside an analysis path that is read for a kind.
LoadAnlz(files, path, kind) ==
    LET file == [path |-> path, kind |-> kind]
    IN IF file \in DOMAIN files THEN ParseAnlzResponse(files[file]) ELSE NoFile
=============================================================================
