----------------------------- MODULE MCFormats -----------------------------
(***************************************************************************)
(* Inputs for Formats: the writers of the other side (players, mixers, a   *)
(* network card, the NFS server, rekordbox), as the tests of the parsers   *)
(* lay their packets and files out, and small sets of what they write.     *)
(***************************************************************************)
EXTENDS Formats
LOCAL INSTANCE SequencesExt

\* Each of these bytes tells its place.
Counting(n, from) == [i \in 1..n |-> from + i]
\* A byte string with some bytes at their offsets, the rest 0.
At(n, bytes) == [i \in 1..n |-> IF i - 1 \in DOMAIN bytes THEN bytes[i - 1] ELSE 0]

-----------------------------------------------------------------------------
(* Packets.                                                                 *)

Name20 == [i \in 1..20 |-> 64 + i]
Device(id, type, name) ==
    [id |-> id, type |-> type, mac |-> Counting(6, 160), ip |-> <<10, 0, 0, id>>,
     name |-> name]
MCSenders == {Device(2, Cdj, <<86>>), Device(5, Cdj, Name20),
            Device(154, Stagehand, <<83, 72>>)}
MCPeers == {Device(1, Cdj, <<67>>), Device(33, Mixer, <<77>>)}

\* A packet of n bytes of a type, with some bytes set.
Foreigner(n, type, bytes) ==
    Magic \o <<type>> \o SubSeq(At(n, bytes), 12, n)
MCForeign ==
    LET packet(port, as, n, type, bytes) ==
          [port |-> port, as |-> as, bytes |-> Foreigner(n, type, bytes)]
        fourChannels == 33 :> 33 @@ 35 :> 9 @@ 36 :> 1
        sixChannels == 32 :> 3 @@ 33 :> 33 @@ 35 :> 17 @@ 47 :> 1
    IN {packet("status", "status", 284, 10,
               (32 :> 3 @@ 33 :> 2 @@ 35 :> 248 @@ 123 :> 3 @@ 200 :> 1)),
        packet("status", "mixerState", 266, 57, (36 :> 1 @@ 180 :> 128)),
        packet("beat", "position", 60, 11, (33 :> 2 @@ 35 :> 24 @@ 38 :> 1)),
        packet("beat", "beat", 96, 40, (33 :> 2 @@ 35 :> 60 @@ 38 :> 1)),
        packet("beat", "vu", 584, 88, (44 :> 1)),
        packet("beat", "vu", 584, 88, (34 :> 2 @@ 44 :> 1))}
         \cup {packet("status", "mediaSlot", n, 6,
                      (32 :> 1 @@ 35 :> 156 @@ 39 :> 2 @@ 43 :> 3 @@ 45 :> 65)) :
                 n \in {192, 203, 204}}
         \cup {packet("status", "onAir", n, 3, fourChannels) : n \in {46, 203, 204}}
         \cup {packet("status", "onAir", n, 3, sixChannels) : n \in {54, 203, 204}}

MCFrames ==
    [payload : {<<>>, <<7>>, Magic}, tag : {<<>>, <<129, 0, 0, 5>>},
     options : {<<>>, Zeros(4)}, padding : {<<>>, Zeros(9)},
     sender : {<<10, 0, 0, 2>>}, receiver : {<<10, 0, 0, 255>>}, port : {Half(50002)}]

-----------------------------------------------------------------------------
(* Messages and replies.                                                    *)

Fields ==
    {Ms!Field(Ms!UInt32, Word(0)), Ms!Field(Ms!UInt32, Word(300)),
     Ms!Field(Ms!String16, <<>>), Ms!Field(Ms!String16, <<0, 65>>),
     Ms!Field(Ms!Binary, <<>>), Ms!Field(Ms!Binary, <<17, 0>>)}
MCArguments ==
    {<<>>} \cup UNION {[1..n -> Fields] : n \in 1..2}
      \cup {<<Ms!Field(Ms!UInt32, Word(0)), b>> \o <<f>> :
              b \in {Ms!Field(Ms!Binary, <<1>>), Ms!Field(Ms!Binary, <<>>)}, f \in Fields}

\* An entry of the newer cue lists: it states its length and that of its label.
AdvEntry(stated, size, label) ==
    At(size, (0 :> stated @@ 4 :> 1 @@ 6 :> 2 @@ 72 :> label))
MCData ==
    {[type |-> type, bytes |-> [i \in 1..60 |-> i * 4]] :
        type \in {Ms!Artwork, Ms!BeatGrid, Ms!WaveformPreview, Ms!WaveformDetailed,
                  Ms!WaveformHd}}
      \cup {[type |-> Ms!CueAndLoop, bytes |-> [i \in 1..72 |-> i % 5]]}
      \cup {[type |-> Ms!AdvCueAndLoops,
             bytes |-> AdvEntry(first, first, label) \o AdvEntry(80, 80, 2)] :
              first \in {4, 19, 20, 73, 74, 78, 84}, label \in {0, 1, 2, 6, 200}}

Auth(flavor, body) == [flavor |-> Word(flavor), body |-> body]
Unix(name, gids) ==
    Auth(1, Xd!UnixAuth([stamp |-> Word(7), name |-> name, uid |-> Word(0),
                         gid |-> Word(0), gids |-> gids]))
Handle == Counting(32, 100)
MCRequests ==
    {[xid |-> Word(n),
      request |-> [rpcVersion |-> Word(2), program |-> Word(100003),
                   programVersion |-> Word(2), procedure |-> Word(6),
                   auth |-> auth, verifier |-> Auth(0, <<>>), data |-> data]] :
        n \in {1, 70000}, auth \in {Auth(0, <<>>), Unix(<<>>, <<>>), Unix(<<65, 66, 67>>, <<Word(1)>>)},
        data \in {<<>>, Xd!EncodeMountRequest(<<47, 0, 67, 0, 47, 0>>),
                  Xd!GetPort(Word(100005), Word(1), Word(17), Word(0)),
                  Xd!EncodeDirectoryOpArgs(Handle, <<80, 0>>),
                  Xd!EncodeReadArgs(Handle, Word(8192), Word(8192), Word(0))}}

Accepted == <<1, 2, 3, 4>> \o Word(1) \o Word(0) \o Word(0) \o Word(0) \o Word(0)
Attributes == [i \in 1 .. Xd!AttributeCount |-> Word(i)]
Export(name, groups) ==
    Word(1) \o Xd!OpaqueVar(name)
      \o FlattenSeq([i \in 1 .. Len(groups) |-> Word(1) \o Xd!OpaqueVar(groups[i])])
      \o Word(0)
MCAnswers ==
    LET answer(kind, data, got) ==
          [kind |-> kind, bytes |-> Accepted \o data, got |-> got]
        failed(status) ==
          [kind |-> "mount", got |-> <<"failed">>,
           bytes |-> SubSeq(Accepted, 1, 20) \o Word(status)
                       \o IF status = 2 THEN Word(2) \o Word(3) ELSE <<>>]
        attributes == FlattenSeq(Attributes)
    IN {failed(status) : status \in {1, 2, 5}}
         \cup {answer(kind, Word(2), <<>>) : kind \in {"mount", "lookup", "read"}}
         \cup {answer("mount", Word(0) \o Handle, <<Handle>>),
               answer("lookup", Word(0) \o Handle \o attributes, <<Handle>> \o Attributes),
               answer("exports", Word(0), <<>>),
               answer("exports",
                      Export(<<47, 0>>, <<<<103>>>>) \o Export(<<66, 0, 47, 0, 65>>, <<>>) \o Word(0),
                      <<[filesystem |-> <<47, 0>>, groups |-> <<<<103>>>>],
                        [filesystem |-> <<66, 0, 47, 0, 65>>, groups |-> <<>>]>>)}
         \cup {answer("read", Word(0) \o attributes \o Xd!OpaqueVar(Counting(n, 0)),
                      Attributes \o <<Counting(n, 0)>>) : n \in 0..5}

-----------------------------------------------------------------------------
(* Analysis files: a header of 28 bytes and sections.                       *)

Section(tag, header, body) ==
    An!TagBytes[tag] \o Word(header) \o Word(12 + Len(body)) \o body
Beats(n) ==
    Zeros(8) \o Word(n)
      \o FlattenSeq([i \in 1..n |-> Half(i) \o Half(12800) \o Word(100 * i)])
CueList(n) ==
    Word(1) \o Zeros(2) \o Half(n) \o Word(0)
      \o FlattenSeq([i \in 1..n |->
           An!Magic4.cue \o Word(28) \o Word(56) \o Word(i - 1) \o Word(4) \o Zeros(8)
             \o <<1, 0, 0, 0>> \o Word(500 * i) \o Word(0) \o Zeros(16)])
\* With a comment and a colour, with neither, and without the room for them.
Cue2(length, comment, rest) ==
    An!Magic4.cue2 \o Word(16) \o Word(length) \o Word(1) \o <<2, 0, 0, 0>> \o Word(500)
      \o Word(900) \o Zeros(8) \o Half(4) \o Half(1)
      \o (IF length > 43 THEN Word(Len(comment)) \o comment \o rest ELSE <<>>)
Cues2 ==
    Word(1) \o Half(3) \o Zeros(2) \o Cue2(52, <<0, 65, 0, 0>>, <<9, 1, 2, 3>>)
      \o Cue2(40, <<>>, <<>>) \o Cue2(44, <<>>, <<>>)
Wave(n, width) == Word(width) \o Word(n) \o Word(0) \o Counting(n * width, 0)
Wave3(n) == Word(3) \o Word(n) \o Counting(n * 3, 0)
Song(n) ==
    Word(24) \o Half(n)
      \o An!Masked(Half(2) \o Zeros(6) \o Half(64) \o Zeros(2) \o <<3, 0>>
                     \o FlattenSeq([i \in 1..n |-> Half(i) \o Half(8 * i) \o Half(2) \o Zeros(15)
                                                     \o <<i - 1>> \o Half(30)]), n)
Bodies ==
    [beatGrid |-> {Beats(0), Beats(2)}, cues |-> {CueList(0), CueList(2)}, cues2 |-> {Cues2},
     path |-> {Word(6) \o <<0, 47, 0, 80, 0, 0>>},
     vbr |-> {Zeros(4) \o [i \in 1..1600 |-> i % 251]},
     wavePreview |-> {Word(4) \o Zeros(4) \o Counting(4, 0)},
     waveTiny |-> {Word(3) \o Zeros(4) \o Counting(3, 0)},
     waveScroll |-> {Wave(4, 1)}, waveColorPreview |-> {Wave(2, 6)},
     waveColorScroll |-> {Wave(3, 2)}, wave3BandDetail |-> {Wave(2, 3)},
     wave3BandPreview |-> {Wave3(2)}, songStructure |-> {Song(2)},
     vocalConfig |-> {Zeros(2) \o Counting(6, 0)}]
AnlzFile(sections) ==
    LET bytes == FlattenSeq([i \in 1 .. Len(sections) |->
                               Section(sections[i].tag, 16, sections[i].body)])
    IN [tags |-> [i \in 1 .. Len(sections) |-> sections[i].tag],
        bytes |-> An!Magic4.file \o Word(28) \o Word(28 + Len(bytes)) \o Zeros(16) \o bytes]
Tagged == UNION {{[tag |-> t, body |-> b] : b \in Bodies[t]} : t \in DOMAIN Bodies}
MCAnlzFiles ==
    {AnlzFile(<<s, [tag |-> "wavePreview", body |-> CHOOSE b \in Bodies["wavePreview"] : TRUE]>>) :
        s \in Tagged}

-----------------------------------------------------------------------------
(* Files of the library: pages of 256 bytes.                                *)

PageSize == 256
Text(form, text) ==
    CASE form = "short" -> <<2 * (Len(text) + 1) + 1>> \o text
      [] form = "ascii" -> <<64>> \o Halfle(Len(text)) \o text
      [] form = "utf16" -> <<144>> \o Halfle(2 * Len(text) + 4) \o <<0>>
                             \o FlattenSeq([i \in 1 .. Len(text) |-> Halfle(text[i])])

RowBytes(type, r, form) ==
    CASE type \in {"genre", "label", "artwork"} -> Wordle(r.id) \o Text(form, r.name)
      [] type = "key" -> Wordle(r.id) \o Wordle(r.id) \o Text(form, r.name)
      [] type = "color" -> At(8, (5 :> r.id)) \o Text(form, r.name)
      [] type = "album" -> At(22, (12 :> r.id @@ 21 :> 22)) \o Text(form, r.name)
      [] type = "artist" ->
           Halfle(96) \o Zeros(2) \o Wordle(r.id) \o <<3, 10>> \o Text(form, r.name)
      [] type = "playlist" ->
           Wordle(r.parent) \o Zeros(8) \o Wordle(r.id)
             \o Wordle(IF r.folder THEN 1 ELSE 0) \o Text(form, r.name)
      [] type = "playlistEntry" -> Wordle(r.index) \o Wordle(r.track) \o Wordle(r.playlist)
      [] type = "track" ->
           At(94, (12 :> r.composer @@ 28 :> r.artwork @@ 32 :> r.key
                     @@ 36 :> r.originalArtist @@ 40 :> r.label @@ 44 :> r.remixer
                     @@ 60 :> r.genre @@ 64 :> r.album @@ 68 :> r.artist
                     @@ 72 :> r.id @@ 88 :> r.color))
             \o FlattenSeq([i \in 1..21 |-> Halfle(IF i = 18 THEN 137 ELSE 136)])
             \o Text("short", <<>>) \o Text(form, r.name)

\* The index of a page, from its last group to its first; within a group from
\* the last row to the first, then the presence bits.  The small row count of a
\* page stands for up to sixteen rows here (255 in a file), the large one for more.
Group(offsets, present, first) ==
    FlattenSeq([i \in 1..16 |->
        LET row == first + 16 - i
        IN Halfle(IF row <= Len(offsets) THEN offsets[row] ELSE 0)])
      \o Halfle(FoldLeft(LAMBDA bits, i :
                  bits + IF first + i - 1 <= Len(present) /\ present[first + i - 1]
                         THEN 2 ^ (i - 1) ELSE 0, 0, [i \in 1..16 |-> i]))
      \o Zeros(2)
DataPage(type, rows, form, next) ==
    LET bytes == [i \in 1 .. Len(rows) |-> RowBytes(type, rows[i], form)]
        offsets == [i \in 1 .. Len(rows) |->
                      FoldLeft(LAMBDA n, j : n + Len(bytes[j]), 0, [j \in 1 .. i - 1 |-> j])]
        present == [i \in 1 .. Len(rows) |-> rows[i].present]
        groups == (Len(rows) + 15) \div 16
        index == FlattenSeq([g \in 1..groups |-> Group(offsets, present, 16 * (groups - g) + 1)])
        heap == FlattenSeq(bytes)
        large == IF groups > 1 THEN Len(rows) ELSE 8191
        head == At(40, (12 :> next @@ 24 :> (IF groups > 1 THEN 16 ELSE Len(rows)) @@ 27 :> 36
                          @@ 34 :> large % 256 @@ 35 :> large \div 256))
    IN head \o heap \o Zeros(PageSize - 40 - Len(heap) - Len(index)) \o index
\* The first page of a table holds no rows.
FirstPage(next) == At(PageSize, (12 :> next @@ 24 :> 1 @@ 27 :> 100))

TypeNumber ==
    [track |-> 0, genre |-> 1, artist |-> 2, album |-> 3, label |-> 4, key |-> 5, color |-> 6,
     playlist |-> 7, playlistEntry |-> 8, artwork |-> 13]

\* A file of tables, each a sequence of pages of rows; the chain of a table
\* ends at a page behind its last one, or at that one again.
PdbFile(tables, form, circular) ==
    LET before(i) == FoldLeft(LAMBDA n, j : n + 1 + Len(tables[j].pages), 1,
                              [j \in 1 .. i - 1 |-> j])
        last(i) == before(i) + Len(tables[i].pages)
        entry(i) == Wordle(TypeNumber[tables[i].type]) \o Zeros(4) \o Wordle(before(i))
                      \o Wordle(last(i))
        next(i, p) == IF p = Len(tables[i].pages)
                      THEN IF circular THEN last(i) ELSE last(i) + 1
                      ELSE before(i) + p + 1
        pages(i) == FirstPage(next(i, 0))
                      \o FlattenSeq([p \in 1 .. Len(tables[i].pages) |->
                           DataPage(tables[i].type, tables[i].pages[p], form, next(i, p))])
        listed == FlattenSeq([i \in 1 .. Len(tables) |-> entry(i)])
        present(rows) == SelectSeq(rows, LAMBDA r : r.present)
        of(type) == FlattenSeq([i \in 1 .. Len(tables) |->
                      IF tables[i].type = type THEN present(FlattenSeq(tables[i].pages))
                      ELSE <<>>])
    IN [bytes |-> Zeros(4) \o Wordle(PageSize) \o Wordle(Len(tables)) \o Zeros(16) \o listed
                    \o Zeros(PageSize - 28 - Len(listed))
                    \o FlattenSeq([i \in 1 .. Len(tables) |-> pages(i)]),
        tables |-> [t \in DOMAIN TypeNumber |-> of(t)]]

Table(type, pages) == [type |-> type, pages |-> pages]
Genre(id, present) == [id |-> id, name |-> <<64 + id>>, present |-> present]
Genres(n, Present(_)) == [i \in 1..n |-> Genre(i, Present(i))]
GenreFiles ==
    UNION {{PdbFile(<<Table("genre", pages)>>, form, circular) :
              pages \in {<<rows>>, <<rows, <<Genre(40, TRUE), Genre(2, TRUE)>>>>, <<<<>>, rows>>}} :
           form \in {"short", "ascii", "utf16"}, circular \in BOOLEAN,
           rows \in {Genres(n, LAMBDA i : TRUE) : n \in {0, 1, 15}}
                      \cup {Genres(n, LAMBDA i : i % 3 # 0) : n \in {3, 16}}}
LongGenreFiles ==
    {PdbFile(<<Table("genre", <<Genres(n, LAMBDA i : i # deleted)>>)>>, "short", FALSE) :
        n \in {17, 20}, deleted \in {1, 4, 17, 18}}

\* Tables of every type: two tracks, which may refer to rows that are not there, a
\* folder with a playlist in it and one beside it, and three entries in some order.
MusicFile(genre, order, artistPresent) ==
    LET named(id, present) == [id |-> id, name |-> <<96 + id>>, present |-> present]
        track(id, g, a) ==
          [id |-> id, name |-> <<80 + id>>, present |-> TRUE, genre |-> g, artist |-> a,
           originalArtist |-> a, remixer |-> 0, composer |-> 9, album |-> id, label |-> 2,
           color |-> id, key |-> g, artwork |-> 3]
        playlist(id, parent, folder) ==
          [id |-> id, name |-> <<70 + id>>, parent |-> parent, folder |-> folder,
           present |-> TRUE]
        entry(index, t, p) == [index |-> index, track |-> t, playlist |-> p, present |-> TRUE]
    IN PdbFile(<<Table("track", <<<<track(1, genre, 1)>>, <<track(2, 1, 0)>>>>),
                 Table("genre", <<<<named(1, TRUE), named(2, TRUE)>>>>),
                 Table("artist", <<<<named(1, artistPresent)>>>>),
                 Table("album", <<<<named(1, TRUE)>>>>), Table("label", <<<<named(2, TRUE)>>>>),
                 Table("key", <<<<named(2, TRUE), named(9, artistPresent)>>>>),
                 Table("color", <<<<named(1, TRUE), named(2, TRUE)>>>>),
                 Table("artwork", <<<<named(3, TRUE)>>>>),
                 Table("playlist", <<<<playlist(5, 4, FALSE), playlist(4, 0, TRUE),
                                       playlist(3, 0, FALSE)>>>>),
                 Table("playlistEntry",
                       <<<<entry(order[1], 1, 5), entry(order[2], 2, 5)>>,
                         <<entry(1, 2, 3), entry(order[3], 1, 5)>>>>)>>, "short", FALSE)
MCLibraries ==
    GenreFiles \cup LongGenreFiles
      \cup {MusicFile(g, order, present) :
              g \in {0, 1, 2, 9}, order \in {<<1, 2, 3>>, <<3, 1, 2>>, <<2, 3, 1>>},
              present \in BOOLEAN}

\* Cut in the header, and around the pages and the rows of the last one.
MCPdbs ==
    {[bytes |-> f.bytes,
      cuts |-> (0..50) \cup {PageSize * p + d : p \in 1 .. Len(f.bytes) \div PageSize - 1,
                                                d \in {0, 1, 12, 41, 255}}
                 \cup {Len(f.bytes)}] :
       f \in {MusicFile(1, <<1, 2, 3>>, TRUE),
              PdbFile(<<Table("genre", <<Genres(3, LAMBDA i : TRUE), Genres(2, LAMBDA i : TRUE)>>)>>,
                      "short", TRUE)}}
=============================================================================
