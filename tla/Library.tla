------------------------------- MODULE Library -------------------------------
(***************************************************************************)
(* The library of a medium with a pdb file: the rows are copied into       *)
(* tables in memory (rekordbox/hydrator.rs, entity_creators.rs,            *)
(* table_mappings.rs) which tracks and playlists are looked up in          *)
(* (localdb/orm.rs).                                                       *)
(***************************************************************************)
EXTENDS Pdb
LOCAL INSTANCE SequencesExt
LOCAL INSTANCE TLC

\* The table in memory that a table of the file is copied into.
PdbTable(type) ==
    CASE type = "tracks" -> "track"
      [] type = "artists" -> "artist"
      [] type = "genres" -> "genre"
      [] type = "albums" -> "album"
      [] type = "labels" -> "label"
      [] type = "colors" -> "color"
      [] type = "keys" -> "key"
      [] type = "artwork" -> "artwork"
      [] type = "playlistTree" -> "playlist"
      [] type = "playlistEntries" -> "playlistEntry"
      [] OTHER -> "none"

-----------------------------------------------------------------------------
(* Entities.                                                                *)

\* No value, as an id of 0 is.
NoId == 0

Utf8Length(text) ==
    FoldLeft(LAMBDA n, c : n + (IF c < 128 THEN 1 ELSE IF c < 2048 THEN 2 ELSE 3), 0, text)
\* The text without its last four bytes of UTF-8.  A character that straddles
\* them is a panic.
WithoutExtension(text) ==
    LET cuts == {k \in 0 .. Len(text) : Utf8Length(SubSeq(text, k + 1, Len(text))) = 4}
    IN IF Utf8Length(text) <= 4 THEN <<>>
       ELSE IF cuts = {} THEN <<Panic>>
       ELSE SubSeq(text, 1, CHOOSE k \in cuts : TRUE)
On == <<79, 78>>
CreateTrack(row) ==
    [id |-> row.id, title |-> row.strings[17], comment |-> row.strings[16],
     mixName |-> row.strings[12], releaseDate |-> row.strings[11],
     dateAdded |-> row.strings[10], analyzeDate |-> row.strings[15],
     autoloadHotcues |-> row.strings[7] = On, kuvoPublic |-> row.strings[6] = On,
     fileName |-> row.strings[19], filePath |-> row.strings[20],
     rating |-> row.rating, numbers |-> row.numbers,
     analyzePath |-> WithoutExtension(row.strings[14]),
     keys |-> [artwork |-> row.artwork, artist |-> row.artist,
               originalArtist |-> row.originalArtist, remixer |-> row.remixer,
               composer |-> row.composer, album |-> row.album, label |-> row.label,
               genre |-> row.genre, color |-> row.color, key |-> row.key]]

\* An entry has no id of its own: its place in its playlist is the id as well.
CreateEntity(table, row) ==
    CASE table = "track" -> CreateTrack(row)
      [] table = "playlist" ->
           [id |-> row.id, name |-> row.name, folder |-> row.folder, parent |-> row.parent]
      [] table = "playlistEntry" ->
           [id |-> row.index, sortIndex |-> row.index, playlist |-> row.playlist,
            track |-> row.track]
      [] OTHER -> [id |-> row.id, name |-> row.name]

-----------------------------------------------------------------------------
(* The tables in memory.                                                    *)

ById == {"track", "artist", "genre", "album", "label", "color", "key", "artwork", "playlist"}
NoTables == [playlistEntry |-> <<>>] @@ [t \in ById |-> <<>>]

\* A later row of an id replaces an earlier one; entries of playlists are kept.
Inserted(tables, table, e) ==
    IF table \in ById THEN [tables EXCEPT ![table] = (e.id :> e) @@ @]
    ELSE [tables EXCEPT ![table] = Append(@, e)]
Insert(tables, table, row) == Inserted(tables, table, CreateEntity(table, row))

\* Table by table; a table that cannot be read ends it with an error.
Copy(result, name, read) ==
    IF ~result.ok \/ name = "none" THEN result
    ELSE IF ~read.ok THEN NoRead
    ELSE [ok |-> TRUE,
          tables |-> FoldLeft(LAMBDA t, r : Insert(t, name, r), result.tables, read.rows)]
Hydrated(pdb) ==
    IF ~pdb.ok THEN NoRead
    ELSE FoldLeft(LAMBDA result, t : Copy(result, PdbTable(t.type), TableRows(pdb, t)),
                  [ok |-> TRUE, tables |-> NoTables], pdb.tables)
HydrateFromPdb(d) == Hydrated(ParsePdb(d))

\* The entity a key of a track refers to, in a table that may not hold it.
Resolve(tables, table, key) ==
    IF key # NoId /\ key \in DOMAIN tables[table] THEN <<tables[table][key]>> ELSE <<>>
TableOf(relation) ==
    IF relation \in {"originalArtist", "remixer", "composer"} THEN "artist" ELSE relation

FindTrackById(tables, id) ==
    IF id \notin DOMAIN tables["track"] THEN <<>>
    ELSE LET track == tables["track"][id]
         IN <<[track EXCEPT !.keys = [r \in DOMAIN track.keys |->
                 Resolve(tables, TableOf(r), track.keys[r])]]>>

\* The folders and playlists in a folder (NoId is the root) by id, and the
\* entries of a playlist by their place.
FindPlaylistById(tables, id) ==
    LET ids == {p \in DOMAIN tables["playlist"] : tables["playlist"][p].parent = id}
        children == SortSeq(SetToSeq(ids), <)
        of(folder) == SelectSeq([i \in 1 .. Len(children) |-> tables["playlist"][children[i]]],
                                LAMBDA p : p.folder = folder)
        entries == SelectSeq(tables["playlistEntry"], LAMBDA e : e.playlist = id)
    IN [folders |-> of(TRUE), playlists |-> of(FALSE),
        trackEntries |-> IF id = NoId THEN <<>>
                         ELSE SortSeq(entries, LAMBDA a, b : a.sortIndex < b.sortIndex)]
=============================================================================
