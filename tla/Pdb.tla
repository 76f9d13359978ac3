--------------------------------- MODULE Pdb ---------------------------------
(***************************************************************************)
(* The database file rekordbox writes to a medium                          *)
(* (localdb/rekordbox/pdb.rs): pages of one size, the first of which lists *)
(* the tables, each a chain of pages whose rows are found through an index *)
(* that grows down from the end of the page.  Numbers have their least     *)
(* significant byte first.                                                 *)
(***************************************************************************)
EXTENDS Bytes
LOCAL INSTANCE SequencesExt

CONSTANT
    MaxPages    \* pages of a table that are visited before the chain is taken
                \* for a loop (1,000,000 in the code)
ASSUME MaxPagesAssumption == MaxPages \in Nat \ {0}

PageTypes ==
    <<"tracks", "genres", "artists", "albums", "labels", "keys", "colors",
      "playlistTree", "playlistEntries">>
PageType(n) ==
    CASE n + 1 \in 1 .. Len(PageTypes) -> PageTypes[n + 1]
      [] n = 13 -> "artwork"
      [] OTHER -> "other"

\* What a read past the end of the file or of a page gives.
NoRead == [ok |-> FALSE]

-----------------------------------------------------------------------------
(* Strings, as characters.                                                  *)

\* A byte over 127 is not a character of its own.
Ascii(bytes) == [i \in 1 .. Len(bytes) |-> IF bytes[i] > 127 THEN 65533 ELSE bytes[i]]
Utf16(bytes) == [i \in 1 .. Len(bytes) \div 2 |-> U16le(bytes, 2 * (i - 1))]

\* The text of the bytes of a string, if they are there.
TextOf(d, from, n, wide) ==
    IF ~Fits(d, from, n) THEN NoRead
    ELSE [ok |-> TRUE,
          text |-> IF wide THEN Utf16(Slice(d, from, from + n)) ELSE Ascii(Slice(d, from, from + n))]
DeviceSqlString(d, at) ==
    LET kind == Byte(d, at)
        long == U16le(d, at + 1)
    IN IF ~Fits(d, at, IF kind \in {64, 144} THEN 3 ELSE 1) THEN NoRead
       ELSE IF kind = 64 THEN TextOf(d, at + 3, long, FALSE)
       ELSE IF kind = 144 THEN TextOf(d, at + 4, MostOf(0, long - 4), TRUE)
       ELSE IF kind % 2 = 1 THEN TextOf(d, at + 1, MostOf(0, (kind - 1) \div 2 - 1), FALSE)
       ELSE [ok |-> TRUE, text |-> <<>>]

-----------------------------------------------------------------------------
(* Rows.                                                                    *)

\* Where the id and the name of a row with little else are, from its start.
NameAt(d, base, type) ==
    CASE type = "albums" -> Byte(d, base + 21)
      [] type = "artists" ->
           IF U16le(d, base) = 100 THEN U16le(d, base + 10) ELSE Byte(d, base + 9)
      [] type \in {"artwork", "genres", "labels"} -> 4
      [] type \in {"colors", "keys"} -> 8
      [] type = "playlistTree" -> 20
IdAt(type) ==
    CASE type = "albums" -> 12
      [] type = "artists" -> 4
      [] type = "colors" -> 5
      [] type = "playlistTree" -> 12
      [] OTHER -> 0
\* Bytes of a row that are read before its strings.
HeadSize(d, base, type) ==
    CASE type = "albums" -> 22
      [] type = "artists" -> IF U16le(d, base) = 100 THEN 12 ELSE 10
      [] type = "colors" -> 7
      [] type = "playlistTree" -> 20
      [] type = "playlistEntries" -> 12
      [] type = "tracks" -> 136
      [] OTHER -> 4

TrackStrings(d, base) ==
    [i \in 1..21 |-> DeviceSqlString(d, base + U16le(d, base + 92 + 2 * i))]
TrackRow(d, base, strings) ==
    LET number(at) == U32le(d, base + at)
    IN IF \E i \in DOMAIN strings : ~strings[i].ok THEN NoRead
       ELSE [ok |-> TRUE, id |-> number(72),
             composer |-> number(12), artwork |-> number(28), key |-> number(32),
             originalArtist |-> number(36), label |-> number(40), remixer |-> number(44),
             genre |-> number(60), album |-> number(64), artist |-> number(68),
             color |-> Byte(d, base + 88), rating |-> Byte(d, base + 89),
             numbers |-> Slice(d, base + 48, base + 60) \o Slice(d, base + 76, base + 86),
             strings |-> [i \in 0..20 |-> strings[i + 1].text]]

NamedRow(d, base, type, id, name) ==
    IF ~name.ok THEN NoRead
    ELSE IF type = "playlistTree" THEN
         [ok |-> TRUE, id |-> id, name |-> name.text, parent |-> U32le(d, base),
          folder |-> U32le(d, base + 16) # 0]
    ELSE [ok |-> TRUE, id |-> id, name |-> name.text]

ParseRow(d, base, type) ==
    IF ~Fits(d, base, HeadSize(d, base, type)) THEN NoRead
    ELSE CASE type = "tracks" -> TrackRow(d, base, TrackStrings(d, base))
           [] type = "playlistEntries" ->
                [ok |-> TRUE, index |-> U32le(d, base), track |-> U32le(d, base + 4),
                 playlist |-> U32le(d, base + 8)]
           [] OTHER ->
                NamedRow(d, base, type,
                         IF type = "colors" THEN U16le(d, base + 5) ELSE U32le(d, base + IdAt(type)),
                         DeviceSqlString(d, base + NameAt(d, base, type)))

-----------------------------------------------------------------------------
(* Pages.                                                                   *)

HeapPos == 40
GroupSize == 36

IsDataPage(page) == (Byte(page, 27) \div 64) % 2 = 0
NumRows(page) ==
    LET small == Byte(page, 24)
        large == U16le(page, 34)
    IN IF large > small /\ large # 8191 THEN large ELSE small

\* The row a slot of the index points at; none if its presence bit is not set.
\* A slot below the start of the page cannot be read.
IsPresent(page, slot) ==
    LET base == Len(page) - (slot \div 16) * GroupSize
    IN (U16le(page, base - 4) \div 2 ^ (slot % 16)) % 2 = 1
RowBase(page, slot) ==
    LET base == Len(page) - (slot \div 16) * GroupSize
    IN HeapPos + U16le(page, base - (6 + 2 * (slot % 16)))
\* Mutant: the presence bits are those of the first group.
SlotOfFirstGroup(page, slot) ==
    IF IsPresent(page, slot % 16) THEN "present" ELSE "absent"

Slot(page, slot) ==
    LET base == Len(page) - (slot \div 16) * GroupSize
    IN IF base < 0 \/ (base >= 4 /\ IsPresent(page, slot) /\ base < 6 + 2 * (slot % 16))
       THEN "unreadable"
       ELSE IF base < 4 THEN "past"
       ELSE IF IsPresent(page, slot) THEN "present" ELSE "absent"
\* Every row that is present and can be parsed, up to a slot past the page.
RowsAt(page, type, slots) ==
    LET past == SelectInSeq(slots, LAMBDA s : s \in {"past", "unreadable"})
        present == SelectSeq([i \in 1 .. (IF past = 0 THEN Len(slots) ELSE past - 1) |-> i - 1],
                             LAMBDA s : slots[s + 1] = "present")
        rows == [i \in 1 .. Len(present) |-> ParseRow(page, RowBase(page, present[i]), type)]
    IN IF past # 0 /\ slots[past] = "unreadable" THEN NoRead
       ELSE [ok |-> TRUE, rows |-> SelectSeq(rows, LAMBDA r : r.ok)]
PageRows(page, type) ==
    RowsAt(page, type, [i \in 1 .. NumRows(page) |-> Slot(page, i - 1)])

-----------------------------------------------------------------------------
(* Tables.                                                                  *)

\* Tables are listed from offset 28 on, 16 bytes each.
ParsePdb(d) ==
    LET n == U32le(d, 8)
        table(at) == [type |-> PageType(U32le(d, at)), first |-> U32le(d, at + 8),
                      last |-> U32le(d, at + 12)]
    IN IF ~Fits(d, 0, 24) \/ U32le(d, 4) = 0 \/ ~Fits(d, 28, 16 * n) THEN NoRead
       ELSE [ok |-> TRUE, data |-> d, lenPage |-> U32le(d, 4),
             tables |-> [i \in 1..n |-> table(12 + 16 * i)]]

HasPage(pdb, index) == Fits(pdb.data, index * pdb.lenPage, pdb.lenPage)
Page(pdb, index) == Slice(pdb.data, index * pdb.lenPage, (index + 1) * pdb.lenPage)

\* The chain ends behind the last page of the table, at a page that is its own
\* next one, or where the file ends.  Only the first page must be there.
Chained(here, ends, rest) ==
    IF ~here.ok THEN NoRead
    ELSE IF ends THEN here
    ELSE IF ~rest.ok THEN NoRead
    ELSE [ok |-> TRUE, rows |-> here.rows \o rest.rows]
TableRows(pdb, table) ==
    LET walk[index \in Nat, visited \in Nat] ==
          LET page == Page(pdb, index)
              next == U32le(page, 12)
          IN IF pdb.lenPage < 36 THEN NoRead
             ELSE Chained(IF IsDataPage(page) THEN PageRows(page, table.type)
                          ELSE [ok |-> TRUE, rows |-> <<>>],
                          \/ next > table.last \/ next = index
                          \/ visited + 1 > MaxPages \/ ~HasPage(pdb, next),
                          walk[next, visited + 1])
    IN IF HasPage(pdb, table.first) THEN walk[table.first, 0] ELSE NoRead
=============================================================================
