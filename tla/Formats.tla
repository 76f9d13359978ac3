------------------------------ MODULE Formats ------------------------------
(***************************************************************************)
(* Everything that reaches the crate from outside goes through a parser:   *)
(* packets, captured frames, messages of the remote database, replies of   *)
(* the NFS server, the files of a medium.  A behaviour is one input put    *)
(* through its parsers, whole or cut off at some byte, as a lost rest, a   *)
(* medium pulled out or a full buffer leave it.  The parsers themselves    *)
(* are functions, in PacketReaders, Messages, Xdr, Anlz, Pdb and Library;  *)
(* this module states what they promise together.                          *)
(***************************************************************************)
EXTENDS Wire, Library
LOCAL INSTANCE SequencesExt

Ms == INSTANCE Messages
Xd == INSTANCE Xdr
An == INSTANCE Anlz

CONSTANTS
    Arguments,  \* sequences of the fields of a message
    Data,       \* data of responses: [type, bytes]
    Requests,   \* RPC calls: [xid, request]
    Answers,    \* RPC replies: [kind, bytes, got]
    AnlzFiles,  \* analysis files: [tags, bytes]
    Pdbs,       \* pdb files, to be cut: [bytes, cuts]
    Libraries   \* pdb files: [bytes, tables], the rows of each table in order

-----------------------------------------------------------------------------
(* The inputs.                                                              *)

Message(args) == [transaction |-> <<0, 0, 1, 44>>, type |-> Ms!MenuItem, args |-> args]
Receive(args) ==
    LET bytes == Ms!MessageToBytes(Message(args))
    IN \E n \in 0 .. Len(bytes) :
         Consider([of |-> "message", args |-> args, whole |-> n = Len(bytes),
                   bytes |-> Cut(bytes, n)])
Respond(d) ==
    \E n \in 0 .. Len(d.bytes) :
        Consider([of |-> "data", type |-> d.type, bytes |-> Cut(d.bytes, n)])

Call(r) ==
    Consider([of |-> "request", call |-> r, bytes |-> Xd!EncodeRequest(r.xid, r.request)])
Answer(a) ==
    \E n \in 0 .. Len(a.bytes) :
        Consider([of |-> "answer", answer |-> a, whole |-> n = Len(a.bytes),
                  bytes |-> Cut(a.bytes, n)])

ReadAnlz(f) ==
    \E n \in 0 .. Len(f.bytes) :
        Consider([of |-> "anlz", file |-> f, whole |-> n = Len(f.bytes),
                  bytes |-> Cut(f.bytes, n)])
ReadPdb(f) == \E n \in f.cuts : Consider([of |-> "pdb", file |-> f, bytes |-> Cut(f.bytes, n)])
ReadLibrary(f) == Consider([of |-> "library", file |-> f, bytes |-> f.bytes])

Next ==
    \/ WireNext
    \/ \E args \in Arguments : Receive(args)
    \/ \E d \in Data : Respond(d)
    \/ \E r \in Requests : Call(r)
    \/ \E a \in Answers : Answer(a)
    \/ \E f \in AnlzFiles : ReadAnlz(f)
    \/ \E f \in Pdbs : ReadPdb(f)
    \/ \E f \in Libraries : ReadLibrary(f)

Spec == WireInit /\ [][Next]_case

-----------------------------------------------------------------------------
(* Messages and replies.                                                    *)

\* What is read of the arguments sent: a binary field behind a zero is empty.
ReadAs(args) ==
    [i \in 1 .. Len(args) |->
       IF i > 1 /\ args[i].type = Ms!Binary /\ args[i - 1] = Ms!Field(Ms!UInt32, Zeros(4))
       THEN Ms!Field(Ms!Binary, <<>>) ELSE args[i]]

\* A reply read by the decoder of the procedure that was called.
Decoded(kind, d) ==
    LET reply == Xd!DecodeReply(d)
    IN IF ~reply.ok THEN reply
       ELSE IF reply.is # "success" THEN [ok |-> TRUE, at |-> Len(d), got |-> <<reply.is>>]
       ELSE CASE kind = "mount" -> Xd!DecodeFhStatus(reply.data)
              [] kind = "exports" -> Xd!DecodeExportList(reply.data)
              [] kind = "lookup" -> Xd!DecodeDirectoryOpResponse(reply.data)
              [] kind = "read" -> Xd!DecodeReadResponse(reply.data)

\* A call as a server reads it: six numbers, two authentications, the rest.
AsCalled(d) ==
    LET numbers == Xd!TakeWords(Xd!At(0, <<>>), d, 6)
        auth == Xd!TakeVar(Xd!TakeWords(numbers, d, 1), d)
        verifier == Xd!TakeVar(Xd!TakeWords(auth, d, 1), d)
    IN verifier.got \o <<SubSeq(d, verifier.at + 1, Len(d))>>

(* A message of the remote database is read back as it was sent, to its     *)
(* last byte, and as no other type; a call has the fields a server looks    *)
(* for where it looks; a reply gives what the server put in.                *)
RoundTrips ==
    /\ WholeOf({"message"}) =>
         LET read == Ms!FromStream(case.bytes, Ms!MenuItem)
         IN /\ read.ok /\ read.at = Len(case.bytes)
            /\ read.message = [Message(case.args) EXCEPT !.args = ReadAs(case.args)]
            /\ ~Ms!FromStream(case.bytes, Ms!Success).ok
    /\ Of({"request"}) =>
         LET r == case.call.request
         IN /\ Len(case.bytes) % 4 = 0
            /\ AsCalled(case.bytes) =
                 <<case.call.xid, Word(0), r.rpcVersion, r.program, r.programVersion,
                   r.procedure, r.auth.flavor, r.auth.body, r.verifier.flavor,
                   r.verifier.body, r.data>>
    /\ WholeOf({"answer"}) =>
         LET a == case.answer
             read == Decoded(a.kind, case.bytes)
         IN read.ok /\ read.got = a.got

\* The fields of converted data, as byte strings.
CueFields(cue) == {cue.offset, cue.end, cue.button}
DataFields(type, data) ==
    CASE type = Ms!BeatGrid -> UNION {{b.offset, b.bpm, b.count} : b \in ToSet(data)}
      [] type = Ms!CueAndLoop -> UNION {CueFields(c) : c \in ToSet(data)}
      [] type = Ms!AdvCueAndLoops ->
           UNION {CueFields(c.cue)
                    \cup (IF c.more = <<>> THEN {} ELSE {c.more.label, c.more.color}) :
                  c \in ToSet(data)}
      [] type = Ms!WaveformHd -> UNION {{<<s.height>>, s.color} : s \in ToSet(data)}
      [] type \in {Ms!WaveformPreview, Ms!WaveformDetailed} -> ToSet(data)
      [] OTHER -> {data}

(* A message or a reply that is cut off is an error, never a shorter        *)
(* message: no truncated datagram ends a file early and no lost rest of a   *)
(* stream is taken for a whole answer; and where the data of a response     *)
(* end before the lengths in them say, no byte is read that is not there,   *)
(* which is a panic in the task of the caller.                              *)
CutIsRefused ==
    /\ Of({"message"}) /\ ~case.whole => ~Ms!FromStream(case.bytes, Ms!MenuItem).ok
    /\ Of({"answer"}) /\ ~case.whole => ~Decoded(case.answer.kind, case.bytes).ok
    /\ Of({"data"}) =>
         \A field \in DataFields(case.type, Ms!ConvertData(case.type, case.bytes)) :
           ~Broken(field)

-----------------------------------------------------------------------------
(* Files.                                                                   *)

\* The sections of a file that is cut off, against those of the whole file.
SectionsOf(read, whole) ==
    read.ok => /\ Len(read.sections) <= Len(whole.sections)
               /\ \A i \in 1 .. Len(read.sections) :
                    /\ read.sections[i].tag = whole.sections[i].tag
                    /\ read.sections[i].body \in {whole.sections[i].body, An!Unknown}
Understood(read, tags) ==
    /\ read.ok /\ tags = [i \in 1 .. Len(read.sections) |-> read.sections[i].tag]
    /\ \A i \in 1 .. Len(tags) : read.sections[i].body # An!Unknown
FirstRowsOf(rows, whole) == rows.ok => IsPrefix(rows.rows, whole.rows)
TablesOf(read, whole) ==
    read.ok => /\ read.tables = whole.tables
               /\ \A t \in ToSet(read.tables) :
                    FirstRowsOf(TableRows(read, t), TableRows(whole, t))

(* A file that is cut off (a medium pulled out while it was copied, a wrong *)
(* size in a directory) is refused or gives what is whole in it and nothing *)
(* else: a section of an analysis file is as in the whole file or unknown,  *)
(* a table of a pdb holds the first rows of the whole table.                *)
CutFilesKeepWhatIsWhole ==
    /\ Of({"anlz"}) => SectionsOf(An!ParseAnlz(case.bytes), An!ParseAnlz(case.file.bytes))
    /\ WholeOf({"anlz"}) => Understood(An!ParseAnlz(case.bytes), case.file.tags)
    /\ Of({"pdb"}) => TablesOf(ParsePdb(case.bytes), ParsePdb(case.file.bytes))

\* The last row of a table that has an id.
LastOf(rows, id) == LET of == SelectSeq(rows, LAMBDA r : r.id = id) IN of[Len(of)]
Ids(rows) == {r.id : r \in ToSet(rows)}
\* The rows a key finds: one or none.
Found(rows, key) == IF key \in Ids(rows) THEN {LastOf(rows, key).name} ELSE {}
Names(entities) == {e.name : e \in ToSet(entities)}

\* What a library holds, against the rows the file was made of.
HoldsNamed(read, of) ==
    \A t \in ById \ {"track"} :
       /\ DOMAIN read.tables[t] = Ids(of[t])
       /\ \A id \in Ids(of[t]) : read.tables[t][id].name = LastOf(of[t], id).name
TrackIs(track, row, of) ==
    /\ track.title = row.name
    /\ \A r \in DOMAIN track.keys : Names(track.keys[r]) = Found(of[TableOf(r)], row[r])
HoldsTracks(read, of) ==
    /\ DOMAIN read.tables["track"] = Ids(of.track)
    /\ \A id \in Ids(of.track) :
         TrackIs(FindTrackById(read.tables, id)[1], LastOf(of.track, id), of)
FolderIs(list, parent, of) ==
    LET here == {id \in Ids(of.playlist) : LastOf(of.playlist, id).parent = parent}
        listed == ToSet(list.folders \o list.playlists)
    IN /\ {p.id : p \in listed} = here
       /\ \A p \in listed : LastOf(of.playlist, p.id).folder <=> p \in ToSet(list.folders)
PlaylistIs(list, entries) ==
    /\ Len(list) = Len(entries)
    /\ {<<e.sortIndex, e.track>> : e \in ToSet(list)} = {<<e.index, e.track>> : e \in ToSet(entries)}
    /\ \A i \in 1 .. Len(list) - 1 : list[i].sortIndex <= list[i + 1].sortIndex
HoldsPlaylists(read, of) ==
    /\ \A parent \in {NoId} \cup Ids(of.playlist) :
         FolderIs(FindPlaylistById(read.tables, parent), parent, of)
    /\ \A id \in Ids(of.playlist) :
         PlaylistIs(FindPlaylistById(read.tables, id).trackEntries,
                    SelectSeq(of.playlistEntry, LAMBDA e : e.playlist = id))
IsLibrary(read, of) ==
    read.ok /\ HoldsNamed(read, of) /\ HoldsTracks(read, of) /\ HoldsPlaylists(read, of)

(* The library read from a pdb holds exactly the rows of the file that are  *)
(* not deleted, for tables of every type, through chains of pages, index    *)
(* groups, both row counts and all the forms of strings; a track is found   *)
(* with the artists, genre, album and so on its row refers to and with none *)
(* if that row is missing; a folder lists what is in it, and a playlist its *)
(* tracks in their order.                                                   *)
LibraryHoldsTheRows ==
    Of({"library"}) => IsLibrary(HydrateFromPdb(case.bytes), case.file.tables)
=============================================================================
