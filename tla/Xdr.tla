--------------------------------- MODULE Xdr ---------------------------------
(***************************************************************************)
(* The calls and replies of the NFS client as bytes (nfs/xdr.rs): ONC RPC, *)
(* the port mapper, mount and NFS version 2.  Rpc and Nfs model when they  *)
(* are sent.  A number keeps its four bytes unless it is a length, a       *)
(* status or a flag.                                                       *)
(***************************************************************************)
EXTENDS Bytes
LOCAL INSTANCE SequencesExt

Padding(n) == (4 - (n % 4)) % 4

OpaqueFixed(data) == data \o Zeros(Padding(Len(data)))
OpaqueVar(data) == Word(Len(data)) \o OpaqueFixed(data)

-----------------------------------------------------------------------------
(* Reading: the values read so far and the offset of the next byte.         *)

NoReply == [ok |-> FALSE]
At(at, got) == [ok |-> TRUE, at |-> at, got |-> got]

\* Mutant: the padding is not waited for.
TakeUnpadded(r, d, n) ==
    IF ~r.ok \/ ~Fits(d, r.at, n) THEN NoReply
    ELSE At(LeastOf(r.at + n + Padding(n), Len(d)),
            Append(r.got, Slice(d, r.at, r.at + n)))

\* n bytes and, of opaque data, their padding.
TakeFixed(r, d, n) ==
    IF ~r.ok \/ ~Fits(d, r.at, n + Padding(n)) THEN NoReply
    ELSE At(r.at + n + Padding(n), Append(r.got, Slice(d, r.at, r.at + n)))
TakeVar(r, d) ==
    IF ~r.ok \/ ~Fits(d, r.at, 4) THEN NoReply
    ELSE TakeFixed(At(r.at + 4, r.got), d, U32(d, r.at))
\* The number just read.
Read(r) == U32(r.got[Len(r.got)], 0)
\* n numbers.
TakeWords(r, d, n) ==
    FoldLeft(LAMBDA s, i : TakeFixed(s, d, 4), r, [i \in 1..n |-> i])

-----------------------------------------------------------------------------
(* ONC RPC.                                                                 *)

UnixAuth(a) ==
    a.stamp \o OpaqueVar(a.name) \o a.uid \o a.gid \o Word(Len(a.gids))
      \o FlattenSeq(a.gids)
EncodeAuth(auth) == auth.flavor \o OpaqueVar(auth.body)

EncodeRequest(xid, request) ==
    xid \o Word(0) \o request.rpcVersion \o request.program \o request.programVersion
      \o request.procedure \o EncodeAuth(request.auth) \o EncodeAuth(request.verifier)
      \o request.data

\* Accepted with a result, accepted but failed, or denied.
DecodeReply(d) ==
    LET head == TakeWords(At(0, <<>>), d, 2)
        stat == TakeWords(head, d, 1)
        status == TakeWords(TakeVar(TakeWords(stat, d, 1), d), d, 1)
        mismatch == TakeWords(status, d, 2)
        reply(is, data) == [ok |-> TRUE, xid |-> head.got[1], is |-> is, data |-> data]
    IN IF ~head.ok \/ Read(head) # 1 \/ ~stat.ok THEN NoReply
       ELSE IF Read(stat) # 0 THEN reply("denied", <<>>)
       ELSE IF ~status.ok THEN NoReply
       ELSE CASE Read(status) = 0 ->
                   reply("success", SubSeq(d, status.at + 1, Len(d)))
              [] Read(status) = 2 ->
                   IF mismatch.ok THEN reply("failed", Slice(d, status.at - 4, mismatch.at))
                   ELSE NoReply
              [] OTHER -> reply("failed", Slice(d, status.at - 4, status.at))

-----------------------------------------------------------------------------
(* The port mapper and mount.  A file name is UTF-16, least significant     *)
(* byte first; so is the name of an exported file system.                   *)

GetPort(program, version, protocol, port) == program \o version \o protocol \o port
EncodeMountRequest(filesystem) == OpaqueVar(filesystem)

FileHandleSize == 32

\* Entries and the groups of each, every one behind a flag, until one is 0.
DecodeExportList(d) ==
    LET groups[at \in Nat] ==
          LET flag == TakeWords(At(at, <<>>), d, 1)
              group == TakeVar(At(at + 4, <<>>), d)
              rest == groups[group.at]
          IN IF ~flag.ok THEN NoReply
             ELSE IF Read(flag) = 0 THEN At(flag.at, <<>>)
             ELSE IF ~group.ok \/ ~rest.ok THEN NoReply
             ELSE At(rest.at, group.got \o rest.got)
        entries[at \in Nat] ==
          LET flag == TakeWords(At(at, <<>>), d, 1)
              filesystem == TakeVar(At(at + 4, <<>>), d)
              group == groups[filesystem.at]
              rest == entries[group.at]
          IN IF ~flag.ok THEN NoReply
             ELSE IF Read(flag) = 0 THEN At(flag.at, <<>>)
             ELSE IF ~filesystem.ok \/ ~group.ok \/ ~rest.ok THEN NoReply
             ELSE At(rest.at,
                     <<[filesystem |-> filesystem.got[1], groups |-> group.got]>>
                       \o rest.got)
    IN entries[0]

\* A status, then values read by Then if it is 0: refused or these values.
Refused == [ok |-> TRUE, at |-> 4, got |-> <<>>]
IfGranted(d, Then(_)) ==
    LET status == TakeWords(At(0, <<>>), d, 1)
    IN IF ~status.ok THEN NoReply
       ELSE IF Read(status) # 0 THEN Refused
       ELSE Then(At(4, <<>>))

DecodeFhStatus(d) == IfGranted(d, LAMBDA r : TakeFixed(r, d, FileHandleSize))

-----------------------------------------------------------------------------
(* NFS.  File attributes are 17 numbers, the sixth is the size.             *)

AttributeCount == 17
TakeAttributes(r, d) == TakeWords(r, d, AttributeCount)

EncodeDirectoryOpArgs(handle, filename) == OpaqueFixed(handle) \o OpaqueVar(filename)
DecodeDirectoryOpResponse(d) ==
    IfGranted(d, LAMBDA r : TakeAttributes(TakeFixed(r, d, FileHandleSize), d))

EncodeReadArgs(handle, offset, count, total) ==
    OpaqueFixed(handle) \o offset \o count \o total
DecodeReadResponse(d) ==
    IfGranted(d, LAMBDA r : TakeVar(TakeAttributes(r, d), d))
=============================================================================
