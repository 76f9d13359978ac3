\* Packets of three hosts to two peers; packets, frames, messages, replies and
\* analysis files cut at every byte, libraries of up to twenty rows in a table.
CONSTANTS
    MaxPages = 5
    Senders <- MCSenders
    Peers <- MCPeers
    Foreign <- MCForeign
    Frames <- MCFrames
    Arguments <- MCArguments
    Data <- MCData
    Requests <- MCRequests
    Answers <- MCAnswers
    AnlzFiles <- MCAnlzFiles
    Pdbs <- MCPdbs
    Libraries <- MCLibraries
SPECIFICATION Spec
INVARIANTS SentReadsBack NothingMisread NeverPastTheEnd RoundTrips CutIsRefused
    CutFilesKeepWhatIsWhole LibraryHoldsTheRows
CHECK_DEADLOCK FALSE
