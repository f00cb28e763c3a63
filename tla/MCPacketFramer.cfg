CONSTANTS
    PktSize = 3
    SyncProbePackets = 2
    ChunkSize = 15
    MaxLen = 9
    TailLen = 9
    Streams <- MCStreams

SPECIFICATION FairSpec

INVARIANTS
    TypeOK
    PendingIsContiguous
    PendingFits
    CandidateAtFront
    InitialOffsetIsCandidate
    WholePacketsInOrder
    ChunkingDoesNotShow

PROPERTIES
    FramingEnds
    ImplementsFramedStream

CHECK_DEADLOCK FALSE
