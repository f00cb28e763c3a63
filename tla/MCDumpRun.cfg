CONSTANTS
    PktSize = 2
    SyncProbePackets = 3
    ChunkSize = 8
    MaxLen = 7
    TailLen = 8
    Streams <- MCStreams
    MaxRecords = 1
    MaxSignals = 1

SPECIFICATION RunSpec

INVARIANTS
    ChunkingDoesNotShow
    ExitStatusTells
    HeldCaptionsComeOut

PROPERTIES
    ImplementsFramedStream
    LossEndsOutput
    RunEnds

CHECK_DEADLOCK FALSE
