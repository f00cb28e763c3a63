CONSTANTS
    PktSize = 3
    SyncProbePackets = 2
    ChunkSize = 15
    MaxLen = 5
    TailLen = 9
    Streams <- MCStreams

SPECIFICATION Spec

INVARIANT EofLeavesNoWholePacket

CHECK_DEADLOCK FALSE
