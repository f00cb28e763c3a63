CONSTANTS
    Modulus = 3
    MaxSaneDelta = 1
    ConfirmCount = 2
    TicksPerMs = 1
    Pids <- MCPids
    NullPid = NullPid
    UnixTimes <- MCUnixTimes
    None = None
    pat = pat
    pmt = pmt
    one_seg_pmt = one_seg_pmt
    es1 = es1
    es2 = es2
    pcr = pcr
    ReservedSectionPids <- MCReservedSectionPids
    PmtPids <- MCPmtPids
    OneSegPmtPids <- MCOneSegPmtPids
    EsPids <- MCEsPids
    StreamMaps <- MCStreamMaps
    Eits <- MCEits
    PesContents <- Contents
    Ptss <- MCPtss
    EmitEmptyCaptions = TRUE
    EitOutput = {"kPresent"}

SPECIFICATION Spec

VIEW View

INVARIANTS
    TypeOK
    DemuxersAgree
    EmittersFollowPmt
    PesReachesItsEmitter
    ReferenceIsCurrent
    TimesAreCurrent
    PesRecordsInOrder

PROPERTIES
    DecodersSurvive

CHECK_DEADLOCK FALSE
