CONSTANTS
    Modulus = 3
    MaxSaneDelta = 1
    ConfirmCount = 2
    TicksPerMs = 1
    Pids <- MCPids
    NullPid = NullPid
    UnixTimes <- MCUnixTimes
    None = None
    PatPid = PatPid
    eit_pid = eit_pid
    pmt = pmt
    one_seg_pmt = one_seg_pmt
    es1 = es1
    es2 = es2
    video = video
    ReservedSectionPids <- MCReservedSectionPids
    PmtPids <- MCPmtPids
    OneSegPmtPids <- MCOneSegPmtPids
    EsPids <- MCEsPids
    StreamMaps <- MCStreamMaps
    Eits <- MCEits
    PesContents <- MCPesContents
    Ptss <- MCPtss
    EmitEmptyCaptions = FALSE
    EitOutput = {"kPresent"}
    MaxChanges = 5

SPECIFICATION CSpec

INVARIANT NothingToWaitFor

PROPERTY Converges
