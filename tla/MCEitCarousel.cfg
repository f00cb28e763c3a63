CONSTANTS
    Modulus = 3
    MaxSaneDelta = 1
    ConfirmCount = 2
    TicksPerMs = 1
    Pids <- MCPids
    NullPid = NullPid
    UnixTimes <- MCUnixTimes
    None = None
    pat = pat
    eit_pid = eit_pid
    eit_3_pid = eit_3_pid
    pmt = pmt
    es = es
    video = video
    ReservedSectionPids <- MCReservedSectionPids
    PmtPids <- MCPmtPids
    OneSegPmtPids <- MCNone
    EsPids <- MCEsPids
    StreamMaps <- MCNone
    Eits <- MCEits
    PesContents <- MCNone
    Ptss <- MCNone
    EmitEmptyCaptions = FALSE
    EitOutput = {"kPresent", "kFollowing"}
    EitPids <- MCEitPids
    Versions = 4
    MaxUnseen = 3
    MaxSerial = 14
    Tables <- MCTables

SPECIFICATION ESpec

INVARIANTS
    EitSectionsAreRight
    LatestIsShown

PROPERTY EitConverges
