CONSTANTS
    Modulus = 8
    MaxSaneDelta = 2
    ConfirmCount = 2
    TicksPerMs = 2
    Pids <- MCPids
    NullPid = NullPid
    UnixTimes <- MCUnixTimes
    None = None
    p1 = p1
    p2 = p2

SPECIFICATION Spec

INVARIANTS
    TypeOK
    ReferenceIsCurrent
    MembersAgree

PROPERTIES
    LossIsReported
