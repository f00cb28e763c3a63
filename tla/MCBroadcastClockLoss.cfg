CONSTANTS
    Modulus = 64
    MaxSaneDelta = 3
    ConfirmCount = 2
    TicksPerMs = 2
    Pids <- MCPids
    NullPid = NullPid
    UnixTimes <- MCUnixTimes
    None = None
    p1 = p1
    PcrPid = p1
    PcrInterval = 2
    Jumps <- MCJumps
    MaxSplices = 2
    MaxLost = 1
    EndTime = 10
    Lead = 2

SPECIFICATION BSpec

INVARIANT AnchorWithinPcrInterval

CHECK_DEADLOCK FALSE
