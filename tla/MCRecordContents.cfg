CONSTANTS
    None = None
    Null = Null
    red = red
    jpn = jpn
    Ptss <- MCPtss
    MaxPieces = 5
    MaxDescriptors = 4
    Colors <- MCColors
    MaxRegions = 3
    MaxChars = 4
    Captions <- MCCaptions
    Diagnostics <- MCDiagnostics
    Events <- MCEvents
    UnixEpoch = 24
    MaxUint32 = 3
    MaxRecords = 2

SPECIFICATION MCSpec

INVARIANTS
    PtsIsReadBack
    EventIsAsMeant
    MetadataIsOfCaption
    LinesTellRecordsApart
    TimesAreAsBroadcast

CHECK_DEADLOCK FALSE
