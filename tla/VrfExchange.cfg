CONSTANTS
    BITS = 3
    POLY = 41
    FRAME_DELIM = 7
    ESCAPE_BYTE = 6
    ESC_DELIM = 5
    ESC_ESCAPE = 4
    ADDR_SIZE = 1
    MAX_MASK = 3
    IFACE_NAME_SIZE = 2
    VRFS_NAME_SIZE = 1
    MaxRequests = 2
    SOCK_CAP = 48
    RECV_MAX = 16
    MaxTool = 1
    MaxFaults = 1
    Requests <- MCRequests
    ToolAdds <- MCToolAdds
    ToolDels <- MCToolDels
    ToolPayloads <- MCPayloads
    ToolReplaces <- MCReplaces
    InitialKernel <- MCKernel
    ErrorTexts <- MCErrorTexts
SPECIFICATION Spec
INVARIANTS NothingForeign PassMeansInstalled AnswerIsTrue CommandArrives WireSound
PROPERTIES AddsNeverReplace RequestEnds
CHECK_DEADLOCK FALSE
