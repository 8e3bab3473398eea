SPECIFICATION StatsSpec
CONSTANTS
    OiWindow = 2
    RetWindow = 2
    FlowWindow = 2
    OiDrop = 1
    RetEntry = 2
    RetReject = 5
    RetClamp = 25
    RetMin = 1
    OiClamp = 10
    FlowMin = 50
    MaxOi = 4
    MaxRet = 3
    PrintSizes = {1, 2}
    MaxInputs = 5
INVARIANT WindowsExact
CHECK_DEADLOCK FALSE
