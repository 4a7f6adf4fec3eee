CONSTANTS
    numRanks = 1
    Banks = {1}
    tCK = 1
    tRP = 1
    tRCD = 1
    tRAS = 1
    tRTP = 2
    tWR = 1
    tCL = 1
    tBURST = 1
    tRFC = 7
    tREFI = 156
    tXP = 1
    tXS = 4
    Slack = {0, 1}
    Bubbles = {0, 2, 165}
    bubbleLimit = 156
    bubbleCap = 140
    lookupBubble = 2
    pageMgmt = "adaptive"
    enableDRAMPowerdown = FALSE
    readBufferSize = 2
    writeBufferSize = 0
SPECIFICATION RunningSpec
INVARIANTS
    AssertsHold
    RefreshInTime
