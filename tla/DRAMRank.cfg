CONSTANTS
    numRanks = 2
    Banks = {1}
    tCK = 1
    tRP = 2
    tRCD = 1
    tRAS = 3
    tRTP = 1
    tWR = 1
    tCL = 1
    tBURST = 1
    tRFC = 4
    tREFI = 20
    tXP = 1
    tXS = 4
    Slack = {0}
    Bubbles = {0}
    bubbleLimit = 9
    bubbleCap = 8
    lookupBubble = 0
    pageMgmt = "adaptive"
    enableDRAMPowerdown = FALSE
    readBufferSize = 2
    writeBufferSize = 0
SPECIFICATION Spec
INVARIANTS
    AssertsHold
    RefreshRestarted
PROPERTIES
    CycleSpec
