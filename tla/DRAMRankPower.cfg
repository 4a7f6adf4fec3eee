CONSTANTS
    numRanks = 1
    Banks = {b1, b2}
    b1 = b1
    b2 = b2
    tCK = 1
    tRP = 2
    tRCD = 1
    tRAS = 3
    tRTP = 1
    tWR = 1
    tCL = 1
    tBURST = 1
    tRFC = 3
    tREFI = 24
    tXP = 1
    tXS = 3
    Slack = {0}
    Bubbles = {0}
    bubbleLimit = 9
    bubbleCap = 8
    lookupBubble = 0
    pageMgmt = "adaptive"
    enableDRAMPowerdown = TRUE
    readBufferSize = 1
    writeBufferSize = 1
SPECIFICATION RunningSpec
INVARIANTS
    ScheduledOnce
    EventsCounted
    AssertsHold
SYMMETRY BankSymmetry
