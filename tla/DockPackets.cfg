CONSTANTS
    GamepadId = {0, 1, 2}
    QueueLen = 2
    Tracked = {"HandheldMount", "HandheldUnmount", "HandheldXferComplete", "GamepadConnected", "GamepadDisconnected"}
    LedQueueLen = 1
    MaxCount = 1
    MaxTx = 99
    Addr = {1}
    NoAddr = 255
    MaxTransferFailures = 2
    MaxAttach = 1
    Contention = FALSE
    Faults = FALSE
    XinputDevs = {x1}
    HidDevs = {}
    BtDevs = {}
    XinputSlots = 1
    HidSlots = 1
    MaxId = 2
    MaxPresses = 0
SPECIFICATION DockSpec
INVARIANTS
    HandheldKnowsGamepads
    NoAdjacentData
CHECK_DEADLOCK FALSE
