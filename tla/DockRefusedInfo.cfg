CONSTANTS
    GamepadId = {0}
    QueueLen = 3
    Tracked = {"HandheldMount", "HandheldUnmount", "HandheldXferComplete", "GamepadConnected", "GamepadDisconnected"}
    LedQueueLen = 1
    MaxCount = 1
    MaxTx = 99
    Addr = {1}
    NoAddr = 255
    MaxTransferFailures = 2
    MaxAttach = 2
    Contention = FALSE
    Faults = FALSE
    XinputDevs = {}
    HidDevs = {}
    BtDevs = {}
    XinputSlots = 1
    HidSlots = 1
    MaxId = 0
    MaxPresses = 0
SPECIFICATION DockSpec
INVARIANTS
    AnswerComing
CHECK_DEADLOCK FALSE
