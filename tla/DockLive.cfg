CONSTANTS
    GamepadId = {0, 1}
    QueueLen = 2
    Tracked = {"HandheldMount", "HandheldUnmount", "HandheldXferComplete", "GamepadConnected", "GamepadDisconnected"}
    LedQueueLen = 1
    MaxCount = 1
    MaxTx = 99
    Addr = {1}
    NoAddr = 255
    MaxTransferFailures = 2
    MaxAttach = 1
    Contention = FALSE
    Faults = FALSE
    XinputDevs = {}
    HidDevs = {h1}
    BtDevs = {}
    XinputSlots = 1
    HidSlots = 1
    MaxId = 1
    MaxPresses = 1
SPECIFICATION DockSpec
INVARIANTS
    AnswerComing
PROPERTIES
    DockingCompletes
CHECK_DEADLOCK FALSE
