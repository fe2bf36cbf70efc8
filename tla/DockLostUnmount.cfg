CONSTANTS
    GamepadId = {0, 1}
    QueueLen = 3
    Tracked = {"HandheldMount", "HandheldUnmount", "HandheldXferComplete", "GamepadConnected", "GamepadDisconnected"}
    LedQueueLen = 1
    MaxCount = 1
    MaxTx = 99
    Addr = {1}
    NoAddr = 255
    MaxTransferFailures = 2
    MaxAttach = 2
    Contention = FALSE
    Faults = TRUE
    XinputDevs = {x1}
    HidDevs = {}
    BtDevs = {}
    XinputSlots = 1
    HidSlots = 1
    MaxId = 1
    MaxPresses = 0
SPECIFICATION DockSpec
INVARIANTS
    NoUnexpectedMount
CHECK_DEADLOCK FALSE
