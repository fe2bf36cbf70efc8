CONSTANTS
    GamepadId = {0, 1, 2, 3}
    QueueLen = 2
    Tracked = {"HandheldMount", "HandheldUnmount", "HandheldXferComplete", "GamepadConnected", "GamepadDisconnected"}
    LedQueueLen = 1
    MaxCount = 1
    MaxTx = 99
    Addr = {1}
    NoAddr = 255
    MaxTransferFailures = 2
    MaxAttach = 0
    Contention = FALSE
    Faults = TRUE
    XinputDevs = {x1, x2}
    HidDevs = {h1, h2}
    BtDevs = {b1}
    XinputSlots = 1
    HidSlots = 1
    MaxId = 3
    MaxPresses = 0
SYMMETRY InstanceSymmetry
SPECIFICATION DockSpec
INVARIANTS
    GamepadListAgrees
    NoLiveDisconnect
CHECK_DEADLOCK FALSE
