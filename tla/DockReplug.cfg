CONSTANTS
    GamepadId = {0, 1}
    QueueLen = 2
    Tracked = {"HandheldMount", "HandheldUnmount", "HandheldXferComplete", "GamepadConnected", "GamepadDisconnected"}
    LedQueueLen = 1
    MaxCount = 1
    MaxTx = 99
    Addr = {1}
    NoAddr = 255
    MaxTransferFailures = 2
    MaxAttach = 2
    Contention = TRUE
    Faults = TRUE
    XinputDevs = {}
    HidDevs = {h1}
    BtDevs = {}
    XinputSlots = 1
    HidSlots = 1
    MaxId = 1
    MaxPresses = 0
SPECIFICATION DockSpec
INVARIANTS
    DockTypeOK
    EngineWillKnow
    UnexpectedMountAfterLoss
    ActiveMeansDocked
    BusyMeansInFlight
    ConfigHasDevice
PROPERTIES
    EngineOpen
CHECK_DEADLOCK FALSE
