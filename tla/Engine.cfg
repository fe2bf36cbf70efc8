CONSTANTS
    GamepadId = {g1, g2}
    QueueLen = 1
    Tracked = {}
    LedQueueLen = 1
    MaxCount = 1
    MaxTx = 1
SPECIFICATION EngineSpec
INVARIANTS
    EngineTypeOK
    HdmiTracksDock
    TxEmptyUndocked
    LedFollowsSessions
    NoLedUnderflow
    PairingScans
PROPERTIES
    UnmountTurnsHdmiOff
    EngineComesBack
