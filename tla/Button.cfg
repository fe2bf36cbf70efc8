CONSTANTS
    Debounce = 2
    Short = 3
    Long = 6
    Wrap = 11
    CmdQueueLen = 8
    EdgesPerTick = 2
    MaxLag = 1
SPECIFICATION ButtonSpec
INVARIANTS
    NoIsrPanic
    SettledAgrees
PROPERTIES
    ShortIsBrief
    LongNeedsHold
    LongComes
    ReportsOfPresses
