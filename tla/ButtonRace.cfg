CONSTANTS
    Debounce = 1
    Short = 2
    Long = 3
    Wrap = 7
    CmdQueueLen = 8
    EdgesPerTick = 2
    MaxLag = 0
SPECIFICATION ButtonSpec
PROPERTIES
    LongIsPressed
