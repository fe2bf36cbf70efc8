CONSTANTS
    a = a
    b = b
    Capacity = 2
    Records <- MCRecords
    Loggers = {r1, r2}
    Printers = {c1}
    CdcRoom = 1
    Settle = 0
    Nobody = Nobody
    Usbd = Usbd
    Nul = Nul
SPECIFICATION LogSpec
PROPERTIES
    LoggingReturns
    RingIsFifo
