CONSTANTS
    Images = 3
    Bufs = {b1, b2, b3, b4, b5}
    NoBuf = NoBuf
    MaxUevents = 2
    MaxFaults = 2
SPECIFICATION Spec
INVARIANTS
    NothingStaysBehind
    OffStaysQuiet
PROPERTIES
    PictureStays
    WorkerComesRound
