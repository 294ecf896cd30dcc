\* A session of qconf in which the file to load cannot be read.
CONSTANTS
    A = A
    B = B
    T = T
    C = C
    Y = Y
    M = M
    N = N
    Bools = {A, B, C}
    Tris = {T}
    Modules = FALSE
    SymOf <- MCSymOf
    Menus <- MCFollowed
    Orders <- MCOrders
    Followed <- MCFollowed
    small = small
    large = large
    FrontEnds = {"qconf"}
    Configs = {small, large}
    Names <- MCNames
    DotConfig <- Dot
    Old <- MCOld
    Typed <- MCTyped
    Opened <- MCOneFile
    Faults = 0
SPECIFICATION ProgramSpec
CHECK_DEADLOCK FALSE
INVARIANT AskedBeforeQuitting
