CONSTANTS
    A = A
    B = B
    T = T
    C = C
    Y = Y
    M = M
    N = N
    Bools = {A, B, C}
    Tris = {T}
    Modules = FALSE
    SymOf <- MCSymOf
    Menus <- MCMenus
    Orders <- MCOrders
    Followed <- MCFollowed
    small = small
    large = large
    FrontEnds = {"mconf", "nconf", "gconf", "qconf"}
    Configs = {small, large}
    Names <- MCNames
    DotConfig <- Dot
    Old <- MCOld
    Typed <- MCTyped
    Opened <- MCOpened
    Faults = 1
SPECIFICATION ProgramSpec
CHECK_DEADLOCK FALSE
INVARIANTS
    MenusAreRight
    PreviousSurvives
