CONSTANTS
    A = A
    B = B
    S = S
    C = C
    P = P
    Q = Q
    D = D
    U = U
    V = V
    I = I
    K = K
    Y = Y
    M = M
    N = N
    NoSym = NoSym
    Bools = {A, B, C, D, P, Q, U, V, K}
    Tris = {S}
    Ints = {I}
    ChoiceSyms = {C, D}
    Optional = {D}
    Numbers = {0, 1, 2, 3}
    MaxEdits = 1
    Named <- MCNamed
    Order <- MCOrder
    Prompt <- MCPrompt
    RevDep <- MCRevDep
    Defaults <- MCDefaults
    Ranges <- MCRanges
    ChoiceOf <- MCChoiceOf
    Files <- MCFiles
SPECIFICATION Spec
INVARIANTS
    ValuesAllowed
    BuildSeesConfig
    SavedIsKept
    MinimalIsEnough
    SetTakesEffect
