SPECIFICATION MemorySpec
CONSTANTS
    BufferLen = 18
    Sizes = {1, 2, 3}
    MaxVars = 2
    MaxStack = 4
    Indents = 4
    Bytes = {x, y}
    NUL = NUL
    Size = 3
    MaxBody = 4
    Remotes = {r1, r2, r3}
    NULL = NULL
    Filters = {f1, f2, f3}
    NoFilter = NoFilter
INVARIANTS
    EmitTypeOK
    SeparatorsRight
    OnlyLastCut
    SuccessIsComplete
    ClearedIsEmitted
    ReceiveTypeOK
    BodyAtFront
    OutcomeIsExact
    StrLenOfBody
    RegistryTypeOK
    ListIsOrder
    EndlessIfAgain
    ChainTypeOK
    ChainIsOrder
PROPERTIES
    InitReturns
\* The payload of a push ends: nothing follows its last emitter call.
CHECK_DEADLOCK FALSE
