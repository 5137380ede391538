SPECIFICATION DocsSpec
CONSTANTS
    NumTokens = 26
    Words <- MCWords
    PtrBytes = 8
    Numbers <- MCNumbers
    AfterTrue <- MCAfterTrue
    Stray <- MCStray
    StartLists <- MCStartLists
    Docs <- MCDocs
    Tails <- MCTails
    Commas <- MCCommas
    Noise <- MCNoise
    NoDoc = NoDoc
INVARIANTS
    TypeOK
    TokensNest
    SizesAddUp
    TokensList
    Aligned
    NeverStuck
    SuccessTakesAll
PROPERTIES
    ErrorSticks
    ParsesAsAbstract
    WalkEnds
CHECK_DEADLOCK FALSE
