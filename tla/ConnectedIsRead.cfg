SPECIFICATION DocsSpec
CONSTANTS
    NumTokens = 26
    Words <- MCWords
    PtrBytes = 8
    Numbers <- MCNumbers
    AfterTrue <- MCAfterTrue
    Stray <- MCStray
    StartLists <- MCStartLists
    Docs <- MCDocs
    Tails <- MCTails
    Commas <- MCCommas
    Noise <- MCNoise
    NoDoc = NoDoc
INVARIANT ConnectedIsRead
CHECK_DEADLOCK FALSE
