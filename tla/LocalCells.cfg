SPECIFICATION LocalSpec
CONSTANTS
    ByteValues = 4
    LongSizes = {4, 8}
    CellTypes <- MCCellTypes
    AppNumbers <- MCAppNumbers
    SentNumbers <- MCSentNumbers
    StringMax = 3
    Strings <- MCStrings
    Behind <- MCBehind
    NameMax = 3
    NoteMax = 4
    Given <- MCGiven
    Answered <- MCAnswered
    Cap = 4
    Spellings <- MCSpellings
    MaxVars = 5
INVARIANTS
    TypeOK
    ReadsBack
    CleanAgrees
    TextsKeep
    SentIsText
    GotIsText
    StructPerName
