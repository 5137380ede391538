SPECIFICATION FairSpec
CONSTANTS
    a = a
    b = b
    true = true
    num = num
    mars = mars
    quoted = quoted
    Vars = {b}
    Values = {true, num}
    BoolValues = {true}
    NoValue = NoValue
    Types = {"string"}
    NoType = NoType
    Texts = {Empty, quoted, mars}
    AppTexts = {quoted}
    Empty = Empty
    JsonTexts = {quoted}
    Unquote <- MCUnquote
    PayloadCap = 9
    Legacy <- MCLegacyB
    MaxEdits = 2
PROPERTY
    Converges
