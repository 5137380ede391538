SPECIFICATION Spec
CONSTANTS
    a = a
    b = b
    true = true
    num = num
    mars = mars
    quoted = quoted
    Vars = {a, b}
    Values = {true, num}
    BoolValues = {true}
    NoValue = NoValue
    Types = {"bool", "string"}
    NoType = NoType
    Texts = {Empty, mars, quoted}
    AppTexts = {Empty, mars, quoted}
    Empty = Empty
    JsonTexts = {quoted}
    Unquote <- MCUnquote
    PayloadCap = 3
    Legacy <- MCLegacy
    MaxEdits = 2
PROPERTY
    OlderNeverReplaces
