SPECIFICATION SessionSpec
CONSTANTS
    a = a
    b = b
    c = c
    Letters = {a, b, c}
    Hidden = Hidden
    Words <- WordsAba
    WordList <- ListAba
    AliasLetters = {}
    BaseErrors = 1
    ShortLen = 4
    MediumLen = 5
    PLIDs = {1}
    NoGame = NoGame
    Sequential = TRUE
    WithHint = {}
    ScoreboardMaxItems = 1
    MaxTime = 0
    MaxTrial = 4
    MinWordSize = 3
    MaxWordSize = 3
    MaxDigit = 9
    Me = 1
    Networks = {"lossy"}
    UIntMax = 9
VIEW sessionView
PROPERTIES
    InvalidBringsSync
