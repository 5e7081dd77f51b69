SPECIFICATION Spec
CONSTANTS
    a = a
    b = b
    c = c
    Letters = {a, b}
    Hidden = Hidden
    Words <- WordsAaa
    WordList <- ListAaa
    AliasLetters = {}
    BaseErrors = 1
    ShortLen = 4
    MediumLen = 5
    PLIDs = {1, 2}
    NoGame = NoGame
    Sequential = FALSE
    WithHint <- WordsAaa
    ScoreboardMaxItems = 2
    MaxTime = 1
    MaxTrial = 4
    MinWordSize = 3
    MaxWordSize = 3
    MaxDigit = 9
VIEW filesView
INVARIANTS
    TypeOK
    ScoreboardRanks
    WinHasScore
