SPECIFICATION Spec
CONSTANTS
    a = a
    b = b
    c = c
    Letters = {a, b, c}
    Hidden = Hidden
    Words <- WordsAba
    WordList <- ListAba
    AliasLetters = {a}
    BaseErrors = 1
    ShortLen = 4
    MediumLen = 5
    PLIDs = {1}
    NoGame = NoGame
    Sequential = TRUE
    WithHint <- HintMixed
    ScoreboardMaxItems = 2
    MaxTime = 0
    MaxTrial = 5
    MinWordSize = 3
    MaxWordSize = 3
    MaxDigit = 9
VIEW exchangeView
PROPERTIES
    RetransmissionAnswered
