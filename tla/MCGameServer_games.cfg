SPECIFICATION Spec
CONSTANTS
    a = a
    b = b
    c = c
    Letters = {a, b, c}
    Hidden = Hidden
    Words <- WordsMixed
    WordList <- ListMixed
    AliasLetters = {a}
    BaseErrors = 0
    ShortLen = 3
    MediumLen = 5
    PLIDs = {1}
    NoGame = NoGame
    Sequential = TRUE
    WithHint <- HintMixed
    ScoreboardMaxItems = 2
    MaxTime = 0
    MaxTrial = 5
    MinWordSize = 2
    MaxWordSize = 3
    MaxDigit = 9
VIEW exchangeView
INVARIANTS
    CountersAgree
    OngoingIsOpen
    NoGuessTwice
    FinishedIsDecided
    TrialsFitProtocol
    RepliesUnderstood
PROPERTIES
    GamesOnlyGrow
    ImplementsHangman
    RetransmissionHarmless
    RetransmissionRepeatsReply
