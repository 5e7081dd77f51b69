SPECIFICATION Spec
CONSTANTS
    PLIDs = {p1}
    Server = Server
    Sessions = {s1}
    Scoreboard = Scoreboard
    NoFile = NoFile
    Empty = Empty
    Closed = Closed
    Unlinked = Unlinked
    NoGame = NoGame
    MaxGames = 2
    MaxTrials = 1
    MaxScore = 1
    MaxTime = 0
    MaxCrashes = 0
INVARIANTS
    EmptyOnlyBeforeFirstWin
