SPECIFICATION SettlesSpec
CONSTANTS
    a = a
    b = b
    None = None
    Asked = Asked
    Client = Client
    NoSize = NoSize
    Owners = {a, b}
    MaxGen = 2
    MaxEvents = 2
    MaxNews = 1
    Wins = {a, b}
    Strikes = 1
    MaxMoves = 1
    MaxKills = 1
    MaxDeaths = 2
    MaxPhases = 2
    MaxAttempts = 2
    MaxMarks = 2
    Panes = {a, b}
    Sizes = {1, 2}
    MaxFrames = 2
    MaxBytes = 3
    MaxTotal = 4
    MaxRouted = 3
    MaxEntries = 2
CHECK_DEADLOCK FALSE
INVARIANTS TypeOK OneHome FramesKept StrikesHold LauncherEnds
PROPERTIES ExpiresOwn AttachedOwnerKept  Ends
