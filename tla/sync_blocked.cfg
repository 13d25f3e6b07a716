SPECIFICATION FairSpec
CONSTANTS
    a = a
    b = b
    ab = ab
    ab2 = ab2
    g = g
    rematch = rematch
    job = job
    cli = cli
    rebuilder = rebuilder
    NoGame = NoGame
    Player = {a, b}
    Pairing = {ab}
    Game = {g, rematch}
    White <- WhiteOf
    Black <- BlackOf
    Fits <- FitsOf
    Syncer = {job}
    MaxFailures = 1
    Failable = {}
    Creatable <- CreatedGames
    Rebuilder = {}
PROPERTIES
    ResultsCount
CHECK_DEADLOCK FALSE
