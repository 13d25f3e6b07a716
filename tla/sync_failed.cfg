SPECIFICATION Spec
CONSTANTS
    a = a
    b = b
    ab = ab
    ab2 = ab2
    g = g
    rematch = rematch
    job = job
    cli = cli
    rebuilder = rebuilder
    NoGame = NoGame
    Player = {a, b}
    Pairing = {ab}
    Game = {g}
    White <- WhiteOf
    Black <- BlackOf
    Fits <- FitsOf
    Syncer = {job}
    MaxFailures = 0
    Failable = {ab}
    Creatable = {}
    Rebuilder = {}
PROPERTIES
    MarkFailedWins
CHECK_DEADLOCK FALSE
