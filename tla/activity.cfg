SPECIFICATION FairSpec
CONSTANTS
    a = a
    b = b
    c = c
    ab1 = ab1
    cb1 = cb1
    ab2 = ab2
    NoGame = NoGame
    Player = {a, b, c}
    Pairing = {ab1, cb1, ab2}
    White <- WhiteOf
    Black <- BlackOf
    RoundOf <- RoundNumber
    Rounds = 2
    Evaluator = {1}
    PauseAfter = 2
    Grace = 1
    MaxAttempts = 1
    MaxClock = 3
    MaxRetries = 1
    Startable = {cb1}
    Failable = {ab2}
INVARIANTS TypeOK 
PROPERTIES  ChallengesAreWithdrawn NothingWaitsForever
CHECK_DEADLOCK FALSE
