SPECIFICATION FairSpec
CONSTANTS
    a = a
    b = b
    c = c
    ab = ab
    ca = ca
    NoGame = NoGame
    Player = {a, b, c}
    Pairing = {ab, ca}
    White <- WhiteOf
    Black <- BlackOf
    Tokens <- OneStranger
    Fickle = {b}
    MaxAttempts = 2
    MaxSubmissions = 2
    MaxRetries = 1
    Failable = {ab}
    ByHand = {}
    Searched = {ca}
    Doomed = FALSE
INVARIANTS
    ChallengesExplained
PROPERTIES
    CreationSettles
    WorkingTokensKept
    
CHECK_DEADLOCK FALSE
