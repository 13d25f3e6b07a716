SPECIFICATION Spec
CONSTANTS
    a = a
    b = b
    c = c
    ab = ab
    ca = ca
    NoGame = NoGame
    Player = {a, b, c}
    Pairing = {ab, ca}
    White <- WhiteOf
    Black <- BlackOf
    Tokens <- AllGood
    Fickle = {}
    MaxAttempts = 2
    MaxSubmissions = 2
    MaxRetries = 0
    Failable = {}
    ByHand = {}
    Searched = {ab, ca}
    Doomed = TRUE
INVARIANTS
    CreatingHasJob
CHECK_DEADLOCK FALSE
