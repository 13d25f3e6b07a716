SPECIFICATION Spec
CONSTANTS
    a = a
    b = b
    c = c
    ab = ab
    ca = ca
    NoGame = NoGame
    Player = {a, b, c}
    Pairing = {ab, ca}
    White <- WhiteOf
    Black <- BlackOf
    Tokens <- AllGood
    Fickle = {}
    MaxAttempts = 2
    MaxSubmissions = 2
    MaxRetries = 1
    Failable = {ab}
    ByHand = {ab}
    Searched = {ab, ca}
    Doomed = TRUE
INVARIANTS
    TypeOK
    BulkOnce
    LeftAreTold
    ToldOfGame
PROPERTIES
    RecordsOnlyWaiting
    
CHECK_DEADLOCK FALSE
