SPECIFICATION FairSpec
CONSTANTS
    a = a
    b = b
    c = c
    cron = cron
    click = click
    NoCap = NoCap
    OddPool = "double_then_bye"
    Player = {a, b, c}
    Generator = {1}
    MaxRounds = 1
    Cap <- CapOne
    Willing = {a, b}
    Modes = {"review_window"}
    Creations = {"manual", "lichess"}
    Restless = {a, b, c}
    Reviewed = {1}
INVARIANTS
    TypeOK
    EveryoneAccountedFor
    CapBoundsGames
PROPERTIES
    DraftsAreDecided
CHECK_DEADLOCK FALSE
