SPECIFICATION Spec
CONSTANTS
    a = a
    b = b
    c = c
    cron = cron
    click = click
    NoCap = NoCap
    OddPool = "double_then_bye"
    Player = {a, b}
    Generator = {1}
    MaxRounds = 2
    Cap <- UncappedMembers
    Willing = {}
    Modes = {"review_window", "auto_publish"}
    Creations = {"manual"}
    Restless = {}
    Reviewed = {}
INVARIANTS
    NoGaps
CHECK_DEADLOCK FALSE
