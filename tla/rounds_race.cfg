SPECIFICATION Spec
CONSTANTS
    a = a
    b = b
    c = c
    cron = cron
    click = click
    NoCap = NoCap
    OddPool = "double_then_bye"
    Player = {a, b}
    Generator = {cron, click}
    MaxRounds = 2
    Cap <- CapOne
    Willing = {}
    Modes = {"review_window", "auto_publish"}
    Creations = {"lichess"}
    Restless = {}
    Reviewed = {1}
SYMMETRY AnySession
INVARIANTS
    LiveRoundsDistinct
    
PROPERTIES
    DecidedIsFinal
    KeepsCalendar
CHECK_DEADLOCK FALSE
