SPECIFICATION FairSpec
CONSTANTS
    NoCap = NoCap
    Leagues <- TestLeagues
    Absences <- Away
    MaxRounds = 3
    Gaps = {0}
INVARIANTS Certificate CheapestMatching KeepsContract ByesRotate 
PROPERTIES SeasonSpec RoundsAreMade
\* After the last round there is nothing left to do.
CHECK_DEADLOCK FALSE
