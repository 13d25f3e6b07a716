SPECIFICATION FairSpec
CONSTANTS
    alice = alice
    bob = bob
    b1 = b1
    b2 = b2
    validate = validate
    probe = probe
    Player = {alice, bob}
    NoPlayer = NoPlayer
    Admins = {alice}
    Members = {}
    Browser = {b1, b2}
    Validator = {validate}
    Probe = {probe}
    Grace = 1
    TokenLife = 1
    MaxTokens = 2
    MaxClock = 4
INVARIANTS TypeOK  GraceHolds 
PROPERTIES DecisionsAreTold DeadTokensAreFound
CHECK_DEADLOCK FALSE
