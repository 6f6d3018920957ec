SPECIFICATION Spec
CONSTANTS
    Margin = 5
    Budget = 5
    Life = 60
    Interval <- MCInterval
    Backdate = 1
    JwtLife = 9
    MaxJwt = 10
    Drift <- MCDrift
INVARIANTS
    TypeOK
    ExpiredOnlyByDrift
PROPERTIES
    RevokedIsReplaced
