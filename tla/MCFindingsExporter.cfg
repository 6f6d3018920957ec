SPECIFICATION Spec
CONSTANTS
    github = github
    aws = aws
    trivy = trivy
    checkov = checkov
    prowler = prowler
    Poller <- MCPoller
    Name <- MCName
    Names <- MCNames
    Dated <- MCDated
    MaxTime = 2
    MaxRestarts = 1
INVARIANTS
    TypeOK
    UpTellsLastOutcome
    UpMeansFresh
    DataTimeNotAhead
PROPERTIES
    ImplementsBoard
    RecoversWhenReachable
    DownShowsWhenUnreachable
