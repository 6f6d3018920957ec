SPECIFICATION Spec
CONSTANTS
    platform = platform
    app = app
    Repos <- MCRepos
    Alerts <- MCAlerts
    Reported = {1, 2, 4, 5}
    PerPage = 2
    MaxChanges = 2
INVARIANTS
    TypeOK
    MissedByClosing
    DoubledByOpening
PROPERTIES
    ReportSettles
