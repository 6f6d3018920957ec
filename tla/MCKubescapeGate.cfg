SPECIFICATION Spec
CONSTANTS
    im1 = im1
    im2 = im2
    web1 = web1
    im = im
    web = web
    rootless = rootless
    limits = limits
    Raw <- MCRawTwo
    Pair <- MCPair
    Normalized <- TwoNormalized
    Control <- MCControl
    ControlOf <- TwoControls
    Day = 2
    Deadline = 1
    Expire = 4
    MaxMishaps = 1
INVARIANTS
    TypeOK
    OkMeansFiring
PROPERTIES
    RegressionSurfaces
    FixedLapses
