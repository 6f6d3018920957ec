SPECIFICATION Spec
CONSTANTS
    im1 = im1
    im2 = im2
    web1 = web1
    im = im
    web = web
    rootless = rootless
    limits = limits
    Raw <- MCRaw
    Pair <- MCPair
    Normalized <- MCNormalized
    Control <- MCControl
    ControlOf <- TwoControls
    Day = 48
    Deadline = 1
    Expire = 50
    MaxMishaps = 0
PROPERTIES
    LapsesOnlyIfClean
