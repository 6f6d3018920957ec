SPECIFICATION Spec
CONSTANTS
    left = left
    right = right
    a = a
    b1 = b1
    b2 = b2
    v1 = v1
    v2 = v2
    Branch = {left, right}
    Commit = {a, b1, b2}
    Version = {v1, v2}
    BranchesOf <- MCBranchesOf
    VersionOf <- MCVersionOf
    NoVersion = NoVersion
    MaxBuilds = 3
INVARIANT
    TypeOK
PROPERTIES
    VersionCrossesUnseen
    StableIsTested
