SPECIFICATION Spec
CONSTANTS
    HasIssuer = TRUE
    Names <- SomeNames
    Product = "decoy"
    Keys <- SomeKeys
    NoKey <- Blank
    Mixed <- Torn
    LicenceLimits <- LicenceTable
    ProductLimits <- ProductTable
    Targets = {t1, t2}
    Traps = {t1}
    Clients = {c1, c2}
    MaxTime = 1
    MaxFaults = 1
SYMMETRY Symmetry
INVARIANTS
    TypeOK
    TierIsEarned
    FileAgrees
    TargetsAgree
