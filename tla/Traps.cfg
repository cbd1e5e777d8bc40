SPECIFICATION Spec
CONSTANTS
    t1 = t1
    h1 = h1
    h2 = h2
    h3 = h3
    NoId = NoId
    Ids = {t1, h1, h2, h3}
    Honeypots = {h1, h2, h3}
    Advanced = {t1}
    PortOf <- TwoPorts
    Tiers <- ThreeTiers
    Creators = {c1, c2}
    Deleters = {d1, d2}
    MaxFaults = 1
SYMMETRY Symmetry
\* The ids run out.
CHECK_DEADLOCK FALSE
INVARIANTS
    TypeOK
    NothingLeftBehind
    ListenersClosable
    
    OvershootBounded
