SPECIFICATION Spec
CONSTANTS
    Dot = 2
    Hosts <- TwoHosts
    Bytes = {0, 1, 2, 255}
    MaxBytes = 9
    MaxRetries = 1
    MinGrounded = 2
    Secret = {1}
    MaxKeys = 2
    MaxList = 2
    MaxDepth = 3
    MaxString = 2
    Sentences <- AllSentences
    MaxLength = 4
    Retries = 2
    MaxLine = 2
    SomeFindings <- Findings
    MaxFindings = 3
    Breaks = {0, 3, 4, 6, 99}
    MaxWraps = 4
    Prints = {p1, p2}
    Births = {b1, b2}
    Columns = {c1, c2}
    RawTargets = {"a", "A", "b"}
    Canonical <- Meaning
    Domains = {d1, d2}
    Proofs = {x1, x2}
    NoProof = NoProof
    MaxRowid = 4
CHECK_DEADLOCK FALSE
INVARIANTS
    QueriesHandled
    AnswersGrounded
    
    
    StoresAgree
