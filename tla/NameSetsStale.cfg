CONSTANTS
    sf5 = sf5
    ryu = ryu
    hadoken = hadoken
    g1 = g1
    g2 = g2
    c1 = c1
    c2 = c2
    m1 = m1
    Nothing = Nothing
    MaxActive = 2
    Doc <- MCDoc
    ParentOf <- MCParentOf
    Publication <- MCGameAgain
    DocOf <- MCGameAgainDocOf
SPECIFICATION Spec
INVARIANTS
    NamesCurrent
