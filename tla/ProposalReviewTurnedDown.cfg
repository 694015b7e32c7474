CONSTANTS
    r1 = r1
    r2 = r2
    r3 = r3
    p1 = p1
    p2 = p2
    p3 = p3
    p4 = p4
    sf5 = sf5
    ryu = ryu
    ann = ann
    bob = bob
    ike = ike
    old = old
    new = new
    Nothing = Nothing
    Target <- MCTarget
    ParentOf <- MCParentOf
    Person <- MCPerson
    User <- MCUser
    Admin <- MCAdmin
    Name <- MCName
    MaxAuthors = 2
    Review <- MCTwo
    Proposal <- MCFamily
    TargetOf <- MCFamilyTargets
    AuthorOf <- MCFamilyAuthors
    Ask <- MCAnything
SPECIFICATION Spec
INVARIANTS
    PublishedNotTurnedDown
