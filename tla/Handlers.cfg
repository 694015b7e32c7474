CONSTANTS
    None = None
    u1 = u1
    u2 = u2
    u3 = u3
    p1 = p1
    p2 = p2
    p3 = p3
    sessions <- MCSessions
    uploads <- MCUploads
    proposals <- MCProposals
    ids <- MCIds
    files <- MCFiles
    names <- MCNames
SPECIFICATION Spec
SYMMETRY Symmetry
INVARIANTS Consistent LastWord OwnMedia RightAnswers
CHECK_DEADLOCK FALSE
