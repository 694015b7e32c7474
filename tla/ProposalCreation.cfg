CONSTANTS
    r1 = r1
    r2 = r2
    r3 = r3
    r4 = r4
    sf5 = sf5
    ryu = ryu
    Request <- MCFour
    Target <- MCTarget
    TargetOf <- MCFourTargets
SPECIFICATION Spec
INVARIANTS
    IInv
    VersionsUnique
    CounterCoversProposals
    AnswerIsStored
PROPERTIES
    RetryMeansProgress
    VersionsGrow
    NothingOverwritten
    ImplementsLog
