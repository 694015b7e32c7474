CONSTANTS
    r1 = r1
    r2 = r2
    r3 = r3
    r4 = r4
    sf5 = sf5
    ryu = ryu
    Request <- MCThree
    Target <- MCTarget
    TargetOf <- MCThreeTargets
SPECIFICATION FairSpec
PROPERTIES
    EveryPostAnswered
