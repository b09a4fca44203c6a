CONSTANTS
    main = main
    app = app
    d1 = d1
    d2 = d2
    s1 = s1
    p1 = p1
    p2 = p2
    NoLock = NoLock
    Worktrees <- MCWorktrees
    Binding <- MCBinding
    Cards <- MCCards
    Track <- MCTrack
    DependsOn <- MCDependsOn
    Blocker = s1
    Claimers <- MCClaimers
SYMMETRY MCSymmetry
SPECIFICATION SlotsSpec
INVARIANTS
    SlotsRespected
    StartedDepsDone
    HolderKeepsLock
