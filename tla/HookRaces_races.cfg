SPECIFICATION Spec
CONSTANTS
    Task = {1, 2, 3}
    Proc <- MCProc
    p1 = p1
    p2 = p2
    MaxHooks = 5
    MaxCrashes = 1
INVARIANTS
    TypeOK
    
    QueueServed
    RecordsAgree
PROPERTIES
    NoTaskLost
SYMMETRY MCSymmetry
CHECK_DEADLOCK FALSE
