SPECIFICATION PlanSpec
CONSTANTS
    NoTask = NoTask
    MaxPlans = 2
    MaxOthers = 1
    main = main
    s1 = s1
    t1 = t1
    f1 = f1
    f2 = f2
    Agent <- MCAgent
    Main = main
    Session <- MCSession
    AgentOf <- MCAgentOf
    Task <- MCTask
    SessionOf <- MCSessionOf
    Planned <- MCFollowup
    Source = {t1}
    Quiet = {}
    ResumeFrom = {"blocked"}
    Purgeable = {}
    MaxResumes = 1
    MaxStamp = 3
SYMMETRY MCSymmetry
INVARIANTS
    PlanTypeOK
    PromiseKeptOrFlagged
    
PROPERTIES
    NoFalseAlarm
CHECK_DEADLOCK FALSE
