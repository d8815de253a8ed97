SPECIFICATION FairSpec
CONSTANTS
    main = main
    other = other
    s1 = s1
    s2 = s2
    s3 = s3
    t1 = t1
    t2 = t2
    t3 = t3
    t4 = t4
    Agent <- MCAgent
    Main = main
    Session <- MCSession
    AgentOf <- MCAgentOf
    Task <- MCTask
    SessionOf <- MCSessionOf
    Planned = {t2}
    Quiet = {t1}
    ResumeFrom <- MCResumeLive
    Purgeable = {s3}
    MaxResumes = 1
    MaxStamp = 3
INVARIANTS
    TypeOK
    SlotExclusive
    NoIdleQueue
    QueueOrderTotal
PROPERTIES
    FirstComeFirstServed
    ArchivedStaysArchived
    
    ImplementsSlot
CHECK_DEADLOCK FALSE
