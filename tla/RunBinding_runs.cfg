SPECIFICATION RunSpec
CONSTANTS
    NoTask = NoTask
    MaxOthers = 1
    main = main
    s1 = s1
    t1 = t1
    t2 = t2
    Agent <- MCAgent
    Main = main
    Session <- MCSession
    AgentOf <- MCAgentOf
    Task <- MCTask
    SessionOf <- MCSessionOf
    Planned = {}
    Quiet = {t1}
    ResumeFrom <- MCResumeAny
    Purgeable = {}
    MaxResumes = 1
    MaxStamp = 3
INVARIANTS
    RunTypeOK
    SlotExclusive
    NothingLeftRunning
    AnswersAreNotSwallowed
PROPERTIES
    EndsItsOwn
    PlannedRunStaysSilent
CHECK_DEADLOCK FALSE
