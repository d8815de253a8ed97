SPECIFICATION Spec
CONSTANTS
    chat = chat
    t1 = t1
    t2 = t2
    command = command
    Chat <- MCChat
    Task <- MCTask
    Command <- MCCommand
    MaxMessages = 4
    Planner <- MCPlanner
    ChatOf <- MCTwoChatOf
INVARIANTS
    TypeOK
    PendingTerminalIsOnItsWay
    

    
CHECK_DEADLOCK FALSE
