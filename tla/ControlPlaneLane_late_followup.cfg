SPECIFICATION Spec
CONSTANTS
    chat = chat
    t1 = t1
    t2 = t2
    command = command
    Chat <- MCChat
    Task <- MCOneTask
    Command <- MCCommand
    MaxMessages = 5
    Planner <- MCPlanner
    ChatOf <- MCOneChatOf
PROPERTIES
    FollowupDroppedAfterTerminal
CHECK_DEADLOCK FALSE
