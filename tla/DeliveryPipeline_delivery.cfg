SPECIFICATION Spec
CONSTANTS
    direct = direct
    feishu = feishu
    retry = retry
    d1 = d1
    d2 = d2
    f1 = f1
    r1 = r1
    runner1 = runner1
    runner2 = runner2
    Nothing = Nothing
    Name <- MCName
    TaskName <- MCTaskName
    TaskOf <- MCTaskOf
    ChannelOf <- MCChannelOf
    Message <- MCMessage
    NameOf <- MCNameOf
    Runner <- MCRunner
    MayDryRun = TRUE
    RetryFailed = TRUE
    MaxCrashes = 1
    MaxFailures = 1
INVARIANTS
    TypeOK
    
    SentOncePerExcuse
    ProcessedWasDelivered
CHECK_DEADLOCK FALSE
