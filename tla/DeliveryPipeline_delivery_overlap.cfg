SPECIFICATION FairSpec
CONSTANTS
    direct = direct
    feishu = feishu
    retry = retry
    d1 = d1
    d2 = d2
    f1 = f1
    r1 = r1
    runner1 = runner1
    runner2 = runner2
    Nothing = Nothing
    Name <- MCDirectName
    TaskName <- MCDirectName
    TaskOf <- MCDirectTaskOf
    ChannelOf <- MCDirectChannelOf
    Message <- MCDirectMessage
    NameOf <- MCDirectNameOf
    Runner <- MCTwoRunners
    MayDryRun = FALSE
    RetryFailed = TRUE
    MaxCrashes = 0
    MaxFailures = 1
INVARIANTS
    LoneMessageAlive
    ProcessedWasDelivered

    
CHECK_DEADLOCK FALSE
