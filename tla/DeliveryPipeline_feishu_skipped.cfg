SPECIFICATION Spec
CONSTANTS
    direct = direct
    feishu = feishu
    retry = retry
    d1 = d1
    d2 = d2
    f1 = f1
    r1 = r1
    runner1 = runner1
    runner2 = runner2
    Nothing = Nothing
    Name <- MCName
    TaskName <- MCTaskName
    TaskOf <- MCTaskOf
    ChannelOf <- MCChannelOf
    Message <- MCFeishuMessage
    NameOf <- MCFeishuNameOf
    Runner <- MCRunner
    MayDryRun = FALSE
    RetryFailed = FALSE
    MaxCrashes = 0
    MaxFailures = 1
INVARIANTS
    HostDeliversFeishu
CHECK_DEADLOCK FALSE
