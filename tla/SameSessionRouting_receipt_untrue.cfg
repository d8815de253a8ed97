SPECIFICATION RoutedSpec
CONSTANTS
    s1 = s1
    s2 = s2
    t1 = t1
    t2 = t2
    t3 = t3
    t4 = t4
    t5 = t5
    t6 = t6
    NoTask = NoTask
    Session <- MCSession
    Task <- MCTask
    SessionOf <- MCSessionOf
    MaxMessages = 4
    Text <- MCAllTexts
    MayCrash = FALSE
PROPERTIES
    ReceiptTellsTheTruth
CHECK_DEADLOCK FALSE
