CONSTANTS
    MaxSize = 14
    MaxLine = 5
    Texts <- MCTexts
    Bindings <- MCBindings
    WaitLine <- MCWaitLine
    Failing <- MCFailing
    Inserted <- MCInserted
    Added <- MCAdded
SPECIFICATION FairSpec
PROPERTIES
    ImplementsQueue
    FrameEnds
CHECK_DEADLOCK FALSE
