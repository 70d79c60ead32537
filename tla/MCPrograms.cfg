CONSTANTS
    Functions <- MCFunctions
    Start <- MCStart
    Locals <- MCLocals
    NumParms <- MCNumParms
    Values = {0, 1}
    MaxStackDepth = 4
    LocalstackSize = 4
    Runaway = 4
    ClientDisconnect = "leave"
    NULL = NULL
SPECIFICATION Spec
INVARIANTS
    TypeOK
PROPERTIES
    ImplementsActivations
    ReturnsBalanced
    ProgramsEnd
CHECK_DEADLOCK FALSE
