CONSTANTS
    Sockets = {q1, q2}
    None = None
    MaxMessage = 40
    Lines <- MCLines
    Exits <- MCExits
    ExitsEarly = FALSE
    MaxLoads = 4
SPECIFICATION FairSpec
INVARIANTS
    AcceptHasEnds
    SignonInStep
    BegunInOrder
PROPERTIES
    SignsOn
