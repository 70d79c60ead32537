CONSTANTS
    Sockets = {q1, q2}
    None = None
    MaxMessage = 40
    Lines <- MCLinesChange
    Exits <- MCExitsChange
    ExitsEarly = FALSE
    MaxLoads = 2
SPECIFICATION Spec
INVARIANTS
    BegunInOrder
