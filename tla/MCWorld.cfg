CONSTANTS
    MaxEdicts = 4
    MaxClients = 1
    AreaDepth = 1
    WorldSize = 4
    Boxes <- MCBoxes
    Probes <- MCProbes
    NULL = NULL
SPECIFICATION Spec
VIEW MCView
INVARIANTS
    LinksSound
    LinkedLive
    FoundWhereLinked
    TouchesEach
CHECK_DEADLOCK FALSE
