CONSTANTS
    MaxDemos = 2
    MaxText = 3
SPECIFICATION Spec
INVARIANTS
    NoDeadEnd
    LoopSparesGame
PROPERTIES
    EscapeLeads
    RecordingEnds
VIEW MCView
CHECK_DEADLOCK FALSE
