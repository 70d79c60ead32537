CONSTANTS
    Pushers = {lift}
    Bodies = {1, 2, 3}
    Players = {1}
    Width = 2
    Height = 2
    MaxEffects = 2
    NULL = NULL
SPECIFICATION Spec
INVARIANTS
    NothingStuck
PROPERTIES
    AllOrNothing
CHECK_DEADLOCK FALSE
