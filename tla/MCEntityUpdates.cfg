CONSTANTS
    Edicts = {1, 2, 3}
    Player = 1
    PlayerModel = 1
    Bodies <- MCBodies
    StepModels = {2}
    LongEdicts = {3}
    Bytes <- MCBytes
    Header = 10
    MaxDatagram = 31
    MaxVisEdicts = 1
    Relaxed = 1
    Rest = 1
    MaxTime = 4
    MaxLives = 1
    MaxQueue = 1
SPECIFICATION MCSpec
VIEW MCView
INVARIANTS
    ShowsLastMessage
    NoMorph
CHECK_DEADLOCK FALSE
