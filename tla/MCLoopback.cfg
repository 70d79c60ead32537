CONSTANTS
    Sockets = {q1, q2, q3}
    None = None
    MaxClients = 1
    MaxMessage = 24
    short = short
    long = long
    Payloads <- MCPayloads
    SizeOf <- MCSizeOf
SPECIFICATION FairSpec
INVARIANTS
    MessagesInside
    PoolSound
    BothEndsOrNone
PROPERTIES
    ImplementsChannel
    SenderResumes
