CONSTANTS
    HunkSize = 304
    MaxMarks = 1
    HunkHdr = 16
    CacheHdr = 64
    Users = {u1, u2, u3}
    HunkRequests <- MCHunkRequests
    CacheRequests <- MCCacheRequests
SPECIFICATION FairSpec
INVARIANTS
    CacheSound
    ListsAgree
    MarksHold
PROPERTIES
    GivesUpOnlyWhenHopeless
    CallsEnd
CHECK_DEADLOCK FALSE
