CONSTANTS
    Columns = 1
    PageWidth = 8
    PageHeight = 8
    PageLeft = 16
    VidWidth = 17
    MaxRects = 4
    MaxTextures = 4
    RectBytes = 8
    MipSize = 4
    Names = {"wall"}
    Unnamed = ""
    Sizes <- MCSizes
SPECIFICATION Spec
INVARIANTS
    PagesTiled
PROPERTIES
    ImplementsTextureStore
CHECK_DEADLOCK FALSE
