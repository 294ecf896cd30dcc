SPECIFICATION MCSpec
CONSTANTS
    Pictures <- MCPictures
    PostProcess = {TRUE, FALSE}
    MaxPictures = 3
INVARIANTS
    OwnPicture
    AllCounted
    GoodPictureReady
    WithinBuffers
PROPERTY Ends
CHECK_DEADLOCK FALSE
