SPECIFICATION Spec
CONSTANTS
    ParentSizes <- Parents
    CameraSizes <- Cameras
    Resizes = FALSE
    VideoSizes <- Videos
    Specs <- Asked
INVARIANTS
    FrameFits
    TextureFits
