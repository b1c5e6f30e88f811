SPECIFICATION Spec
CONSTANTS
    ParentSizes <- Parents
    CameraSizes <- Cameras
    Resizes = FALSE
    VideoSizes <- FewVideos
    Specs <- AskedExactly
INVARIANTS
    TextureShowsVideo
