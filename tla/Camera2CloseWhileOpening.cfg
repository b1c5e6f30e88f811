SPECIFICATION Spec
CONSTANTS
    MaxControllers = 2
    MaxJobs = 2
    Cameras <- MCCameras
    DefaultSize = 1
    OutputSizes <- MCOutputSizes
    FirstCamera <- MCBack
    Habits <- StopWhileBusy
    Faults <- NoFault
CHECK_DEADLOCK FALSE
INVARIANTS
    CloseReleases
