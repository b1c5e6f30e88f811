SPECIFICATION Spec
CONSTANTS
    MaxControllers = 1
    MaxOpens = 1
    Cameras <- MCCameras
    FirstCamera <- MCBack
    Habits <- StopWhileBusy
    Faults <- NoFault
CHECK_DEADLOCK FALSE
INVARIANTS
    CloseSurvives
