SPECIFICATION Spec
CONSTANTS
    MaxControllers = 2
    MaxOpens = 3
    Cameras <- MCCameras
    FirstCamera <- MCBack
    Habits <- AnyHabit
    Faults <- AnyFault
CHECK_DEADLOCK FALSE
INVARIANTS
    TypeOK
    FieldNotReleased
