SPECIFICATION Spec
CONSTANTS
    MaxControllers = 2
    MaxJobs = 3
    Cameras <- MCCameras
    DefaultSize = 1
    OutputSizes <- MCOutputSizes
    FirstCamera <- MCBack
    Habits <- AnyHabit
    Faults <- AllFaults
CHECK_DEADLOCK FALSE
INVARIANTS
    TypeOK
    DeviceOwned
    OpeningHasRequest
