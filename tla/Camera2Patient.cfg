SPECIFICATION FairSpec
CONSTANTS
    MaxControllers = 4
    MaxJobs = 6
    Cameras <- MCCameras
    DefaultSize = 1
    OutputSizes <- MCOutputSizes
    FirstCamera <- MCBack
    Habits <- ColdStart
    Faults <- NoFault
CHECK_DEADLOCK FALSE
INVARIANTS
    OneDevice
    StoppedReleases
    ReaderFits
    NeverCrashes
PROPERTIES
    NoDeviceDropped
    ChoiceIsShown
    ImplementsContract
