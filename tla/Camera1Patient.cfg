SPECIFICATION FairSpec
CONSTANTS
    MaxControllers = 3
    MaxOpens = 5
    Cameras <- MCCameras
    FirstCamera <- MCBack
    Habits <- NoHabit
    Faults <- NoFault
CHECK_DEADLOCK FALSE
INVARIANTS
    OpeningHasTask
    StoppedReleases
    SettledShowsChoice
PROPERTIES
    ChoiceIsShown
    ImplementsContract
