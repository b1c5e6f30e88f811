SPECIFICATION FairSpec
CONSTANTS
    MaxEvents = 2
    MaxProgress = 2
    Habits <- NoHabit
    Faults <- AnyFault
INVARIANTS
    WishFulfilled
    IconHonest
    SurfaceGiven
PROPERTIES
    StartIsHonoured
CHECK_DEADLOCK FALSE
