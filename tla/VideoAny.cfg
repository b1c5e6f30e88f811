SPECIFICATION Spec
CONSTANTS
    MaxEvents = 3
    MaxProgress = 2
    Habits <- AnyHabit
    Faults <- AnyFault
INVARIANTS
    TypeOK
    ThrowsOnlyUnsourced
    NothingUnasked
    TimerWithIcon
    FreshWhenIdle
CHECK_DEADLOCK FALSE
