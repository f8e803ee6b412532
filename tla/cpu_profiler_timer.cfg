\* A timer left over from a profile that was stopped by hand.
SPECIFICATION Spec
CONSTANTS
    Durations <- ThreeDurations
    MaxDuration = 3
    MaxTime = 7
    MaxProfiles = 3
CHECK_DEADLOCK FALSE
PROPERTIES
    RunsFullDuration
