SPECIFICATION FairSpec
CONSTANT
    MaxEvents = 3
PROPERTIES
    ConnectsOnlyWhenDown
    BusyEnds
    WindowCatchesUp
CHECK_DEADLOCK FALSE
