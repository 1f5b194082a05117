\* Three phases, one added while the first is worked on.
SPECIFICATION PlanSpec
CONSTANTS
    Written = 3
    MaxEdits = 1
    MaxPlans = 1
INVARIANT LastPhaseIsLast
CHECK_DEADLOCK FALSE
