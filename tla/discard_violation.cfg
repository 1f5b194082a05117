\* Expected to be violated: see the findings in README.md.
CONSTANTS
    MaxTurn = 3
    MaxAttempt = 5
    Encounters = FALSE
    CrashPoints <- Nowhere
SPECIFICATION Spec
PROPERTIES
    DiscardedStaysSilent
