\* Expected to be violated: see the findings in README.md.
CONSTANTS
    MaxTurn = 3
    MaxAttempt = 5
    Encounters = TRUE
    CrashPoints <- Nowhere
SPECIFICATION Spec
PROPERTIES
    RewindKeepsMechanics
