\* No encounters; crashes anywhere but inside a retcon.
CONSTANTS
    MaxTurn = 3
    MaxAttempt = 5
    Encounters = FALSE
    CrashPoints <- NotInsideRetcon
SPECIFICATION Spec
INVARIANTS
    OneStory
    RetconIsForever
    RetconErases
PROPERTIES
    RewindKeepsMechanics
    PromptReturns
