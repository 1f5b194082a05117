\* Crashes anywhere, encounters possible.
CONSTANTS
    MaxTurn = 3
    MaxAttempt = 5
    Encounters = TRUE
    CrashPoints <- Anywhere
SPECIFICATION Spec
INVARIANTS
    TypeOK
    CanonOrder
    CanonBehindThread
    CanonBacked
PROPERTIES
    ImplementsCanonLog
