\* Every failure, deaths anywhere.
CONSTANTS
    npc = npc
    summary = summary
    session = session
    MaxClose = 2
    Pages <- ThreePages
    MetaPages <- OnlySummary
    SessionPage = session
    EndingTurns = {1}
    CrashAt <- Anywhere
SPECIFICATION Spec
INVARIANTS
    CloseTypeOK
    AllOrNothing
    NothingPending
    CompleteIsWritten
    DerivedBehindMaster
    StaleIsRecorded
PROPERTIES
    SyncRestores
    ImplementsCloseLog
