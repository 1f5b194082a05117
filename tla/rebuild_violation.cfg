\* Expected to be violated: see the findings in README.md.
CONSTANTS
    npc = npc
    summary = summary
    session = session
    MaxClose = 2
    Pages <- ThreePages
    MetaPages <- OnlySummary
    SessionPage = session
    EndingTurns = {1}
    CrashAt <- InPages
SPECIFICATION Spec
INVARIANTS
    RebuildRecovers
