SPECIFICATION FairSpec
CONSTANTS
    NSlots = 2
    Settings <- AllSettings
INVARIANTS AnsweredOnce NothingLost NoOrphanResult PromptMatches
PROPERTIES AllAnswered SlotsFreed
