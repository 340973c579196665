SPECIFICATION InspectionSpec
CONSTANTS
    Scenes <- MCScenes
    PromptTraits <- MCTraits
    Prompts <- MCPrompts
    MaxDepth = 1
    MaxResolve = 1
    MaxReferences = 9
    MaxNodes = 4
    MaxChunks = 4
    MaxText = 2
    MaxTotalText = 3
    MaxImage = 2
    MaxCandidates = 2
    SummaryChunks = 2
    SearchGraph <- ExtractComfyPositivePrompt
    NotFound = NotFound
INVARIANTS
    FirstUsableWins
    CompanionIsItsOwn
    GraphPromptIsTheOnlyOne
CHECK_DEADLOCK FALSE
