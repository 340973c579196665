SPECIFICATION Spec
CONSTANTS
    a1 = a1
    a2 = a2
    i1 = i1
    c1 = c1
    None = None
    Attachments <- MCAttachments
    Trusted <- MCAttachments
    WithPrompt <- MCPrompts
    WithYaml = {}
    Supported <- MCAttachments
    Files <- MCFiles
    Images <- MCImages
    Channels <- MCChannels
    MaxFlows = 2
    MaxGenerations = 3
    MaxMoves = 1
    CacheSize = 1
CHECK_DEADLOCK FALSE
INVARIANTS
  RightImage
  RowsMatchQueue
PROPERTIES
  NothingAfterStop
  Resolved
