SPECIFICATION DashboardSpec
CONSTANTS
    NJobs = 2
    ThumbOf <- MCThumbOf
    Hashes = {1, 2}
    SearchHits = {1}
    ModelHits = {2}
    Tabs = {"interrogate", "recent", "queued"}
    PageSize = 1
    Limit = 1
    MaxFlights = 2
    MaxUrls = 2
    MaxCalls = 2
    Scenes <- MCScenes
CHECK_DEADLOCK FALSE
INVARIANTS
  ToldOnce
  NoUrlLost
  NeverStuck
PROPERTIES
  NeverReverts
  DashboardKeepsUp
