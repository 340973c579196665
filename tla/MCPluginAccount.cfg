SPECIFICATION Spec
CONSTANTS
    Models = {"m1", "m2"}
    MaxWindows = 2
    MaxMonitors = 2
    MaxModals = 2
    User = "u"
    Computer = "pc"
    Enrollments = {"e1", "e2"}
    r1 = r1
    r2 = r2
    Requests = {r1, r2}
    MaxPayments = 1
    Balances = {0, 3}
    Pack = 4
    MaxReports = 4
    Outbox = 2
    Scenes <- MCScenes
INVARIANTS
  LicenceWorks
  SetupNeverStuck
PROPERTIES
  ConsentHasReceipt
  ReportsKept
SYMMETRY MCSymmetry
CHECK_DEADLOCK FALSE
