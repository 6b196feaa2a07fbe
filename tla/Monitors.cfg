SPECIFICATION Spec
INVARIANTS TypesOK LinkCurrent  UsageCurrent CalendarCurrent  AnswersFit
PROPERTY RequestsEnd
CONSTANTS
    Links = {"absent", "connecting", "up"}
    Connections = {c1}
    NoConnection = none
    MaxChanges = 1
    MaxOps = 2
    MaxReports = 1
    MaxEvents = 2
    MaxAsks = 1
    Files = {"f1", "f2"}
    Rows <- TwoDatabases
    DayChoices = {0, 30}
    DefaultDays = 10
    MaxChoices = 3
    MaxFailures = 2
    MaxRestarts = 1
    Calendars = {c1, c2}
    NoPath = none
    MaxSets = 2
    MaxEdits = 2
    MaxFetches = 3
    MaxFaults = 2
    MaxResults = 3
    MaxKeys = 3
    Paths = {"/a", "/b"}
    Words = {"a"}
    MaxLookups = 4
CHECK_DEADLOCK FALSE
