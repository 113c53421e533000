SPECIFICATION Spec
CONSTANTS
    None = None
    p1 = p1
    p2 = p2
    h1 = h1
    h2 = h2
    Panels <- MCPanels
    Handlers <- MCHandlers
    Bodies <- MCBodies
    AclLimit = 2
    MaxRequests = 2
    Days7 = {0, 6}
    Entries <- MCEntries
    MaxEntries = 2
INVARIANTS TypeOK ThreadPanelsHaveChannel StoredPanelsCanBeSaved SettingsComeFromLastRequests HoursAreOfOneRequest AnsweredScheduleIsWhole FreeGuildHasOneSchedule
SYMMETRY MCSymmetry
CHECK_DEADLOCK FALSE
