SPECIFICATION Spec
CONSTANTS
    p1 = p1
    p2 = p2
    m1 = m1
    h1 = h1
    h2 = h2
    Panels <- MCPanels
    Multis <- MCMultis
    Channels <- MCChannels
    Handlers <- MCHandlers
    FreePanelLimit = 1
    MultiLimit = 5
    MaxRequests = 2
    MaxFaults = 1
INVARIANTS TypeOK SettledPanels SettledMultis KeepsAMessage RowNamesOwnMessage
SYMMETRY MCSymmetry
CHECK_DEADLOCK FALSE
