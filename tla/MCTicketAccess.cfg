SPECIFICATION Spec
CONSTANTS
    None = None
    u1 = u1
    u2 = u2
    owner = owner
    r1 = r1
    t1 = t1
    t2 = t2
    p1 = p1
    p2 = p2
    h1 = h1
    h2 = h2
    Users <- MCUsers
    Roles <- MCRoles
    Teams <- MCTeams
    Panels <- MCPanels
    Handlers <- MCHandlers
    Owner = owner
    Staff <- MCStaff
    BotAdmins <- MCBotAdmins
    BotStaff <- MCBotStaff
    Tickets <- MCTickets
    MaxRequests = 2
    MaxCallRoles = 3
    MaxChanges = 1
INVARIANTS TypeOK CallRolesAreNamed RemovedMembersAreOffCall ListsAreViewable
SYMMETRY MCSymmetry
CHECK_DEADLOCK FALSE
