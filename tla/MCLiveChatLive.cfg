SPECIFICATION Spec
CONSTANTS
    c1 = c1
    c2 = c2
    Clients = {c1, c2}
    Guilds <- MCGuilds
    Tickets <- MCOneTicket
    Room <- MCSameRoom
    Permitted = {c1, c2}
    Frames = {"auth", "malformed"}
    MaxFrames = 2
    MaxPings = 0
    MaxMessages = 2
    PeersLeave = TRUE
PROPERTIES ManagerHangsOnlyOnGoneWriter ClosedSocketsEnd AuthenticatedClientsAreServed
CHECK_DEADLOCK FALSE
