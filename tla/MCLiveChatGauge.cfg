SPECIFICATION Spec
CONSTANTS
    c1 = c1
    c2 = c2
    Clients = {c1}
    Guilds <- MCGuilds
    Tickets <- MCOneTicket
    Room <- MCSameRoom
    Permitted = {c1}
    Frames = {"malformed"}
    MaxFrames = 1
    MaxPings = 0
    MaxMessages = 0
    PeersLeave = FALSE
PROPERTIES GaugeForgetsClosedSockets
CHECK_DEADLOCK FALSE
