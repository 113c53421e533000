SPECIFICATION Spec
CONSTANTS
    c1 = c1
    c2 = c2
    Clients = {c1, c2}
    Guilds <- MCGuilds
    Tickets <- MCTickets
    Room <- MCRoom
    Permitted = {c1}
    Frames = {"auth", "malformed", "other", "garbage"}
    MaxFrames = 3
    MaxPings = 1
    MaxMessages = 2
    PeersLeave = TRUE
INVARIANTS TypeOK NoSendOnClosedTx RegistryTracksReadLoops DirectWriteMeetsNoFrame ErrorWrittenBeforeClose
PROPERTIES FeedSpec
CHECK_DEADLOCK FALSE
