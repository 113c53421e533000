SPECIFICATION Spec
CONSTANTS
    None = None
    h1 = h1
    h2 = h2
    b1 = b1
    b2 = b2
    n1 = n1
    n2 = n2
    w1 = w1
    w2 = w2
    public = public
    Handlers <- MCHandlers
    Bots <- MCBots
    Statuses <- MCStatuses
    TagIds <- MCTagIds
    Webhooks <- MCWebhooks
    GuildBots <- MCGuildBots
    MaxTags = 2
    MaxRequests = 4
INVARIANTS TypeOK StoredBotRuns TagsAndCommandsAgree MessagesArePostedOnce AnsweredIntegrationStands NobodyReauthenticatesInVain
SYMMETRY MCSymmetry
CHECK_DEADLOCK FALSE
