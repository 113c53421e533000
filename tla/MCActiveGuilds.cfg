SPECIFICATION Spec
CONSTANTS
    g1 = g1
    g2 = g2
    g3 = g3
    h1 = h1
    h2 = h2
    Guilds <- MCGuilds
    Handlers <- MCHandlers
    Skus <- MCSkus
    Limit <- MCLimit
    MaxRequests = 2
    MaxSkuChanges = 1
INVARIANTS TypeOK SelectionIsEntitled LinksNameEntitlements
PROPERTIES OnlyAdminsAddGuilds
