SPECIFICATION FairSpec
CONSTANTS
    None = None
    EmptyId = EmptyId
    Ids = {i1, i2, EmptyId}
    Hosts = {h1, h2, h3}
    Rewrites = {r1}
    Conns = {c1, c2}
    MayOverlap = {}
    Methods = {"CONNECT", "GET"}
    ControlMethod = "CONNECT"
    Keys = {"key", "other"}
    SignatureKey = "key"
    AllowedClients = {i1, EmptyId}
    AllowedHosts = {h1, h2}
INVARIANTS ServingHasHost DeletesOnlyOwnHost OnlyAllowedRoutes EndsWithoutHost
PROPERTIES ImplementsService RouteRemoved
