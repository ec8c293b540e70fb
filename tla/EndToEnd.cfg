SPECIFICATION E2ESpec
CONSTANTS
    None = None
    EmptyId = EmptyId
    h1 = h1
    i1 = i1
    rules = rules
    Ids = {i1}
    Hosts = {h1}
    Rewrites = {rules}
    Request <- TheRequest
    MaxFaults = 2
    Conns = {c1, c2, c3}
    MayOverlap = {i1}
    Methods = {"CONNECT"}
    ControlMethod = "CONNECT"
    Keys = {"key"}
    SignatureKey = "key"
    AllowedClients = {}
    AllowedHosts = {h1}
PROPERTIES ImplementsClient Converges
CHECK_DEADLOCK FALSE
