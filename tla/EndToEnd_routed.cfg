SPECIFICATION E2ESpec
CONSTANTS
    None = None
    EmptyId = EmptyId
    h1 = h1
    i1 = i1
    rules = rules
    Ids = {i1}
    Hosts = {h1}
    Rewrites = {rules}
    Request <- TheRequest
    MaxFaults = 1
    Conns = {c1, c2}
    MayOverlap = {i1}
    Methods = {"CONNECT"}
    ControlMethod = "CONNECT"
    Keys = {"key"}
    SignatureKey = "key"
    AllowedClients = {}
    AllowedHosts = {h1}
PROPERTY RoutedInTheEnd
CHECK_DEADLOCK FALSE
