SPECIFICATION RSpec
CONSTANTS
    None = None
    EmptyId = EmptyId
    h1 = h1
    h2 = h2
    Ids = {i1}
    Hosts = {h1, h2}
    Paths = {p1, p2}
    Rewrites = {{p1}}
    HostPart <- WithPort
    Conns = {c1, c2}
    Requests = {q1}
    MayOverlap = {}
    Methods = {"CONNECT"}
    ControlMethod = "CONNECT"
    Keys = {"key"}
    SignatureKey = "key"
    AllowedClients = {}
    AllowedHosts = {h1}
INVARIANT QuietClientIsRouted
