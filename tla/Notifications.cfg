SPECIFICATION NSpec
CONSTANTS
    None = None
    EmptyId = EmptyId
    Ids = {i1}
    Hosts = {h1}
    Rewrites = {r1}
    Conns = {c1, c2}
    MayOverlap = {i1}
    Methods = {"POST"}
    ControlMethod = "POST"
    Keys = {"key"}
    SignatureKey = "key"
    AllowedClients = {}
    AllowedHosts = {h1}
    Callbacks = {f1}
    ChanSize = 2
INVARIANTS RunsOnce ChangesAreGapless
PROPERTY LossIsReported
