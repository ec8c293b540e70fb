SPECIFICATION Spec
CONSTANTS
    None = None
    EmptyId = EmptyId
    Ids = {i1, i2}
    Hosts = {h1, h2}
    Rewrites = {r1}
    Conns = {c1, c2, c3}
    MayOverlap = {i1}
    Methods = {"CONNECT"}
    ControlMethod = "CONNECT"
    Keys = {"key"}
    SignatureKey = "key"
    AllowedClients = {}
    AllowedHosts = {h1, h2}
SYMMETRY SafetySymmetry
INVARIANTS TypeOK ControlHasListener SessionHasOwner ConnectedHasListener ServingIsRegistered OneHostPerIdentifier
PROPERTIES SilentAfterHijack NoHostTakeover
