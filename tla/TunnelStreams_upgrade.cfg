SPECIFICATION Spec
CONSTANTS
    None = None
    Reqs = {r1, w1}
    Upgrades = {w1}
    AcceptBacklog = 2
INVARIANT UpgradeIsHandedOver
CHECK_DEADLOCK FALSE
