SPECIFICATION Spec
CONSTANTS
    None = None
    Files <- TheFiles
    EnvString <- TheEnvString
    EnvList <- TheEnvList
    HostOf <- TheHostOf
    PortOf <- ThePortOf
    Sockets <- TheSockets
    Dest <- TheDest
    Match <- TheMatch
    Clean <- TheClean
    Options <- TheOptions
    HandWritten <- TheHandWritten
    Hostnames = {"box", None}
    ClientKeys = {"", "key"}
INVARIANT ClosedByDefault
PROPERTIES GeneratedIsAdmitted ControlOffPublic ServerIsWhole
CHECK_DEADLOCK FALSE
