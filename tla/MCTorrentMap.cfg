SPECIFICATION FairSpec
CONSTANTS
    Hashes = {m1, m2}
    Requests = {r1, r2}
    None = None
    TTL = 2
    MaxClients = 2
INVARIANTS
    TypeOK
    TorrentsHaveTimers
PROPERTIES
    KeepsLeases
    LeaseKept
    IdleClientCloses
