SPECIFICATION Spec
CONSTANTS
    r1 = r1
    r2 = r2
    r3 = r3
    k1 = k1
    h1 = h1
    h2 = h2
    None = None
    Requests <- MCRequests
    Keys = {k1}
    KeyOf <- OneKey
    HashOf <- TwoPayloads
    TtlMs = 1
    MaxClock = 3
    MaxFaults = 2
    MaxCrashes = 1
INVARIANT AtMostOneLaunchPerTtl
INVARIANT LaunchRememberedOnDisk
PROPERTY KeepsContract
PROPERTY AdmittedAreAnswered
\* The requests are finitely many: all answered, the system stops.
CHECK_DEADLOCK FALSE
