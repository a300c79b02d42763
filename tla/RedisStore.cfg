SPECIFICATION Spec
CONSTANTS
    r1 = r1
    r2 = r2
    r3 = r3
    a = a
    b = b
    h1 = h1
    h2 = h2
    None = None
    Replicas <- MCReplicas
    Requests <- ThreeRequests
    ReplicaOf <- Shared
    HashOf <- TwoPayloads
    MaxFaults = 1
    MaxLapses = 1
    MaxExpiries = 1
    MaxCrashes = 1
    MaxMishaps = 1
INVARIANT SecondLaunchNeedsWindow
INVARIANT LaunchRemembered
INVARIANT AnswersNameTheirLaunch
PROPERTY KeepsContract
PROPERTY EveryRequestAnswered
\* The requests are finitely many: all answered, the system stops.
CHECK_DEADLOCK FALSE
