SPECIFICATION Spec
CONSTANTS
    r1 = r1
    r2 = r2
    r3 = r3
    a = a
    b = b
    h1 = h1
    h2 = h2
    None = None
    Replicas <- MCReplicas
    Requests <- TwoRequests
    ReplicaOf <- Apart
    HashOf <- OnePayloadOfTwo
    MaxFaults = 0
    MaxLapses = 0
    MaxExpiries = 0
    MaxCrashes = 0
    MaxMishaps = 0
INVARIANT AtMostOneLaunch
\* The requests are finitely many: all answered, the system stops.
CHECK_DEADLOCK FALSE
