SPECIFICATION Spec
CONSTANTS
    r1 = r1
    r2 = r2
    r3 = r3
    a = a
    b = b
    None = None
    Requests <- MCRequests
    Nonces <- MCNonces
    Replicas <- TwoReplicas
    ReplicaOf <- Shared
    Distributed = TRUE
    MaxFaults = 1
    MaxLapses = 1
    MaxStale = 1
    MaxCrashes = 1
    MaxMishaps = 1
INVARIANT NoncesApart
INVARIANT HashesStand
INVARIANT DoubtKeepsLock
PROPERTY EverySubmissionSettles
\* The requests are finitely many: all answered, the system stops.
CHECK_DEADLOCK FALSE
