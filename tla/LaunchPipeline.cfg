SPECIFICATION Spec
CONSTANTS
    r1 = r1
    r2 = r2
    r3 = r3
    k1 = k1
    None = None
    Requests <- Three
    Keys = {k1}
    KeyOf <- TwoOnOneKey
    Deployments <- MCDeployments
    Callers <- MCCallers
    Inputs <- MCInputs
    Salts = {"s1", "s2"}
    RpcFails = TRUE
INVARIANT SubmittedWasPermitted
INVARIANT PolicyFailsFast
INVARIANT OneLaunchPerKey
INVARIANT FailuresLeaveNothing
INVARIANT NoResubmission
\* The requests are finitely many: all answered, the system stops.
CHECK_DEADLOCK FALSE
