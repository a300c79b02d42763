SPECIFICATION Spec
CONSTANTS
    a1 = a1
    a2 = a2
    a3 = a3
    a4 = a4
    k1 = k1
    None = None
    Keys = {k1}
    Attempts <- Calls4
    KeyOf <- MCKeyOf
    Worlds <- AllWorlds
    RpcAttempts = 2
INVARIANT OneLaunchPerKey
INVARIANT LiveLaunchHoldsItsKey
INVARIANT OwnTableIsWarm
PROPERTY KeepsPromise
PROPERTY AttemptsEnd
\* The calls are finitely many: all answered, the system stops.
CHECK_DEADLOCK FALSE
