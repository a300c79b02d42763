SPECIFICATION Spec
CONSTANTS
    Envs <- All
    Probed <- Probes
    None = None
    Bad = Bad
    Chains <- TwoChains
    Timeout = 1
    CacheTime = 1
    NoAnswer = NoAnswer
INVARIANT SharedIsCoordinated
INVARIANT ReadyIsEarned
PROPERTY StartsOrSaysWhy
PROPERTY Answers
\* A process that refuses to start has ended.
CHECK_DEADLOCK FALSE
