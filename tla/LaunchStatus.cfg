SPECIFICATION Spec
CONSTANTS
    c1 = c1
    s1 = s1
    s2 = s2
    NoAnswer = NoAnswer
    Clients <- OneClient
    Servers <- TwoServers
    Busy <- OneServer
    Kinds <- Everything
    ProviderFails = TRUE
    TxAttempts = 3
    MaxBlock = 2
INVARIANT AnswersFitTheChain
INVARIANT ConfirmedNamesItsPool
PROPERTY StatusGoesForward
PROPERTY CallsEnd
