SPECIFICATION RequestSpec
CONSTANTS
    Cases <- MCCases
    Configs <- Accounts
    None = None
    Malformed = Malformed
    U64_MAX = 8
    BPS = 4
    MAX_BENEFICIARIES = 2
INVARIANT AcceptsWhatIsDocumented
INVARIANT FeesAreRouted
\* A request is resolved once.
CHECK_DEADLOCK FALSE
