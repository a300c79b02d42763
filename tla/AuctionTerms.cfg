SPECIFICATION TermsSpec
CONSTANTS
    Bodies <- MCBodies
    None = None
    Open = Open
    WAD = 20
    MAX_VESTING_ALLOCATIONS = 2
    MAX_FEE_BENEFICIARIES = 2
    MIN_DURATION = 2
    LOCK_DURATION = 2
    PresetTicks <- Ticks
    TICK_SPACINGS <- Tiers
    LOW = 500
    V4_MAX_FEE = 100000
    V4_MAX_TICK_SPACING = 32767
    DOPPLER_MAX_TICK_SPACING = 30
    DEFAULT_AUCTION_DURATION = 12
    DEFAULT_EPOCH_LENGTH = 4
    MAX_HOOK_FEE = 800000
INVARIANT SupplyIsSpent
INVARIANT FeesAreWhole
INVARIANT SpacingIsLargest
INVARIANT AcceptsWhatIsDocumented
\* A request is resolved once.
CHECK_DEADLOCK FALSE
