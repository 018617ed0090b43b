SPECIFICATION FairSpec
CONSTANTS
    Request = {r1, r2, r3}
    Lifetime = {1, 4, 300}
    LeewayEnv = 2
    TimeoutEnv = 2
    Delay = 1
    MaxNow = 6
    None = None
INVARIANT
    TypeOK
    FreshInFlight
    NoRedundantFetch
PROPERTY
    AllAnswered
CHECK_DEADLOCK FALSE
