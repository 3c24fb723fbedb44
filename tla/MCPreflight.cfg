SPECIFICATION FairSpec
CONSTANTS
    Origins <- TestOrigins
    Secure <- TestSecure
    Barred <- TestBarred
    Networks <- TestNetworks
    Assets <- TestAssets
    Targets <- TestTargets
    Policies <- TestPolicies
    None = None
    Missing = Missing
    DefaultNetwork = base
    Stablecoin = usdc
    Prices = {1, 2}
    home = home
    other = other
    plain = plain
    inner = inner
    base = base
    solana = solana
    usdc = usdc
    token = token
    MaxRedirects = 2
    Timeout = 1
    MaxBytes = 1
    MaxClock = 2
CHECK_DEADLOCK FALSE
INVARIANTS SecretsStayHome EveryHopAllowed PayloadFollowsMethod VerdictFollowsFindings PolicyKept AuditNoLaxer
PROPERTIES InspectionEnds
