SPECIFICATION ScanSpec
CONSTANTS
    Traits <- TestTraits
    Refs <- TestRefs
    i1 = i1
    i2 = i2
    i3 = i3
    p1 = p1
    p2 = p2
    p3 = p3
    Configured = TRUE
    Quota = 2
    Window = 2
    PageSize = 2
    Candidates = 2
    MaxChanges = 2
    LastSecond = 3
INVARIANTS
    QuotaKept
    SoundPick
