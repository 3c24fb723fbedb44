SPECIFICATION FairSpec
CONSTANTS
    Orders <- OneOrder
    Handlers <- TwoCallbacks
    Timer = 8
    Scripts = {9}
    Tries = 2
    MaxEntries = 1
    MaxFaults = 2
    NoOrder = 0
    NoFile = NoFile
ACTION_CONSTRAINT LightStep
INVARIANT ProofKept
PROPERTIES DurableUntilRecorded ServiceSafety JournalDrains
