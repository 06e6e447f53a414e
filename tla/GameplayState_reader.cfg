SPECIFICATION Spec
CONSTANTS
    WordLimit = 32
    WordBytes = 2
    GuestLow = 2
    GuestHigh = 30
    HeapOf <- SmallHeapOf
    NoHeap = 0
    Accessibles <- SmallAccessibles
    Global <- SmallGlobal
    StateOffset = 5
    KeyOffset = 2
    InterfaceOffset = 3
    PlayerCount = 2
    PlayerBits = 4
    GameplayKey = 2
    MaxFrames = 2
    CivilizationCount = 2
    EraCount = 1
    Numbers = {0, 1, 2, 4, 16, 31}
    Masks = {{}, {0}, {2}, {1, 3}}
    StructSize = 5
    BufferSizes = {0, 1, 4, 5, 6}
INVARIANTS
    TypeOK
    ReadableRangeIsExact
    PlayerFieldsAreHumans
    AvailableMeansPlayable
    ClearMeansUnknown
    PresenceIsSupported
    RepliesFitTheCaller
    YearsAreReadable
\* The title has run MaxFrames frames.
CHECK_DEADLOCK FALSE
