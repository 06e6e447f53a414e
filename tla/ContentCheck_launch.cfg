SPECIFICATION Spec
CONSTANTS
    Resources = {r1, gfx}
    GfxFiles = {gfx}
    Paths = {plain, gfxPath}
    GfxPaths = {gfxPath}
    NoPath = NoPath
    MaxReported = 2
INVARIANTS
    TypeOK
    RunsComplete
    SelectedRootIsChecked
    FullCheckIsExact
    RejectionTellsAll
