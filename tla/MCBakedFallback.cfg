\* A shader that does not compile and is to be baked, and an output that is initialised twice.
CONSTANTS
    LodDims <- MCLodDims
    TileDim = 256
    N_WORKERS = 1
    UploadBudget = 1
    BudgetBytes = 8388608
    Broken <- MCBroken
    Views <- MCBakeViews
    MaxAge = 1
    BAKE_BUDGET = 1
    BakePx = 1536
    BakeBytes = 31457280
    MaxBakeFaults = 0
    Kinds = {"cached_shader"}
    Sources <- MCSources
    Unreadable = Unreadable
    MaxMoves = 0
    MaxReloads = 1
    MaxEdits = 0
SPECIFICATION Spec
INVARIANT FallbackIsReported
