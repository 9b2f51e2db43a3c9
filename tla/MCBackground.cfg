CONSTANTS
    LodDims <- MCLodDims
    TileDim = 256
    N_WORKERS = 2
    UploadBudget = 1
    BudgetBytes = 8388608
    Broken <- MCBroken
    Views <- MCAllViews
    MaxAge = 1
    BAKE_BUDGET = 1
    BakePx = 1536
    BakeBytes = 31457280
    MaxBakeFaults = 1
    Kinds <- AllKinds
    Sources <- MCSources
    Unreadable = Unreadable
    MaxMoves = 2
    MaxReloads = 1
    MaxEdits = 1
SPECIFICATION ViewedSpec
INVARIANTS TypeOK RequestsAreHeld VramIsCounted
PROPERTIES LiveFallbackIsReported LoadsSettle
