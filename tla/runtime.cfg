\* Five parts of the runtime, each for itself.
CONSTANTS
    Layouts <- MCLayouts
    Alignment = 2
    MaxCalls = 4
    Places <- MCPlaces
    Receivers = {1, 2}
    MaxSends = 3
    MaxUses = 2
    Programs <- MCPrograms
    PoolBlocks = {1, 2, 3, 4, 5, 6, 7, 8, 9, 10}
    MaxIterations = 2
    Devices = {0, 1}
    Managers <- MCManagers
    MaxDepth = 3
    MaxSteps = 7
    Launches <- MCLaunches
SPECIFICATION MCSpec
CHECK_DEADLOCK FALSE
INVARIANTS TypeOK FoldedUpToDate OverItsMemory ReferencesAccounted ReplaysUndisturbed GradientsInPlace CapturesEndOnTheirStream EachElementOnce
PROPERTIES StaysReadable KeepsPromise ContextsRestore
