SPECIFICATION Spec
CONSTANTS
    ucHeap = 1
    TotalSize = 23
    Align = 2
    StructSize = 2
    SizeMax = 63
    CountMod = 3
    Tasks = {t1}
    t1 = t1
    Sizes = {0, 1, 4, 5, 9, 18, 20, 62}
    Counts = {2}
INVARIANTS
    BlocksTileHeap
    FreeListIsRight
    StatsAreRight
    RefusedOnlyIfFull
