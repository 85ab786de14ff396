SPECIFICATION Spec
CONSTANTS
    PageSize = 8
    Pages = 4
    MinPages = 4
    HDR = 2
    MINFREE = 2
    Sizes = {0, 1, 3, 8}
    Alignments = {4, 6, 8}
    FrameLists <- Scattered
    MaxAllocs = 3
INVARIANT HeapSound
INVARIANT RegionsContiguous
PROPERTY ImplementsAllocator
