CONSTANTS
    Regions <- MCRegions
    Shared <- MCShared
    Bindings <- MCBindings
    RegionOf <- MCRegionOf
    HostOf <- MCHostOf
    MaxRenders = 3
    MaxActivations = 2
    MaxCollects = 1
SPECIFICATION LazyFairSpec
INVARIANTS BooksHonest
PROPERTIES OpenIsServed
