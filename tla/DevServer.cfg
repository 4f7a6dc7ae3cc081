CONSTANTS
    s1 = s1
    i1 = i1
    m1 = m1
    Sources = {s1}
    Includes = {i1}
    Manifests = {m1}
    MaxChanges = 2
    MaxFaults = 1
    Capacity = 1
SPECIFICATION FairSpec
INVARIANTS NothingForgotten
PROPERTIES Settles
CHECK_DEADLOCK FALSE
