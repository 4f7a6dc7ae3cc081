CONSTANTS
    Programs <- MCPrograms
    Order <- MCOrder
    Around <- MCAround
    Tag <- MCTag
    RangeOf <- MCRangeOf
    Keys <- MCKeys
    Vals = {1, 2}
    Given <- MCGiven
    MaxOccurrences = 2
    MaxUpdatable = 2
    MaxNesting = 2
    MaxUpdates = 1
    MaxChanges = 1
    MaxQueued = 5
    MaxFaults <- MCFaults
SPECIFICATION Spec
INVARIANTS CompleteMeansSettled RightState StreamEnds
