\* A correction moves the property out of the second node's region, the next one back in.
CONSTANTS
    Node = {n1, n2}
    World = n1
    Editor = {n1}
    Coord = {0, 1, 2}
    Base <- MCBase
    Place <- OutAndIn
    Region <- SplitRegion
    Cleared = Cleared
    NoRow = NoRow
    NoDelta = NoDelta
    MaxClock = 4
    MaxFaults = 0
    MaxEdits = 1
SPECIFICATION FairSpec
PROPERTIES
    CorrectionsTravel
