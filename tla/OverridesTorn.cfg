\* One PATCH at a time on each node; two successive edits.
CONSTANTS
    Node = {n1, n2}
    World = n1
    Editor = {n1}
    Coord = {0, 1, 2}
    Base <- MCBase
    Place <- TwoMoves
    Region <- WorldRegion
    Cleared = Cleared
    NoRow = NoRow
    NoDelta = NoDelta
    MaxClock = 4
    MaxFaults = 0
    MaxEdits = 1
SPECIFICATION FairSpec
PROPERTIES
    EditsStayWhole
