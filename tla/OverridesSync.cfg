\* Every position is inside every region.
CONSTANTS
    Node = {n1, n2}
    World = n1
    Editor = {n1}
    Coord = {0, 1}
    Base <- MCBase
    Place <- MoveAndReset
    Region <- WorldRegion
    Cleared = Cleared
    NoRow = NoRow
    NoDelta = NoDelta
    MaxClock = 4
    MaxFaults = 1
    MaxEdits = 1
SPECIFICATION RaceFairSpec
INVARIANTS
    TypeOK
    EveryOverrideWasMade
PROPERTIES
    CorrectionsTravel
    ImplementsLog
    OnlyRacesLoseOverrides
