\* Two nodes and a threshold of two: promotion, correction and every race of two merges.
CONSTANTS
    Source = {n1, n2}
    Auditor = {alice, bob}
    NoAuditor = NoAuditor
    Value = {yes, no}
    ConfirmThreshold = 2
    NoRow = NoRow
    NoDelta = NoDelta
    MaxClock = 3
    MaxFaults = 1
    MaxMerges = 2
SPECIFICATION RaceSpec
SYMMETRY Symmetry
INVARIANTS
    TypeOK
    EveryFactWasAudited
    ConfirmedNeedsSources
PROPERTIES
    ImplementsLog
    OnlyRacesLoseFacts
