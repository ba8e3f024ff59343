\* An audit made between the read and the upserts of a merge.
CONSTANTS
    Source = {n1, n2}
    Auditor = {alice, bob}
    NoAuditor = NoAuditor
    Value = {yes, no}
    ConfirmThreshold = 2
    NoRow = NoRow
    NoDelta = NoDelta
    MaxClock = 3
    MaxFaults = 1
    MaxMerges = 2
SPECIFICATION Spec
PROPERTIES
    SameTierNewestWins
