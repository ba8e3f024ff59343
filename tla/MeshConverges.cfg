\* Too few auditors for any promotion; MaxMerges lets every handler be busy.
CONSTANTS
    Source = {n1, n2}
    Auditor = {alice}
    NoAuditor = NoAuditor
    Value = {yes, no}
    ConfirmThreshold = 3
    NoRow = NoRow
    NoDelta = NoDelta
    MaxClock = 3
    MaxFaults = 1
    MaxMerges = 4
SPECIFICATION FairSpec
PROPERTIES
    Converges
