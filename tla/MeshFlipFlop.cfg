\* Two auditors reach the threshold, one of them then corrects himself.
CONSTANTS
    Source = {n1, n2}
    Auditor = {alice, bob}
    NoAuditor = NoAuditor
    Value = {yes, no}
    ConfirmThreshold = 2
    NoRow = NoRow
    NoDelta = NoDelta
    MaxClock = 3
    MaxFaults = 0
    MaxMerges = 4
SPECIFICATION FairSpec
PROPERTIES
    Converges
