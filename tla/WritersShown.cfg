\* Every importer beside the auditors: what a reader of the property is shown.
CONSTANTS
    Source = {"local", "remote", "wheelmap", "osm", "ai-agent"}
    Human = {alice, bob}
    Auditor = {alice, bob, "wheelmap-sync", "osm-ingest", "ai-agent"}
    NoAuditor = NoAuditor
    Value = {yes, no}
    ConfirmThreshold = 2
    NoRow = NoRow
    Importer = {"osm", "wheelmap", "scan", "vision"}
    Client = {c1, c2}
    NoCall = NoCall
    MaxWrites = 4
    MaxReceipts = 1
SPECIFICATION WritersSpec
SYMMETRY Symmetry
INVARIANTS
    AuditedFactIsShown
\* Calls end, and the bounds are reached.
CHECK_DEADLOCK FALSE
