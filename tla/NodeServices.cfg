\* The components of a node side by side; the pools x and y serve them all.
CONSTANTS
    x1 = x1
    x2 = x2
    y1 = y1
    y2 = y2
    \* Ingest jobs: two, of two tiles each, and two calls at a time.
    Job = {"first", "second"}
    ChangeTypes <- MCChangeTypes
    NoJob = NoJob
    Tiles = 2
    Area <- MCArea
    OldPlaces = {1, 3}
    Processor = {x1, x2}
    BatchSizes = {1, 2}
    MaxJobCalls = 3
    MaxJobFaults = 1
    \* Writers of facts: two auditors, who reach the threshold.
    Source = {"local", "remote", "osm", "ai-agent"}
    Human = {y1, y2}
    Auditor = {y1, y2, "osm-ingest", "ai-agent"}
    NoAuditor = NoAuditor
    Value = {x1, x2}
    ConfirmThreshold = 2
    NoRow = NoRow
    Importer = {"osm"}
    Client = {c1}
    NoCall = NoCall
    MaxWrites = 4
    MaxReceipts = 1
    \* Data of a node: two places, each of them a region, and both.
    Place = {x1, x2}
    Bbox <- MCBbox
    NoBbox = NoBbox
    FactValue = {y1, y2}
    NoFile = NoFile
    MaxIds = 2
    MaxAdminOps = 3
    MaxOthers = 2
    \* Signals: two travelers and two calls at a time, one signal a day.
    Reporter = {x1, x2}
    SignalType = {"INCORRECT"}
    SignalField = {ramp}
    NoField = NoField
    SignalCall = {y1, y2}
    NoReport = NoReport
    DailyLimit = 1
    MaxSignals = 3
    \* Property ids: two peers, two places, three ids.
    Sender = {x1, x2}
    Canonical = {y1, y2}
    RowId = {1, 2, 3}
    NotMade = NotMade
    Gone = Gone
    NoOsm = NoOsm
    MaxPropertyOps = 4
SPECIFICATION ServicesSpec
SYMMETRY Symmetry
INVARIANTS
    ServicesTypeOK
    CompletedTileWasIngested ProgressIsExact
    LocalFactHasSubmission NewestSubmissionHasFact ConfirmedValueWasAgreed
    ShrinkLeavesNothingOutside RestoreBringsBack ReattachIsComplete
    LimitOvershootIsBounded SignalIsOfItsReporter
    AnsweredMeansAttached
PROPERTIES
    CompletionIsWhole
\* Every component may stop: bounds are reached.
CHECK_DEADLOCK FALSE
