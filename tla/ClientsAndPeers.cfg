\* Clients and nodes side by side; the pools x, y and h serve all components.
CONSTANTS
    x1 = x1
    x2 = x2
    y1 = y1
    y2 = y2
    h1 = h1
    h2 = h2
    h3 = h3
    \* Profile: two devices, three favourites, of which one may be kept, two PUTs at a time.
    Device = {x1, x2}
    Favorite = {h1, h2, h3}
    MaxFavorites = 1
    Slot = {y1, y2}
    Unread = Unread
    MaxProfileTime = 4
    MaxProfileFaults = 1
    \* Peers: three nodes.
    Host = {h1, h2, h3}
    NoPeer = NoPeer
    MaxPeerOps = 6
    \* Sessions: two tabs, two accounts, three tokens.
    Tab = {x1, x2}
    User = {y1, y2}
    Token = {h1, h2, h3}
    NoToken = NoToken
    NoSession = NoSession
    MaxRequests = 2
    \* Wizard: one field with two answers, two photos, of which one may be sent.
    Question = {lift}
    Choice = {x1, x2}
    Blank = Blank
    Photo = {y1, y2}
    MaxPhotos = 1
    NoDraft = NoDraft
    MaxAuditOps = 6
    \* Lens: two pages of the extension, two accounts, three tokens.
    Context = {x1, x2}
    Account = {y1, y2}
    LensToken = {h1, h2, h3}
    Absent = Absent
    MaxLensOps = 5
    \* Cache: three keys, two of them of pins; two entries, two requests at a time.
    CacheKey = {y1, y2, other}
    PinKey = {y1, y2}
    Fetch = {x1, x2}
    NoFetch = NoFetch
    MaxEntries = 2
    MaxChanges = 2
    \* Search: one text, with and without filters, two places, two home nodes.
    Text = {lift}
    NoText = NoText
    Spot = {y1, y2}
    NoSpot = NoSpot
    HomeNode = {home, other}
    EnvNode = home
    NoResults = NoResults
    MaxSearchOps = 4
    \* Cards: two on the page, two nodes.
    Card = {x1, x2}
    NoCard = NoCard
    Node = {y1, y2}
    DefaultNode = DefaultNode
    NotKnown = NotKnown
    MaxCardOps = 4
SPECIFICATION PartiesSpec
SYMMETRY Symmetry
INVARIANTS
    ClientsTypeOK
    SameStampSameList
    KeyIsOfItsPeer ResolvedCoversPlace
    StoredIsUnspent
    AnswersAreKept PhotosAreKept DraftGoneAfterSubmit
    StoredTokenIsLive
    OwnChangeIsSeen
    ShownIsWhatWasAskedFor
    CardsAreOfTheNode NoTooltipIsLeftBehind
PROPERTIES
    PullKeepsUncrossedEdits
    ImplementsFamily
\* Every component may stop: bounds are reached, and browsers stop asking.
CHECK_DEADLOCK FALSE
