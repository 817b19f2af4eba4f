SPECIFICATION MCSpec
CONSTANTS
    Accounts = {a, b}
    NoAccount = none
    Width = 2
    Prices = {1, 3}
    MaxQuantity = 2
    MaxLines = 2
    MaxTime = 2
    MaxCharges = 1
    Contents = {c1}
    Managed = {c1}
    Versions = {1, 2}
    Jobs = {j1, j2}
    NoJob = NoJob
    TotalBytes = 2
    Compositions <- MCCompositions
    Changing = {"Home", "Library", "GameDetail"}
    MaxRevision = 4
    VisibleRows = 2
    MaxRows = 5
    Players = {p1, p2}
    Games = {g1, g2}
    ManagedGames = {g1}
    Package <- MCPackage
    Capabilities = {save}
    None = None
    Files = {f}
    Digests = {x, y}
    Absent = Absent
    Keys = {k}
    MaxFiles = 2
    MaxListed = 2
    MaxSigned = 2
    Devices = {d1, d2}
    NoSave = None
    VersionIds = {1, 2}
    ConflictPolicies = {"RequireChoice", "PreferLocal", "PreferCloud"}
    MaxSaves = 3
    Regions = {r1, r2}
    MaxLatency = 1
    MaxStreams = 1
    Self = me
    People = {p}
    Joinable = {c}
    NoContent = None
    Parties = {q}
    NoParty = None
    MaxMembers = 2
    MaxClock = 1
    Owners = {"p", "q"}
    Achievements = {"x", "y"}
    Scores = {0, 2}
    Times = {1, 2}
    MaxSent = 3
    OwnedDevices = {"d"}
    Captures = {"c"}
    Writers = {w1, w2}
    Nobody = None
    Version = 4
    MaxCells = 8
    MaxFields = 2
    Text = {1, 2}
    Offered <- MCOffered
    MaxWritten = 3
INVARIANTS
    ChargesAreExact LibraryIsSound NavigationIsSound FocusIsVisible RunsWhatWasAllowed
    NothingIsLostUnasked SocialIsSound RecordsAreTrue LaunchesAreGenuine MessagesArriveWhole
CHECK_DEADLOCK FALSE
