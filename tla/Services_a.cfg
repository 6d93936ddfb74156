SPECIFICATION ServicesSpec
CONSTANTS
    Part = {"reading", "intake", "project", "index", "conflict"}
    f1 = f1
    f2 = f2
    f3 = f3
    f4 = f4
    File = {f1, f2, f3, f4}
    Kind <- MCKind
    w1 = w1
    m1 = m1
    m2 = m2
    w2 = w2
    Worker = {w1, w2}
    Scenario <- MCScenario
    Model = {m1, m2}
    None = none
    Batch = 1
    Name = {1, 2}
    Content <- MCContent
    Parts <- MCParts
    Readable = {"archive", "note", "copy"}
    Said <- MCSaid
    PerLook = 1
    Budgets <- MCBudgets
    Client = {c1, c2}
    Project = {p}
    Entries <- MCEntries
    Upload <- MCUpload
    Archive <- MCArchive
    Unsupported = {"y"}
    MaxNesting = 2
    MaxFiles = 3
    Troubles = 1
    u1 = u1
    u2 = u2
    AtFirst <- MCAtFirst
    Claim = {u1, u2}
    Statement = {"s", "t", "v"}
    Indexer = {d1, d2}
    EmbedModel = {"m1", "m2"}
    Similar <- MCSimilar
    MaxComponent = 3
    MaxTopic = 3
    IndexBudgets <- MCIndexBudgets
    Photo <- MCPhotos
    Near <- MCNear
    SameScene <- MCSameScene
    HubDegree = 20
    PhotoBatch = 2
    MaxGroup = 4
    PhotoBudgets <- MCPhotoBudgets
    Thread = {1, 2}
    Daemon <- MCDaemons
    StackBudgets <- MCStackBudgets
    Text = {"x", "y"}
    FileId = {"f1", "f2", "f3"}
    ClaimId = {"c1", "c2", "c3"}
    TopicId = {"s", "t"}
    BundleModel = {"a", "b"}
    BundleBudgets <- MCBundleBudgets
    Target <- MCTarget
    Pair <- MCPair
    Score <- MCScore
    Signals <- MCSignals
    Ambiguous = {1}
    DropBelow = 0
    TuneTarget = 50
    MinSamples = 4
    OptionalCap = 1
    RescorePage = 1
    Judged = {1, 9}
    Library <- MCLibrary
    TrayBudgets <- MCTrayBudgets
    Compared = {"p"}
    Comparer = {"a", "b"}
    LedgerKept = 2
    MaxRevision = 7
    CacheBudgets <- MCCacheBudgets
    Vocable = {1, 2, 3}
    Holder = {"g", "h", "i"}
    Peer = {1, 2, 3}
    Hash = {1, 2, 3, 4}
    Sampled = 2
    SampledEntities = 1
    PerProject = 1
    Alike <- MCAlike
    Shelves <- MCShelves
    Arrivals <- MCArrivals
    Places <- MCPlaces
    SameMoment = 1
    MinSuccession = 30
    Threshold = 65
    Cosine = 90
    MaxCandidates = 2
    EpisodeLimit = 100
    Requeues = 1
    Artifacts = {1, 2, 3, 4}
    Chunks <- MCChunks
    Versions <- MCVersions
    WalkDepth = 16
    FileBudgets <- MCFileBudgets
CHECK_DEADLOCK FALSE
INVARIANTS
    ReadingIsSound
    IntakeIsSound
    ProjectIsSound
    IndexIsSound
    ConflictsAreSound
PROPERTIES
    ReadingImplementsLedger
    ReadingIsFinished
    ArrivalsAreDealtWith
    IndexIsFinished
    VerdictsStand
