CONSTANTS
    Documents <- MCDocuments
    EntryLimit = 37
    PayloadLimit = 19
    NameSize <- MCNameSize
    BoneLimit = 3
    CubeFaceLimit = 2
    EnumLimit = 3
    Frames <- MCFrames
    Salts = {0, 3}
    Damages <- MCDamages
    ChunkMax = 2
    PlaintextSize = 2
    CompressedSize = 2
    ReadMax = 3
    Plainest <- MCPlainest
    Wrapped <- MCWrapped
    Archives <- SampleArchives
    Paths <- SamplePaths
    kMaxSize = 5
SPECIFICATION ModelFileSpec
INVARIANTS
    AcceptedIsWhole
    RightOutcome
    ReferencesResolve
    BodiesKept
    ListsWhatIsKept
    AnswersAreTrue
