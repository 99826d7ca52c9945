CONSTANTS
    LastVersion = 2
    LastMajor = 3
    MaxChanges = 1
    MaxMoves = 2
    MaxVersions = 2
    NoFile = 0
    Commits = {"c1", "c2"}
    Noise = {"cache"}
    Paths <- MCPaths
    Contents <- MCContents
    Committed <- MCCommitted
    NoTools = FALSE
    NoSmoke = FALSE
    KeptErrors = 2
    Asked <- MCAsked
    Sweeps <- MCSweeps
    Directory <- MCDirectory
    CheckedOut = {"a"}
    Subjects <- MCSubjects
    Releases <- MCReleases
    StartTrees <- MCStartTrees
    Edits <- MCEdits
SPECIFICATION FairSpec
INVARIANTS TypeOK SweepIsComplete ShippedIsDeserved VerdictIsOfOneTree
    NamedReleasesBreak PublishedIsDeserved
PROPERTY SweepEnds
CHECK_DEADLOCK FALSE
