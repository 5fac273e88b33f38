CONSTANTS
    Dirs <- TreeDirs
    Files <- TreeFiles
    Root = "root"
    Entries <- TreeEntries
    Name <- TreeName
    Content <- TreeContent
    BlockSize <- Sizes
    MaxWorkers = 2
    NumCPU = 1
    MayFail = {"x", "ya", "z"}
    NoOne = NoOne
SPECIFICATION FairSpec
INVARIANTS TypeOK StatsExact ChildrenFirst MatchesSequential EveryJobOnce
PROPERTIES NoSendAfterClose Termination
