CONSTANTS
    t1 = t1
    t2 = t2
    Threads <- MCThreads
    Nobody = Nobody
    NoAnswer = NoAnswer
    Unreadable = Unreadable
    Kinds = {"projection"}
    Ops = {"entry", "batch"}
    Others = {"write", "edit"}
    Spoilable = {"entry"}
    MaxCommits = 2
    MaxTries = 2
    MaxAsks = 1

SPECIFICATION WatchSpec
INVARIANT TypeOK
PROPERTY ReadsAndWritesEnd NewerStays NewestComputedOnce
