CONSTANTS
    t1 = t1
    t2 = t2
    Threads <- MCThreads
    Nobody = Nobody
    NoAnswer = NoAnswer
    Unreadable = Unreadable
    Kinds = {"journal"}
    Ops = {"entry", "aircraft", "batch"}
    Others = {"write", "edit"}
    Spoilable = {}
    MaxCommits = 3
    MaxTries = 2
    MaxAsks = 1

SPECIFICATION Spec
SYMMETRY ThreadSymmetry
INVARIANT KeptFaithful
 
 
