SPECIFICATION PageSpec
CONSTANTS
    d1 = d1
    d2 = d2
    f1 = f1
    s1 = s1
    s2 = s2
    Dirs <- MCDirs
    Files <- MCFiles
    Calls <- MCCalls
    Starts <- MCStarts
    Root = Root
    Unborn = Unborn
    Gone = Gone
    NoCall = NoCall
    MaxDepth = 2
    MaxEvents = 2
SYMMETRY MCSymmetry
INVARIANTS OwnChangesShown LoadingIsTold FolderIsAdded
CHECK_DEADLOCK FALSE
