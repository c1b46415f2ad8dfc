SPECIFICATION EitherSpec
CONSTANTS
    u1 = u1
    u2 = u2
    p1 = p1
    p2 = p2
    p3 = p3
    s1 = s1
    s2 = s2
    o1 = o1
    j1 = j1
    j2 = j2
    Users <- MCUsers
    Nobody = Nobody
    MaxCalls = 2
    MaxChanges = 2
    MaxWorkspaces = 2
    Projects <- MCProjects
    Spaces <- MCSpaces
    Theirs <- MCTheirs
    Candidates <- MCCandidates
    Tasks <- MCTasks
    NoItem = NoItem
    MaxActs = 3
    MaxFails = 1
INVARIANTS WorkspaceIsOwn ShowsSignedInUser OneWorkspaceEach OwnChangesListed
PROPERTIES PageKeepsWorkspace LoadingEnds WaitsEnd
CHECK_DEADLOCK FALSE
