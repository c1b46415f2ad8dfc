SPECIFICATION Spec
CONSTANTS
    p1 = p1
    p2 = p2
    Projects <- MCProjects
    NoProject = NoProject
    MaxCalls = 2
    MaxOpens = 2
    MaxEdits = 2
    MaxCommits = 2
    MaxRestores = 2
SYMMETRY Symmetry
INVARIANTS StoreFollowsPage LastEditIsSaved PlayerIsFresh RefusalsAreTrue
CHECK_DEADLOCK FALSE
