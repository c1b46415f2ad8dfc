SPECIFICATION ThreadSpec
CONSTANTS
    t1 = t1
    t2 = t2
    h1 = h1
    h2 = h2
    Tabs <- MCTabs
    Handlers <- MCHandlers
    Nobody = Nobody
    MaxMessages = 6
SYMMETRY Symmetry
INVARIANTS ToldIsShown CompleteIsKept RowsAreATree
CHECK_DEADLOCK FALSE
