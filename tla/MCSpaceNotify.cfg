\* Two pages; requests may fail, and a pod or a connection be lost once.

CONSTANTS
  p1 = p1
  p2 = p2
  Pages = {p1, p2}
  MayFail = TRUE
  MaxPosts = 2
  MaxDrops = 1
  MaxLoads = 1
SPECIFICATION FairSpec
INVARIANTS NoChangeLost
PROPERTIES KeepsPromise
CHECK_DEADLOCK FALSE
